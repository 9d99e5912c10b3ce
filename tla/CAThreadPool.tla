---------------------------- MODULE CAThreadPool ----------------------------
(***************************************************************************)
(* CAThreadPool: a bounded queue of requests and the worker threads that   *)
(* run them.  The first mix hands the login of every new user to one.      *)
(*                                                                         *)
(* Everything addRequest(), destroy() and a worker do under m_pmutexQueue, *)
(* up to the next wait(), is one action: the section calls nothing that    *)
(* blocks.  A thread in wait() has to be notified, or wakes up by itself,  *)
(* before it can go on.  The flags are set under the mutex, the two        *)
(* broadcasts of destroy() are outside it.                                 *)
(*                                                                         *)
(* A request is its caller and its number among that caller's requests.    *)
(***************************************************************************)
EXTENDS Naturals, Sequences, FiniteSets

CONSTANTS
  Adders,           (* threads that call addRequest()                      *)
  Workers,          (* m_parThreads                                        *)
  MaxQueueSize,     (* m_MaxQueueSize                                      *)
  Uses,             (* how the pool is made and destroyed, see below       *)
  MaxRequests       (* bound: requests per adder                           *)

ASSUME PoolAssumption ==
  /\ MaxQueueSize \in Nat \ {0}
  /\ MaxRequests \in Nat
  /\ Uses \subseteq [doNotBlock : BOOLEAN, waits : BOOLEAN]

Request == Adders \X (1..MaxRequests)

VARIABLES
  queue,     (* m_pQueueHead .. m_pQueueTail                               *)
  queueClosed,  (* m_bQueueClosed                                          *)
  shutdown,  (* m_bShutdown                                                *)
  adder,     (* where each adder is                                        *)
  calls,     (* calls of addRequest() each adder has made                  *)
  worker,    (* where each worker is                                       *)
  running,   (* the requests a worker is running: one, or none             *)
  owner,     (* where the owner of the pool is in destroy()                *)
  use,       (* doNotBlock: m_bDoNotBlockWhenFull, waits: bWaitForFinish   *)
  freed,     (* the mutex and the condition variables have been deleted    *)
  admitted,  (* history: requests addRequest() returned E_SUCCESS for      *)
  finished   (* history: requests a worker has run                         *)

pool    == <<queue, queueClosed, shutdown, freed>>
threads == <<adder, calls, worker, running, owner, use>>
history == <<admitted, finished>>
poolvars == <<pool, threads, history>>

AdderPC  == {"idle", "locking", "notFull", "woken"}
WorkerPC == {"locking", "notEmpty", "running", "exited"}
OwnerPC  == {"working", "empty", "woken", "wakeWorkers", "wakeAdders",
             "join", "done"}

PoolInit ==
  /\ queue = <<>> /\ queueClosed = FALSE /\ shutdown = FALSE /\ freed = FALSE
  /\ adder = [a \in Adders |-> "idle"]
  /\ calls = [a \in Adders |-> 0]
  /\ worker = [w \in Workers |-> "locking"]
  /\ running = [w \in Workers |-> {}]
  /\ owner = "working" /\ use \in Uses
  /\ admitted = {} /\ finished = {}

-----------------------------------------------------------------------------
(* wait(), signal() and broadcast(): where the waiting threads go on.      *)

Notified(pcs, from, to) ==
  [t \in DOMAIN pcs |-> IF pcs[t] = from THEN to ELSE pcs[t]]

(* Variant: signal(), which wakes one thread only.                         *)
SignalNotEmpty(pcs) ==
  LET asleep == {t \in DOMAIN pcs : pcs[t] = "notEmpty"}
      one == CHOOSE t \in asleep : TRUE
  IN  IF asleep = {} THEN pcs ELSE [pcs EXCEPT ![one] = "locking"]

BroadcastNotEmpty(pcs) == Notified(pcs, "notEmpty", "locking")
BroadcastNotFull(pcs)  == Notified(pcs, "notFull", "woken")

-----------------------------------------------------------------------------
(* addRequest().                                                           *)

(* The pool may be called until it has been deleted, destroy() or not.     *)
CallAddRequest(a) ==
  /\ adder[a] = "idle" /\ calls[a] < MaxRequests /\ ~ freed
  /\ adder' = [adder EXCEPT ![a] = "locking"]
  /\ calls' = [calls EXCEPT ![a] = @ + 1]
  /\ UNCHANGED <<pool, worker, running, owner, use, history>>

Full == Len(queue) = MaxQueueSize

ReturnsAdder(a) == adder' = [adder EXCEPT ![a] = "idle"]

(* E_SPACE: no space and this caller does not want to wait.                *)
NoSpace(a) ==
  /\ adder[a] = "locking" /\ Full /\ use.doNotBlock
  /\ ReturnsAdder(a)
  /\ UNCHANGED <<pool, admitted, worker>>

WaitNotFull(a) ==
  /\ Full /\ ~ queueClosed /\ ~ shutdown
  /\ adder[a] = "locking" => ~ use.doNotBlock
  /\ adder' = [adder EXCEPT ![a] = "notFull"]
  /\ UNCHANGED <<pool, admitted, worker>>

(* E_UNKNOWN: the pool is in the process of being destroyed.               *)
Refuse(a) ==
  /\ queueClosed \/ shutdown
  /\ adder[a] = "locking" => ~ (Full /\ use.doNotBlock)
  /\ ReturnsAdder(a)
  /\ UNCHANGED <<pool, admitted, worker>>

(* The workers are told only about the first request.                      *)
Enqueue(a) ==
  /\ ~ Full /\ ~ queueClosed /\ ~ shutdown
  /\ queue' = Append(queue, <<a, calls[a]>>)
  /\ worker' = IF queue = <<>> THEN BroadcastNotEmpty(worker) ELSE worker
  /\ admitted' = admitted \cup {<<a, calls[a]>>}
  /\ ReturnsAdder(a)
  /\ UNCHANGED <<queueClosed, shutdown, freed>>

(* The mutex is gone: what happens to the caller is undefined, it accepts  *)
(* nothing any more.  destroy() does not prevent it; the mixes do, by      *)
(* joining the callers first (MixesCleanUp of FirstMixThreads).            *)
TouchFreed(a) ==
  /\ ReturnsAdder(a)
  /\ UNCHANGED <<pool, admitted, worker>>

AddRequest(a) ==
  /\ adder[a] \in {"locking", "woken"}
  /\ IF freed THEN TouchFreed(a)
     ELSE NoSpace(a) \/ WaitNotFull(a) \/ Refuse(a) \/ Enqueue(a)
  /\ UNCHANGED <<calls, running, owner, use, finished>>

-----------------------------------------------------------------------------
(* worker_thread_main_loop().                                              *)

WaitNotEmpty(w) ==
  /\ queue = <<>> /\ ~ shutdown
  /\ worker' = [worker EXCEPT ![w] = "notEmpty"]
  /\ UNCHANGED <<pool, adder, running, owner>>

Exit(w) ==
  /\ shutdown
  /\ worker' = [worker EXCEPT ![w] = "exited"]
  /\ UNCHANGED <<pool, adder, running, owner>>

(* The next request, and the word to those who wait for space or for the   *)
(* empty queue.                                                            *)
Dequeue(w) ==
  /\ queue # <<>> /\ ~ shutdown
  /\ worker' = [worker EXCEPT ![w] = "running"]
  /\ running' = [running EXCEPT ![w] = {Head(queue)}]
  /\ queue' = Tail(queue)
  /\ adder' = IF ~ use.doNotBlock /\ Len(queue) = MaxQueueSize
              THEN BroadcastNotFull(adder) ELSE adder
  /\ owner' = IF owner = "empty" /\ Len(queue) = 1 THEN "woken" ELSE owner
  /\ UNCHANGED <<queueClosed, shutdown, freed>>

WorkerLocked(w) ==
  /\ worker[w] = "locking"
  /\ WaitNotEmpty(w) \/ Exit(w) \/ Dequeue(w)
  /\ UNCHANGED <<calls, use, history>>

RunRequest(w) ==
  /\ worker[w] = "running"
  /\ worker' = [worker EXCEPT ![w] = "locking"]
  /\ running' = [running EXCEPT ![w] = {}]
  /\ finished' = finished \cup running[w]
  /\ UNCHANGED <<pool, adder, calls, owner, use, admitted>>

-----------------------------------------------------------------------------
(* destroy(), called once; a later call finds the flags set and returns.   *)

SetShutdown == shutdown' = TRUE /\ owner' = "wakeWorkers"

(* Variant: the pool does not wait for the queue to be drained.            *)
DrainedOrTired == TRUE

Drained == queue = <<>>

CloseQueue ==
  /\ owner = "working"
  /\ queueClosed' = TRUE
  /\ IF use.waits /\ ~ Drained
     THEN owner' = "empty" /\ UNCHANGED shutdown
     ELSE SetShutdown
  /\ UNCHANGED <<queue, freed, adder, calls, worker, running, use, history>>

QueueEmpty ==
  /\ owner = "woken"
  /\ IF ~ Drained
     THEN owner' = "empty" /\ UNCHANGED shutdown
     ELSE SetShutdown
  /\ UNCHANGED <<queue, queueClosed, freed, adder, calls, worker, running, use, history>>

WakeWorkers ==
  /\ owner = "wakeWorkers" /\ owner' = "wakeAdders"
  /\ worker' = BroadcastNotEmpty(worker)
  /\ UNCHANGED <<pool, adder, calls, running, use, history>>

WakeAdders ==
  /\ owner = "wakeAdders" /\ owner' = "join"
  /\ adder' = BroadcastNotFull(adder)
  /\ UNCHANGED <<pool, calls, worker, running, use, history>>

(* Variant: the loop that joins the workers ends too early.                *)
JoinedFirst == \E w \in Workers : worker[w] = "exited"

Joined == \A w \in Workers : worker[w] = "exited"

(* All workers have exited: what is left in the queue is deleted, and the  *)
(* mutex and the condition variables with it.                              *)
JoinAndFree ==
  /\ owner = "join" /\ Joined
  /\ owner' = "done" /\ queue' = <<>> /\ freed' = TRUE
  /\ UNCHANGED <<queueClosed, shutdown, adder, calls, worker, running, use, history>>

Owner == QueueEmpty \/ WakeWorkers \/ WakeAdders \/ JoinAndFree

-----------------------------------------------------------------------------
Spurious ==
  \/ \E a \in Adders :
       /\ adder[a] = "notFull" /\ adder' = [adder EXCEPT ![a] = "woken"]
       /\ UNCHANGED <<worker, owner>>
  \/ \E w \in Workers :
       /\ worker[w] = "notEmpty" /\ worker' = [worker EXCEPT ![w] = "locking"]
       /\ UNCHANGED <<adder, owner>>
  \/ owner = "empty" /\ owner' = "woken" /\ UNCHANGED <<adder, worker>>

SpuriousPoolWakeup == Spurious /\ UNCHANGED <<pool, calls, running, use, history>>

PoolNext ==
  \/ \E a \in Adders : CallAddRequest(a) \/ AddRequest(a)
  \/ \E w \in Workers : WorkerLocked(w) \/ RunRequest(w)
  \/ CloseQueue \/ Owner \/ SpuriousPoolWakeup

PoolSpec == PoolInit /\ [][PoolNext]_poolvars

(* Threads that can go on do; a request ends.  Nobody has to call          *)
(* destroy(), no wake-up has to be spurious.                               *)
PoolFairSpec ==
  /\ PoolSpec
  /\ \A a \in Adders : WF_poolvars(AddRequest(a))
  /\ \A w \in Workers : WF_poolvars(WorkerLocked(w)) /\ WF_poolvars(RunRequest(w))
  /\ WF_poolvars(Owner)

-----------------------------------------------------------------------------
InQueue == {queue[i] : i \in DOMAIN queue}
BeingRun == UNION {running[w] : w \in Workers}

(* Type correctness of the queue, of every thread and of the histories;    *)
(* the queue never holds more than MaxQueueSize requests.                  *)
PoolTypeOK ==
  /\ queue \in Seq(Request) /\ Len(queue) <= MaxQueueSize
  /\ queueClosed \in BOOLEAN /\ shutdown \in BOOLEAN /\ freed \in BOOLEAN
  /\ adder \in [Adders -> AdderPC] /\ calls \in [Adders -> 0..MaxRequests]
  /\ worker \in [Workers -> WorkerPC]
  /\ running \in [Workers -> SUBSET Request]
  /\ owner \in OwnerPC /\ use \in Uses
  /\ admitted \subseteq Request /\ finished \subseteq Request

(* No worker sleeps while there is work or the pool is shut down, but for  *)
(* the owner's broadcast that is on its way: addRequest() broadcasts only  *)
(* when the queue was empty, and that is enough.                           *)
NoSleepOnWork ==
  \A w \in Workers :
    worker[w] = "notEmpty" =>
      queue = <<>> /\ (shutdown => owner = "wakeWorkers")

(* No adder sleeps while there is space: a worker broadcasts only when the *)
(* queue was full, and that is enough.                                     *)
NoSleepOnSpace ==
  \A a \in Adders :
    adder[a] = "notFull" =>
      Full \/ (shutdown /\ owner \in {"wakeWorkers", "wakeAdders"})

(* No wake-up is lost, on either side of the queue, although both are      *)
(* given only when the queue turns from empty or from full, and destroy()  *)
(* gives its own outside the mutex (addRequest(), worker_thread_main_loop  *)
(* and destroy()).                                                         *)
NoLostWakeUp == NoSleepOnWork /\ NoSleepOnSpace

(* destroy(true) returns only when every request addRequest() reported     *)
(* E_SUCCESS for has been run to its end: the callers that come meanwhile, *)
(* or sleep for space, are refused, and nothing is deleted unrun.          *)
FinishesAccepted == owner = "done" /\ use.waits => finished = admitted

(* Accepted requests are run, unless destroy(false) drops them: while any  *)
(* is not, a point will come at which all are.  (The adders make a finite  *)
(* number of calls, so that this is each of them.)                         *)
AcceptedIsRun ==
  admitted # finished ~> (admitted = finished \/ (queueClosed /\ ~ use.waits))
=============================================================================

--------------------------- MODULE MiddleMixThreads ---------------------------
(***************************************************************************)
(* The life of a middle mix: CAMix::start() runs init(), loop() and        *)
(* clean() over and over, and loop() runs four threads.  A reader takes    *)
(* packets from one neighbour and puts them into the send queue towards    *)
(* the other one; a sender empties that queue into its socket.  The        *)
(* threads share the flag m_bRun, the two queues and the two sockets.      *)
(*                                                                         *)
(*   readBefore --> queue "after"  --> sendAfter    (upstream)             *)
(*   readAfter  --> queue "before" --> sendBefore   (downstream)           *)
(*                                                                         *)
(* What a reader does with the channel of a packet is the subject of       *)
(* MiddleMixChannels; here a packet is forwarded or dropped.  A queue is   *)
(* the sequence of the elements added to it (see CAQueue).                 *)
(***************************************************************************)
EXTENDS Naturals, Sequences

CONSTANTS
  MaxQueue,   (* MAX_READ_FROM_*_MIX_QUEUE_SIZE, in packets                *)
  TimedWait   (* does CAConditionVariable::wait(ms) honour its timeout?    *)

ASSUME ThreadsAssumption == MaxQueue \in Nat /\ TimedWait \in BOOLEAN

Reader == {"readBefore", "readAfter"}
Sender == {"sendBefore", "sendAfter"}
Thread == Reader \cup Sender
Side   == {"before", "after"}

ReaderPC == {"top", "select", "enqueue", "stop", "wakeBefore", "wakeAfter", "done"}
SenderPC == {"top", "wait", "check", "send", "stop", "done"}
MainPC   == {"init", "start", "joinReadBefore", "prepare", "join", "close", "clean"}

(* A packet, the dummy of a sender, or the bytes of an exiting reader.     *)
Element == {"packet", "dummy", "wakeup"}

VARIABLES
  run,      (* m_bRun                                                      *)
  pc,       (* where each thread is                                        *)
  queue,    (* m_pQueueSendToMixBefore and m_pQueueSendToMixAfter          *)
  item,     (* the element a sender took from its queue                    *)
  main,     (* where the main thread is                                    *)
  sockets,  (* are m_pMuxIn and m_pMuxOut open?                            *)
  queues    (* do the queues and the channel list exist?                   *)

vars == <<run, pc, queue, item, main, sockets, queues>>

Out(r)    == IF r = "readBefore" THEN "after" ELSE "before"
Source(s) == IF s = "sendAfter" THEN "after" ELSE "before"

Go(t, to) == pc' = [pc EXCEPT ![t] = to]
Put(side, e) == queue' = [queue EXCEPT ![side] = Append(@, e)]

Init ==
  /\ run = FALSE /\ main = "init"
  /\ pc = [t \in Thread |-> "done"]
  /\ queue = [s \in Side |-> <<>>]
  /\ item = [s \in Sender |-> "dummy"]
  /\ sockets = FALSE /\ queues = FALSE

-----------------------------------------------------------------------------
(* The two readers.                                                        *)

(* The queue is not longer than the limit.                                 *)
Room(r) == Len(queue[Out(r)]) <= MaxQueue

(* The head of the loop.  While the queue is too long the reader sleeps    *)
(* and comes back here.                                                    *)
ReaderTop(r) ==
  /\ pc[r] = "top"
  /\ \/ run /\ Room(r) /\ Go(r, "select")
     \/ ~run /\ Go(r, "stop")
  /\ UNCHANGED <<run, queue, item, main, sockets, queues>>

(* select() and receive(): the timeout of one second, or a packet of an    *)
(* unknown channel; a packet to forward; an error.                         *)
Select(r) ==
  /\ pc[r] = "select"
  /\ \/ Go(r, "top") /\ UNCHANGED run
     \/ Go(r, "enqueue") /\ UNCHANGED run
     \/ Go(r, "top") /\ run' = FALSE
  /\ UNCHANGED <<queue, item, main, sockets, queues>>

Enqueue(r) ==
  /\ pc[r] = "enqueue"
  /\ Put(Out(r), "packet")
  /\ Go(r, "top")
  /\ UNCHANGED <<run, item, main, sockets, queues>>

(* A reader that leaves stops the others ...                               *)
ReaderStop(r) ==
  /\ pc[r] = "stop"
  /\ run' = FALSE
  /\ Go(r, "wakeBefore")
  /\ UNCHANGED <<queue, item, main, sockets, queues>>

(* Variant: no bytes for the senders.                                      *)
NoWake(r, side, from, to) ==
  /\ pc[r] = from
  /\ Go(r, to)
  /\ UNCHANGED <<run, queue, item, main, sockets, queues>>

(* ... and puts some bytes, not a packet, into each queue for the sender   *)
(* that may wait there.                                                    *)
Wake(r, side, from, to) ==
  /\ pc[r] = from
  /\ Put(side, "wakeup")
  /\ Go(r, to)
  /\ UNCHANGED <<run, item, main, sockets, queues>>

ReaderStep(r) ==
  \/ ReaderTop(r) \/ Select(r) \/ Enqueue(r) \/ ReaderStop(r)
  \/ Wake(r, "before", "wakeBefore", "wakeAfter")
  \/ Wake(r, "after", "wakeAfter", "done")

-----------------------------------------------------------------------------
(* The two senders.                                                        *)

SenderTop(s) ==
  /\ pc[s] = "top"
  /\ Go(s, IF run THEN "wait" ELSE "stop")
  /\ UNCHANGED <<run, queue, item, main, sockets, queues>>

(* getOrWait(): the sender is the only thread that takes from its queue.   *)
Get(s) ==
  /\ pc[s] = "wait"
  /\ queue[Source(s)] # <<>>
  /\ item'  = [item  EXCEPT ![s] = Head(queue[Source(s)])]
  /\ queue' = [queue EXCEPT ![Source(s)] = Tail(@)]
  /\ Go(s, "check")
  /\ UNCHANGED <<run, main, sockets, queues>>

(* E_TIMEDOUT: a dummy keeps the connection alive.                         *)
GetTimeout(s) ==
  /\ TimedWait
  /\ pc[s] = "wait"
  /\ queue[Source(s)] = <<>>
  /\ item' = [item EXCEPT ![s] = "dummy"]
  /\ Go(s, "check")
  /\ UNCHANGED <<run, queue, main, sockets, queues>>

(* Variant: the flag is not looked at again after the wait.                *)
CheckNothing(s) ==
  /\ pc[s] = "check"
  /\ Go(s, "send")
  /\ UNCHANGED <<run, queue, item, main, sockets, queues>>

(* The flag is read again after the wait.                                  *)
Check(s) ==
  /\ pc[s] = "check"
  /\ Go(s, IF run THEN "send" ELSE "stop")
  /\ UNCHANGED <<run, queue, item, main, sockets, queues>>

(* send() blocks while the neighbour does not read, and returns or fails.  *)
Send(s) ==
  /\ pc[s] = "send"
  /\ Go(s, "top") \/ Go(s, "stop")
  /\ UNCHANGED <<run, queue, item, main, sockets, queues>>

SenderStop(s) ==
  /\ pc[s] = "stop"
  /\ run' = FALSE
  /\ Go(s, "done")
  /\ UNCHANGED <<queue, item, main, sockets, queues>>

SenderGoesOn(s) ==
  SenderTop(s) \/ Get(s) \/ Check(s) \/ Send(s) \/ SenderStop(s)

SenderStep(s) == SenderGoesOn(s) \/ GetTimeout(s)

-----------------------------------------------------------------------------
(* The main thread: start(), init(), loop() and clean().                   *)

Done(t) == pc[t] = "done"

(* init() connects both sides, exchanges keys and creates the queues last. *)
(* It may fail with one of the sockets open.                               *)
InitMix ==
  /\ main = "init"
  /\ \/ main' = "start" /\ sockets' = TRUE /\ queues' = TRUE
     \/ main' = "clean" /\ sockets' \in BOOLEAN /\ UNCHANGED queues
  /\ queue' = [s \in Side |-> <<>>]
  /\ UNCHANGED <<run, pc, item>>

(* loop(): m_bRun is set before the threads are started.                   *)
Start ==
  /\ main = "start"
  /\ run' = TRUE
  /\ pc' = [t \in Thread |-> "top"]
  /\ main' = "joinReadBefore"
  /\ UNCHANGED <<queue, item, sockets, queues>>

JoinReadBefore ==
  /\ main = "joinReadBefore" /\ Done("readBefore")
  /\ main' = "prepare"
  /\ UNCHANGED <<run, pc, queue, item, sockets, queues>>

Prepare ==
  /\ main = "prepare"
  /\ run' = FALSE
  /\ main' = "join"
  /\ UNCHANGED <<pc, queue, item, sockets, queues>>

(* Variant: only the senders are joined.                                   *)
JoinedSenders == \A s \in Sender : Done(s)

(* The three other threads.                                                *)
Joined == \A t \in Thread \ {"readBefore"} : Done(t)

Join ==
  /\ main = "join" /\ Joined
  /\ main' = "close"
  /\ UNCHANGED <<run, pc, queue, item, sockets, queues>>

Close ==
  /\ main = "close"
  /\ sockets' = FALSE
  /\ main' = "clean"
  /\ UNCHANGED <<run, pc, queue, item, queues>>

(* clean() deletes the queues, the sockets and the channel list; start()   *)
(* sleeps and begins again.                                                *)
Clean ==
  /\ main = "clean"
  /\ sockets' = FALSE /\ queues' = FALSE
  /\ queue' = [s \in Side |-> <<>>]
  /\ main' = "init"
  /\ UNCHANGED <<run, pc, item>>

MainStep ==
  InitMix \/ Start \/ JoinReadBefore \/ Prepare \/ Join \/ Close \/ Clean

Next ==
  \/ \E r \in Reader : ReaderStep(r)
  \/ \E s \in Sender : SenderStep(s)
  \/ MainStep

Spec == Init /\ [][Next]_vars

(* Every thread is scheduled: a select() returns after its timeout at the  *)
(* latest.  That send() returns is an assumption about the neighbours: the *)
(* code sets no send timeout and closes the sockets only after the joins.  *)
(* No wait for a packet has to time out: not every build has timed waits.  *)
Fairness ==
  /\ \A r \in Reader : WF_vars(ReaderStep(r))
  /\ \A s \in Sender : WF_vars(SenderGoesOn(s))
  /\ WF_vars(MainStep)

FairSpec == Spec /\ Fairness

-----------------------------------------------------------------------------
(* Type correctness: flags, program counters and queues keep their types.  *)
TypeOK ==
  /\ run \in BOOLEAN /\ sockets \in BOOLEAN /\ queues \in BOOLEAN
  /\ pc \in [Thread -> ReaderPC \cup SenderPC]
  /\ \A r \in Reader : pc[r] \in ReaderPC
  /\ \A s \in Sender : pc[s] \in SenderPC
  /\ queue \in [Side -> Seq(Element)]
  /\ item \in [Sender -> Element]
  /\ main \in MainPC

(* The points at which a thread uses a queue, and those at which it uses a *)
(* socket.                                                                 *)
UsesQueue(t)  == pc[t] \in {"top", "enqueue", "wakeBefore", "wakeAfter", "wait"}
UsesSocket(t) == pc[t] \in {"select", "send"}

(* loop() closes the sockets and clean() deletes the queues only when no   *)
(* thread will touch them any more, whichever thread failed first.         *)
NothingUsedAfterClean ==
  \A t \in Thread : /\ UsesQueue(t) \/ UsesSocket(t) => queues
                    /\ UsesSocket(t) => sockets

(* The bytes that wake a sender are not a packet: they are never passed to *)
(* send(), because a sender looks at m_bRun again after its wait.          *)
WakeupNeverSent == \A s \in Sender : pc[s] = "send" => item[s] # "wakeup"

(* Back-pressure: no queue holds more than one packet beyond the limit and *)
(* the bytes of the two readers that have left.                            *)
QueueBounded == \A s \in Side : Len(queue[s]) <= MaxQueue + 3

Running == main \in {"joinReadBefore", "prepare", "join"}

(* When one thread fails, all four end and the mix starts over, also when  *)
(* the waits of the senders have no timeout.                               *)
OneStopsAll == (Running /\ ~run) ~> main = "init"
=============================================================================

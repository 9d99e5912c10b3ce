------------------------------- MODULE CAQueue -------------------------------
(***************************************************************************)
(* CAQueue: the queue between the threads of a mix.  Producers add data    *)
(* and may close the queue; consumers get(), wait in getOrWait(), peek(),  *)
(* remove() and clean().                                                   *)
(*                                                                         *)
(* The list of chunks is protected by the mutex m_pcsQueue; a section      *)
(* under that mutex calls nothing that blocks, so it is one action here.   *)
(* The condition variable m_pconvarSize has a lock of its own, held by a   *)
(* consumer from the test of m_Queue to the end of getOrWait(), and by a   *)
(* producer around signal().  The reads of m_Queue and m_bClosed outside   *)
(* the mutex are actions of their own.                                     *)
(*                                                                         *)
(* A byte is its producer and its number in that producer's stream.        *)
(***************************************************************************)
EXTENDS Naturals, SequencesExt

CONSTANTS
  Producers, Consumers,
  Sizes,        (* the sizes used in calls                                 *)
  MaxBytes,     (* bound: bytes a producer adds                            *)
  TimedWait,    (* does CAConditionVariable::wait(ms) honour its timeout?  *)
  NoThread

ASSUME QueueAssumption ==
  /\ Sizes \subseteq Nat \ {0}
  /\ MaxBytes \in Nat
  /\ TimedWait \in BOOLEAN
  /\ NoThread \notin Producers \cup Consumers
  /\ Producers \cap Consumers = {}

Thread == Producers \cup Consumers
Byte   == Producers \X (1..MaxBytes)

VARIABLES
  chunks,   (* m_Queue .. m_lastElem                                       *)
  size,     (* m_nQueueSize                                                *)
  closed,   (* m_bClosed                                                   *)
  cv,       (* who holds the lock of m_pconvarSize                         *)
  pc,       (* where each thread is                                        *)
  want,     (* the size a thread asked for                                 *)
  timed,    (* is it in the variant of getOrWait() with a timeout?         *)
  sent,     (* bytes each producer has added so far                        *)
  out,      (* history: the bytes that left the queue                      *)
  peeked,   (* what a consumer saw in its last peek(), not yet removed     *)
  crashed   (* the process dereferenced m_Queue = NULL                     *)

data == <<chunks, size, out>>
vars == <<data, closed, cv, pc, want, timed, sent, peeked, crashed>>

ProducerPC == {"idle", "append", "signal", "closeCheck", "closeSignal"}
ConsumerPC == {"idle", "check", "take", "lock", "test", "waiting", "relock",
               "lockedCheck", "lockedTake", "removeCheck", "remove"}

-----------------------------------------------------------------------------
(* Chunks: pBuff, index (bytes already read) and size (bytes left).        *)

Chunk(bytes) == [buff |-> bytes, index |-> 0, size |-> Len(bytes)]

(* What of it has not been read yet.                                       *)
Rest(c) == SubSeq(c.buff, c.index + 1, c.index + c.size)

(* The bytes of the first k chunks, for every k.                           *)
Contents(cs) ==
  LET upTo[k \in 0..Len(cs)] == IF k = 0 THEN <<>> ELSE upTo[k - 1] \o Rest(cs[k])
  IN  upTo

Content(cs) == Contents(cs)[Len(cs)]

Total(cs) == Len(Content(cs))

(* How many chunks n bytes use up.                                         *)
UsedUp(cs, n) == Cardinality({k \in 1..Len(cs) : Len(Contents(cs)[k]) <= n})

(* How much they use of the next one.                                      *)
UsedOfNext(cs, n) == n - Len(Contents(cs)[UsedUp(cs, n)])

(* Variant: the last chunk is dropped even when it was only read in part.  *)
AfterWholeChunks(cs, n) ==
  SubSeq(cs, UsedUp(cs, n) + (IF UsedOfNext(cs, n) = 0 THEN 1 ELSE 2), Len(cs))

(* The loop of get() and remove(): whole chunks are unlinked, of the next  *)
(* one only index and size change.                                         *)
After(cs, n) ==
  LET rest == SubSeq(cs, UsedUp(cs, n) + 1, Len(cs))
      part == UsedOfNext(cs, n)
  IN  IF rest = <<>> THEN rest
      ELSE [rest EXCEPT ![1].index = @ + part, ![1].size = @ - part]

Least(a, b) == IF a < b THEN a ELSE b

SizeAfter(n) == size - Least(n, Total(chunks))

(* n bytes, or all if there are fewer, leave the queue.                    *)
TakeBytes(n) ==
  /\ out' = out \o SubSeq(Content(chunks), 1, Least(n, Total(chunks)))
  /\ size' = SizeAfter(n)
  /\ chunks' = After(chunks, n)

-----------------------------------------------------------------------------
Go(t, to) == pc' = [pc EXCEPT ![t] = to]
Free(t) == cv \in {NoThread, t}

Init ==
  /\ chunks = <<>> /\ size = 0 /\ out = <<>>
  /\ closed = FALSE /\ cv = NoThread /\ crashed = FALSE
  /\ pc = [t \in Thread |-> "idle"]
  /\ want = [t \in Thread |-> 0]
  /\ timed = [t \in Consumers |-> FALSE]
  /\ sent = [p \in Producers |-> 0]
  /\ peeked = [c \in Consumers |-> <<>>]

(* signal(): one of the waiting consumers, if there is any, has to get the *)
(* lock again.                                                             *)
Signalled(t, to) ==
  LET waiting == {c \in Consumers : pc[c] = "waiting"}
  IN  IF waiting = {} THEN Go(t, to)
      ELSE \E c \in waiting : pc' = [pc EXCEPT ![t] = to, ![c] = "relock"]

-----------------------------------------------------------------------------
(* Producers.                                                              *)

(* add(): m_bClosed is read before the mutex is taken.                     *)
AddCheck(p, n) ==
  /\ pc[p] = "idle"
  /\ sent[p] + n <= MaxBytes
  /\ ~closed
  /\ want' = [want EXCEPT ![p] = n]
  /\ Go(p, "append")
  /\ UNCHANGED <<data, closed, cv, timed, sent, peeked, crashed>>

Bytes(p, n) == [i \in 1..n |-> <<p, sent[p] + i>>]

AppendChunk(p) ==
  /\ pc[p] = "append"
  /\ chunks' = Append(chunks, Chunk(Bytes(p, want[p])))
  /\ size' = size + want[p]
  /\ sent' = [sent EXCEPT ![p] = @ + want[p]]
  /\ Go(p, "signal")
  /\ UNCHANGED <<out, closed, cv, want, timed, peeked, crashed>>

AddSignal(p) ==
  /\ pc[p] = "signal"
  /\ Free(p)
  /\ Signalled(p, "idle")
  /\ UNCHANGED <<data, closed, cv, want, timed, sent, peeked, crashed>>

(* close(): the flag under the mutex, then the unlocked test of m_Queue.   *)
CloseFlag(p) ==
  /\ pc[p] = "idle" /\ ~closed
  /\ closed' = TRUE
  /\ Go(p, "closeCheck")
  /\ UNCHANGED <<data, cv, want, timed, sent, peeked, crashed>>

CloseCheck(p) ==
  /\ pc[p] = "closeCheck"
  /\ Go(p, IF chunks = <<>> THEN "closeSignal" ELSE "idle")
  /\ UNCHANGED <<data, closed, cv, want, timed, sent, peeked, crashed>>

CloseSignal(p) ==
  /\ pc[p] = "closeSignal"
  /\ Free(p)
  /\ Signalled(p, "idle")
  /\ UNCHANGED <<data, closed, cv, want, timed, sent, peeked, crashed>>

ProducerStep(p) ==
  \/ \E n \in Sizes : AddCheck(p, n)
  \/ AppendChunk(p) \/ AddSignal(p)
  \/ CloseFlag(p) \/ CloseCheck(p) \/ CloseSignal(p)

-----------------------------------------------------------------------------
(* Consumers.  A consumer that has peeked removes what it used of it,      *)
(* peeks again or cleans the queue, before it does anything else.          *)

Called(c, n, to) ==
  /\ pc[c] = "idle"
  /\ peeked[c] = <<>>
  /\ want' = [want EXCEPT ![c] = n]
  /\ Go(c, to)
  /\ UNCHANGED <<data, closed, cv, sent, peeked, crashed>>

CallGet(c, n) == Called(c, n, "check") /\ UNCHANGED timed

CallGetOrWait(c, n, b) ==
  /\ Called(c, n, "lock")
  /\ timed' = [timed EXCEPT ![c] = b]

(* Variant: the test is left out.                                          *)
CheckedBlindly(c, from, to) ==
  /\ pc[c] = from
  /\ Go(c, to)
  /\ UNCHANGED <<data, closed, cv, want, timed, sent, peeked, crashed>>

(* get(): m_Queue is tested without the mutex.  Whether the caller learns  *)
(* E_CLOSED or that there is no data, it returns.                          *)
Checked(c, from, to) ==
  /\ pc[c] = from
  /\ chunks # <<>>
  /\ Go(c, to)
  /\ UNCHANGED <<data, closed, cv, want, timed, sent, peeked, crashed>>

ReturnEmpty(c, from) ==
  /\ pc[c] = from
  /\ chunks = <<>>
  /\ Go(c, "idle")
  /\ cv' = IF cv = c THEN NoThread ELSE cv
  /\ UNCHANGED <<data, closed, want, timed, sent, peeked, crashed>>

(* The rest of get() or remove() under the mutex; getOrWait() unlocks its  *)
(* condition variable after it.                                            *)
Finish(c) ==
  /\ TakeBytes(want[c])
  /\ peeked' = [peeked EXCEPT ![c] = <<>>]
  /\ cv' = IF cv = c THEN NoThread ELSE cv
  /\ Go(c, "idle")
  /\ UNCHANGED <<closed, want, timed, sent, crashed>>

(* m_Queue->size with m_Queue = NULL.                                      *)
NullDereference ==
  /\ crashed' = TRUE
  /\ UNCHANGED <<data, closed, cv, pc, want, timed, sent, peeked>>

(* The list is not tested again under the mutex.                           *)
FollowHead(c, from) ==
  /\ pc[c] = from
  /\ IF chunks = <<>> THEN NullDereference ELSE Finish(c)

Lock(c) ==
  /\ pc[c] \in {"lock", "relock"}
  /\ cv = NoThread
  /\ cv' = c
  /\ Go(c, "test")
  /\ UNCHANGED <<data, closed, want, timed, sent, peeked, crashed>>

(* Variant: the timed variant's condition in both: only data ends a wait.  *)
EndsWaitOnData(c) == chunks # <<>>

(* The condition of the loop: data, or, in the variant without a timeout,  *)
(* a closed queue.                                                         *)
EndsWait(c) == chunks # <<>> \/ (closed /\ ~timed[c])

Test(c) ==
  /\ pc[c] = "test"
  /\ EndsWait(c)
  /\ Go(c, "lockedCheck")
  /\ UNCHANGED <<data, closed, cv, want, timed, sent, peeked, crashed>>

(* wait() gives the lock back and sleeps, in one step.                     *)
Wait(c) ==
  /\ pc[c] = "test"
  /\ ~EndsWait(c)
  /\ cv' = NoThread
  /\ Go(c, "waiting")
  /\ UNCHANGED <<data, closed, want, timed, sent, peeked, crashed>>

SpuriousWakeup(c) ==
  /\ pc[c] = "waiting"
  /\ Go(c, "relock")
  /\ UNCHANGED <<data, closed, cv, want, timed, sent, peeked, crashed>>

(* The wait times out: the lock is taken and given back, E_TIMEDOUT.       *)
Timeout(c) ==
  /\ TimedWait
  /\ pc[c] = "waiting" /\ timed[c]
  /\ cv = NoThread
  /\ Go(c, "idle")
  /\ UNCHANGED <<data, closed, cv, want, timed, sent, peeked, crashed>>

(* peek(): all of it under the mutex.                                      *)
Peek(c, n) ==
  /\ pc[c] = "idle"
  /\ peeked' = [peeked EXCEPT ![c] =
                  SubSeq(Content(chunks), 1, Least(n, Total(chunks)))]
  /\ UNCHANGED <<data, closed, cv, pc, want, timed, sent, crashed>>

(* remove() of the part of the peeked data that could be used.             *)
CallRemove(c, n) ==
  /\ pc[c] = "idle"
  /\ n <= Len(peeked[c])
  /\ want' = [want EXCEPT ![c] = n]
  /\ Go(c, "removeCheck")
  /\ UNCHANGED <<data, closed, cv, timed, sent, peeked, crashed>>

(* clean(): under the mutex.                                               *)
Clean(c) ==
  /\ pc[c] = "idle"
  /\ out' = out \o Content(chunks)
  /\ chunks' = <<>> /\ size' = 0
  /\ peeked' = [peeked EXCEPT ![c] = <<>>]
  /\ UNCHANGED <<closed, cv, pc, want, timed, sent, crashed>>

(* The steps of a call that has begun.                                     *)
ConsumerGoesOn(c) ==
  \/ Checked(c, "check", "take") \/ Checked(c, "lockedCheck", "lockedTake")
  \/ Checked(c, "removeCheck", "remove")
  \/ \E from \in {"check", "lockedCheck", "removeCheck"} : ReturnEmpty(c, from)
  \/ \E from \in {"take", "lockedTake", "remove"} : FollowHead(c, from)
  \/ Lock(c) \/ Test(c) \/ Wait(c)

ConsumerCalls(c) ==
  \/ \E n \in Sizes :
        \/ CallGet(c, n) \/ Peek(c, n) \/ CallRemove(c, n)
        \/ \E b \in BOOLEAN : CallGetOrWait(c, n, b)
  \/ Clean(c)

Step ==
  \/ \E p \in Producers : ProducerStep(p)
  \/ \E c \in Consumers :
        \/ ConsumerCalls(c) \/ ConsumerGoesOn(c)
        \/ SpuriousWakeup(c) \/ Timeout(c)

(* A dead process does nothing more.                                       *)
Next == ~crashed /\ Step

Spec == Init /\ [][Next]_vars

(* A thread that has begun a call goes on with it; nobody has to call, and *)
(* no wait has to time out or to end without a reason.                     *)
Fairness ==
  /\ \A p \in Producers : WF_vars(~crashed /\ pc[p] # "idle" /\ ProducerStep(p))
  /\ \A c \in Consumers : SF_vars(~crashed /\ ConsumerGoesOn(c))

FairSpec == Spec /\ Fairness

-----------------------------------------------------------------------------
(* Type correctness of the list of chunks, the locks and the counters.     *)
TypeOK ==
  /\ \A i \in 1..Len(chunks) :
        /\ chunks[i].buff \in Seq(Byte)
        /\ chunks[i].size \in 1..Len(chunks[i].buff)
        /\ chunks[i].index + chunks[i].size = Len(chunks[i].buff)
  /\ size \in Nat /\ closed \in BOOLEAN /\ crashed \in BOOLEAN
  /\ cv \in Consumers \cup {NoThread}
  /\ \A p \in Producers : pc[p] \in ProducerPC
  /\ \A c \in Consumers : pc[c] \in ConsumerPC
  /\ want \in [Thread -> Nat] /\ sent \in [Producers -> Nat]
  /\ out \in Seq(Byte)

(* get() and remove() never follow the pointer of an empty list, although  *)
(* they test it before they lock.                                          *)
NeverNull == ~crashed

(* CAQueue implements the abstract byte stream, for the pieces of data a   *)
(* producer can add.                                                       *)
Pieces ==
  {[i \in 1..n |-> <<p, k + i>>] : p \in Producers, k \in 0..MaxBytes, n \in Sizes}

Fifo == INSTANCE ByteFifo WITH Data <- Pieces, fifo <- Content(chunks)
ImplementsFifo == Fifo!Spec

(* No lost wake-up: a consumer does not sleep on while there is data, or   *)
(* (without a timeout) when the queue is closed.                           *)
WaitersWake == \A c \in Consumers :
  (pc[c] = "waiting" /\ (chunks # <<>> \/ (closed /\ ~timed[c])))
    ~> pc[c] # "waiting"
=============================================================================

-------------------------- MODULE MixThreadsProofs --------------------------
(***************************************************************************)
(* Proofs about the threads of the three kinds of mix and the order in     *)
(* which their main threads end them: MiddleMixThreads for any limit of    *)
(* the queues and with or without a timeout of the waits, LastMixThreads   *)
(* and FirstMixThreads for any number of packets and users.                *)
(*                                                                         *)
(* All rest on what the main thread may conclude from its position         *)
(* (MainKnows, LastMainKnows, FirstMainKnows). WakeupNeverSent also needs  *)
(* the flag to be down from the moment a reader leaves until the queues    *)
(* are new (WakeupMeansStopped), the last mix that bytes which wake a      *)
(* thread are in its queue only while the main thread joins it             *)
(* (BytesWhileJoining), and the first mix that every open connection is in *)
(* exactly one hand (OpenedAccounted).                                     *)
(*                                                                         *)
(* MixStatus: the status a mix reports is its main thread's, and that of   *)
(* its threads until the first of them reports the end of a connection     *)
(* (WorkersFit), for any number of failures that counts as critical.       *)
(*                                                                         *)
(* MCMixThreads: the two invariants that it states of several components,  *)
(* for all the behaviours it puts side by side. A step of one of the lives *)
(* leaves the variables of the others alone.                               *)
(***************************************************************************)
EXTENDS MCMixThreads, CascadeProofs, TLAPS

-----------------------------------------------------------------------------
(* The middle mix.                                                         *)

(* What the main thread may conclude from where it is.                     *)
MainKnows ==
  /\ main \in {"init", "start", "close", "clean"} => \A t \in Thread : Done(t)
  /\ main \in {"prepare", "join"} => Done("readBefore")
  /\ main \notin {"init", "clean"} => queues
  /\ main \notin {"init", "clean"} => sockets
  /\ main = "start" => \A s \in Side : queue[s] = <<>>

(* Bytes of a reader are in a queue, or in the hands of a sender that has  *)
(* not looked at m_bRun yet, only when m_bRun is down.                     *)
WakeupMeansStopped ==
  run => /\ \A s \in Side : \A i \in 1..Len(queue[s]) : queue[s][i] # "wakeup"
         /\ \A r \in Reader : pc[r] \notin {"wakeBefore", "wakeAfter"}
         /\ \A s \in Sender : pc[s] = "check" => item[s] # "wakeup"

(* The reader that fills a queue.                                         *)
Filler(side) == IF side = "after" THEN "readBefore" ELSE "readAfter"

(* Has reader r left its bytes in that queue?                              *)
WokenBy(r, side) ==
  IF pc[r] = "done" \/ (pc[r] = "wakeAfter" /\ side = "before") THEN 1 ELSE 0

(* What back-pressure means between two looks at the queue: a reader about *)
(* to add a packet has left room for it.                                   *)
RoomLeft ==
  \A side \in Side :
    Len(queue[side]) <= MaxQueue
      + WokenBy("readBefore", side) + WokenBy("readAfter", side)
      + (IF pc[Filler(side)] \in {"select", "enqueue"} THEN 0 ELSE 1)

(* The inductive invariant.                                                *)
IInv ==
  /\ TypeOK /\ MainKnows /\ RoomLeft
  /\ WakeupMeansStopped /\ WakeupNeverSent

(* The queues as init() and clean() leave them.                            *)
LEMMA NewQueues == [s \in Side |-> <<>>] \in [Side -> Seq(Element)]
OBVIOUS

(* Before the first start() no thread runs and the queues are empty.       *)
LEMMA InitIInv == Init => IInv
<1> SUFFICES ASSUME Init PROVE IInv
  OBVIOUS
<1> USE DEF Init
<1>1. TypeOK
  BY NewQueues DEF TypeOK, ReaderPC, SenderPC, MainPC, Element, Reader, Sender, Thread
<1>2. MainKnows /\ WakeupMeansStopped
  BY DEF MainKnows, WakeupMeansStopped, Done, Thread, Reader
<1>3. WakeupNeverSent
  BY DEF WakeupNeverSent, Sender, Thread
<1>4. RoomLeft
  BY ThreadsAssumption DEF RoomLeft, WokenBy, Filler, Thread, Reader, Side
<1>5. QED
  BY <1>1, <1>2, <1>3, <1>4 DEF IInv

-----------------------------------------------------------------------------
(* A step of a reader preserves type correctness.                          *)
LEMMA ReaderType ==
  ASSUME IInv, NEW r \in Reader, ReaderStep(r) PROVE TypeOK'
<1> USE DEF IInv, TypeOK, Go, Put, Out, Source, Reader, Sender, Thread, Side, Element,
            ReaderPC, SenderPC, MainPC
<1>1. CASE ReaderTop(r)
  BY <1>1 DEF ReaderTop
<1>2. CASE Select(r)
  BY <1>2 DEF Select
<1>3. CASE Enqueue(r)
  BY <1>3 DEF Enqueue
<1>4. CASE ReaderStop(r)
  BY <1>4 DEF ReaderStop
<1>5. CASE Wake(r, "before", "wakeBefore", "wakeAfter")
  BY <1>5 DEF Wake
<1>6. CASE Wake(r, "after", "wakeAfter", "done")
  BY <1>6 DEF Wake
<1>7. QED
  BY <1>1, <1>2, <1>3, <1>4, <1>5, <1>6 DEF ReaderStep

(* A step of a reader preserves what the main thread knows.                *)
LEMMA ReaderMain ==
  ASSUME IInv, NEW r \in Reader, ReaderStep(r) PROVE MainKnows'
<1> USE DEF IInv, TypeOK, MainKnows, Done,
            Go, Put, Out, Source, Reader, Sender, Thread, Side
<1>1. CASE ReaderTop(r)
  BY <1>1 DEF ReaderTop
<1>2. CASE Select(r)
  BY <1>2 DEF Select
<1>3. CASE Enqueue(r)
  BY <1>3 DEF Enqueue
<1>4. CASE ReaderStop(r)
  BY <1>4 DEF ReaderStop
<1>5. CASE Wake(r, "before", "wakeBefore", "wakeAfter")
  BY <1>5 DEF Wake
<1>6. CASE Wake(r, "after", "wakeAfter", "done")
  BY <1>6 DEF Wake
<1>7. QED
  BY <1>1, <1>2, <1>3, <1>4, <1>5, <1>6 DEF ReaderStep

(* A step of a reader preserves WakeupMeansStopped.                        *)
LEMMA ReaderWakeup ==
  ASSUME IInv, NEW r \in Reader, ReaderStep(r) PROVE WakeupMeansStopped'
<1> USE DEF IInv, TypeOK, MainKnows, WakeupMeansStopped, Done,
            Go, Put, Out, Source, Reader, Sender, Thread, Side
<1>1. CASE ReaderTop(r)
  BY <1>1 DEF ReaderTop
<1>2. CASE Select(r)
  BY <1>2 DEF Select
<1>3. CASE Enqueue(r)
  BY <1>3 DEF Enqueue
<1>4. CASE ReaderStop(r)
  BY <1>4 DEF ReaderStop
<1>5. CASE Wake(r, "before", "wakeBefore", "wakeAfter")
  BY <1>5 DEF Wake
<1>6. CASE Wake(r, "after", "wakeAfter", "done")
  BY <1>6 DEF Wake
<1>7. QED
  BY <1>1, <1>2, <1>3, <1>4, <1>5, <1>6 DEF ReaderStep

(* A step of a reader preserves the bound of the queues.                   *)
LEMMA ReaderRoom ==
  ASSUME IInv, NEW r \in Reader, ReaderStep(r) PROVE RoomLeft'
<1> USE ThreadsAssumption DEF IInv, TypeOK, MainKnows, RoomLeft, WokenBy, Filler, Room,
            Done, Go, Put, Out, Source, Reader, Sender, Thread, Side
<1>1. CASE ReaderTop(r)
  BY <1>1 DEF ReaderTop
<1>2. CASE Select(r)
  BY <1>2 DEF Select
<1>3. CASE Enqueue(r)
  BY <1>3 DEF Enqueue
<1>4. CASE ReaderStop(r)
  BY <1>4 DEF ReaderStop
<1>5. CASE Wake(r, "before", "wakeBefore", "wakeAfter")
  BY <1>5 DEF Wake
<1>6. CASE Wake(r, "after", "wakeAfter", "done")
  BY <1>6 DEF Wake
<1>7. QED
  BY <1>1, <1>2, <1>3, <1>4, <1>5, <1>6 DEF ReaderStep

(* A step of a reader preserves WakeupNeverSent.                           *)
LEMMA ReaderSent ==
  ASSUME IInv, NEW r \in Reader, ReaderStep(r) PROVE WakeupNeverSent'
<1> USE DEF IInv, TypeOK, MainKnows, WakeupMeansStopped, WakeupNeverSent,
            Done, Go, Put, Out, Source, Reader, Sender, Thread, Side
<1>1. CASE ReaderTop(r)
  BY <1>1 DEF ReaderTop
<1>2. CASE Select(r)
  BY <1>2 DEF Select
<1>3. CASE Enqueue(r)
  BY <1>3 DEF Enqueue
<1>4. CASE ReaderStop(r)
  BY <1>4 DEF ReaderStop
<1>5. CASE Wake(r, "before", "wakeBefore", "wakeAfter")
  BY <1>5 DEF Wake
<1>6. CASE Wake(r, "after", "wakeAfter", "done")
  BY <1>6 DEF Wake
<1>7. QED
  BY <1>1, <1>2, <1>3, <1>4, <1>5, <1>6 DEF ReaderStep

-----------------------------------------------------------------------------
(* A step of a sender preserves type correctness.                          *)
LEMMA SenderType ==
  ASSUME IInv, NEW s \in Sender, SenderStep(s) PROVE TypeOK'
<1> USE DEF IInv, TypeOK, Go, Put, Out, Source, Reader, Sender, Thread, Side, Element,
            ReaderPC, SenderPC, MainPC
<1>1. CASE SenderTop(s)
  BY <1>1 DEF SenderTop
<1>2. CASE Get(s)
  BY <1>2 DEF Get
<1>3. CASE GetTimeout(s)
  BY <1>3 DEF GetTimeout
<1>4. CASE Check(s)
  BY <1>4 DEF Check
<1>5. CASE Send(s)
  BY <1>5 DEF Send
<1>6. CASE SenderStop(s)
  BY <1>6 DEF SenderStop
<1>7. QED
  BY <1>1, <1>2, <1>3, <1>4, <1>5, <1>6 DEF SenderStep, SenderGoesOn

(* A step of a sender preserves what the main thread knows.                *)
LEMMA SenderMain ==
  ASSUME IInv, NEW s \in Sender, SenderStep(s) PROVE MainKnows'
<1> USE DEF IInv, TypeOK, MainKnows, Done,
            Go, Put, Out, Source, Reader, Sender, Thread, Side
<1>1. CASE SenderTop(s)
  BY <1>1 DEF SenderTop
<1>2. CASE Get(s)
  BY <1>2 DEF Get
<1>3. CASE GetTimeout(s)
  BY <1>3 DEF GetTimeout
<1>4. CASE Check(s)
  BY <1>4 DEF Check
<1>5. CASE Send(s)
  BY <1>5 DEF Send
<1>6. CASE SenderStop(s)
  BY <1>6 DEF SenderStop
<1>7. QED
  BY <1>1, <1>2, <1>3, <1>4, <1>5, <1>6 DEF SenderStep, SenderGoesOn

(* A step of a sender preserves WakeupMeansStopped.                        *)
LEMMA SenderWakeup ==
  ASSUME IInv, NEW s \in Sender, SenderStep(s) PROVE WakeupMeansStopped'
<1> USE DEF IInv, TypeOK, MainKnows, WakeupMeansStopped, Done,
            Go, Put, Out, Source, Reader, Sender, Thread, Side
<1>1. CASE SenderTop(s)
  BY <1>1 DEF SenderTop
<1>2. CASE Get(s)
  BY <1>2 DEF Get
<1>3. CASE GetTimeout(s)
  BY <1>3 DEF GetTimeout
<1>4. CASE Check(s)
  BY <1>4 DEF Check
<1>5. CASE Send(s)
  BY <1>5 DEF Send
<1>6. CASE SenderStop(s)
  BY <1>6 DEF SenderStop
<1>7. QED
  BY <1>1, <1>2, <1>3, <1>4, <1>5, <1>6 DEF SenderStep, SenderGoesOn

(* A step of a sender preserves the bound of the queues.                   *)
LEMMA SenderRoom ==
  ASSUME IInv, NEW s \in Sender, SenderStep(s) PROVE RoomLeft'
<1> USE ThreadsAssumption DEF IInv, TypeOK, MainKnows, RoomLeft, WokenBy, Filler, Room,
            Done, Go, Put, Out, Source, Reader, Sender, Thread, Side
<1>1. CASE SenderTop(s)
  BY <1>1 DEF SenderTop
<1>2. CASE Get(s)
  BY <1>2 DEF Get
<1>3. CASE GetTimeout(s)
  BY <1>3 DEF GetTimeout
<1>4. CASE Check(s)
  BY <1>4 DEF Check
<1>5. CASE Send(s)
  BY <1>5 DEF Send
<1>6. CASE SenderStop(s)
  BY <1>6 DEF SenderStop
<1>7. QED
  BY <1>1, <1>2, <1>3, <1>4, <1>5, <1>6 DEF SenderStep, SenderGoesOn

(* A step of a sender preserves WakeupNeverSent.                           *)
LEMMA SenderSent ==
  ASSUME IInv, NEW s \in Sender, SenderStep(s) PROVE WakeupNeverSent'
<1> USE DEF IInv, TypeOK, MainKnows, WakeupMeansStopped, WakeupNeverSent,
            Done, Go, Put, Out, Source, Reader, Sender, Thread, Side
<1>1. CASE SenderTop(s)
  BY <1>1 DEF SenderTop
<1>2. CASE Get(s)
  BY <1>2 DEF Get
<1>3. CASE GetTimeout(s)
  BY <1>3 DEF GetTimeout
<1>4. CASE Check(s)
  BY <1>4 DEF Check
<1>5. CASE Send(s)
  BY <1>5 DEF Send
<1>6. CASE SenderStop(s)
  BY <1>6 DEF SenderStop
<1>7. QED
  BY <1>1, <1>2, <1>3, <1>4, <1>5, <1>6 DEF SenderStep, SenderGoesOn

-----------------------------------------------------------------------------
(* A step of the main thread preserves type correctness.                   *)
LEMMA MainType ==
  ASSUME IInv, MainStep PROVE TypeOK'
<1> USE DEF IInv, TypeOK, Go, Put, Out, Source, Reader, Sender, Thread, Element,
            ReaderPC, SenderPC, MainPC
<1>1. CASE InitMix
  BY <1>1, NewQueues DEF InitMix
<1>2. CASE Start
  BY <1>2 DEF Start
<1>3. CASE JoinReadBefore
  BY <1>3 DEF JoinReadBefore
<1>4. CASE Prepare
  BY <1>4 DEF Prepare
<1>5. CASE Join
  BY <1>5 DEF Join
<1>6. CASE Close
  BY <1>6 DEF Close
<1>7. CASE Clean
  BY <1>7, NewQueues DEF Clean
<1>8. QED
  BY <1>1, <1>2, <1>3, <1>4, <1>5, <1>6, <1>7 DEF MainStep

(* A step of the main thread preserves what the main thread knows.         *)
LEMMA MainMain ==
  ASSUME IInv, MainStep PROVE MainKnows'
<1> USE DEF IInv, TypeOK, MainKnows, Done,
            Go, Put, Out, Source, Reader, Sender, Thread, Side
<1>1. CASE InitMix
  BY <1>1 DEF InitMix
<1>2. CASE Start
  BY <1>2 DEF Start
<1>3. CASE JoinReadBefore
  BY <1>3 DEF JoinReadBefore
<1>4. CASE Prepare
  BY <1>4 DEF Prepare
<1>5. CASE Join
  BY <1>5 DEF Join, Joined
<1>6. CASE Close
  BY <1>6 DEF Close
<1>7. CASE Clean
  BY <1>7 DEF Clean
<1>8. QED
  BY <1>1, <1>2, <1>3, <1>4, <1>5, <1>6, <1>7 DEF MainStep

(* A step of the main thread preserves WakeupMeansStopped.                 *)
LEMMA MainWakeup ==
  ASSUME IInv, MainStep PROVE WakeupMeansStopped'
<1> USE DEF IInv, TypeOK, MainKnows, WakeupMeansStopped, Done,
            Go, Put, Out, Source, Reader, Sender, Thread, Side
<1>1. CASE InitMix
  BY <1>1 DEF InitMix
<1>2. CASE Start
  BY <1>2 DEF Start
<1>3. CASE JoinReadBefore
  BY <1>3 DEF JoinReadBefore
<1>4. CASE Prepare
  BY <1>4 DEF Prepare
<1>5. CASE Join
  BY <1>5 DEF Join
<1>6. CASE Close
  BY <1>6 DEF Close
<1>7. CASE Clean
  BY <1>7 DEF Clean
<1>8. QED
  BY <1>1, <1>2, <1>3, <1>4, <1>5, <1>6, <1>7 DEF MainStep

(* A step of the main thread preserves the bound of the queues.            *)
LEMMA MainRoom ==
  ASSUME IInv, MainStep PROVE RoomLeft'
<1> USE ThreadsAssumption DEF IInv, TypeOK, MainKnows, RoomLeft, WokenBy, Filler, Room,
            Done, Go, Put, Out, Source, Reader, Sender, Thread, Side
<1>1. CASE InitMix
  BY <1>1 DEF InitMix
<1>2. CASE Start
  BY <1>2 DEF Start
<1>3. CASE JoinReadBefore
  BY <1>3 DEF JoinReadBefore
<1>4. CASE Prepare
  BY <1>4 DEF Prepare
<1>5. CASE Join
  BY <1>5 DEF Join, Joined
<1>6. CASE Close
  BY <1>6 DEF Close
<1>7. CASE Clean
  BY <1>7 DEF Clean
<1>8. QED
  BY <1>1, <1>2, <1>3, <1>4, <1>5, <1>6, <1>7 DEF MainStep

(* A step of the main thread preserves WakeupNeverSent.                    *)
LEMMA MainSent ==
  ASSUME IInv, MainStep PROVE WakeupNeverSent'
<1> USE DEF IInv, TypeOK, MainKnows, WakeupMeansStopped, WakeupNeverSent,
            Done, Go, Put, Out, Source, Reader, Sender, Thread, Side
<1>1. CASE InitMix
  BY <1>1 DEF InitMix
<1>2. CASE Start
  BY <1>2 DEF Start
<1>3. CASE JoinReadBefore
  BY <1>3 DEF JoinReadBefore
<1>4. CASE Prepare
  BY <1>4 DEF Prepare
<1>5. CASE Join
  BY <1>5 DEF Join
<1>6. CASE Close
  BY <1>6 DEF Close
<1>7. CASE Clean
  BY <1>7 DEF Clean
<1>8. QED
  BY <1>1, <1>2, <1>3, <1>4, <1>5, <1>6, <1>7 DEF MainStep

-----------------------------------------------------------------------------
(* The inductive invariant holds in every reachable state.                 *)
THEOREM Invariance == Spec => []IInv
<1>1. Init => IInv
  BY InitIInv
<1>2. IInv /\ [Next]_vars => IInv'
  <2> SUFFICES ASSUME IInv, [Next]_vars PROVE IInv'
    OBVIOUS
  <2>1. CASE \E r \in Reader : ReaderStep(r)
    BY <2>1, ReaderType, ReaderMain, ReaderWakeup, ReaderRoom, ReaderSent DEF IInv
  <2>2. CASE \E s \in Sender : SenderStep(s)
    BY <2>2, SenderType, SenderMain, SenderWakeup, SenderRoom, SenderSent DEF IInv
  <2>3. CASE MainStep
    BY <2>3, MainType, MainMain, MainWakeup, MainRoom, MainSent DEF IInv
  <2>4. CASE UNCHANGED vars
    BY <2>4 DEF IInv, TypeOK, MainKnows, WakeupMeansStopped, WakeupNeverSent,
                RoomLeft, WokenBy, Filler, Done, vars
  <2>5. QED
    BY <2>1, <2>2, <2>3, <2>4 DEF Next
<1>3. QED
  BY <1>1, <1>2, PTL DEF Spec

(* Type correctness of the four threads, the main thread and the queues.   *)
THEOREM TypeCorrect == Spec => []TypeOK
<1>1. IInv => TypeOK
  BY DEF IInv
<1>2. QED
  BY <1>1, Invariance, PTL

(* Sockets and queues outlive every use of them, however the threads end.  *)
THEOREM CleanIsLast == Spec => []NothingUsedAfterClean
<1>1. IInv => NothingUsedAfterClean
  BY DEF IInv, TypeOK, MainKnows, NothingUsedAfterClean, UsesQueue, UsesSocket,
         Done, MainPC, Reader, Sender, Thread
<1>2. QED
  BY <1>1, Invariance, PTL

(* The wake-up bytes of an exiting reader never reach a neighbour.         *)
THEOREM WakeupsStayInside == Spec => []WakeupNeverSent
<1>1. IInv => WakeupNeverSent
  BY DEF IInv
<1>2. QED
  BY <1>1, Invariance, PTL

(* Back-pressure: a queue never holds more than one packet beyond the      *)
(* limit, and the bytes of the two readers.                                *)
THEOREM QueuesBounded == Spec => []QueueBounded
<1>1. IInv => QueueBounded
  BY ThreadsAssumption DEF IInv, TypeOK, RoomLeft, QueueBounded, WokenBy, Filler, Side
<1>2. QED
  BY <1>1, Invariance, PTL

-----------------------------------------------------------------------------
(* The last mix.                                                           *)

(* What a queue of the last mix holds, and where its threads are.          *)
LastElements == {"packet", "bytes", "rest"}

LastTypeOK ==
  /\ restart \in BOOLEAN /\ exist \in BOOLEAN /\ link \in BOOLEAN
  /\ lmain \in {"init", "loop", "close", "wake", "join", "again"}
  /\ reader \in {"top", "add", "done"} /\ sender \in {"top", "wait", "send", "done"}
  /\ readQueue \in Nat /\ sendQueue \in Seq(LastElements)
  /\ taken \in {"dummy"} \cup LastElements
  /\ muxIn \in {"none", "open", "closed"}

(* What the main thread may conclude from where it is: while no thread can *)
(* have been told to end, the queues exist and the connection is open; it  *)
(* is closed before the sender is woken.                                   *)
LastMainKnows ==
  /\ lmain \in {"init", "again"} => reader = "done" /\ sender = "done"
  /\ lmain \in {"loop", "close"} => exist /\ muxIn = "open"
  /\ lmain \in {"wake", "join"} => exist /\ muxIn = "closed"

(* The bytes that wake the sender are in its queue, or in its hands, only  *)
(* when the main thread has put them there.                                *)
BytesWhileJoining ==
  lmain # "join" =>
    /\ \A i \in 1..Len(sendQueue) : sendQueue[i] = "packet"
    /\ sender = "send" => taken # "bytes"

LastInv == LastTypeOK /\ LastMainKnows /\ BytesWhileJoining

(* An empty queue is a sequence of elements.                               *)
LEMMA NothingQueued == <<>> \in Seq(LastElements) /\ Len(<<>>) = 0
OBVIOUS

(* No thread runs before init().                                           *)
LEMMA LastInit == LMInit => LastInv
<1> SUFFICES ASSUME LMInit PROVE LastInv
  OBVIOUS
<1>1. LastTypeOK
  BY NothingQueued DEF LMInit, LastTypeOK
<1>2. LastMainKnows
  BY DEF LMInit, LastMainKnows
<1>3. BytesWhileJoining
  BY NothingQueued DEF LMInit, BytesWhileJoining
<1> QED BY <1>1, <1>2, <1>3 DEF LastInv

(* The threads do not change what the main thread relies on.               *)
LEMMA LastReaderKeeps == LastInv /\ LastReaderStep => LastInv'
<1> SUFFICES ASSUME LastInv, LastReaderStep PROVE LastInv'
  OBVIOUS
<1> USE DEF LastReaderStep, ReadPacket, AddPacket, ReadFails, CanRead
<1>1. LastTypeOK'
  <2>1. readQueue' \in Nat
    BY DEF LastInv, LastTypeOK
  <2> QED BY <2>1 DEF LastInv, LastTypeOK
<1>2. LastMainKnows'
  BY DEF LastInv, LastTypeOK, LastMainKnows
<1>3. BytesWhileJoining'
  BY DEF LastInv, BytesWhileJoining
<1> QED BY <1>1, <1>2, <1>3 DEF LastInv

(* The sender of the last mix keeps the invariant.                         *)
LEMMA LastSenderKeeps == LastInv /\ (LastSenderGoesOn \/ SenderTimesOut) => LastInv'
<1> SUFFICES ASSUME LastInv, LastSenderGoesOn \/ SenderTimesOut PROVE LastInv'
  OBVIOUS
<1> USE DEF LastInv, LastTypeOK, LastMainKnows, BytesWhileJoining
<1>1. CASE SenderWaits \/ SenderSends \/ SenderTimesOut
  BY <1>1 DEF SenderWaits, SenderSends, SenderTimesOut
<1>2. CASE SenderTakes
  <2>1. /\ Head(sendQueue) = sendQueue[1] /\ 1 \in 1..Len(sendQueue)
        /\ Head(sendQueue) \in LastElements /\ Tail(sendQueue) \in Seq(LastElements)
        /\ \A i \in 1..Len(Tail(sendQueue)) :
             i + 1 \in 1..Len(sendQueue) /\ Tail(sendQueue)[i] = sendQueue[i + 1]
    BY <1>2 DEF SenderTakes
  <2>2. LastTypeOK' /\ LastMainKnows'
    BY <1>2, <2>1 DEF SenderTakes
  <2>3. BytesWhileJoining'
    BY <1>2, <2>1 DEF SenderTakes
  <2> QED BY <2>2, <2>3
<1> QED BY <1>1, <1>2 DEF LastSenderGoesOn

(* The loop and the clean() of the last mix keep the invariant.            *)
LEMMA LastMainKeeps ==
  LastInv /\ (InitLast \/ InitLastFails \/ TakePacket \/ AnswerUser \/ CleanStep \/ LinkLost) => LastInv'
<1> SUFFICES ASSUME LastInv,
                    InitLast \/ InitLastFails \/ TakePacket \/ AnswerUser \/ CleanStep \/ LinkLost
             PROVE  LastInv'
  OBVIOUS
<1> USE DEF LastInv, LastTypeOK, LastMainKnows, BytesWhileJoining
<1>1. CASE InitLast \/ InitLastFails \/ TakePacket \/ LinkLost
  <2>1. LastTypeOK'
    <3>1. readQueue' \in Nat
      BY <1>1 DEF InitLast, InitLastFails, TakePacket, LinkLost
    <3> QED BY <1>1, <3>1, NothingQueued DEF InitLast, InitLastFails, TakePacket, LinkLost
  <2>2. LastMainKnows'
    BY <1>1, NothingQueued DEF InitLast, InitLastFails, TakePacket, LinkLost
  <2>3. BytesWhileJoining'
    BY <1>1, NothingQueued DEF InitLast, InitLastFails, TakePacket, LinkLost
  <2> QED BY <2>1, <2>2, <2>3
<1>2. CASE AnswerUser
  BY <1>2 DEF AnswerUser, LastElements
<1>3. CASE WakeSender
  <2>1. sendQueue \o <<"bytes", "rest">> \in Seq(LastElements)
    BY DEF LastElements
  <2> QED BY <1>3, <2>1 DEF WakeSender
<1>4. CASE LeaveLoop \/ CloseMuxIn \/ CleanAgain
  BY <1>4 DEF LeaveLoop, CloseMuxIn, MuxInClosed, CleanAgain
<1>5. CASE DeleteAll
  <2>1. LastTypeOK'
    BY <1>5, NothingQueued DEF DeleteAll, BothJoined
  <2>2. LastMainKnows'
    BY <1>5, NothingQueued DEF DeleteAll, BothJoined
  <2>3. BytesWhileJoining'
    BY <1>5, NothingQueued DEF DeleteAll, BothJoined
  <2> QED BY <2>1, <2>2, <2>3
<1> QED BY <1>1, <1>2, <1>3, <1>4, <1>5 DEF CleanStep

(* Every step of a last mix preserves the invariant.                       *)
LEMMA LastStep == LastInv /\ [LMNext]_lmvars => LastInv'
<1>1. CASE UNCHANGED lmvars
  BY <1>1 DEF lmvars, LastInv, LastTypeOK, LastMainKnows, BytesWhileJoining
<1> QED BY <1>1, LastReaderKeeps, LastSenderKeeps, LastMainKeeps DEF LMNext

(* What the main thread knows is that nothing is used after its end.       *)
LEMMA LastEnds == LastInv => LastMixCleansUp
BY DEF LastInv, LastTypeOK, LastMainKnows, BytesWhileJoining, LastMixCleansUp,
       LastMixUsesNothingDeleted, WakeupFindsClosed

(* The invariant holds in every reachable state.                           *)
LEMMA LastInvariance == LMSpec => []LastInv
BY LastInit, LastStep, PTL DEF LMSpec

(* In a last mix the queues and the connection outlive the threads that    *)
(* use them, and the bytes that wake the sender find the connection closed *)
(* - for any limit of the queues, whichever thread ends first.             *)
THEOREM LastMixEndsInOrder == LMSpec => []LastMixCleansUp
BY LastEnds, LastInvariance, PTL

-----------------------------------------------------------------------------
(* The first mix.                                                          *)

FirstTypeOK ==
  /\ stopping \in BOOLEAN /\ muxOut \in BOOLEAN /\ nextMix \in BOOLEAN
  /\ fmain \in {"init", "loop", "close", "accept", "logins", "threads"}
  /\ acceptor \in {"start", "top", "select", "request", "done"}
  /\ fromNext \in {"top", "use", "done"} /\ toNext \in {"top", "wait", "send", "done"}
  /\ requests \in Nat /\ logins \in Nat /\ loggedIn \in Nat /\ opened \in Nat
  /\ fromQueue \in Nat

(* clean() joins one thread after the other: what has ended by the time    *)
(* the main thread is where it is, and what is still there for the rest.   *)
FirstMainKnows ==
  /\ acceptor # "done" => fmain \in {"loop", "close", "accept"}
  /\ requests + logins > 0 => fmain \in {"loop", "close", "accept", "logins"}
  /\ fromNext # "done" \/ toNext # "done" => fmain # "init" /\ "mix" \in parts
  /\ acceptor # "done" \/ requests + logins > 0 => {"login", "users"} \subseteq parts
  /\ fmain = "init" => loggedIn = 0

(* Every open connection is in one hand: the acceptor's, the pool's, a     *)
(* login thread's or the channel list's.                                   *)
OpenedAccounted ==
  opened = loggedIn + logins + requests + (IF acceptor = "request" THEN 1 ELSE 0)

FirstInv == FirstTypeOK /\ FirstMainKnows /\ OpenedAccounted

(* No thread runs and no connection is open before init().                 *)
LEMMA FirstInit == FTInit => FirstInv
<1> SUFFICES ASSUME FTInit PROVE FirstInv
  OBVIOUS
<1>1. FirstTypeOK
  BY DEF FTInit, FirstTypeOK
<1>2. FirstMainKnows
  BY DEF FTInit, FirstMainKnows
<1>3. OpenedAccounted
  BY DEF FTInit, OpenedAccounted
<1> QED BY <1>1, <1>2, <1>3 DEF FirstInv

(* The thread that accepts users and the login threads keep the invariant. *)
LEMMA AcceptorKeeps == FirstInv /\ (AcceptorStep \/ LoginStep) => FirstInv'
<1> SUFFICES ASSUME FirstInv, AcceptorStep \/ LoginStep PROVE FirstInv'
  OBVIOUS
<1> USE DEF FirstInv, FirstTypeOK, FirstMainKnows, OpenedAccounted, mixvars
<1>1. CASE AcceptorStarts \/ AcceptorTop \/ NobodyConnects
  BY <1>1 DEF AcceptorStarts, AcceptorTop, NobodyConnects, AcceptorGoes, loginvars
<1>2. CASE UserConnects \/ RequestLogin
  BY <1>2 DEF UserConnects, RequestLogin, AcceptorGoes
<1>3. CASE LoginStep
  BY <1>3 DEF LoginStep, LoginBegins, LoginSucceeded, LoginFailed
<1> QED BY <1>1, <1>2, <1>3 DEF AcceptorStep

(* The threads between the first mix and the next one keep the invariant.  *)
LEMMA MixThreadsKeep == FirstInv /\ (FromNextStep \/ ToNextStep \/ DummyDue) => FirstInv'
<1> SUFFICES ASSUME FirstInv, FromNextStep \/ ToNextStep \/ DummyDue PROVE FirstInv'
  OBVIOUS
<1> USE DEF FirstInv, FirstTypeOK, FirstMainKnows, OpenedAccounted, loginvars
<1>1. CASE FromNextStep
  <2>1. FirstTypeOK'
    <3>1. fromQueue' \in Nat
      BY <1>1 DEF FromNextStep, ReadFromNext, UseFromNext, NextMixGone, ReaderEnds, CanReadNext
    <3> QED BY <1>1, <3>1 DEF FromNextStep, ReadFromNext, UseFromNext, NextMixGone, ReaderEnds, CanReadNext
  <2>2. FirstMainKnows'
    BY <1>1 DEF FromNextStep, ReadFromNext, UseFromNext, NextMixGone, ReaderEnds, CanReadNext
  <2>3. OpenedAccounted'
    BY <1>1 DEF FromNextStep, ReadFromNext, UseFromNext, NextMixGone, ReaderEnds, CanReadNext
  <2> QED BY <2>1, <2>2, <2>3
<1>2. CASE ToNextStep
  BY <1>2 DEF ToNextStep, SenderAsks, SenderGets, SenderPuts
<1>3. CASE DummyDue
  BY <1>3 DEF DummyDue
<1> QED BY <1>1, <1>2, <1>3

(* The loop and the clean() of the first mix keep the invariant.           *)
LEMMA FirstMainKeeps ==
  FirstInv /\ (InitFirst \/ InitFirstFails \/ HandlePacket \/ QueuePacket \/ UserLeaves
               \/ FirstCleanStep \/ NextMixLost) => FirstInv'
<1> SUFFICES ASSUME FirstInv,
                    InitFirst \/ InitFirstFails \/ HandlePacket \/ QueuePacket \/ UserLeaves
                      \/ FirstCleanStep \/ NextMixLost
             PROVE  FirstInv'
  OBVIOUS
<1> USE DEF FirstInv, FirstTypeOK, FirstMainKnows, OpenedAccounted
<1>1. CASE InitFirst \/ InitFirstFails
  BY <1>1 DEF InitFirst, InitFirstFails, loginvars, mixvars
<1>2. CASE HandlePacket \/ QueuePacket \/ UserLeaves \/ NextMixLost
  <2>1. FirstTypeOK'
    <3>1. fromQueue' \in Nat /\ loggedIn' \in Nat /\ opened' \in Nat
      BY <1>2 DEF HandlePacket, QueuePacket, UserLeaves, NextMixLost, loginvars, mixvars
    <3>2. CASE HandlePacket BY <3>1, <3>2 DEF HandlePacket, loginvars
    <3>3. CASE QueuePacket BY <3>1, <3>3 DEF QueuePacket, loginvars
    <3>4. CASE UserLeaves BY <3>1, <3>4 DEF UserLeaves, mixvars
    <3>5. CASE NextMixLost BY <3>1, <3>5 DEF NextMixLost, loginvars, mixvars
    <3> QED BY <1>2, <3>2, <3>3, <3>4, <3>5
  <2>2. FirstMainKnows'
    BY <1>2 DEF HandlePacket, QueuePacket, UserLeaves, NextMixLost, loginvars, mixvars
  <2>3. OpenedAccounted'
    BY <1>2 DEF HandlePacket, QueuePacket, UserLeaves, NextMixLost, loginvars, mixvars
  <2> QED BY <2>1, <2>2, <2>3
<1>3. CASE FirstLeavesLoop \/ CloseMuxOut \/ JoinAcceptor
  <2>1. CASE FirstLeavesLoop BY <2>1 DEF FirstLeavesLoop, CleanGoes
  <2>2. CASE CloseMuxOut BY <2>2 DEF CloseMuxOut, CleanGoes
  <2>3. CASE JoinAcceptor BY <2>3 DEF JoinAcceptor, CleanGoes
  <2> QED BY <1>3, <2>1, <2>2, <2>3
<1>4. CASE DeletePool
  BY <1>4 DEF DeletePool, AllLoginsOver, CleanGoes
<1>5. CASE DeleteRest
  BY <1>5 DEF DeleteRest, CleanGoes
<1> QED BY <1>1, <1>2, <1>3, <1>4, <1>5 DEF FirstCleanStep

(* Every step of a first mix preserves the invariant.                      *)
LEMMA FirstStep == FirstInv /\ [FTNext]_ftvars => FirstInv'
<1>1. CASE UNCHANGED ftvars
  BY <1>1 DEF ftvars, FirstInv, FirstTypeOK, FirstMainKnows, OpenedAccounted
<1> QED BY <1>1, AcceptorKeeps, MixThreadsKeep, FirstMainKeeps DEF FTNext

(* What the main thread knows, and where the connections are, is enough.   *)
LEMMA FirstEnds == FirstInv => FirstMixCleansUp
BY DEF FirstInv, FirstTypeOK, FirstMainKnows, OpenedAccounted, FirstMixCleansUp,
       FirstMixUsesNothingDeleted, NobodyLeftOpen

(* The invariant holds in every reachable state.                           *)
LEMMA FirstInvariance == FTSpec => []FirstInv
BY FirstInit, FirstStep, PTL DEF FTSpec

(* In a first mix the pool, the lists and the connection to the next mix   *)
(* outlive the threads that use them, and clean() leaves no connection of  *)
(* a user open, wherever it was when the mix began to stop - for any size  *)
(* of the pool and of its queue.                                           *)
THEOREM FirstMixEndsInOrder == FTSpec => []FirstMixCleansUp
BY FirstEnds, FirstInvariance, PTL

-----------------------------------------------------------------------------
(* The status of a mix.                                                    *)

Stages ==
  [first |-> {"start", "init", "exchange", "starting", "announcing", "ready",
              "loop", "joining", "leaving", "clean"},
   middle |-> {"start", "init", "between", "exchange", "answered", "ready",
               "loop", "joining", "leaving", "clean"},
   last |-> {"start", "init", "exchange", "starting", "ready",
             "loop", "joining", "leaving", "clean"}]

(* Where the main thread is and what its threads do.                       *)
StatusTypeOK ==
  /\ role \in {"first", "middle", "last"} /\ stage \in Stages[role]
  /\ worker \in [Workers[role] -> {"off", "running", "stopping"}]
  /\ over \in BOOLEAN /\ signalled \in BOOLEAN /\ ai \in BOOLEAN
  /\ biErrors \in 0..CriticalErrors

(* The network status of a mix that has no connection, and of one that     *)
(* exchanges keys.                                                         *)
Fresh == [first |-> "firstMixInit", middle |-> "middleMixInit", last |-> "lastMixInit"]
Exchanging == [first |-> "firstMixConnectedToNext", middle |-> "middleMixConnectedToNext",
               last |-> "lastMixConnectedToPrev"]

(* Where the threads may run, and the status until one of them has         *)
(* reported the end of a connection.                                       *)
Threaded == \/ stage \in {"loop", "joining"}
            \/ role # "middle" /\ stage \in {"announcing", "ready"}
Up == IF stage = "announcing" THEN "firstMixConnectedToNext" ELSE Online[role]

AllRun == \A t \in Workers[role] : worker[t] = "running"

(* The status before the threads run and after they have ended.  A failed  *)
(* key exchange may leave a middle mix where it was, and the lack of a        *)
(* database a first mix.                                                   *)
NetFits ==
  /\ stage = "start" => net = "entry"
  /\ stage = "leaving" => net = Fresh[role]
  /\ stage \in {"init", "clean"} =>
       net = Fresh[role] \/ (role # "last" /\ net = Exchanging[role])
  /\ stage = "between" => net \in {"middleMixConnectedToPrev", "middleMixConnectedToNext"}
  /\ stage \in {"exchange", "answered"} => net = Exchanging[role]
  /\ stage = "starting" => net = IF role = "first" THEN Exchanging[role] ELSE Online[role]
  /\ stage = "ready" /\ role = "middle" => net = Online[role]

(* The threads and the status: as long as none has reported, all run, or a *)
(* reader is about to.                                                     *)
WorkersFit ==
  IF Threaded
  THEN /\ net \in {Up, Fresh[role]}
       /\ net = Up /\ over => \E t \in Workers[role] : t \in Readers /\ worker[t] = "stopping"
       /\ net = Up /\ ~over => AllRun
       /\ AllRun => net = Up /\ ~over
  ELSE AllOff

(* The system status: where the main thread is, or the signal.             *)
SysFits ==
  /\ signalled => stage # "start" /\ sys \in {"shuttingDown", "shuttingDownAfterSegFault"}
  /\ ~signalled =>
       /\ stage = "start" => sys = "entry"
       /\ stage \in {"loop", "joining", "leaving"} => sys = "operating"
       /\ stage \notin {"start", "loop", "joining", "leaving"} => sys \in {"initializing", "restarting"}

(* The payment status: is there an accounting instance, and has it failed  *)
(* too often?                                                              *)
NoAccounting == {"entry", "aiShutdown"}
Accounting == {"aiInit", "biAvailable", "biUnreachable", "biPermanentlyUnreachable", "dbError",
         "dbErrorBiUnreachable", "dbErrorBiPermanentlyUnreachable"}
ForGood == {"biPermanentlyUnreachable", "dbErrorBiPermanentlyUnreachable"}

PayFits ==
  /\ ai <=> role = "first" /\ stage \in {"announcing", "ready", "loop", "joining"}
  /\ ai => pay \in Accounting
  /\ ~ai => pay \in NoAccounting
  /\ pay \in ForGood => biErrors = CriticalErrors

StatusInv == StatusTypeOK /\ NetFits /\ WorkersFit /\ SysFits /\ PayFits

-----------------------------------------------------------------------------
(* The entries of the tables that the invariant rests on.                  *)
LEMMA FirstNet ==
  /\ Transition(NetTable, "entry", "firstMixInited") = "firstMixInit"
  /\ Transition(NetTable, "firstMixInit", "nextConnected") = "firstMixConnectedToNext"
  /\ Transition(NetTable, "firstMixConnectedToNext", "keyExchangeNextSuccessful") = "firstMixOnline"
  /\ Transition(NetTable, "firstMixInit", "keyExchangeNextSuccessful") = "firstMixInit"
  /\ Transition(NetTable, "firstMixConnectedToNext", "nextConnected") = "firstMixConnectedToNext"
  /\ \A s \in {"firstMixInit", "firstMixConnectedToNext", "firstMixOnline"} :
       Transition(NetTable, s, "nextConnectionClosed") = "firstMixInit"
BY DEF Transition, NetTable

LEMMA MiddleNet ==
  /\ Transition(NetTable, "entry", "middleMixInited") = "middleMixInit"
  /\ Transition(NetTable, "middleMixInit", "prevConnected") = "middleMixConnectedToPrev"
  /\ Transition(NetTable, "middleMixConnectedToPrev", "nextConnected") = "middleMixConnectedToNext"
  /\ Transition(NetTable, "middleMixConnectedToPrev", "prevConnectionClosed") = "middleMixInit"
  /\ \A e \in {"keyExchangeNextFailed", "keyExchangePrevFailed"} :
       Transition(NetTable, "middleMixConnectedToNext", e) = "middleMixInit"
  /\ \A e \in {"prevConnected", "nextConnected", "prevConnectionClosed", "keyExchangeNextSuccessful"} :
       Transition(NetTable, "middleMixConnectedToNext", e) = "middleMixConnectedToNext"
  /\ Transition(NetTable, "middleMixConnectedToNext", "keyExchangePrevSuccessful") = "middleMixOnline"
  /\ \A s \in {"middleMixInit", "middleMixOnline"} :
       /\ Transition(NetTable, s, "prevConnectionClosed") = "middleMixInit"
       /\ Transition(NetTable, s, "nextConnectionClosed") = "middleMixInit"
BY DEF Transition, NetTable

LEMMA LastNet ==
  /\ Transition(NetTable, "entry", "lastMixInited") = "lastMixInit"
  /\ Transition(NetTable, "lastMixInit", "prevConnected") = "lastMixConnectedToPrev"
  /\ Transition(NetTable, "lastMixConnectedToPrev", "keyExchangePrevFailed") = "lastMixInit"
  /\ Transition(NetTable, "lastMixConnectedToPrev", "keyExchangePrevSuccessful") = "lastMixOnline"
  /\ \A s \in {"lastMixInit", "lastMixOnline"} :
       Transition(NetTable, s, "prevConnectionClosed") = "lastMixInit"
BY DEF Transition, NetTable

LEMMA SysMoves ==
  /\ Transition(SysTable, "entry", "start") = "initializing"
  /\ \A s \in {"initializing", "restarting"} : Transition(SysTable, s, "enterMainLoop") = "operating"
  /\ Transition(SysTable, "operating", "leavingMainLoop") = "restarting"
  /\ \A s \in {"shuttingDown", "shuttingDownAfterSegFault"} :
       /\ Transition(SysTable, s, "enterMainLoop") = s
       /\ Transition(SysTable, s, "leavingMainLoop") = s
  /\ \A s \in {"initializing", "restarting", "operating", "shuttingDown", "shuttingDownAfterSegFault"} :
       \A e \in DOMAIN Terminating :
         Transition(SysTable, s, e) \in {"shuttingDown", "shuttingDownAfterSegFault"}
BY DEF Transition, SysTable, Terminating

LEMMA PayMoves ==
  /\ \A s \in NoAccounting : /\ Transition(PayTable, s, "aiInited") = "aiInit"
                        /\ Transition(PayTable, s, "aiShutdown") = s
  /\ \A s \in Accounting :
       /\ Transition(PayTable, s, "aiShutdown") = "aiShutdown"
       /\ \A e \in {"biConnectionFailure", "biConnectionCriticalSubseqFailures",
                    "dbConnectionSuccess", "dbConnectionFailure"} : Transition(PayTable, s, e) \in Accounting
       /\ \A e \in {"biConnectionFailure", "dbConnectionSuccess", "dbConnectionFailure"} :
            Transition(PayTable, s, e) \in ForGood => s \in ForGood
BY DEF Transition, PayTable, NoAccounting, Accounting, ForGood

-----------------------------------------------------------------------------
(* A mix that has not been created has no status.                          *)
LEMMA StatusInit == MSInit => StatusInv
<1> SUFFICES ASSUME MSInit PROVE StatusInv
  OBVIOUS
<1>1. biErrors \in 0..CriticalErrors BY StatusAssumption DEF MSInit
<1>2. stage \in Stages[role] BY DEF MSInit, Stages
<1>3. StatusTypeOK BY <1>1, <1>2 DEF MSInit, StatusTypeOK
<1>4. NetFits BY DEF MSInit, NetFits
<1>5. WorkersFit BY DEF MSInit, WorkersFit, Threaded, AllOff
<1>6. SysFits BY DEF MSInit, SysFits
<1>7. PayFits BY DEF MSInit, PayFits, NoAccounting, ForGood
<1> QED BY <1>3, <1>4, <1>5, <1>6, <1>7 DEF StatusInv

(* A step changes the threads, the flag and the position only as far as    *)
(* their types allow.                                                      *)
LEMMA StatusTyped == StatusInv /\ [MSNext]_msvars => StatusTypeOK'
<1> SUFFICES ASSUME StatusInv, [MSNext]_msvars PROVE StatusTypeOK'
  OBVIOUS
<1>0. StatusTypeOK BY DEF StatusInv
<1>1. CASE MainThread
  <2>1. role' = role /\ stage' \in Stages[role] /\ signalled' = signalled
    BY <1>0, <1>1 DEF StatusTypeOK, Stages, MainThread, MainGoes, Created, NoConnection, FirstConnects,
       FirstExchangeFails, FirstExchanged, NoDatabase, FirstStarts, FirstAnnounces, MiddleAccepts,
       MiddleFindsNoNext, MiddleConnects, MiddleExchangeFails, MiddleAnswered, MiddleExchanged,
       LastAccepts, LastExchangeFails, LastExchanged, LastStarts, EnterLoop, EndLoop, JoinWorkers,
       LeaveMainLoop, CleanUp
  <2>2. UNCHANGED <<worker, over>> \/ Runs
    BY <1>1 DEF MainThread, Quiet, Runs, Created, NoConnection, FirstConnects,
       FirstExchangeFails, FirstExchanged, NoDatabase, FirstStarts, FirstAnnounces, MiddleAccepts,
       MiddleFindsNoNext, MiddleConnects, MiddleExchangeFails, MiddleAnswered, MiddleExchanged,
       LastAccepts, LastExchangeFails, LastExchanged, LastStarts, EnterLoop, EndLoop, JoinWorkers,
       LeaveMainLoop, CleanUp
  <2>3. (ai' = ai /\ biErrors' = biErrors) \/ (ai' = TRUE /\ biErrors' = 0)
          \/ (ai' = FALSE /\ biErrors' = biErrors)
    BY <1>1 DEF MainThread, Quiet, payVars, ShutDownAccounting, Created, NoConnection, FirstConnects,
       FirstExchangeFails, FirstExchanged, NoDatabase, FirstStarts, FirstAnnounces, MiddleAccepts,
       MiddleFindsNoNext, MiddleConnects, MiddleExchangeFails, MiddleAnswered, MiddleExchanged,
       LastAccepts, LastExchangeFails, LastExchanged, LastStarts, EnterLoop, EndLoop, JoinWorkers,
       LeaveMainLoop, CleanUp
  <2>4. worker' \in [Workers[role] -> {"off", "running", "stopping"}] /\ over' \in BOOLEAN
    BY <1>0, <2>2 DEF StatusTypeOK, Runs
  <2>5. ai' \in BOOLEAN /\ biErrors' \in 0..CriticalErrors
    <3>1. ai' \in BOOLEAN BY <1>0, <2>3 DEF StatusTypeOK
    <3>2. biErrors' = biErrors \/ biErrors' = 0 BY <2>3
    <3>3. biErrors' \in 0..CriticalErrors BY <1>0, <3>2, StatusAssumption DEF StatusTypeOK
    <3> QED BY <3>1, <3>3
  <2> QED BY <1>0, <2>1, <2>4, <2>5 DEF StatusTypeOK
<1>2. CASE WorkerStep
  BY <1>0, <1>2 DEF StatusTypeOK, WorkerStep, ReaderLosesLink, ReaderReports, SenderLosesLink,
     SenderStops, Ends, Becomes, Aside, payVars
<1>3. CASE SettlementFails \/ DatabaseUsed
  <2>1. UNCHANGED <<role, stage, worker, over, signalled, ai>>
    BY <1>3 DEF SettlementFails, DatabaseUsed, BesidePay, threadVars
  <2>2. biErrors' \in 0..CriticalErrors
    BY <1>0, <1>3, StatusAssumption DEF SettlementFails, DatabaseUsed, StatusTypeOK
  <2> QED BY <1>0, <2>1, <2>2 DEF StatusTypeOK
<1>4. CASE Signal
  BY <1>0, <1>4 DEF StatusTypeOK, Signal, threadVars, payVars
<1>5. CASE UNCHANGED msvars
  BY <1>0, <1>5 DEF StatusTypeOK, msvars, threadVars, payVars
<1> QED BY <1>1, <1>2, <1>3, <1>4, <1>5 DEF MSNext

(* The system status follows the main thread, until a signal is caught.    *)
LEMMA SysKept == StatusInv /\ [MSNext]_msvars => SysFits'
<1> SUFFICES ASSUME StatusInv, [MSNext]_msvars PROVE SysFits'
  OBVIOUS
<1>0. StatusTypeOK /\ SysFits BY DEF StatusInv
<1>1. CASE UNCHANGED <<sys, signalled>> /\ (\/ stage' = stage
        \/ (stage # "start" /\ stage' # "start"
            /\ (stage \in {"loop", "joining", "leaving"} <=> stage' \in {"loop", "joining", "leaving"})))
  BY <1>0, <1>1 DEF SysFits
<1>8. UNCHANGED <<sys, signalled, stage>> => SysFits'
  BY <1>0 DEF SysFits
<1>2. CASE Created BY <1>0, <1>2, SysMoves DEF Created, SysFits, FireSys
<1>3. CASE EnterLoop BY <1>0, <1>3, SysMoves DEF EnterLoop, SysFits, FireSys
<1>4. CASE LeaveMainLoop BY <1>0, <1>4, SysMoves DEF LeaveMainLoop, SysFits, FireSys
<1>5. CASE Signal
  <2>1. stage' = stage /\ stage # "start" /\ signalled' = TRUE BY <1>5 DEF Signal, threadVars
  <2>2. sys \in {"initializing", "restarting", "operating", "shuttingDown", "shuttingDownAfterSegFault"}
    BY <1>0, <1>5 DEF Signal, SysFits, StatusTypeOK
  <2> QED BY <1>5, <2>1, <2>2, SysMoves DEF Signal, SysFits, FireSys
<1>6. CASE MainThread /\ ~Created /\ ~EnterLoop /\ ~LeaveMainLoop
  <2>1. UNCHANGED <<sys, signalled>> /\ stage # "start" /\ stage' # "start"
           /\ (stage \in {"loop", "joining", "leaving"} <=> stage' \in {"loop", "joining", "leaving"})
    BY <1>6 DEF MainThread, MainGoes, NoConnection, FirstConnects,
       FirstExchangeFails, FirstExchanged, NoDatabase, FirstStarts, FirstAnnounces, MiddleAccepts,
       MiddleFindsNoNext, MiddleConnects, MiddleExchangeFails, MiddleAnswered, MiddleExchanged,
       LastAccepts, LastExchangeFails, LastExchanged, LastStarts, EndLoop, JoinWorkers, CleanUp
  <2> QED BY <1>1, <2>1
<1>7. CASE WorkerStep \/ SettlementFails \/ DatabaseUsed \/ UNCHANGED msvars
  <2>1. CASE WorkerStep
    BY <1>8, <2>1 DEF WorkerStep, ReaderLosesLink, ReaderReports, SenderLosesLink, SenderStops, Ends, Aside
  <2>2. CASE SettlementFails \/ DatabaseUsed
    BY <1>8, <2>2 DEF SettlementFails, DatabaseUsed, BesidePay, threadVars
  <2>3. CASE UNCHANGED msvars
    BY <1>8, <2>3 DEF msvars, threadVars
  <2> QED BY <1>7, <2>1, <2>2, <2>3
<1> QED BY <1>2, <1>3, <1>4, <1>5, <1>6, <1>7 DEF MSNext

(* The payment status follows the accounting instance.                     *)
LEMMA PayKept == StatusInv /\ [MSNext]_msvars => PayFits'
<1> SUFFICES ASSUME StatusInv, [MSNext]_msvars PROVE PayFits'
  OBVIOUS
<1>0. StatusTypeOK /\ PayFits BY DEF StatusInv
<1> DEFINE Has(r, s) == r = "first" /\ s \in {"announcing", "ready", "loop", "joining"}
<1>1. CASE UNCHANGED payVars /\ (Has(role, stage) <=> Has(role', stage'))
  BY <1>0, <1>1 DEF PayFits, payVars
<1>2. CASE FirstStarts
  <2>1. role = "first" /\ role' = "first" /\ stage = "starting" /\ stage' = "announcing"
        /\ ai' = TRUE /\ FirePay("aiInited")
    BY <1>2 DEF FirstStarts, MainGoes
  <2>2. pay \in NoAccounting BY <1>0, <2>1 DEF PayFits
  <2>3. pay' = "aiInit" BY <2>1, <2>2, PayMoves DEF FirePay
  <2> QED BY <2>1, <2>3 DEF PayFits, Accounting, ForGood
<1>3. CASE JoinWorkers \/ CleanUp
  <2>1. role' = role /\ stage' \in {"leaving", "init"} /\ ShutDownAccounting
    BY <1>3 DEF JoinWorkers, CleanUp, MainGoes
  <2>2. stage \in {"joining", "clean"} BY <1>3 DEF JoinWorkers, CleanUp, MainGoes
  <2>3. CASE role = "first"
    <3>1. ai' = FALSE /\ FirePay("aiShutdown") BY <2>1, <2>3 DEF ShutDownAccounting
    <3>2. pay \in Accounting \cup NoAccounting BY <1>0 DEF PayFits, StatusTypeOK
    <3>3. pay' \in NoAccounting BY <3>1, <3>2, PayMoves DEF FirePay, NoAccounting
    <3> QED BY <2>1, <3>1, <3>3 DEF PayFits, NoAccounting, ForGood
  <2>4. CASE role # "first"
    BY <1>0, <2>1, <2>4 DEF ShutDownAccounting, PayFits, payVars
  <2> QED BY <2>3, <2>4
<1>4. CASE SettlementFails
  <2>1. ai /\ UNCHANGED <<role, stage, ai>> BY <1>4 DEF SettlementFails, BesidePay, threadVars
  <2>2. pay \in Accounting BY <1>0, <2>1 DEF PayFits
  <2>3. CASE biErrors' >= CriticalErrors
    <3>1. pay' \in Accounting BY <1>4, <2>2, <2>3, PayMoves DEF SettlementFails, FirePay
    <3>2. biErrors' = CriticalErrors
      BY <1>0, <1>4, <2>3, StatusAssumption DEF SettlementFails, StatusTypeOK
    <3> QED BY <1>0, <2>1, <3>1, <3>2 DEF PayFits
  <2>4. CASE ~ (biErrors' >= CriticalErrors)
    <3>1. pay' = Transition(PayTable, pay, "biConnectionFailure")
      BY <1>4, <2>4 DEF SettlementFails, FirePay
    <3>2. pay' \in Accounting /\ (pay' \in ForGood => pay \in ForGood) BY <2>2, <3>1, PayMoves
    <3>3. pay \notin ForGood
      BY <1>0, <1>4, <2>4, StatusAssumption DEF SettlementFails, PayFits, StatusTypeOK
    <3> QED BY <1>0, <2>1, <3>2, <3>3 DEF PayFits
  <2> QED BY <2>3, <2>4
<1>5. CASE DatabaseUsed
  <2>1. ai /\ UNCHANGED <<role, stage, ai, biErrors>> BY <1>5 DEF DatabaseUsed, BesidePay, threadVars
  <2>2. pay \in Accounting BY <1>0, <2>1 DEF PayFits
  <2>3. pay' \in Accounting /\ (pay' \in ForGood => pay \in ForGood)
    BY <1>5, <2>2, PayMoves DEF DatabaseUsed, FirePay
  <2> QED BY <1>0, <2>1, <2>3 DEF PayFits
<1>6. CASE MainThread /\ ~FirstStarts /\ ~JoinWorkers /\ ~CleanUp
  <2>1. UNCHANGED payVars /\ (Has(role, stage) <=> Has(role', stage'))
    BY <1>6 DEF MainThread, MainGoes, Quiet, Created, NoConnection, FirstConnects,
       FirstExchangeFails, FirstExchanged, NoDatabase, FirstAnnounces, MiddleAccepts,
       MiddleFindsNoNext, MiddleConnects, MiddleExchangeFails, MiddleAnswered, MiddleExchanged,
       LastAccepts, LastExchangeFails, LastExchanged, LastStarts, EnterLoop, EndLoop, LeaveMainLoop
  <2> QED BY <1>1, <2>1
<1>7. CASE WorkerStep \/ Signal \/ UNCHANGED msvars
  BY <1>1, <1>7 DEF WorkerStep, ReaderLosesLink, ReaderReports, SenderLosesLink, SenderStops, Ends,
     Aside, Signal, msvars, threadVars
<1> QED BY <1>2, <1>3, <1>4, <1>5, <1>6, <1>7 DEF MSNext

-----------------------------------------------------------------------------
(* A report of a thread that ends takes the status back, whichever it is   *)
(* and whoever has reported before.                                        *)
LEMMA ReportsEnd ==
  ASSUME StatusTypeOK, Threaded, net \in {Up, Fresh[role]}, NEW t \in Workers[role]
  PROVE  Transition(NetTable, net, ClosedEvent(t)) = Fresh[role] /\ Up # Fresh[role]
<1>1. CASE role = "first"
  BY <1>1, FirstNet DEF StatusTypeOK, Threaded, Up, Fresh, Online, Workers, ClosedEvent
<1>2. CASE role = "middle"
  BY <1>2, MiddleNet DEF StatusTypeOK, Threaded, Up, Fresh, Online, Workers, ClosedEvent
<1>3. CASE role = "last"
  <2>1. stage # "announcing" BY <1>3 DEF StatusTypeOK, Stages
  <2> QED BY <1>3, <2>1, LastNet DEF Up, Fresh, Online, Workers, ClosedEvent
<1> QED BY <1>1, <1>2, <1>3 DEF StatusTypeOK

(* A thread runs only where threads do.                                    *)
LEMMA WorkersKeep ==
  ASSUME StatusInv, WorkerStep
  PROVE  NetFits' /\ WorkersFit'
<1>0. StatusTypeOK /\ NetFits /\ WorkersFit BY DEF StatusInv
<1>1. role' = role /\ stage' = stage
  BY DEF WorkerStep, ReaderLosesLink, ReaderReports, SenderLosesLink, SenderStops, Ends, Aside
<1>2. Threaded' = Threaded /\ Up' = Up BY <1>1 DEF Threaded, Up
<1>3. PICK t \in Workers[role] :
        ReaderLosesLink(t) \/ ReaderReports(t) \/ SenderLosesLink(t) \/ SenderStops(t) \/ Ends(t)
  BY DEF WorkerStep
<1>4. worker[t] # "off"
  BY <1>3 DEF ReaderLosesLink, ReaderReports, SenderLosesLink, SenderStops, Ends
<1>5. Threaded BY <1>0, <1>4 DEF WorkersFit, AllOff
<1>6. /\ net \in {Up, Fresh[role]}
      /\ net = Up /\ over => \E u \in Workers[role] : u \in Readers /\ worker[u] = "stopping"
      /\ net = Up /\ ~over => AllRun
      /\ AllRun => net = Up /\ ~over
  BY <1>0, <1>5 DEF WorkersFit
<1>7. Transition(NetTable, net, ClosedEvent(t)) = Fresh[role] /\ Up # Fresh[role]
  BY <1>0, <1>5, <1>6, ReportsEnd
<1>8. worker \in [Workers[role] -> {"off", "running", "stopping"}] /\ over \in BOOLEAN
  BY <1>0 DEF StatusTypeOK
<1>9. net' \in {net, Fresh[role]}
  BY <1>3, <1>7 DEF ReaderLosesLink, ReaderReports, SenderLosesLink, SenderStops, Ends, FireNet
<1>10. ~AllRun'
  <2>1. worker'[t] # "running"
    BY <1>3, <1>8 DEF ReaderLosesLink, ReaderReports, SenderLosesLink, SenderStops, Ends, Becomes
  <2> QED BY <1>1, <2>1 DEF AllRun
<1>11. net' = Up => over' /\ \E u \in Workers[role] : u \in Readers /\ worker'[u] = "stopping"
  <2> SUFFICES ASSUME net' = Up
               PROVE  over' /\ \E u \in Workers[role] : u \in Readers /\ worker'[u] = "stopping"
    OBVIOUS
  <2>1. net = Up BY <1>6, <1>7, <1>9
  <2>2. CASE ReaderLosesLink(t) BY <1>8, <2>2 DEF ReaderLosesLink, Becomes
  <2>3. CASE ReaderReports(t) BY <1>7, <2>3 DEF ReaderReports, FireNet
  <2>4. CASE SenderLosesLink(t) BY <1>7, <2>4 DEF SenderLosesLink, FireNet
  <2>5. CASE SenderStops(t)
    <3>1. worker[t] = "stopping" /\ t \notin Readers BY <2>5 DEF SenderStops
    <3>2. over BY <1>6, <2>1, <3>1 DEF AllRun
    <3>3. PICK u \in Workers[role] : u \in Readers /\ worker[u] = "stopping" BY <1>6, <2>1, <3>2
    <3>4. over' /\ worker'[u] = "stopping" BY <1>8, <2>5, <3>1, <3>2, <3>3 DEF SenderStops, Becomes
    <3> QED BY <3>3, <3>4
  <2>6. CASE Ends(t)
    <3>1. over /\ worker[t] = "running" BY <2>6 DEF Ends
    <3>2. PICK u \in Workers[role] : u \in Readers /\ worker[u] = "stopping" BY <1>6, <2>1, <3>1
    <3>3. over' /\ worker'[u] = "stopping" BY <1>8, <2>6, <3>1, <3>2 DEF Ends, Becomes
    <3> QED BY <3>2, <3>3
  <2> QED BY <1>3, <2>2, <2>3, <2>4, <2>5, <2>6
<1>12. WorkersFit'
  BY <1>1, <1>2, <1>5, <1>6, <1>9, <1>10, <1>11 DEF WorkersFit
<1>13. NetFits'
  <2>1. stage \in {"announcing", "loop", "joining"} \/ (stage = "ready" /\ role # "middle")
    BY <1>5 DEF Threaded
  <2>2. /\ stage' \notin {"start", "leaving", "init", "clean", "between", "exchange", "answered", "starting"}
        /\ ~ (stage' = "ready" /\ role' = "middle")
    BY <1>1, <2>1
  <2> QED BY <2>2 DEF NetFits
<1> QED BY <1>12, <1>13

(* The main thread before the threads run and after they have ended.       *)
LEMMA QuietMain ==
  ASSUME StatusInv,
         \/ Created \/ NoConnection \/ FirstConnects \/ FirstExchangeFails \/ FirstExchanged \/ NoDatabase
         \/ MiddleAccepts \/ MiddleFindsNoNext \/ MiddleConnects \/ MiddleExchangeFails \/ MiddleAnswered
         \/ MiddleExchanged \/ LastAccepts \/ LastExchangeFails \/ LastExchanged \/ LeaveMainLoop \/ CleanUp
  PROVE  NetFits' /\ WorkersFit'
<1>0. StatusTypeOK /\ NetFits /\ WorkersFit BY DEF StatusInv
<1>1. role \in {"first", "middle", "last"} BY <1>0 DEF StatusTypeOK
<1>2. /\ role' = role /\ ~Threaded /\ ~Threaded' /\ UNCHANGED worker
  BY <1>1 DEF Threaded, MainGoes, Quiet, Created, NoConnection, FirstConnects,
     FirstExchangeFails, FirstExchanged, NoDatabase, MiddleAccepts,
     MiddleFindsNoNext, MiddleConnects, MiddleExchangeFails, MiddleAnswered, MiddleExchanged,
     LastAccepts, LastExchangeFails, LastExchanged, LeaveMainLoop, CleanUp
<1>3. WorkersFit' BY <1>0, <1>2 DEF WorkersFit, AllOff
<1>4. NetFits'
  <2>1. CASE Created
    <3>1. stage = "start" /\ stage' = "init" /\ net = "entry" BY <1>0, <2>1 DEF Created, NetFits
    <3>2. net' = Fresh[role]
      BY <1>1, <2>1, <3>1, FirstNet, MiddleNet, LastNet DEF Created, FireNet, Fresh
    <3> QED BY <1>2, <3>1, <3>2 DEF NetFits
  <2>2. CASE NoConnection BY <1>0, <1>2, <2>2 DEF NoConnection, MainGoes, NetFits
  <2>3. CASE FirstConnects
    BY <1>0, <1>2, <2>3, FirstNet DEF FirstConnects, MainGoes, FireNet, NetFits, Fresh, Exchanging
  <2>4. CASE FirstExchangeFails
    BY <1>0, <1>2, <2>4, FirstNet DEF FirstExchangeFails, MainGoes, FireNet, NetFits, Fresh, Exchanging
  <2>5. CASE FirstExchanged BY <1>0, <1>2, <2>5 DEF FirstExchanged, MainGoes, NetFits
  <2>6. CASE NoDatabase
    BY <1>0, <1>2, <2>6 DEF NoDatabase, MainGoes, NetFits, Fresh, Exchanging
  <2>7. CASE MiddleAccepts
    BY <1>0, <1>2, <2>7, MiddleNet DEF MiddleAccepts, MainGoes, FireNet, NetFits, Fresh, Exchanging
  <2>8. CASE MiddleFindsNoNext
    BY <1>0, <1>2, <2>8, MiddleNet DEF MiddleFindsNoNext, MainGoes, FireNet, NetFits, Fresh, Exchanging
  <2>9. CASE MiddleConnects
    BY <1>0, <1>2, <2>9, MiddleNet DEF MiddleConnects, MainGoes, FireNet, NetFits, Fresh, Exchanging
  <2>10. CASE MiddleExchangeFails
    BY <1>0, <1>2, <2>10, MiddleNet DEF MiddleExchangeFails, MainGoes, FireNet, NetFits, Fresh, Exchanging
  <2>11. CASE MiddleAnswered
    BY <1>0, <1>2, <2>11, MiddleNet DEF MiddleAnswered, MainGoes, FireNet, NetFits, Fresh, Exchanging
  <2>12. CASE MiddleExchanged
    BY <1>0, <1>2, <2>12, MiddleNet DEF MiddleExchanged, MainGoes, FireNet, NetFits, Exchanging, Online
  <2>13. CASE LastAccepts
    BY <1>0, <1>2, <2>13, LastNet DEF LastAccepts, MainGoes, FireNet, NetFits, Fresh, Exchanging
  <2>14. CASE LastExchangeFails
    BY <1>0, <1>2, <2>14, LastNet DEF LastExchangeFails, MainGoes, FireNet, NetFits, Fresh, Exchanging
  <2>15. CASE LastExchanged
    BY <1>0, <1>2, <2>15, LastNet DEF LastExchanged, MainGoes, FireNet, NetFits, Exchanging, Online
  <2>16. CASE LeaveMainLoop BY <1>0, <1>2, <2>16 DEF LeaveMainLoop, NetFits
  <2>17. CASE CleanUp
    <3>1. stage = "clean" /\ stage' = "init" BY <2>17 DEF CleanUp, MainGoes
    <3>2. CASE role = "last"
      BY <1>0, <1>2, <2>17, <3>1, <3>2, LastNet DEF CleanUp, MainGoes, FireNet, NetFits, Fresh
    <3>3. CASE role # "last"
      BY <1>0, <1>2, <2>17, <3>1, <3>3 DEF CleanUp, MainGoes, NetFits
    <3> QED BY <3>2, <3>3
  <2> QED BY <2>1, <2>2, <2>3, <2>4, <2>5, <2>6, <2>7, <2>8, <2>9, <2>10, <2>11, <2>12, <2>13, <2>14,
             <2>15, <2>16, <2>17
<1> QED BY <1>3, <1>4

(* The main thread with the threads: it starts them, goes on while they    *)
(* run, and waits for them.                                                *)
LEMMA BusyMain ==
  ASSUME StatusInv,
         FirstStarts \/ FirstAnnounces \/ LastStarts \/ EnterLoop \/ EndLoop \/ JoinWorkers
  PROVE  NetFits' /\ WorkersFit'
<1>0. StatusTypeOK /\ NetFits /\ WorkersFit BY DEF StatusInv
<1>1. role \in {"first", "middle", "last"} /\ over \in BOOLEAN BY <1>0 DEF StatusTypeOK
<1>2. Up # Fresh[role] BY <1>1 DEF Up, Fresh, Online
<1>3. role' = role
  BY DEF FirstStarts, FirstAnnounces, LastStarts, EnterLoop, EndLoop, JoinWorkers, MainGoes
<1>4. CASE FirstStarts \/ LastStarts \/ (EnterLoop /\ role = "middle")
  <2>1. /\ worker' = [t \in Workers[role] |-> "running"] /\ over' = FALSE /\ net' = net
    BY <1>4 DEF FirstStarts, LastStarts, EnterLoop, MainGoes, Runs
  <2>2. AllRun' BY <1>3, <2>1 DEF AllRun
  <2>3. stage' = (IF role = "first" THEN "announcing" ELSE IF role = "last" THEN "ready" ELSE "loop")
    BY <1>4 DEF FirstStarts, LastStarts, EnterLoop, MainGoes
  <2>4. net = (IF role = "first" THEN "firstMixConnectedToNext" ELSE Online[role])
    BY <1>0, <1>1, <1>4 DEF FirstStarts, LastStarts, EnterLoop, MainGoes, NetFits, Exchanging
  <2>5. Threaded' /\ Up' = net' BY <1>1, <1>3, <2>1, <2>3, <2>4 DEF Threaded, Up
  <2>6. WorkersFit' BY <2>1, <2>2, <2>5 DEF WorkersFit
  <2>7. NetFits' BY <1>1, <1>3, <2>3 DEF NetFits
  <2> QED BY <2>6, <2>7
<1>5. CASE FirstAnnounces \/ EndLoop \/ (EnterLoop /\ role # "middle")
  <2>1. Threaded /\ Threaded' /\ UNCHANGED <<worker, over>>
    BY <1>3, <1>5 DEF FirstAnnounces, EnterLoop, EndLoop, MainGoes, Quiet, Threaded
  <2>2. AllRun' = AllRun BY <1>3, <2>1 DEF AllRun
  <2>3. /\ net \in {Up, Fresh[role]}
        /\ net = Up /\ over => \E u \in Workers[role] : u \in Readers /\ worker[u] = "stopping"
        /\ net = Up /\ ~over => AllRun
        /\ AllRun => net = Up /\ ~over
    BY <1>0, <2>1 DEF WorkersFit
  <2>4. Up' # Fresh[role]' BY <1>1, <1>3 DEF Up, Fresh, Online
  <2>5. \/ net' \in {Up', Fresh[role]} /\ (net' = Up' <=> net = Up)
        \/ net' = Fresh[role] /\ over
    <3>1. CASE FirstAnnounces
      <4>1. role = "first" /\ Up = "firstMixConnectedToNext" /\ Up' = "firstMixOnline"
        BY <1>3, <3>1 DEF FirstAnnounces, MainGoes, Up, Online
      <4> QED BY <2>3, <3>1, <4>1, FirstNet DEF FirstAnnounces, MainGoes, FireNet, Fresh
    <3>2. CASE EndLoop
      <4>1. Up' = Up /\ over BY <1>3, <3>2 DEF EndLoop, MainGoes, Up
      <4>2. CASE role = "last"
        BY <2>3, <3>2, <4>1, <4>2, LastNet DEF EndLoop, MainGoes, FireNet, Fresh, Online, Up
      <4>3. CASE role # "last" BY <2>3, <3>2, <4>1, <4>3 DEF EndLoop, MainGoes
      <4> QED BY <4>2, <4>3
    <3>3. CASE EnterLoop
      <4>1. Up' = Up /\ net' = net BY <1>3, <3>3 DEF EnterLoop, Up
      <4> QED BY <2>3, <4>1
    <3> QED BY <1>5, <3>1, <3>2, <3>3
  <2>6. WorkersFit' BY <1>3, <2>1, <2>2, <2>3, <2>4, <2>5 DEF WorkersFit
  <2>7. stage' \in {"ready", "loop", "joining"} /\ (stage' = "ready" => role' # "middle")
    BY <1>3, <1>5 DEF FirstAnnounces, EnterLoop, EndLoop, MainGoes
  <2>8. NetFits' BY <2>7 DEF NetFits
  <2> QED BY <2>6, <2>8
<1>6. CASE JoinWorkers
  <2>1. stage = "joining" /\ stage' = "leaving" /\ AllOff /\ UNCHANGED <<net, worker>>
    BY <1>6 DEF JoinWorkers, MainGoes
  <2>2. Threaded /\ ~Threaded' BY <2>1 DEF Threaded
  <2>3. net \in {Up, Fresh[role]} /\ net # Up
    <3>1. \E t \in Workers[role] : TRUE BY <1>1 DEF Workers
    <3> QED BY <1>0, <1>1, <2>1, <2>2, <3>1 DEF WorkersFit, AllOff, AllRun
  <2>4. WorkersFit' BY <1>3, <2>1, <2>2 DEF WorkersFit, AllOff
  <2>5. NetFits' BY <1>3, <2>1, <2>3 DEF NetFits
  <2> QED BY <2>4, <2>5
<1> QED BY <1>4, <1>5, <1>6

(* Every step preserves the invariant.                                     *)
LEMMA StatusStep == StatusInv /\ [MSNext]_msvars => StatusInv'
<1> SUFFICES ASSUME StatusInv, [MSNext]_msvars PROVE StatusInv'
  OBVIOUS
<1>1. StatusTypeOK' /\ SysFits' /\ PayFits' BY StatusTyped, SysKept, PayKept
<1>2. ASSUME UNCHANGED <<role, stage, worker, over, net>> PROVE NetFits' /\ WorkersFit'
  BY <1>2 DEF StatusInv, NetFits, WorkersFit, Threaded, Up, AllRun, AllOff
<1>3. WorkerStep => NetFits' /\ WorkersFit' BY WorkersKeep
<1>4. MainThread => NetFits' /\ WorkersFit' BY QuietMain, BusyMain DEF MainThread
<1>5. SettlementFails \/ DatabaseUsed \/ Signal \/ UNCHANGED msvars => NetFits' /\ WorkersFit'
  BY <1>2 DEF SettlementFails, DatabaseUsed, Signal, BesidePay, threadVars, msvars
<1>6. NetFits' /\ WorkersFit' BY <1>3, <1>4, <1>5 DEF MSNext
<1> QED BY <1>1, <1>6 DEF StatusInv

(* The invariant says more than the property.                              *)
LEMMA InvTells == StatusInv => StatusTells
<1> SUFFICES ASSUME StatusInv PROVE StatusTells
  OBVIOUS
<1>0. StatusTypeOK /\ NetFits /\ WorkersFit /\ SysFits /\ PayFits BY DEF StatusInv
<1>1. (stage = "loop" /\ ~over /\ \A t \in Workers[role] : worker[t] = "running") => net = Online[role]
  BY <1>0 DEF WorkersFit, Threaded, AllRun, Up
<1>2. net = Online[role] => stage \in {"starting", "ready", "loop", "joining"}
  <2>1. CASE Threaded
    <3>1. net \in {Up, Fresh[role]} BY <1>0, <2>1 DEF WorkersFit
    <3>2. stage = "announcing" => role = "first" BY <1>0 DEF StatusTypeOK, Stages
    <3> QED BY <1>0, <2>1, <3>1, <3>2 DEF StatusTypeOK, Threaded, Up, Fresh, Online
  <2>2. CASE ~Threaded
    BY <1>0, <2>2 DEF StatusTypeOK, Stages, NetFits, Threaded, Fresh, Exchanging, Online
  <2> QED BY <2>1, <2>2
<1>3. ~signalled => (sys = "operating" <=> stage \in {"loop", "joining", "leaving"})
  BY <1>0 DEF SysFits
<1>4. signalled => sys \in {Terminating[e] : e \in DOMAIN Terminating}
  <2>1. /\ "sigTerm" \in DOMAIN Terminating /\ Terminating["sigTerm"] = "shuttingDown"
        /\ "sigSegV" \in DOMAIN Terminating /\ Terminating["sigSegV"] = "shuttingDownAfterSegFault"
    BY DEF Terminating
  <2> HIDE DEF Terminating
  <2> QED BY <1>0, <2>1 DEF SysFits
<1>5. ai <=> pay \notin {"entry", "aiShutdown"}
  BY <1>0 DEF PayFits, Accounting, NoAccounting
<1>6. pay \in {"biPermanentlyUnreachable", "dbErrorBiPermanentlyUnreachable"} => biErrors = CriticalErrors
  BY <1>0 DEF PayFits, ForGood
<1> QED BY <1>1, <1>2, <1>3, <1>4, <1>5, <1>6 DEF StatusTells

(* The operator is told where the mix is: for every number of failures     *)
(* that counts as critical, whichever threads report the end of a          *)
(* connection, and in whatever order (MONITORING_FIRE_NET_EVENT and its    *)
(* kin all over the three kinds of mix).                                   *)
THEOREM OperatorIsTold == MSSpec => []StatusTells
<1>1. MSInit => StatusInv BY StatusInit
<1>2. StatusInv /\ [MSNext]_msvars => StatusInv' BY StatusStep
<1>3. StatusInv => StatusTells BY InvTells
<1> QED BY <1>1, <1>2, <1>3, PTL DEF MSSpec

-----------------------------------------------------------------------------
(* The lives side by side.                                                 *)

(* A behaviour of the cascade without the key exchange keeps no keys.      *)
SubjectsInv == LastInv /\ FirstInv /\ (subject = "keys" => KXInv)

(* Every life begins where its component does.                             *)
LEMMA SubjectsInit == MCInit => SubjectsInv
BY LastInit, FirstInit, KXInitHolds DEF MCInit, SubjectsInv

(* Every step is one of the component that is looked at.                   *)
LEMMA SubjectsStep ==
  SubjectsInv /\ [MCNext]_<<vars, lmvars, ftvars, cvars, kxvars, kvars, msvars, subject>>
    => SubjectsInv'
<1> SUFFICES ASSUME SubjectsInv,
                    [MCNext]_<<vars, lmvars, ftvars, cvars, kxvars, kvars, msvars, subject>>
             PROVE  SubjectsInv'
  OBVIOUS
<1>1. [LMNext]_lmvars BY DEF MCNext
<1>2. [FTNext]_ftvars BY DEF MCNext
<1>3. subject' = subject /\ (subject = "keys" => [KXNext]_<<cvars, kxvars>>) BY DEF MCNext
<1> QED BY <1>1, <1>2, <1>3, LastStep, FirstStep, KXStepKeeps DEF SubjectsInv

(* When clean() of a first or a last mix is over, nothing it has deleted   *)
(* is in use and no connection is left open (CALastMix::clean() and        *)
(* CAFirstMix::clean()).                                                   *)
THEOREM MixesEndInOrder == MCSpec => []MixesCleanUp
<1>1. SubjectsInv => MixesCleanUp BY LastEnds, FirstEnds DEF SubjectsInv, MixesCleanUp
<1> QED BY <1>1, SubjectsInit, SubjectsStep, PTL DEF MCSpec

(* Two neighbouring mixes that are joined by a live connection use the     *)
(* same keys, each for the direction the other uses it for, and when both  *)
(* are on line they have accepted each other (processKeyExchange() and     *)
(* three kinds of mix).                                                    *)
THEOREM NeighboursAlwaysFit == MCSpec => []NeighboursFit
<1>1. SubjectsInv => NeighboursFit BY InvGivesKeys DEF SubjectsInv, NeighboursFit
<1> QED BY <1>1, SubjectsInit, SubjectsStep, PTL DEF MCSpec
=============================================================================

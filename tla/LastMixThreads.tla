---------------------------- MODULE LastMixThreads ----------------------------
(***************************************************************************)
(* The life of a last mix.  Its threads do not share the work as those of  *)
(* a middle mix do (MiddleMixThreads): one reads packets of the previous   *)
(* mix into a queue, the main loop takes them out, serves the proxies and  *)
(* puts the answers into a second queue, and a sender empties that queue.  *)
(* Only the reader tells the others to stop; a sender that fails just      *)
(* ends.  loop() ends with clean(), and start() calls clean() once more.   *)
(* What the main loop does with a packet is the subject of LastMixA.       *)
(***************************************************************************)
EXTENDS Naturals, Sequences

CONSTANTS
  MaxRead,   (* MAX_READ_FROM_PREV_MIX_QUEUE_SIZE, in packets              *)
  MaxSend    (* bound: answers in the send queue                           *)

ASSUME LastThreadsAssumption == MaxRead \in Nat /\ MaxSend \in Nat

VARIABLES
  restart,    (* m_bRestart                                                *)
  lmain,      (* where the main thread is                                  *)
  reader,     (* where lm_loopReadFromMix is                               *)
  sender,     (* where lm_loopSendToMix is                                 *)
  readQueue,  (* packets in m_pQueueReadFromMix                            *)
  sendQueue,  (* m_pQueueSendToMix                                         *)
  taken,      (* the element the sender took from its queue                *)
  exist,      (* do the queues and the channel list exist?                 *)
  muxIn,      (* m_pMuxIn: none, open or closed                            *)
  link        (* does the previous mix still answer?                       *)

lmvars == <<restart, lmain, reader, sender, readQueue, sendQueue, taken, exist, muxIn, link>>

LMInit ==
  /\ restart = FALSE /\ lmain = "init"
  /\ reader = "done" /\ sender = "done"
  /\ readQueue = 0 /\ sendQueue = <<>> /\ taken = "dummy"
  /\ exist = FALSE /\ muxIn = "none" /\ link = TRUE

-----------------------------------------------------------------------------
(* lm_loopReadFromMix().  While its queue is too long it sleeps, and time  *)
(* does not count against the previous mix.                                *)
CanRead == reader = "top" /\ ~restart /\ readQueue <= MaxRead

ReadPacket ==
  /\ CanRead /\ link /\ muxIn = "open"
  /\ reader' = "add"
  /\ UNCHANGED <<restart, lmain, sender, readQueue, sendQueue, taken, exist, muxIn, link>>

AddPacket ==
  /\ reader = "add"
  /\ readQueue' = readQueue + 1 /\ reader' = "top"
  /\ UNCHANGED <<restart, lmain, sender, sendQueue, taken, exist, muxIn, link>>

(* receive() fails, or nothing came for as long as the keep-alive traffic  *)
(* of the previous mix allows.  Nothing else sets the flag while the mix   *)
(* runs, so the test of the flag never ends the reader.                    *)
ReadFails ==
  /\ CanRead /\ ~link
  /\ restart' = TRUE /\ reader' = "done"
  /\ UNCHANGED <<lmain, sender, readQueue, sendQueue, taken, exist, muxIn, link>>

LastReaderStep == ReadPacket \/ AddPacket \/ ReadFails

-----------------------------------------------------------------------------
(* lm_loopSendToMix(): the flag is read before the wait and not after it.  *)
SenderWaits ==
  /\ sender = "top"
  /\ sender' = IF restart THEN "done" ELSE "wait"
  /\ UNCHANGED <<restart, lmain, reader, readQueue, sendQueue, taken, exist, muxIn, link>>

(* getOrWait() hands out the size of a packet, and what is left of a       *)
(* larger element later; less than a packet ends the thread.               *)
SenderTakes ==
  /\ sender = "wait" /\ sendQueue # <<>>
  /\ taken' = Head(sendQueue) /\ sendQueue' = Tail(sendQueue)
  /\ sender' = IF Head(sendQueue) = "rest" THEN "done" ELSE "send"
  /\ UNCHANGED <<restart, lmain, reader, readQueue, exist, muxIn, link>>

(* E_TIMEDOUT: a dummy keeps the connection alive.                         *)
SenderTimesOut ==
  /\ sender = "wait" /\ sendQueue = <<>>
  /\ taken' = "dummy" /\ sender' = "send"
  /\ UNCHANGED <<restart, lmain, reader, readQueue, sendQueue, exist, muxIn, link>>

(* send() fails on a closed socket, and sooner or later when the previous  *)
(* mix is gone.                                                            *)
SenderSends ==
  /\ sender = "send"
  /\ \/ muxIn = "open" /\ sender' = "top"
     \/ (muxIn = "closed" \/ ~link) /\ sender' = "done"
  /\ UNCHANGED <<restart, lmain, reader, readQueue, sendQueue, taken, exist, muxIn, link>>

LastSenderGoesOn == SenderWaits \/ SenderTakes \/ SenderSends

-----------------------------------------------------------------------------
(* The main thread.                                                        *)

(* init() waits for the previous mix, exchanges keys, creates the queues   *)
(* and starts the threads.                                                 *)
InitLast ==
  /\ lmain = "init"
  /\ muxIn' = "open" /\ exist' = TRUE /\ restart' = FALSE /\ link' = TRUE
  /\ readQueue' = 0 /\ sendQueue' = <<>>
  /\ reader' = "top" /\ sender' = "top" /\ lmain' = "loop"
  /\ UNCHANGED taken

(* It may fail before or after the connection; start() cleans up.          *)
InitLastFails ==
  /\ lmain = "init"
  /\ muxIn' \in {"none", "open"}
  /\ lmain' = "again"
  /\ UNCHANGED <<restart, reader, sender, readQueue, sendQueue, taken, exist, link>>

(* A turn of the main loop: a packet is taken, or a proxy answers while    *)
(* there is room in the send queue.                                        *)
TakePacket ==
  /\ lmain = "loop" /\ readQueue > 0
  /\ readQueue' = readQueue - 1
  /\ UNCHANGED <<restart, lmain, reader, sender, sendQueue, taken, exist, muxIn, link>>

AnswerUser ==
  /\ lmain = "loop" /\ Len(sendQueue) < MaxSend
  /\ sendQueue' = Append(sendQueue, "packet")
  /\ UNCHANGED <<restart, lmain, reader, sender, readQueue, taken, exist, muxIn, link>>

LeaveLoop ==
  /\ lmain = "loop" /\ restart
  /\ lmain' = "close"
  /\ UNCHANGED <<restart, reader, sender, readQueue, sendQueue, taken, exist, muxIn, link>>

(* m_pMuxIn->close(), before the sender is woken.                          *)
MuxInClosed == "closed"

CloseMuxIn ==
  /\ lmain = "close"
  /\ restart' = TRUE /\ muxIn' = MuxInClosed
  /\ lmain' = "wake"
  /\ UNCHANGED <<reader, sender, readQueue, sendQueue, taken, exist, link>>

(* Variant: nothing is put into the queue.                                 *)
WakeNobody ==
  /\ lmain = "wake"
  /\ lmain' = "join"
  /\ UNCHANGED <<restart, reader, sender, readQueue, sendQueue, taken, exist, muxIn, link>>

(* One byte more than a packet wakes the sender, in two pieces.            *)
WakeSender ==
  /\ lmain = "wake"
  /\ sendQueue' = sendQueue \o <<"bytes", "rest">>
  /\ lmain' = "join"
  /\ UNCHANGED <<restart, reader, sender, readQueue, taken, exist, muxIn, link>>

(* Variant: only the reader is joined.                                     *)
ReaderJoined == reader = "done"

BothJoined == sender = "done" /\ reader = "done"

DeleteAll ==
  /\ lmain = "join" /\ BothJoined
  /\ exist' = FALSE /\ muxIn' = "none"
  /\ readQueue' = 0 /\ sendQueue' = <<>>
  /\ lmain' = "again"
  /\ UNCHANGED <<restart, reader, sender, taken, link>>

(* The clean() of start(): no thread and no queue is left.                 *)
CleanAgain ==
  /\ lmain = "again"
  /\ restart' = TRUE /\ muxIn' = "none"
  /\ lmain' = "init"
  /\ UNCHANGED <<reader, sender, readQueue, sendQueue, taken, exist, link>>

CleanStep == LeaveLoop \/ CloseMuxIn \/ WakeSender \/ DeleteAll \/ CleanAgain

(* The previous mix ends, or the connection to it is lost.                 *)
LinkLost ==
  /\ lmain = "loop" /\ link
  /\ link' = FALSE
  /\ UNCHANGED <<restart, lmain, reader, sender, readQueue, sendQueue, taken, exist, muxIn>>

LMNext ==
  \/ LastReaderStep \/ LastSenderGoesOn \/ SenderTimesOut
  \/ InitLast \/ InitLastFails \/ TakePacket \/ AnswerUser \/ CleanStep
  \/ LinkLost

(* The threads run; the main loop takes packets out and looks at the flag. *)
(* No answer of a proxy is needed, no init() has to succeed, and no wait   *)
(* has to time out: not every build has timed waits.                       *)
LMFairness ==
  /\ WF_lmvars(LastReaderStep)
  /\ WF_lmvars(LastSenderGoesOn)
  /\ WF_lmvars(TakePacket)
  /\ WF_lmvars(CleanStep)

LMSpec == LMInit /\ [][LMNext]_lmvars /\ LMFairness

-----------------------------------------------------------------------------
(* clean() deletes the queues and the connection only after both threads   *)
(* have ended, whichever of them ended first.                              *)
LastMixUsesNothingDeleted ==
  reader # "done" \/ sender # "done" => exist /\ muxIn # "none"

(* The bytes that wake the sender are as long as a packet, and the sender  *)
(* passes them to send(): by then the connection is closed, so that the    *)
(* previous mix never gets them.                                           *)
WakeupFindsClosed ==
  sender = "send" /\ taken = "bytes" => muxIn = "closed"

(* Cleaning up pulls nothing away from a thread and sends nothing by it.   *)
LastMixCleansUp == LastMixUsesNothingDeleted /\ WakeupFindsClosed

(* When the previous mix is lost, the last mix starts over, even if its    *)
(* sender has ended long before and its read queue was full.               *)
LinkLossRestarts == (lmain = "loop" /\ ~link) ~> lmain = "init"
=============================================================================

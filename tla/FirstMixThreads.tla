--------------------------- MODULE FirstMixThreads ---------------------------
(***************************************************************************)
(* The life of a first mix: a thread accepts connections and hands each of *)
(* them to a pool of login threads, one thread sends packets to the next   *)
(* mix and one reads from it, and the main loop does the rest.  clean()    *)
(* ends them one after the other and deletes what they shared; meanwhile   *)
(* those still to come go on, and users still log in.                      *)
(* Counting of the connections is the subject of AcceptUsers, the pool     *)
(* that of CAThreadPool, and the main loop that of FirstMixA.              *)
(***************************************************************************)
EXTENDS Naturals, Sequences

CONSTANTS
  MaxFromNext,   (* MAX_READ_FROM_NEXT_MIX_QUEUE_SIZE, in packets          *)
  MaxToNext,     (* bound: packets in the send queue                       *)
  MaxLogins,     (* NUM_LOGIN_WORKER_TRHEADS                               *)
  MaxRequests,   (* MAX_LOGIN_QUEUE                                        *)
  MaxOpen        (* bound: connections open at once                        *)

ASSUME FirstThreadsAssumption ==
  /\ MaxFromNext \in Nat /\ MaxToNext \in Nat
  /\ MaxLogins \in Nat \ {0} /\ MaxRequests \in Nat \ {0} /\ MaxOpen \in Nat

VARIABLES
  stopping,    (* m_bRestart                                               *)
  fmain,       (* where the main thread is                                 *)
  acceptor,    (* where fm_loopAcceptUsers is                              *)
  fromNext,    (* where fm_loopReadFromMix is                              *)
  toNext,      (* where fm_loopSendToMix is                                *)
  requests,    (* login requests that wait in the pool                     *)
  logins,      (* login threads at work                                    *)
  loggedIn,    (* users in the channel list                                *)
  opened,      (* connections of users that are open                       *)
  fromQueue,   (* packets in m_pQueueReadFromMix                           *)
  toQueue,     (* m_pQueueSendToMix                                        *)
  parts,       (* what exists: "login" is the pool; "users" the lists and  *)
               (* socket groups; "mix" the connection, its queues and its  *)
               (* control channel dispatcher                               *)
  muxOut,      (* is the connection to the next mix open here?             *)
  nextMix      (* and there?                                               *)

ftvars == <<stopping, fmain, acceptor, fromNext, toNext, requests, logins, loggedIn,
            opened, fromQueue, toQueue, parts, muxOut, nextMix>>
loginvars == <<requests, logins, loggedIn, opened>>
mixvars   == <<fromNext, toNext, fromQueue, toQueue>>

FTInit ==
  /\ stopping = FALSE /\ fmain = "init"
  /\ acceptor = "done" /\ fromNext = "done" /\ toNext = "done"
  /\ requests = 0 /\ logins = 0 /\ loggedIn = 0 /\ opened = 0
  /\ fromQueue = 0 /\ toQueue = <<>>
  /\ parts = {} /\ muxOut = FALSE /\ nextMix = TRUE

-----------------------------------------------------------------------------
(* fm_loopAcceptUsers() and the login threads                              *)

AcceptorGoes(to) ==
  /\ acceptor' = to
  /\ UNCHANGED <<stopping, fmain, mixvars, parts, muxOut, nextMix>>

(* The server sockets are closed and created again, which may fail.        *)
AcceptorStarts ==
  /\ acceptor = "start"
  /\ \E to \in {"top", "done"} : AcceptorGoes(to)
  /\ UNCHANGED loginvars

AcceptorTop ==
  /\ acceptor = "top"
  /\ AcceptorGoes(IF stopping THEN "done" ELSE "select")
  /\ UNCHANGED loginvars

(* Nobody connects for ten seconds, or select() fails.                     *)
NobodyConnects ==
  /\ acceptor = "select"
  /\ \E to \in {"top", "done"} :
       /\ stopping => to = "done"
       /\ AcceptorGoes(to)
  /\ UNCHANGED loginvars

UserConnects ==
  /\ acceptor = "select" /\ opened < MaxOpen
  /\ opened' = opened + 1
  /\ AcceptorGoes("request")
  /\ UNCHANGED <<requests, logins, loggedIn>>

(* addRequest() waits while the queue of the pool is full.                 *)
RequestLogin ==
  /\ acceptor = "request" /\ requests < MaxRequests
  /\ requests' = requests + 1
  /\ AcceptorGoes("top")
  /\ UNCHANGED <<logins, loggedIn, opened>>

AcceptorStep == AcceptorStarts \/ AcceptorTop \/ NobodyConnects \/ UserConnects \/ RequestLogin

LoginBegins ==
  /\ requests > 0 /\ logins < MaxLogins
  /\ requests' = requests - 1 /\ logins' = logins + 1
  /\ UNCHANGED <<loggedIn, opened>>

(* doUserLogin() does not look at the flag: its receives time out.         *)
LoginSucceeded ==
  /\ logins > 0
  /\ logins' = logins - 1 /\ loggedIn' = loggedIn + 1
  /\ UNCHANGED <<requests, opened>>

LoginFailed ==
  /\ logins > 0
  /\ logins' = logins - 1 /\ opened' = opened - 1
  /\ UNCHANGED <<requests, loggedIn>>

LoginStep ==
  /\ LoginBegins \/ LoginSucceeded \/ LoginFailed
  /\ UNCHANGED <<stopping, fmain, acceptor, mixvars, parts, muxOut, nextMix>>

-----------------------------------------------------------------------------
(* fm_loopReadFromMix() and fm_loopSendToMix()                             *)

CanReadNext == fromNext = "top" /\ ~stopping /\ fromQueue <= MaxFromNext

(* A packet of a channel goes into the queue, one of a control channel to  *)
(* the dispatcher.                                                         *)
ReadFromNext ==
  /\ CanReadNext /\ muxOut /\ nextMix
  /\ fromNext' = "use"
  /\ UNCHANGED <<stopping, fmain, acceptor, loginvars, toNext, fromQueue, toQueue, parts, muxOut, nextMix>>

UseFromNext ==
  /\ fromNext = "use"
  /\ fromNext' = "top" /\ fromQueue' \in {fromQueue, fromQueue + 1}
  /\ UNCHANGED <<stopping, fmain, acceptor, loginvars, toNext, toQueue, parts, muxOut, nextMix>>

(* receive() fails, or nothing came for the keep-alive interval.           *)
NextMixGone ==
  /\ CanReadNext /\ ~nextMix
  /\ stopping' = TRUE /\ fromNext' = "done"
  /\ UNCHANGED <<fmain, acceptor, loginvars, toNext, fromQueue, toQueue, parts, muxOut, nextMix>>

(* The test of the loop: clean() has set the flag.                         *)
ReaderEnds ==
  /\ fromNext = "top" /\ stopping
  /\ fromNext' = "done"
  /\ UNCHANGED <<stopping, fmain, acceptor, loginvars, toNext, fromQueue, toQueue, parts, muxOut, nextMix>>

FromNextStep == ReadFromNext \/ UseFromNext \/ NextMixGone \/ ReaderEnds

SenderAsks ==
  /\ toNext = "top"
  /\ toNext' = IF stopping THEN "done" ELSE "wait"
  /\ UNCHANGED <<fromQueue, fromNext, toQueue>>

(* Less than an element ends the thread.                                   *)
SenderGets ==
  /\ toNext = "wait" /\ toQueue # <<>>
  /\ toNext' = IF Head(toQueue) = "rest" THEN "done" ELSE "send"
  /\ toQueue' = Tail(toQueue)
  /\ UNCHANGED <<fromQueue, fromNext>>

(* send() fails on a closed connection, and some time after it was lost.   *)
SenderPuts ==
  /\ toNext = "send"
  /\ \/ muxOut /\ toNext' = "top"
     \/ (~muxOut \/ ~nextMix) /\ toNext' = "done"
  /\ UNCHANGED <<fromQueue, fromNext, toQueue>>

ToNextStep ==
  /\ SenderAsks \/ SenderGets \/ SenderPuts
  /\ UNCHANGED <<stopping, fmain, acceptor, loginvars, parts, muxOut, nextMix>>

(* E_TIMEDOUT: a dummy.                                                    *)
DummyDue ==
  /\ toNext = "wait" /\ toQueue = <<>>
  /\ toNext' = "send"
  /\ UNCHANGED <<stopping, fmain, acceptor, loginvars, fromQueue, fromNext, toQueue, parts, muxOut, nextMix>>

-----------------------------------------------------------------------------
(* init(), the main loop and clean(), of the main thread                   *)

InitFirst ==
  /\ fmain = "init"
  /\ stopping' = FALSE /\ parts' = {"login", "users", "mix"}
  /\ muxOut' = TRUE /\ nextMix' = TRUE
  /\ acceptor' = "start" /\ fromNext' = "top" /\ toNext' = "top"
  /\ fmain' = "loop"
  /\ UNCHANGED <<loginvars, fromQueue, toQueue>>

(* No next mix, no keys, or no database: no thread was started.            *)
InitFirstFails ==
  /\ fmain = "init"
  /\ stopping' = FALSE /\ parts' \in {{}, {"users", "mix"}}
  /\ muxOut' \in BOOLEAN
  /\ fmain' = "close"
  /\ UNCHANGED <<acceptor, loginvars, mixvars, nextMix>>

(* A packet of the next mix is handled, or a user's put into the queue.    *)
HandlePacket ==
  /\ fmain = "loop" /\ fromQueue > 0
  /\ fromQueue' = fromQueue - 1
  /\ UNCHANGED <<stopping, fmain, acceptor, loginvars, fromNext, toNext, toQueue, parts, muxOut, nextMix>>

QueuePacket ==
  /\ fmain = "loop" /\ Len(toQueue) < MaxToNext
  /\ toQueue' = Append(toQueue, "packet")
  /\ UNCHANGED <<stopping, fmain, acceptor, loginvars, fromNext, toNext, fromQueue, parts, muxOut, nextMix>>

UserLeaves ==
  /\ fmain = "loop" /\ loggedIn > 0
  /\ loggedIn' = loggedIn - 1 /\ opened' = opened - 1
  /\ UNCHANGED <<stopping, fmain, acceptor, requests, logins, mixvars, parts, muxOut, nextMix>>

CleanGoes(from, to) ==
  /\ fmain = from /\ fmain' = to
  /\ UNCHANGED <<acceptor, fromNext, toNext, requests, logins, nextMix>>

FirstLeavesLoop ==
  /\ stopping /\ CleanGoes("loop", "close")
  /\ UNCHANGED <<stopping, loggedIn, opened, fromQueue, toQueue, parts, muxOut>>

(* Variant: nothing is put into the queue.                                 *)
NoBytes == <<>>

(* One byte more than an element; the sender takes them in two pieces.     *)
WakeBytes == <<"bytes", "rest">>

(* The connection is closed first, then the sender is woken.               *)
CloseMuxOut ==
  /\ CleanGoes("close", "accept")
  /\ stopping' = TRUE /\ muxOut' = FALSE
  /\ toQueue' = IF "mix" \in parts THEN toQueue \o WakeBytes ELSE toQueue
  /\ UNCHANGED <<loggedIn, opened, fromQueue, parts>>

(* Variant: the requests that wait are not run.                            *)
NobodyAtWork == logins = 0

AllLoginsOver == logins = 0 /\ requests = 0

(* m_pthreadAcceptUsers->join(); delete m_pthreadsLogin, which returns     *)
(* when the last request has been run.                                     *)
JoinAcceptor ==
  /\ acceptor = "done"
  /\ CleanGoes("accept", "logins")
  /\ UNCHANGED <<stopping, loggedIn, opened, fromQueue, toQueue, parts, muxOut>>

DeletePool ==
  /\ AllLoginsOver
  /\ CleanGoes("logins", "threads")
  /\ parts' = parts \ {"login"}
  /\ UNCHANGED <<stopping, loggedIn, opened, fromQueue, toQueue, muxOut>>

(* The sender and the reader are joined; the connection, the lists and the *)
(* queues are deleted and the users that are left are closed.  The second  *)
(* clean(), by start(), finds nothing.                                     *)
DeleteRest ==
  /\ toNext = "done" /\ fromNext = "done"
  /\ CleanGoes("threads", "init")
  /\ parts' = {} /\ fromQueue' = 0 /\ toQueue' = <<>>
  /\ opened' = opened - loggedIn /\ loggedIn' = 0
  /\ UNCHANGED <<stopping, muxOut>>

FirstCleanStep ==
  FirstLeavesLoop \/ CloseMuxOut \/ JoinAcceptor \/ DeletePool \/ DeleteRest

(* The next mix ends or its connection is lost.                            *)
NextMixLost ==
  /\ fmain = "loop" /\ nextMix
  /\ nextMix' = FALSE
  /\ UNCHANGED <<stopping, fmain, acceptor, loginvars, mixvars, parts, muxOut>>

FTNext ==
  \/ AcceptorStep \/ LoginStep \/ FromNextStep \/ ToNextStep \/ DummyDue
  \/ InitFirst \/ InitFirstFails \/ HandlePacket \/ QueuePacket \/ UserLeaves
  \/ FirstCleanStep \/ NextMixLost

(* Threads run, logins end, and select() of the acceptor returns; nothing  *)
(* needs a timed wait, a packet or a user.                                 *)
FTFairness ==
  /\ WF_ftvars(AcceptorStep) /\ WF_ftvars(LoginStep)
  /\ WF_ftvars(FromNextStep) /\ WF_ftvars(ToNextStep)
  /\ WF_ftvars(HandlePacket) /\ WF_ftvars(FirstCleanStep)

FTSpec == FTInit /\ [][FTNext]_ftvars /\ FTFairness

-----------------------------------------------------------------------------
FirstMixUsesNothingDeleted ==
  /\ acceptor # "done" \/ requests + logins > 0 => {"login", "users"} \subseteq parts
  /\ fromNext # "done" \/ toNext # "done" => "mix" \in parts

NobodyLeftOpen == fmain = "init" => opened = 0 /\ loggedIn = 0

(* clean() deletes what a thread uses only after the thread has ended, and *)
(* closes every connection that was accepted: those still in the queue of  *)
(* the pool or in their login when it began, and those accepted since.     *)
FirstMixCleansUp == FirstMixUsesNothingDeleted /\ NobodyLeftOpen

(* When the next mix is lost the first mix starts over, with any number of *)
(* users logging in meanwhile, and even if its sender ended long before.   *)
FirstMixRestarts == (fmain = "loop" /\ ~nextMix) ~> fmain = "init"
=============================================================================

------------------------------- MODULE MixStatus -------------------------------
(***************************************************************************)
(* The status a mix reports to its operator (builds with                   *)
(* SERVER_MONITORING).  Three state machines, for the network, the         *)
(* payment and the whole system, are driven by events that the main        *)
(* thread, the threads of the connections and the settlements fire as they *)
(* go; an event the present state does not know is ignored.  The tables    *)
(* are those of monitoringDefs.h.  What the threads do besides is the      *)
(* subject of MiddleMixThreads, LastMixThreads and FirstMixThreads.        *)
(***************************************************************************)
EXTENDS Naturals

CONSTANT CriticalErrors  (* CRITICAL_SUBSEQUENT_BI_CONN_ERRORS             *)

ASSUME StatusAssumption == CriticalErrors \in Nat \ {0}

VARIABLES
  role,      (* first, middle or last mix                                  *)
  stage,     (* where the main thread is                                   *)
  worker,    (* the threads that fire events: off, running or stopping     *)
  over,      (* m_bRestart, or m_bRun in a middle mix: are they to end?    *)
  net,       (* the networking status                                      *)
  sys,       (* the system status                                          *)
  pay,       (* the payment status                                         *)
  signalled, (* has a signal to terminate been caught?                     *)
  ai,        (* does the accounting instance exist?                        *)
  biErrors   (* m_seqBIConnErrors, up to CriticalErrors                    *)

threadVars == <<role, stage, worker, over>>
payVars == <<pay, ai, biErrors>>
msvars == <<threadVars, net, sys, signalled, payVars>>

-----------------------------------------------------------------------------
NetTable ==
  [entry |-> [firstMixInited |-> "firstMixInit", middleMixInited |-> "middleMixInit", lastMixInited |-> "lastMixInit"],
   firstMixInit |-> [nextConnected |-> "firstMixConnectedToNext"],
   firstMixConnectedToNext |->
     [keyExchangeNextSuccessful |-> "firstMixOnline", nextConnectionClosed |-> "firstMixInit"],
   firstMixOnline |-> [nextConnectionClosed |-> "firstMixInit"],
   middleMixInit |-> [prevConnected |-> "middleMixConnectedToPrev"],
   middleMixConnectedToPrev |->
     [nextConnected |-> "middleMixConnectedToNext", prevConnectionClosed |-> "middleMixInit"],
   middleMixConnectedToNext |->
     [keyExchangeNextFailed |-> "middleMixInit", keyExchangePrevFailed |-> "middleMixInit",
      keyExchangeNextSuccessful |-> "middleMixConnectedToNext", keyExchangePrevSuccessful |-> "middleMixOnline"],
   middleMixOnline |-> [prevConnectionClosed |-> "middleMixInit", nextConnectionClosed |-> "middleMixInit"],
   lastMixInit |-> [prevConnected |-> "lastMixConnectedToPrev"],
   lastMixConnectedToPrev |-> [keyExchangePrevFailed |-> "lastMixInit", keyExchangePrevSuccessful |-> "lastMixOnline"],
   lastMixOnline |-> [prevConnectionClosed |-> "lastMixInit"]]

Terminating == [sigTerm |-> "shuttingDown", sigInt |-> "shuttingDown", sigSegV |-> "shuttingDownAfterSegFault"]

SysTable ==
  [entry |-> [start |-> "initializing"],
   initializing |-> [e \in {"enterMainLoop"} \cup DOMAIN Terminating |->
                       IF e = "enterMainLoop" THEN "operating" ELSE Terminating[e]],
   operating |-> [e \in {"leavingMainLoop"} \cup DOMAIN Terminating |->
                    IF e = "leavingMainLoop" THEN "restarting" ELSE Terminating[e]],
   restarting |-> [e \in {"enterMainLoop"} \cup DOMAIN Terminating |->
                     IF e = "enterMainLoop" THEN "operating" ELSE Terminating[e]],
   shuttingDown |-> [sigSegV |-> "shuttingDownAfterSegFault"],
   shuttingDownAfterSegFault |-> <<>>]

PayTable ==
  [entry |-> [aiInited |-> "aiInit"],
   aiInit |-> [aiShutdown |-> "aiShutdown", biConnectionSuccess |-> "biAvailable",
               biConnectionFailure |-> "biUnreachable", dbConnectionFailure |-> "dbError"],
   aiShutdown |-> [aiInited |-> "aiInit"],
   biAvailable |-> [aiShutdown |-> "aiShutdown", biConnectionFailure |-> "biUnreachable",
                    dbConnectionFailure |-> "dbError"],
   biUnreachable |-> [aiShutdown |-> "aiShutdown", biConnectionSuccess |-> "biAvailable",
                      biConnectionCriticalSubseqFailures |-> "biPermanentlyUnreachable",
                      dbConnectionFailure |-> "dbErrorBiUnreachable"],
   biPermanentlyUnreachable |-> [aiShutdown |-> "aiShutdown", biConnectionSuccess |-> "biAvailable",
                                 dbConnectionFailure |-> "dbErrorBiPermanentlyUnreachable"],
   dbError |-> [aiShutdown |-> "aiShutdown", dbConnectionSuccess |-> "aiInit"],
   dbErrorBiUnreachable |-> [aiShutdown |-> "aiShutdown", dbConnectionSuccess |-> "biUnreachable"],
   dbErrorBiPermanentlyUnreachable |->
     [aiShutdown |-> "aiShutdown", dbConnectionSuccess |-> "biPermanentlyUnreachable"]]

(* transition(): the state e leads to, or the same state when the table    *)
(* has nothing for it.                                                     *)
Transition(table, s, e) == IF e \in DOMAIN table[s] THEN table[s][e] ELSE s

FireNet(e) == net' = Transition(NetTable, net, e)
FireSys(e) == sys' = Transition(SysTable, sys, e)
FirePay(e) == pay' = Transition(PayTable, pay, e)

-----------------------------------------------------------------------------
Readers == {"readPrev", "readNext"}
Workers == [first |-> {"readNext"}, middle |-> {"readPrev", "readNext", "sendPrev", "sendNext"},
            last |-> {"readPrev", "sendPrev"}]

(* Variant: the report of the other end is copied.                         *)
CopiedEvent(t) == "prevConnectionClosed"

ClosedEvent(t) == IF t \in {"readNext", "sendNext"} THEN "nextConnectionClosed" ELSE "prevConnectionClosed"

MSInit ==
  /\ role \in {"first", "middle", "last"} /\ stage = "start"
  /\ worker = [t \in Workers[role] |-> "off"] /\ over = FALSE
  /\ net = "entry" /\ sys = "entry" /\ pay = "entry"
  /\ signalled = FALSE /\ ai = FALSE /\ biErrors = 0

(* The main thread goes on to `to`, firing the network event e, or none.   *)
MainGoes(from, to, e) ==
  /\ stage = from /\ stage' = to
  /\ IF e = "none" THEN UNCHANGED net ELSE FireNet(e)
  /\ UNCHANGED <<role, sys, signalled>>

Quiet == UNCHANGED <<worker, over, payVars>>

Runs == worker' = [t \in Workers[role] |-> "running"] /\ over' = FALSE
AllOff == \A t \in Workers[role] : worker[t] = "off"

(* The program creates the mix.                                            *)
Created ==
  /\ stage = "start" /\ stage' = "init"
  /\ FireSys("start")
  /\ FireNet([first |-> "firstMixInited", middle |-> "middleMixInited", last |-> "lastMixInited"][role])
  /\ UNCHANGED <<role, signalled>> /\ Quiet

(* init() of the three mixes, connection by connection.  Several ways to   *)
(* fail fire nothing: no listener, no connection, no database, and in a    *)
(* middle mix a key of the wrong length, a bad certificate or an           *)
(* incompatible neighbour.                                                 *)
NoConnection == MainGoes("init", "clean", "none") /\ Quiet

FirstConnects == role = "first" /\ MainGoes("init", "exchange", "nextConnected") /\ Quiet
FirstExchangeFails == role = "first" /\ MainGoes("exchange", "clean", "nextConnectionClosed") /\ Quiet
FirstExchanged == role = "first" /\ MainGoes("exchange", "starting", "none") /\ Quiet
NoDatabase == role = "first" /\ MainGoes("starting", "clean", "none") /\ Quiet

(* The threads run before the mix says that the key exchange succeeded.    *)
FirstStarts ==
  /\ role = "first" /\ MainGoes("starting", "announcing", "none") /\ Runs
  /\ ai' = TRUE /\ FirePay("aiInited") /\ biErrors' = 0

FirstAnnounces == role = "first" /\ MainGoes("announcing", "ready", "keyExchangeNextSuccessful") /\ Quiet

MiddleAccepts == role = "middle" /\ MainGoes("init", "between", "prevConnected") /\ Quiet
MiddleFindsNoNext == role = "middle" /\ MainGoes("between", "clean", "prevConnectionClosed") /\ Quiet
MiddleConnects == role = "middle" /\ MainGoes("between", "exchange", "nextConnected") /\ Quiet

MiddleExchangeFails ==
  /\ role = "middle"
  /\ \/ \E e \in {"keyExchangeNextFailed", "none"} : MainGoes("exchange", "clean", e)
     \/ \E e \in {"keyExchangePrevFailed", "none"} : MainGoes("answered", "clean", e)
  /\ Quiet

MiddleAnswered == role = "middle" /\ MainGoes("exchange", "answered", "keyExchangeNextSuccessful") /\ Quiet
MiddleExchanged == role = "middle" /\ MainGoes("answered", "ready", "keyExchangePrevSuccessful") /\ Quiet

LastAccepts == role = "last" /\ MainGoes("init", "exchange", "prevConnected") /\ Quiet
LastExchangeFails == role = "last" /\ MainGoes("exchange", "clean", "keyExchangePrevFailed") /\ Quiet
LastExchanged == role = "last" /\ MainGoes("exchange", "starting", "keyExchangePrevSuccessful") /\ Quiet
LastStarts == role = "last" /\ MainGoes("starting", "ready", "none") /\ Runs /\ UNCHANGED payVars

(* start() enters loop(), in which a middle mix starts its threads.        *)
EnterLoop ==
  /\ stage = "ready" /\ stage' = "loop"
  /\ FireSys("enterMainLoop")
  /\ IF role = "middle" THEN Runs ELSE UNCHANGED <<worker, over>>
  /\ UNCHANGED <<role, net, signalled, payVars>>

(* loop() ends with clean() in a first and a last mix; every mix waits for *)
(* its threads there.                                                      *)
EndLoop ==
  /\ over
  /\ MainGoes("loop", "joining", IF role = "last" THEN "prevConnectionClosed" ELSE "none")
  /\ Quiet

ShutDownAccounting ==
  IF role = "first" THEN ai' = FALSE /\ FirePay("aiShutdown") /\ UNCHANGED biErrors ELSE UNCHANGED payVars

JoinWorkers == AllOff /\ MainGoes("joining", "leaving", "none") /\ ShutDownAccounting /\ UNCHANGED <<worker, over>>

LeaveMainLoop ==
  /\ stage = "leaving" /\ stage' = "clean"
  /\ FireSys("leavingMainLoop")
  /\ UNCHANGED <<role, net, signalled>> /\ Quiet

CleanUp ==
  /\ MainGoes("clean", "init", IF role = "last" THEN "prevConnectionClosed" ELSE "none")
  /\ ShutDownAccounting /\ UNCHANGED <<worker, over>>

-----------------------------------------------------------------------------
(* The threads.  A reader that finds its connection gone sets the flag and *)
(* then fires; a sender fires first, and only in a middle mix it sets the  *)
(* flag then.                                                              *)
Becomes(t, s) == worker' = [worker EXCEPT ![t] = s]
Aside == UNCHANGED <<role, stage, sys, signalled, payVars>>

ReaderLosesLink(t) ==
  /\ t \in Readers /\ worker[t] = "running"
  /\ over' = TRUE /\ Becomes(t, "stopping")
  /\ UNCHANGED net /\ Aside

ReaderReports(t) ==
  /\ t \in Readers /\ worker[t] = "stopping"
  /\ FireNet(ClosedEvent(t)) /\ Becomes(t, "off")
  /\ UNCHANGED over /\ Aside

SenderLosesLink(t) ==
  /\ t \notin Readers /\ worker[t] = "running"
  /\ FireNet(ClosedEvent(t)) /\ Becomes(t, "stopping")
  /\ UNCHANGED over /\ Aside

SenderStops(t) ==
  /\ t \notin Readers /\ worker[t] = "stopping"
  /\ Becomes(t, "off") /\ over' = (over \/ role = "middle")
  /\ UNCHANGED net /\ Aside

(* A thread sees the flag another has set.  The sender to the next mix of  *)
(* a middle mix fires once more when it was waiting for a packet.          *)
Ends(t) ==
  /\ over /\ worker[t] = "running" /\ Becomes(t, "off")
  /\ UNCHANGED net \/ (t = "sendNext" /\ FireNet(ClosedEvent(t)))
  /\ UNCHANGED over /\ Aside

WorkerStep ==
  \E t \in Workers[role] :
    ReaderLosesLink(t) \/ ReaderReports(t) \/ SenderLosesLink(t) \/ SenderStops(t) \/ Ends(t)

-----------------------------------------------------------------------------
(* The settlements of the first mix.  The transaction all of them use      *)
(* counts and reports its failures.  One that reaches the payment instance *)
(* neither reports it nor begins to count anew, so it is no step here.     *)
BesidePay == ai /\ UNCHANGED <<threadVars, net, sys, signalled, ai>>

SettlementFails ==
  /\ BesidePay
  /\ biErrors' = IF biErrors = CriticalErrors THEN biErrors ELSE biErrors + 1
  /\ FirePay(IF biErrors' >= CriticalErrors THEN "biConnectionCriticalSubseqFailures" ELSE "biConnectionFailure")

(* Whoever takes a connection to the database, or uses it, says whether it *)
(* works.                                                                  *)
DatabaseUsed ==
  /\ BesidePay
  /\ \E e \in {"dbConnectionSuccess", "dbConnectionFailure"} : FirePay(e)
  /\ UNCHANGED biErrors

(* signal_term(), signal_interrupt() and signal_segv(), in whatever thread *)
(* they interrupt.  The way down that begins there is not followed: the    *)
(* other threads go on until the process exits.                            *)
Signal ==
  /\ stage # "start" /\ signalled' = TRUE
  /\ \E e \in DOMAIN Terminating : FireSys(e)
  /\ UNCHANGED <<threadVars, net, payVars>>

MainThread ==
  \/ Created \/ NoConnection
  \/ FirstConnects \/ FirstExchangeFails \/ FirstExchanged \/ NoDatabase \/ FirstStarts \/ FirstAnnounces
  \/ MiddleAccepts \/ MiddleFindsNoNext \/ MiddleConnects \/ MiddleExchangeFails \/ MiddleAnswered \/ MiddleExchanged
  \/ LastAccepts \/ LastExchangeFails \/ LastExchanged \/ LastStarts
  \/ EnterLoop \/ EndLoop \/ JoinWorkers \/ LeaveMainLoop \/ CleanUp

MSNext == MainThread \/ WorkerStep \/ SettlementFails \/ DatabaseUsed \/ Signal

MSSpec == MSInit /\ [][MSNext]_msvars

-----------------------------------------------------------------------------
Online == [first |-> "firstMixOnline", middle |-> "middleMixOnline", last |-> "lastMixOnline"]

(* The operator is told where the mix is, after any number of restarts and *)
(* whichever threads fired the events of the last end: a mix whose threads *)
(* all run is reported on line, and none is that is connecting or has      *)
(* taken its threads down.  The system is reported as operating exactly    *)
(* while loop() runs, and as shutting down from the first signal on; the   *)
(* payment as running exactly while the accounting instance exists, with   *)
(* the payment instance permanently unreachable only when CriticalErrors   *)
(* settlements of this accounting instance have failed.  (These are added  *)
(* up over its whole life.)                                                *)
StatusTells ==
  /\ (stage = "loop" /\ ~over /\ \A t \in Workers[role] : worker[t] = "running") => net = Online[role]
  /\ net = Online[role] => stage \in {"starting", "ready", "loop", "joining"}
  /\ ~signalled => (sys = "operating" <=> stage \in {"loop", "joining", "leaving"})
  /\ signalled => sys \in {Terminating[e] : e \in DOMAIN Terminating}
  /\ ai <=> pay \notin {"entry", "aiShutdown"}
  /\ pay \in {"biPermanentlyUnreachable", "dbErrorBiPermanentlyUnreachable"} => biErrors = CriticalErrors
=============================================================================

------------------------------- MODULE Cascade -------------------------------
(***************************************************************************)
(* A cascade comes up, breaks and comes up again.  Mix 1 is the first mix, *)
(* mix N the last one.  Each runs CAMix::start(): init(), loop(), clean(), *)
(* a sleep, and again.  init() makes the connections and exchanges keys:   *)
(* key infos travel from the last mix to the first one, every mix adding   *)
(* its own, and each mix answers the key info of the next one with the     *)
(* symmetric key of their connection.                                      *)
(*                                                                         *)
(*   first:   connect ---------------> info --> online                     *)
(*   middle:  accept --> connect --> info --> offer --> answer --> online  *)
(*   last:    accept ------------------------> offer --> answer --> online *)
(*                                                                         *)
(* Any error ends in clean().  What the mixes do on line is the subject of *)
(* the other modules; here they only find out that a connection is gone.   *)
(***************************************************************************)
EXTENDS Naturals

CONSTANTS
  N,          (* number of mixes                                           *)
  MaxFaults   (* bound: crashes, lost connections and late answers         *)

ASSUME CascadeAssumption == N \in Nat /\ N >= 2 /\ MaxFaults \in Nat

Mixes == 1..N
Links == 1..(N - 1)   (* link i is between the mixes i and i + 1           *)

VARIABLES
  at,       (* where each mix is                                           *)
  near,     (* m_pMuxOut of the mix before a link: none, live or dead      *)
  far,      (* m_pMuxIn of the mix after it                                *)
  info,     (* a key info waits to be received at the near end             *)
  key,      (* a symmetric key waits to be received at the far end         *)
  faults

cvars == <<at, near, far, info, key, faults>>

CascadeInit ==
  /\ at = [m \in Mixes |-> "sleep"]
  /\ near = [i \in Links |-> "none"] /\ far = [i \in Links |-> "none"]
  /\ info = [i \in Links |-> FALSE] /\ key = [i \in Links |-> FALSE]
  /\ faults = 0

Goes(m, to) == at' = [at EXCEPT ![m] = to]

-----------------------------------------------------------------------------
(* init()                                                                  *)

(* sSleep(10) is over: the first mix connects, the others listen.          *)
Begin(m) ==
  /\ at[m] = "sleep"
  /\ Goes(m, IF m = 1 THEN "connect" ELSE "accept")
  /\ UNCHANGED <<near, far, info, key, faults>>

(* Variant: a middle mix answers the previous mix before it connects.      *)
OffersFirst(m) == "offer"

(* A middle mix connects to the next mix once the previous one is there.   *)
AfterAccept(m) == IF m = N THEN "offer" ELSE "connect"

(* connectToNextMix() tries until the next mix listens; a mix listens for  *)
(* one connection only.                                                    *)
Connect(m) ==
  /\ m < N /\ at[m] = "connect" /\ at[m + 1] = "accept"
  /\ at' = [at EXCEPT ![m] = "info", ![m + 1] = AfterAccept(m + 1)]
  /\ near' = [near EXCEPT ![m] = "live"] /\ far' = [far EXCEPT ![m] = "live"]
  /\ UNCHANGED <<info, key, faults>>

(* The key info of the next mix: the key is sent, and whether that worked  *)
(* is not asked.                                                           *)
ReceiveInfo(m) ==
  /\ m < N /\ at[m] = "info" /\ info[m]
  /\ info' = [info EXCEPT ![m] = FALSE]
  /\ key'  = [key  EXCEPT ![m] = near[m] = "live"]
  /\ Goes(m, IF m = 1 THEN "online" ELSE "offer")
  /\ UNCHANGED <<near, far, faults>>

(* The key infos from here to the last mix go to the previous mix.         *)
SendInfo(m) ==
  /\ m > 1 /\ at[m] = "offer"
  /\ info' = [info EXCEPT ![m - 1] = far[m - 1] = "live"]
  /\ Goes(m, "answer")
  /\ UNCHANGED <<near, far, key, faults>>

ReceiveKey(m) ==
  /\ m > 1 /\ at[m] = "answer" /\ key[m - 1]
  /\ key' = [key EXCEPT ![m - 1] = FALSE]
  /\ Goes(m, "online")
  /\ UNCHANGED <<near, far, info, faults>>

-----------------------------------------------------------------------------
(* clean()                                                                 *)

Hangs(end) == IF end = "live" THEN "dead" ELSE end

(* Variant: the connection to the next mix is not closed.                  *)
LeavesOut(m) ==
  /\ near' = [i \in Links |-> IF i + 1 = m THEN Hangs(near[i]) ELSE near[i]]
  /\ far'  = [i \in Links |-> IF i + 1 = m THEN "none" ELSE far[i]]
  /\ info' = [i \in Links |-> info[i] /\ i # m]
  /\ key'  = [i \in Links |-> key[i] /\ i + 1 # m]

(* Both connections of a mix are closed: what they had received is gone,   *)
(* what was sent can still be received at the other end.                   *)
ClosesAll(m) ==
  /\ near' = [i \in Links |-> IF i = m THEN "none"
                               ELSE IF i + 1 = m THEN Hangs(near[i]) ELSE near[i]]
  /\ far'  = [i \in Links |-> IF i + 1 = m THEN "none"
                               ELSE IF i = m THEN Hangs(far[i]) ELSE far[i]]
  /\ info' = [i \in Links |-> info[i] /\ i # m]
  /\ key'  = [i \in Links |-> key[i] /\ i + 1 # m]

(* A receive fails on a connection that has ended, if nothing is left to   *)
(* be received; a mix that is on line finds out about both connections,    *)
(* from an error or from the lack of keep-alive traffic.                   *)
Broken(m) ==
  \/ m < N /\ at[m] = "info" /\ near[m] = "dead" /\ ~info[m]
  \/ m > 1 /\ at[m] = "answer" /\ far[m - 1] = "dead" /\ ~key[m - 1]
  \/ at[m] = "online" /\ m < N /\ near[m] = "dead"
  \/ at[m] = "online" /\ m > 1 /\ far[m - 1] = "dead"

Restarts(m) == Broken(m) /\ ClosesAll(m) /\ Goes(m, "sleep") /\ UNCHANGED faults

(* Sending the key info may fail when the previous mix is gone.            *)
OfferFails(m) ==
  /\ m > 1 /\ at[m] = "offer" /\ far[m - 1] = "dead"
  /\ ClosesAll(m) /\ Goes(m, "sleep") /\ UNCHANGED faults

(* Mix m cannot go on before an operator starts some mix after it.         *)
Stalled[m \in Mixes] ==
  \/ at[m] = "off"
  \/ m < N /\ at[m] = "connect" /\ Stalled[m + 1]

(* 100 attempts to connect, or TIMEOUT_MIX_CONNECTION_ESTABLISHEMENT for   *)
(* a key info or a key, have passed.  While nothing is wrong further on    *)
(* that takes a fault.                                                     *)
TimesOut(m) ==
  /\ at[m] \in {"connect", "info", "answer"}
  /\ IF m < N /\ at[m] \in {"connect", "info"} /\ Stalled[m + 1]
     THEN UNCHANGED faults
     ELSE faults < MaxFaults /\ faults' = faults + 1
  /\ ClosesAll(m) /\ Goes(m, "sleep")

-----------------------------------------------------------------------------
(* Faults: a mix ends at any point and is started again; a connection is   *)
(* lost with all that is on the way.                                       *)
Crash(m) ==
  /\ at[m] # "off" /\ faults < MaxFaults
  /\ faults' = faults + 1
  /\ ClosesAll(m) /\ Goes(m, "off")

StartMix(m) ==
  /\ at[m] = "off"
  /\ Goes(m, "sleep")
  /\ UNCHANGED <<near, far, info, key, faults>>

LoseLink(i) ==
  /\ near[i] = "live" /\ faults < MaxFaults
  /\ faults' = faults + 1
  /\ near' = [near EXCEPT ![i] = "dead"] /\ far' = [far EXCEPT ![i] = "dead"]
  /\ info' = [info EXCEPT ![i] = FALSE] /\ key' = [key EXCEPT ![i] = FALSE]
  /\ UNCHANGED at

MixStep(m) ==
  \/ Begin(m) \/ Connect(m) \/ ReceiveInfo(m) \/ SendInfo(m) \/ ReceiveKey(m)
  \/ Restarts(m)

CascadeNext ==
  \/ \E m \in Mixes : MixStep(m) \/ OfferFails(m) \/ TimesOut(m) \/ Crash(m) \/ StartMix(m)
  \/ \E i \in Links : LoseLink(i)

(* Every mix goes on, and a mix that has ended is started again.           *)
CascadeFairness ==
  \A m \in Mixes : WF_cvars(MixStep(m)) /\ WF_cvars(StartMix(m))

CascadeSpec == CascadeInit /\ [][CascadeNext]_cvars /\ CascadeFairness

-----------------------------------------------------------------------------
(* While the first mix is on line, every mix that it reaches over live     *)
(* connections has exchanged keys with the next one and has the key of the *)
(* previous one or is about to receive it: users are never accepted for a  *)
(* part of a cascade.                                                      *)
OnlineFromTheEnd ==
  \A m \in Mixes \ {1} :
    at[1] = "online" /\ (\A i \in Links : i < m => near[i] = "live") =>
      /\ at[m] = "online" \/ (at[m] = "answer" /\ key[m - 1])
      /\ m < N => near[m] # "none"

(* Whatever breaks, in whatever order, and wherever it finds the mixes:    *)
(* whenever a mix is down or starts over, all of them get on line again,   *)
(* if nothing more goes wrong.                                             *)
CascadeHeals ==
  (\E m \in Mixes : at[m] \in {"off", "connect", "accept"})
    ~> (\A m \in Mixes : at[m] = "online")
=============================================================================

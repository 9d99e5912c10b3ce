----------------------------- MODULE MCFirstMix -----------------------------
(* Four parts of the first mix that share no state with one another, each  *)
(* its own initial state: a behaviour is one of the timeout list, one of   *)
(* the packet loop, one of a control channel or one of the connections     *)
(* that are accepted and log in.                                           *)
(* The packet loop has either all users, with one channel each and one     *)
(* data packet in a channel, or one user alone, with more of both.         *)
EXTENDS FirstMixTimeouts, FirstMixA, ControlChannel, AcceptUsers

CONSTANTS
  Alone,              (* the user who may be alone                         *)
  SecondIds,          (* ids of more than one channel of a user            *)
  Crowd               (* attempts from the address most come from          *)

FromOf == [k \in Conns |-> IF k \in Crowd THEN "crowd" ELSE "other"]

VARIABLE subject

MCInit ==
  /\ subject \in {"timeouts", "packets", "alone", "control", "accept"}
  /\ TInit /\ PInit /\ CInit /\ AInit

MCNext ==
  \/ subject = "timeouts" /\ TNext /\ UNCHANGED <<fmvars, ccvars, avars, subject>>
  \/ /\ subject = "packets" /\ PNext /\ UNCHANGED <<tvars, ccvars, avars, subject>>
     /\ \A u \in Users, i \in SecondIds : view'[u][i] = None
     /\ \A o \in OutIds : atMix'[o] <= 1
  \/ subject = "alone" /\ PNext /\ here' \subseteq Alone /\ UNCHANGED <<tvars, ccvars, avars, subject>>
  \/ subject = "control" /\ CNext /\ UNCHANGED <<tvars, fmvars, avars, subject>>
  \/ subject = "accept" /\ ANext /\ UNCHANGED <<tvars, fmvars, ccvars, subject>>

MCSpec ==
  /\ MCInit /\ [][MCNext]_<<tvars, fmvars, ccvars, avars, subject>>
  /\ WF_tvars(subject = "timeouts" /\ PassStep /\ UNCHANGED <<fmvars, ccvars, avars, subject>>)
  /\ WF_tvars(subject = "timeouts" /\ Tick /\ UNCHANGED <<fmvars, ccvars, avars, subject>>)
=============================================================================

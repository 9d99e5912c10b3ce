---------------------------- MODULE MCAccounting ----------------------------
(* What the accounting of the first mix has to keep straight: who uses an  *)
(* account, and what settlements do to an account that is in use.  The two *)
(* share no state here: a behaviour is one of them from its initial state. *)
(*                                                                         *)
(* Three connections, two accounts and two slots are enough for a takeover *)
(* whose slot is used again meanwhile, by another user or by the same one; *)
(* the first connection's account may be called a1.  Of the two settlers   *)
(* one is a login thread.                                                  *)
EXTENDS AccountLogin, AccountTraffic

CONSTANTS c1, a1

MCAccountsOf == [c \in Conns |-> IF c = c1 THEN {a1} ELSE Accounts]

MCVerdicts ==
  [code : {"ok", "blocked", "noAnswer", "internalError"}, bytes : {NoBytes}]
  \cup [code : {"accountEmpty"}, bytes : {2}] \cup [code : {"outdated"}, bytes : {2, 3}]

VARIABLE subject

MCInit == subject \in {"login", "payment"} /\ Init /\ TrafficInit

MCNext ==
  \/ subject = "login" /\ Next /\ UNCHANGED <<trafficVars, subject>>
  \/ subject = "payment" /\ TrafficNext /\ UNCHANGED <<vars, subject>>

MCSpec == MCInit /\ [][MCNext]_<<vars, trafficVars, subject>>
=============================================================================

----------------------------- MODULE MCContainers -----------------------------
(* What the threads of a mix share: the channel table of a middle mix, a   *)
(* queue of bytes, the replay data base with its intervals scaled down,    *)
(* and a pool of threads that is small enough to be full most of the time. *)
(* They share no state with one another: a behaviour is one of them from   *)
(* its initial state.                                                      *)
EXTENDS CAQueue, CADatabase, CAThreadPool, MCMiddleMix

OneOrTwo == {1, 2}

(* The pool blocks when its queue is full, or does not, and is destroyed   *)
(* in every way.                                                           *)
AllUses == [doNotBlock : BOOLEAN, waits : BOOLEAN]

VARIABLE subject

allvars == <<mmvars, vars, dbvars, poolvars, subject>>

(* The choices of an initial state matter to one subject only.             *)
MCInit ==
  /\ subject \in {"table", "queue", "replay", "pool"}
  /\ subject # "replay" => stamp = [p \in Packets |-> 0]
  /\ subject # "pool" => use = [doNotBlock |-> TRUE, waits |-> TRUE]
  /\ MMInit /\ Init /\ DbInit /\ PoolInit

OfTable(A)  == subject = "table" /\ A /\ UNCHANGED <<vars, dbvars, poolvars, subject>>
OfQueue(A)  == subject = "queue" /\ A /\ UNCHANGED <<mmvars, dbvars, poolvars, subject>>
OfReplay(A) == subject = "replay" /\ A /\ UNCHANGED <<mmvars, vars, poolvars, subject>>
OfPool(A)   == subject = "pool" /\ A /\ UNCHANGED <<mmvars, vars, dbvars, subject>>

(* The readers of the table must not come to a halt; the others may be     *)
(* done: all is written and read, the pool destroyed, time at its end.     *)
MayEnd == subject # "table" /\ UNCHANGED allvars

MCNext ==
  OfTable(MMNext) \/ OfQueue(Next) \/ OfReplay(DbNext) \/ OfPool(PoolNext) \/ MayEnd

MCFairness ==
  /\ \A t \in Reader : /\ WF_mmvars(OfTable(~broken /\ UseCipher(t)))
                       /\ SF_mmvars(OfTable(~broken /\ RemoveChannel(t)))
  /\ WF_mmvars(OfTable(~broken /\ stage["up"] # "idle" /\ Up))
  /\ WF_mmvars(OfTable(~broken /\ stage["down"] # "idle" /\ Down))
  /\ \A p \in Producers : WF_vars(OfQueue(~crashed /\ pc[p] # "idle" /\ ProducerStep(p)))
  /\ \A c \in Consumers : SF_vars(OfQueue(~crashed /\ ConsumerGoesOn(c)))
  /\ \A a \in Adders : WF_poolvars(OfPool(AddRequest(a)))
  /\ \A w \in Workers : WF_poolvars(OfPool(WorkerLocked(w))) /\ WF_poolvars(OfPool(RunRequest(w)))
  /\ WF_poolvars(OfPool(Owner))

MCSpec == MCInit /\ [][MCNext]_allvars /\ MCFairness
=============================================================================

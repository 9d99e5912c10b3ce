----------------------------- MODULE MCMixThreads -----------------------------
(* The lives of mixes, which share no state with one another: the threads  *)
(* of a middle, a last and a first mix, the mixes of a cascade, what they  *)
(* tell each other while it comes up, the keep-alive traffic between two   *)
(* of them, and the status a mix reports.  A behaviour is one of these,    *)
(* from its own initial state.                                             *)
EXTENDS MiddleMixThreads, LastMixThreads, FirstMixThreads, KeyExchange, KeepAlive, MixStatus

VARIABLE subject

(* How the mixes of the key exchange are built and set up: all alike, or   *)
(* one of them with an older version, one with a flag more, or one         *)
(* certificate out of date.                                                *)
Alike == [m \in Mixes |-> 72]
Usual == [m \in Mixes |-> {"payment", "new flow control"}]
Valid == [i \in Links |-> {}]

Confs ==
  {<<Alike, Usual, Valid>>}
    \cup {<<[Alike EXCEPT ![m] = v], Usual, Valid>> : m \in Mixes, v \in {Compatible - 1, Compatible}}
    \cup {<<Alike, [Usual EXCEPT ![m] = @ \cup {"replay detection"}], Valid>> : m \in Mixes}
    \cup {<<Alike, Usual, [Valid EXCEPT ![i] = {e}]>> : i \in Links, e \in {"near", "far"}}

Conf ==
  \E c \in IF subject = "keys" THEN Confs ELSE {<<Alike, Usual, Valid>>} :
    version = c[1] /\ flags = c[2] /\ outdated = c[3]

(* Only the behaviours of the keep-alive traffic begin with every offer,   *)
(* and only those of the status with every kind of mix.                    *)
MCInit ==
  /\ subject \in {"middle", "last", "first", "cascade", "keys", "keepalive", "status"}
  /\ Init /\ LMInit /\ FTInit /\ KXInit /\ KInit /\ MSInit /\ Conf
  /\ subject # "keepalive" =>
       sendOffer = Max(SendOffers) /\ recvOffer = Max(RecvOffers)
  /\ subject # "status" => role = "first"

(* All mixes are on line and nothing more breaks.                          *)
Idle == (\A m \in Mixes : at[m] = "online") /\ UNCHANGED cvars

MCNext ==
  \/ subject = "middle" /\ Next /\ UNCHANGED <<lmvars, ftvars, cvars, kxvars, kvars, msvars, subject>>
  \/ subject = "last" /\ LMNext /\ UNCHANGED <<vars, ftvars, cvars, kxvars, kvars, msvars, subject>>
  \/ subject = "first" /\ FTNext /\ UNCHANGED <<vars, lmvars, cvars, kxvars, kvars, msvars, subject>>
  \/ subject = "cascade" /\ (CascadeNext \/ Idle) /\ UNCHANGED <<vars, lmvars, ftvars, kvars, kxvars, msvars, subject>>
  \/ subject = "keys" /\ KXNext /\ faults' <= 1 /\ UNCHANGED <<vars, lmvars, ftvars, kvars, msvars, subject>>
  \/ subject = "keepalive" /\ KNext /\ UNCHANGED <<vars, lmvars, ftvars, cvars, kxvars, msvars, subject>>
  \/ subject = "status" /\ MSNext /\ UNCHANGED <<vars, lmvars, ftvars, cvars, kxvars, kvars, subject>>

MCFairness ==
  /\ \A r \in Reader : WF_vars(subject = "middle" /\ ReaderStep(r) /\ UNCHANGED <<lmvars, ftvars, cvars, kxvars, kvars, msvars, subject>>)
  /\ \A s \in Sender : WF_vars(subject = "middle" /\ SenderGoesOn(s) /\ UNCHANGED <<lmvars, ftvars, cvars, kxvars, kvars, msvars, subject>>)
  /\ WF_vars(subject = "middle" /\ MainStep /\ UNCHANGED <<lmvars, ftvars, cvars, kxvars, kvars, msvars, subject>>)
  /\ WF_lmvars(subject = "last" /\ LastReaderStep /\ UNCHANGED <<vars, ftvars, cvars, kxvars, kvars, msvars, subject>>)
  /\ WF_lmvars(subject = "last" /\ LastSenderGoesOn /\ UNCHANGED <<vars, ftvars, cvars, kxvars, kvars, msvars, subject>>)
  /\ WF_lmvars(subject = "last" /\ TakePacket /\ UNCHANGED <<vars, ftvars, cvars, kxvars, kvars, msvars, subject>>)
  /\ WF_lmvars(subject = "last" /\ CleanStep /\ UNCHANGED <<vars, ftvars, cvars, kxvars, kvars, msvars, subject>>)
  /\ WF_ftvars(subject = "first" /\ AcceptorStep /\ UNCHANGED <<vars, lmvars, cvars, kxvars, kvars, msvars, subject>>)
  /\ WF_ftvars(subject = "first" /\ LoginStep /\ UNCHANGED <<vars, lmvars, cvars, kxvars, kvars, msvars, subject>>)
  /\ WF_ftvars(subject = "first" /\ FromNextStep /\ UNCHANGED <<vars, lmvars, cvars, kxvars, kvars, msvars, subject>>)
  /\ WF_ftvars(subject = "first" /\ ToNextStep /\ UNCHANGED <<vars, lmvars, cvars, kxvars, kvars, msvars, subject>>)
  /\ WF_ftvars(subject = "first" /\ HandlePacket /\ UNCHANGED <<vars, lmvars, cvars, kxvars, kvars, msvars, subject>>)
  /\ WF_ftvars(subject = "first" /\ FirstCleanStep /\ UNCHANGED <<vars, lmvars, cvars, kxvars, kvars, msvars, subject>>)
  /\ \A m \in Mixes : WF_cvars(subject = "cascade" /\ MixStep(m) /\ UNCHANGED <<vars, lmvars, ftvars, kvars, kxvars, msvars, subject>>)
  /\ \A m \in Mixes : WF_cvars(subject = "cascade" /\ StartMix(m) /\ UNCHANGED <<vars, lmvars, ftvars, kvars, kxvars, msvars, subject>>)

MCSpec == MCInit /\ [][MCNext]_<<vars, lmvars, ftvars, cvars, kxvars, kvars, msvars, subject>> /\ MCFairness

(* What a first and a last mix have taken apart when clean() is over, and  *)
(* in which order: LastMixCleansUp and FirstMixCleansUp.                   *)
MixesCleanUp == LastMixCleansUp /\ FirstMixCleansUp

(* A lost connection brings any mix down to a new init(): OneStopsAll, for *)
(* a middle mix, LinkLossRestarts and FirstMixRestarts.                    *)
MixesRestart == OneStopsAll /\ LinkLossRestarts /\ FirstMixRestarts

(* Every cascade comes up again, as CascadeHeals says.                     *)
CascadesHeal == subject = "cascade" => CascadeHeals

(* The neighbours of every cascade that exchanges keys have agreed, as     *)
(* KeysAgree says.                                                         *)
NeighboursFit == subject = "keys" => KeysAgree
=============================================================================

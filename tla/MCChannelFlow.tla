---------------------------- MODULE MCChannelFlow ----------------------------
(* Channels at the two kinds of last mix, which share no state: from a     *)
(* local proxy to the last mix of type A and back, and in the chains of a  *)
(* last mix of type B.  A behaviour is one of them.                        *)
(* The flow has a channel with more data in either direction than a window *)
(* holds, beside one that is accepted and closed without data; or two      *)
(* channels with an item in either direction each.  There are several      *)
(* chains of type B, or one chain with more channels than it may have; all *)
(* are in one line of the table, which is not the last one.                *)
EXTENDS ChannelFlow, LastMixB, TLC

CONSTANTS
  c1, c2,             (* the channels of the flow                          *)
  FewIds              (* channels there may be while there are two chains  *)

Up   == c1 :> 3 @@ c2 :> 1
Down == c1 :> 3 @@ c2 :> 1

(* It depends on the browsers and the proxy servers alone.                 *)
OneEach == conn'[c2].sent > 0 => conn'[c1].sent <= 1 /\ proxy'[c1].sent <= 1

FirstLine == [c \in Chains |-> 0]

Few == Cardinality(DOMAIN chain') > 1 => DOMAIN due' \subseteq FewIds

VARIABLE subject

MCInit == subject \in {"flow", "chains"} /\ Init /\ ChainInit

MCNext ==
  \/ subject = "flow" /\ Next /\ OneEach /\ UNCHANGED <<chainvars, subject>>
  \/ subject = "chains" /\ ChainNext /\ Few /\ UNCHANGED <<vars, subject>>

MCSpec ==
  /\ MCInit /\ [][MCNext]_<<vars, chainvars, subject>>
  /\ WF_vars(subject = "flow" /\ Local!Receive /\ UNCHANGED <<lastVars, chainvars, subject>>)
  /\ WF_vars(subject = "flow" /\ Last!Loop /\ UNCHANGED <<conn, chainvars, subject>>)
  /\ \A c \in Channels :
       WF_vars(/\ subject = "flow" /\ Last!ProxyDrains(c)
               /\ UNCHANGED <<entry, pc, budget, ready, up, down, conn, chainvars, subject>>)
  /\ WF_chainvars(subject = "chains" /\ ChainLoop /\ Few /\ UNCHANGED <<vars, subject>>)
  /\ SF_chainvars(subject = "chains" /\ StartDown /\ UNCHANGED <<vars, subject>>)
  /\ WF_chainvars(subject = "chains" /\ ChainTick /\ UNCHANGED <<vars, subject>>)
=============================================================================

----------------------------- MODULE MCLoginKept -----------------------------
(* AcceptUsers with PAYMENT, and all connections from one address.         *)
EXTENDS AcceptUsers

FromOneAddress == [c \in Conns |-> "address"]
=============================================================================

----------------------------- MODULE MCSettlement -----------------------------
(* Three threads settle one account; the payment instance accepts all.     *)
EXTENDS Settlement
MCVerdicts == {[code |-> "ok", bytes |-> NoBytes]}
===============================================================================

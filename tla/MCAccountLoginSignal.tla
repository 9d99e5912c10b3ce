------------------------ MODULE MCAccountLoginSignal ------------------------
(* Two connections of one account are enough for a lost signal.            *)
EXTENDS AccountLogin

MCAccountsOf == [c \in Conns |-> Accounts]
=============================================================================

-------------------------------- MODULE Tunnel --------------------------------
(***************************************************************************)
(* What the cascade promises to a browser's connection: a stream of items  *)
(* to a server and one back.  Nothing is lost, changed or reordered while  *)
(* both ends live; what the user sent before closing still reaches a       *)
(* server that reads it; the user sees the end of the stream only after    *)
(* everything that was taken from the server.                              *)
(***************************************************************************)
EXTENDS Naturals, Sequences

CONSTANT Channels

VARIABLES
  user,     (* [state, sent, got]: the browser's end                       *)
  server    (* [state, sent, got]: the server's end                        *)

Upto(n) == [i \in 1..n |-> i]

Start == [state |-> "none", sent |-> 0, got |-> <<>>]

Init ==
  /\ user   = [c \in Channels |-> Start]
  /\ server = [c \in Channels |-> Start]

UserOpens(c) ==
  /\ user[c].state = "none"
  /\ user' = [user EXCEPT ![c].state = "open"]
  /\ UNCHANGED server

UserSends(c) ==
  /\ user[c].state = "open"
  /\ user' = [user EXCEPT ![c].sent = @ + 1]
  /\ UNCHANGED server

(* More of what the user sent arrives, in order; the first item opens the  *)
(* server's end.  When the user has closed and nothing of its data is      *)
(* left, the server's end is closed too.                                   *)
ServerGets(c) ==
  /\ server[c].state \in {"none", "open", "leaving"}
  /\ \E n \in Len(server[c].got)..user[c].sent :
       \/ /\ n > 0
          /\ server' = [server EXCEPT
               ![c].state = IF @ = "none" THEN "open" ELSE @, ![c].got = Upto(n)]
       \/ /\ user[c].state = "closed" /\ n = user[c].sent
          /\ server[c].state # "none"
          /\ server' = [server EXCEPT ![c].state = "closed", ![c].got = Upto(n)]
  /\ UNCHANGED user

(* An item is taken from the server.                                       *)
ServerSends(c) ==
  /\ server[c].state \in {"open", "leaving"}
  /\ server' = [server EXCEPT ![c].sent = @ + 1]
  /\ UNCHANGED user

(* The server ends the connection, or it breaks.                           *)
ServerLeaves(c) ==
  /\ server[c].state = "open"
  /\ server' = [server EXCEPT ![c].state = "leaving"]
  /\ UNCHANGED user

(* A server that leaves, or could not be reached, is given up.             *)
ServerGone(c) ==
  /\ \/ server[c].state = "leaving"
     \/ server[c].state = "none" /\ user[c].sent > 0
  /\ server' = [server EXCEPT ![c].state = "closed"]
  /\ UNCHANGED user

UserGets(c) ==
  /\ user[c].state = "open"
  /\ Len(user[c].got) < server[c].sent
  /\ user' = [user EXCEPT ![c].got = Upto(Len(@) + 1)]
  /\ UNCHANGED server

UserCloses(c) ==
  /\ user[c].state = "open"
  /\ user' = [user EXCEPT ![c].state = "closed"]
  /\ UNCHANGED server

UserEnds(c) ==
  /\ user[c].state = "open"
  /\ server[c].state = "closed" /\ Len(user[c].got) = server[c].sent
  /\ user' = [user EXCEPT ![c].state = "ended"]
  /\ UNCHANGED server

Next == \E c \in Channels :
  \/ UserOpens(c) \/ UserSends(c) \/ UserGets(c) \/ UserCloses(c) \/ UserEnds(c)
  \/ ServerGets(c) \/ ServerSends(c) \/ ServerLeaves(c) \/ ServerGone(c)

Spec == Init /\ [][Next]_<<user, server>>
=============================================================================

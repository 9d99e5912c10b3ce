------------------------------ MODULE LocalProxy ------------------------------
(***************************************************************************)
(* CALocalProxy: the user's end of the cascade.  It multiplexes the        *)
(* browser's connections as channels over its connection to the first mix. *)
(* The first data of a connection travels in the CHANNEL_OPEN packet, the  *)
(* rest in CHANNEL_DATA packets, and for every SendMe packets received on  *)
(* a channel one SENDME goes back to the last mix.                         *)
(*                                                                         *)
(* The loop is a single thread; each action is what it does for one        *)
(* signalled socket.  An item is the payload of one packet, named by its   *)
(* number in its direction.  Channel ids are random 32-bit numbers: no     *)
(* channel of this model reuses the id of another.  The cascade has        *)
(* announced the new flow control (m_bWithNewFlowControl), and the         *)
(* connection to the first mix lasts.                                      *)
(***************************************************************************)
EXTENDS Naturals, Sequences

CONSTANTS
  Channels,   (* the ids of the channels, one per browser connection       *)
  SendMe,     (* m_nFlowControlDownstreamSendMe                            *)
  MaxUp       (* bound: items a browser sends on each channel              *)

VARIABLES
  conn,   (* the browser's connection behind each channel                  *)
  up,     (* packets on their way to the last mix                          *)
  down    (* packets on their way from the last mix                        *)

-----------------------------------------------------------------------------
(* Packets: the flags, the flow-control bit and the payload (0: none).     *)

Packet(c, flags, item) ==
  [channel |-> c, flags |-> flags, sendme |-> FALSE, item |-> item]

Close(c) == Packet(c, "CLOSE", 0)

SendMePacket(c) == [Packet(c, "DATA", 0) EXCEPT !.sendme = TRUE]

Packets ==
  [channel : Channels, flags : {"OPEN", "DATA", "CLOSE"},
   sendme : BOOLEAN, item : Nat]

(* state "new": accepted, no packet sent yet, the ciphers have no key;     *)
(* "closed" by the browser or "ended" by the last mix: no longer listed.   *)
Connections ==
  [state : {"none", "new", "open", "closed", "ended"}, counter : 0..(SendMe - 1),
   sent : Nat, got : Seq(Nat)]

Listed(c) == conn[c].state \in {"new", "open"}

-----------------------------------------------------------------------------
Init ==
  conn = [c \in Channels |->
            [state |-> "none", counter |-> 0, sent |-> 0, got |-> <<>>]]

(* A connection from the browser: it gets an id and unkeyed ciphers.       *)
Accept(c) ==
  /\ conn[c].state = "none"
  /\ conn' = [conn EXCEPT ![c].state = "new"]
  /\ UNCHANGED <<up, down>>

(* Data from the browser: OPEN the first time, DATA afterwards.            *)
BrowserData(c) ==
  /\ Listed(c)
  /\ conn[c].sent < MaxUp[c]
  /\ LET flags == IF conn[c].state = "new" THEN "OPEN" ELSE "DATA"
     IN  up' = Append(up, Packet(c, flags, conn[c].sent + 1))
  /\ conn' = [conn EXCEPT ![c].state = "open", ![c].sent = @ + 1]
  /\ UNCHANGED down

(* The browser closes: CLOSE, even when no OPEN was ever sent.             *)
BrowserClose(c) ==
  /\ Listed(c)
  /\ up' = Append(up, Close(c))
  /\ conn' = [conn EXCEPT ![c].state = "closed"]
  /\ UNCHANGED down

(* A packet of a channel that is no longer in the list is dropped.         *)
ReceiveUnknown ==
  /\ down # <<>>
  /\ ~Listed(Head(down).channel)
  /\ down' = Tail(down)
  /\ UNCHANGED <<conn, up>>

ReceiveClose ==
  /\ down # <<>>
  /\ Listed(Head(down).channel)
  /\ Head(down).flags = "CLOSE"
  /\ conn' = [conn EXCEPT ![Head(down).channel].state = "ended"]
  /\ down' = Tail(down)
  /\ UNCHANGED up

(* Has the window been used up with this packet?                           *)
Acknowledges(c) == conn[c].counter + 1 >= SendMe

(* Every packet that is no CLOSE counts, a SENDME of the last mix as well. *)
ReceiveData ==
  /\ down # <<>>
  /\ LET p == Head(down)
         c == p.channel
     IN  /\ Listed(c)
         /\ p.flags # "CLOSE"
         /\ up' = IF Acknowledges(c) THEN Append(up, SendMePacket(c)) ELSE up
         /\ conn' = [conn EXCEPT
              ![c].counter = IF Acknowledges(c) THEN @ - (SendMe - 1) ELSE @ + 1,
              ![c].got = IF p.item = 0 THEN @ ELSE Append(@, p.item)]
  /\ down' = Tail(down)

Receive == ReceiveUnknown \/ ReceiveClose \/ ReceiveData

Next ==
  \/ Receive
  \/ \E c \in Channels : Accept(c) \/ BrowserData(c) \/ BrowserClose(c)
=============================================================================

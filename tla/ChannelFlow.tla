----------------------------- MODULE ChannelFlow -----------------------------
(***************************************************************************)
(* A channel from end to end: the local proxy of a user and the last mix,  *)
(* with the mixes between them as two queues of packets.  What is at stake *)
(* is that both ends agree on which channels exist, that the windows of    *)
(* the flow control never stall a stream, and that the stream of bytes is  *)
(* the one the Tunnel promises.                                            *)
(***************************************************************************)
EXTENDS Naturals, Sequences, FiniteSets

CONSTANTS
  Channels, SoftLimit, HardLimit, MaxSendQueue, MaxUp, MaxDown, NoEntry

ASSUME ChannelFlowAssumption ==
  /\ IsFiniteSet(Channels)
  /\ SoftLimit \in Nat \ {0}
  /\ HardLimit \in Nat /\ SoftLimit <= HardLimit
  /\ MaxSendQueue \in Nat \ {0}
  /\ MaxUp \in [Channels -> Nat] /\ MaxDown \in [Channels -> Nat]

VARIABLES
  conn,                             (* the local proxy                     *)
  entry, proxy, pc, budget, ready,  (* the last mix and its proxy servers  *)
  up, down                          (* the packets between them            *)

Local == INSTANCE LocalProxy WITH SendMe <- SoftLimit
Last  == INSTANCE LastMixA

ASSUME NoEntryAssumption == NoEntry \notin Last!Entries

lastVars == <<entry, proxy, pc, budget, ready>>
vars == <<conn, lastVars, up, down>>

Init == Local!Init /\ Last!Init /\ up = <<>> /\ down = <<>>

Next ==
  \/ Local!Next /\ UNCHANGED lastVars
  \/ Last!Next /\ UNCHANGED conn

Spec == Init /\ [][Next]_vars

(* The two loops run, and a proxy server that keeps a connection reads     *)
(* from it.  Nobody has to send or to close.                               *)
Fairness ==
  /\ WF_vars(Local!Receive /\ UNCHANGED lastVars)
  /\ WF_vars(Last!Loop /\ UNCHANGED conn)
  /\ \A c \in Channels :
       WF_vars(/\ Last!ProxyDrains(c)
               /\ UNCHANGED <<entry, pc, budget, ready, up, down, conn>>)

FairSpec == Spec /\ Fairness

-----------------------------------------------------------------------------
PacketsOf(queue, c) == {i \in 1..Len(queue) : queue[i].channel = c}

OnItsWay(queue, c, flags) ==
  \E i \in PacketsOf(queue, c) : queue[i].flags = flags

(* Every variable keeps its type.                                          *)
TypeOK ==
  /\ conn \in [Channels -> Local!Connections]
  /\ entry \in [Channels -> Last!Entries \cup {NoEntry}]
  /\ proxy \in [Channels -> Last!Proxies]
  /\ pc \in {"packets", "write", "read"} /\ budget \in Nat
  /\ ready \subseteq Last!Known
  /\ up \in Seq(Local!Packets) /\ down \in Seq(Local!Packets)

(* Both ends agree on a channel, or news of it is on its way.  A listed    *)
(* connection that sent its OPEN has an entry in the last mix, or the OPEN *)
(* or a CLOSE for it is under way; an entry whose queue is still open has  *)
(* a connection, or the CLOSE of its user is under way.                    *)
ChannelsAgree ==
  \A c \in Channels :
    /\ conn[c].state = "open" =>
         c \in Last!Known \/ OnItsWay(up, c, "OPEN") \/ OnItsWay(down, c, "CLOSE")
    /\ c \in Last!Known /\ ~entry[c].closed =>
         conn[c].state = "open" \/ OnItsWay(up, c, "CLOSE")

(* The last mix never counts more packets as unacknowledged than those     *)
(* under way, those the local proxy has counted since its last SENDME and  *)
(* the windows of the SENDMEs under way: with an open connection, the      *)
(* counter cannot stay at the limit, whatever each end has also counted.   *)
WindowsReturn ==
  \A c \in Last!Known : conn[c].state = "open" =>
    entry[c].downstream <=
      Cardinality({i \in PacketsOf(down, c) : down[i].item # 0})
      + conn[c].counter
      + SoftLimit * Cardinality({i \in PacketsOf(up, c) : up[i].sendme})

(* Local proxy and last mix agree on the channels there are and on what is *)
(* left of their windows, up to the packets between them.                  *)
BothEndsAgree == ChannelsAgree /\ WindowsReturn

(* What a browser and what a proxy server sees of its connection.          *)
UserOf(c) ==
  [state |-> IF conn[c].state = "new" THEN "open" ELSE conn[c].state,
   sent |-> conn[c].sent, got |-> conn[c].got]

ServerOf(c) ==
  [state |-> IF proxy[c].state \in {"fin", "reset"}
             THEN "leaving" ELSE proxy[c].state,
   sent |-> proxy[c].read, got |-> proxy[c].got]

Users   == [c \in Channels |-> UserOf(c)]
Servers == [c \in Channels |-> ServerOf(c)]

(* The streams are those of the Tunnel: complete, in order, and ended      *)
(* only after what came before the end.                                    *)
Promise == INSTANCE Tunnel WITH user <- Users, server <- Servers

ImplementsTunnel == Promise!Spec

(* A channel its user has left is given up by the last mix, if the proxy   *)
(* server takes what is left of its data or breaks; and when a proxy       *)
(* server has ended or broken, its browser connection closes: the flow     *)
(* control never keeps the last mix from noticing it.                      *)
EndsArrive ==
  \A c \in Channels :
    /\ conn[c].state \in {"closed", "ended"} ~>
         c \notin Last!Known /\ PacketsOf(up, c) = {}
    /\ proxy[c].state \in {"fin", "reset"} ~>
         conn[c].state \in {"closed", "ended"}

(* Nothing gets stuck: again and again all a browser has sent has arrived  *)
(* at the proxy server, and all the server has sent at the browser, unless *)
(* an end has gone.  Senders stop at a bound here, so they can be reached. *)
DataArrives ==
  \A c \in Channels :
    /\ []<>(\/ Len(proxy[c].got) = conn[c].sent
            \/ proxy[c].state \in {"fin", "reset", "closed"})
    /\ []<>(\/ Len(conn[c].got) = proxy[c].sent
            \/ conn[c].state \in {"closed", "ended"}
            \/ proxy[c].state \in {"reset", "closed"})

(* No stream stalls at a limit or after a partial write, and none outlives *)
(* its ends.                                                               *)
StreamsArrive == DataArrives /\ EndsArrive
=============================================================================

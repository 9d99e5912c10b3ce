------------------------------ MODULE FirstMixA ------------------------------
(***************************************************************************)
(* The packet loop of the first mix (CAFirstMixA::loop(), sendToUsers()    *)
(* and closeConnection()) with the channels of CAFirstMixChannelList: the  *)
(* packets of the users go to the next mix under channel ids of the first  *)
(* mix's own, and those of the next mix come back to the user the channel  *)
(* belongs to.  A user has two queues, one for data and one, with higher   *)
(* priority, for control messages; a packet may be sent in parts.          *)
(*                                                                         *)
(* One thread does all this, so every handler is one action; their order   *)
(* in a turn of the loop (users, mix, users again) is left open.  Users    *)
(* take a new channel id for every channel, and an id the first mix draws  *)
(* is one nobody knows any more: it is a random number of 32 bits.         *)
(***************************************************************************)
EXTENDS Integers, Sequences, FiniteSets, SequencesExt

CONSTANTS
  Users,
  Plain,         (* bound: users without control messages and kickouts,    *)
                 (* whose sockets take whole packets                       *)
  InIds,         (* channel ids of the users                               *)
  OutIds,        (* channel ids of the first mix                           *)
  MaxChannels,   (* CHANNELS_PER_CLIENT                                    *)
  MaxToMix,      (* MAX_NEXT_MIX_QUEUE_SIZE, in packets; as a bound, also  *)
                 (* for what the users of one turn may add                 *)
  MaxDown,       (* bound: data packets of the next mix in one channel     *)
  MaxControl,    (* bound: control messages waiting for a user             *)
  MaxFromMix     (* bound: packets that wait in m_pQueueReadFromMix        *)

ASSUME PacketAssumption ==
  /\ Plain \subseteq Users
  /\ MaxChannels \in Nat /\ MaxToMix \in Nat /\ MaxDown \in Nat
  /\ MaxControl \in Nat /\ MaxFromMix \in Nat
  /\ -1 \notin InIds   (* the id in packets that belong to no channel     *)

VARIABLES
  here,       (* users in the socket groups and in the connection list     *)
  forced,     (* those bRecoverTimeout is FALSE for                        *)
  channels,   (* m_HashTableOutChannels, and the channel list of every     *)
              (* user: both hold the same entries                          *)
  toMix,      (* m_pQueueSendToMix                                         *)
  fromMix,    (* m_pQueueReadFromMix                                       *)
  sendQ,      (* pQueueSend of every user                                  *)
  ctrlQ,      (* the length of pControlMessageQueue                        *)
  part,       (* oQueueEntry, while uAlreadySendPacketSize # -1            *)
  started,    (* uAlreadySendPacketSize > 0                                *)
  view,       (* the user's side: the channels it has open, with the data  *)
              (* packets it has had in each                                *)
  atMix       (* the next mix: its open channels, with the data packets it *)
              (* has sent in each                                          *)

fmvars == <<here, forced, channels, toMix, fromMix, sendQ, ctrlQ, part, started,
            view, atMix>>

None == -1     (* a channel that is not open                               *)
Refused == -2  (* one the user has open and the first mix never took       *)

UpPacket(kind, o) == [kind |-> kind, out |-> o]
DownPacket(kind, i, n) == [kind |-> kind, in |-> i, nr |-> n]
Control == DownPacket("control", -1, 0)
Nothing == DownPacket("nothing", -1, 0)   (* no packet is being sent             *)

PInit ==
  /\ here = {} /\ forced = {} /\ channels = {}
  /\ toMix = <<>> /\ fromMix = <<>>
  /\ sendQ = [u \in Users |-> <<>>] /\ ctrlQ = [u \in Users |-> 0]
  /\ part = [u \in Users |-> Nothing] /\ started = [u \in Users |-> FALSE]
  /\ view = [u \in Users |-> [i \in InIds |-> None]]
  /\ atMix = [o \in OutIds |-> None]


Of(u) == {c \in channels : c.user = u}
Known(u, i) == {c \in channels : c.user = u /\ c.in = i}

(* Ids nobody knows: neither the table nor the next mix nor a packet.      *)
Unused == {o \in OutIds :
             /\ \A c \in channels : c.out # o
             /\ atMix[o] = None
             /\ \A k \in DOMAIN toMix : toMix[k].out # o
             /\ \A k \in DOMAIN fromMix : fromMix[k].out # o}

Forget(u) ==
  /\ sendQ' = [sendQ EXCEPT ![u] = <<>>]
  /\ ctrlQ' = [ctrlQ EXCEPT ![u] = 0]
  /\ part' = [part EXCEPT ![u] = Nothing]
  /\ started' = [started EXCEPT ![u] = FALSE]
  /\ view' = [view EXCEPT ![u] = [i \in InIds |-> None]]

(* Variant: the connection is removed with all its channels, and the next  *)
(* mix is not told.                                                        *)
ClosesOfAndForgets(u) == <<>>

(* closeConnection(): a CLOSE for every channel of the user.               *)
ClosesOf(u) == SetToSeq({UpPacket("close", c.out) : c \in Of(u)})

CloseConnection(u) ==
  /\ toMix' = toMix \o ClosesOf(u)
  /\ channels' = channels \ Of(u)
  /\ here' = here \ {u} /\ forced' = forced \ {u}
  /\ Forget(u)

-----------------------------------------------------------------------------
(* Logins end in the connection list and the socket groups.                *)

UserEnters(u) ==
  /\ u \notin here
  /\ here' = here \cup {u}
  /\ UNCHANGED <<forced, channels, toMix, fromMix, sendQ, ctrlQ, part, started,
                 view, atMix>>

(* forceKickout(), by a login thread.                                      *)
ForcedOut(u) ==
  /\ u \in here \ Plain
  /\ forced' = forced \cup {u}
  /\ \E message \in {0, 1} :
       /\ ctrlQ[u] + message <= MaxControl
       /\ ctrlQ' = [ctrlQ EXCEPT ![u] = @ + message]
  /\ UNCHANGED <<here, channels, toMix, fromMix, sendQ, part, started,
                 view, atMix>>

(* checkUserConnections() finds a connection that is to be kicked out (see *)
(* FirstMixTimeouts for when it is closed), or one that is timed out.      *)
Kickout(u) ==
  /\ u \in forced /\ ctrlQ[u] > 0 /\ sendQ[u] # <<>>
  /\ sendQ' = [sendQ EXCEPT ![u] = <<>>]
  /\ UNCHANGED <<here, forced, channels, toMix, fromMix, ctrlQ, part, started,
                 view, atMix>>

(* A kickout, a timeout, or an error of the user's socket.                 *)
ConnectionCloses(u) ==
  /\ u \in here
  /\ CloseConnection(u)
  /\ UNCHANGED <<fromMix, atMix>>

-----------------------------------------------------------------------------
(* Packets from the users, while the queue to the next mix is short.       *)

Receives(u) == u \in here /\ Len(toMix) < MaxToMix

(* A packet of a control channel, with an answer or without; one that is   *)
(* not valid closes the connection (ConnectionCloses).                     *)
ControlPacket(u) ==
  /\ Receives(u) /\ u \notin Plain /\ ctrlQ[u] < MaxControl
  /\ ctrlQ' = [ctrlQ EXCEPT ![u] = @ + 1]
  /\ UNCHANGED <<here, forced, channels, toMix, fromMix, sendQ, part, started,
                 view, atMix>>

(* accountTrafficUpstream() prepares for a kickout: the packet is dropped, *)
(* and the user is told why.                                               *)
RefusedByAccounting(u) ==
  /\ Receives(u) /\ u \notin forced \cup Plain /\ ctrlQ[u] < MaxControl
  /\ forced' = forced \cup {u}
  /\ ctrlQ' = [ctrlQ EXCEPT ![u] = @ + 1]
  /\ UNCHANGED <<here, channels, toMix, fromMix, sendQ, part, started,
                 view, atMix>>

(* A user who takes a new id: nothing of a channel before is left.         *)
NewId(u, i) ==
  /\ view[u][i] = None /\ Known(u, i) = {}
  /\ \A k \in DOMAIN sendQ[u] : sendQ[u][k].in # i
  /\ part[u].in # i

(* CHANNEL_OPEN, which is dropped if the user has too many channels; the   *)
(* user does not learn of it.                                              *)
OpenPacket(u, i) ==
  /\ Receives(u) /\ NewId(u, i)
  /\ \/ /\ Cardinality(Of(u)) >= MaxChannels
        /\ view' = [view EXCEPT ![u][i] = Refused]
        /\ UNCHANGED <<channels, toMix>>
     \/ /\ Cardinality(Of(u)) < MaxChannels
        /\ view' = [view EXCEPT ![u][i] = 0]
        /\ \E o \in Unused :
             /\ channels' = channels \cup {[user |-> u, in |-> i, out |-> o]}
             /\ toMix' = Append(toMix, UpPacket("open", o))
  /\ UNCHANGED <<here, forced, fromMix, sendQ, ctrlQ, part, started, atMix>>

(* CHANNEL_DATA of a channel the user has open.                            *)
DataPacket(u, i) ==
  /\ Receives(u) /\ view[u][i] # None
  /\ \E c \in Known(u, i) : toMix' = Append(toMix, UpPacket("data", c.out))
  /\ UNCHANGED <<here, forced, channels, fromMix, sendQ, ctrlQ, part, started,
                 view, atMix>>

(* What CHANNEL_CLOSE of a known channel leaves for the next mix.          *)
PassOn(c) == Append(toMix, UpPacket("close", c.out))

(* CHANNEL_CLOSE; if the channel is gone nothing happens.                  *)
ClosePacket(u, i) ==
  /\ Receives(u) /\ view[u][i] # None
  /\ view' = [view EXCEPT ![u][i] = None]
  /\ \/ /\ Known(u, i) = {}
        /\ UNCHANGED <<channels, toMix>>
     \/ \E c \in Known(u, i) :
          /\ channels' = channels \ {c}
          /\ toMix' = PassOn(c)
  /\ UNCHANGED <<here, forced, fromMix, sendQ, ctrlQ, part, started, atMix>>

(* CHANNEL_DUMMY comes back.  It has a channel of its own (-1).            *)
DummyPacket(u) ==
  /\ Receives(u) /\ u \notin Plain /\ sendQ[u] = <<>>
  /\ sendQ' = [sendQ EXCEPT ![u] = Append(@, DownPacket("dummy", -1, 0))]
  /\ UNCHANGED <<here, forced, channels, toMix, fromMix, ctrlQ, part, started,
                 view, atMix>>

-----------------------------------------------------------------------------
(* The next mix, and the two threads between: it opens and closes channels *)
(* as it is told, and sends data and closes of its own.                    *)

MixTakes ==
  /\ toMix # <<>>
  /\ LET p == Head(toMix) IN
     atMix' = CASE p.kind = "open"  -> [atMix EXCEPT ![p.out] = 0]
                [] p.kind = "close" -> [atMix EXCEPT ![p.out] = None]
                [] OTHER            -> atMix
  /\ toMix' = Tail(toMix)
  /\ UNCHANGED <<here, forced, channels, fromMix, sendQ, ctrlQ, part, started,
                 view>>

MixSends(o) ==
  /\ atMix[o] # None /\ Len(fromMix) < MaxFromMix
  /\ \/ /\ atMix[o] < MaxDown
        /\ atMix' = [atMix EXCEPT ![o] = @ + 1]
        /\ fromMix' = Append(fromMix, [kind |-> "data", out |-> o, nr |-> atMix[o] + 1])
     \/ /\ atMix' = [atMix EXCEPT ![o] = None]
        /\ fromMix' = Append(fromMix, [kind |-> "close", out |-> o, nr |-> atMix[o]])
  /\ UNCHANGED <<here, forced, channels, toMix, sendQ, ctrlQ, part, started,
                 view>>

(* The channels after a packet of the next mix: CLOSE removes its channel. *)
AfterDown(p, c) == IF p.kind = "close" THEN channels \ {c} ELSE channels

(* Step 4b of the loop: the packet goes to the user the channel belongs    *)
(* to; a packet of a channel that is gone is dropped.                      *)
FromMix ==
  /\ fromMix # <<>>
  /\ LET p == Head(fromMix)
         known == {c \in channels : c.out = p.out} IN
     \/ /\ known = {}
        /\ UNCHANGED <<channels, sendQ>>
     \/ \E c \in known :
          /\ channels' = AfterDown(p, c)
          /\ sendQ' = [sendQ EXCEPT ![c.user] = Append(@, DownPacket(p.kind, c.in, p.nr))]
  /\ fromMix' = Tail(fromMix)
  /\ UNCHANGED <<here, forced, toMix, ctrlQ, part, started, view, atMix>>

-----------------------------------------------------------------------------
(* sendToUsers(), for a user whose socket takes data.                      *)

(* Which queue the packet is to come from: decided in every turn, also     *)
(* when a part of a packet is sent already.                                *)
Chosen(u) ==
  IF ctrlQ[u] > 0 THEN "control" ELSE IF sendQ[u] # <<>> THEN "data" ELSE "none"

(* Variant: the packet is taken from its queue in every turn.              *)
TakesAlways(u) == Chosen(u) # "none"

(* A new packet is taken when the one before is completely sent.           *)
Takes(u) == Chosen(u) # "none" /\ part[u] = Nothing

PacketOf(u) ==
  IF ~Takes(u) THEN part[u] ELSE IF Chosen(u) = "control" THEN Control ELSE Head(sendQ[u])

(* The user gets a packet; one of a channel it has closed it ignores.      *)
Seen(u, p) ==
  CASE p.kind = "data"  -> [view EXCEPT ![u][p.in] = IF @ = None THEN @ ELSE @ + 1]
    [] p.kind = "close" -> [view EXCEPT ![u][p.in] = None]
    [] OTHER            -> view

(* What send() takes of the packet: nothing (E_AGAIN), a part of it, or    *)
(* the rest.  A packet that is sent goes through the accounting, which may *)
(* end in a kickout (accountTrafficDownstream(); that bCountPacket is set  *)
(* anew in every turn is left out); an error closes the connection         *)
(* (ConnectionCloses).                                                     *)
SendToUser(u) ==
  /\ u \in here
  /\ Chosen(u) # "none" \/ started[u]
  /\ sendQ' = [sendQ EXCEPT ![u] = IF Takes(u) /\ Chosen(u) = "data" THEN Tail(@) ELSE @]
  /\ ctrlQ' = [ctrlQ EXCEPT ![u] = IF Takes(u) /\ Chosen(u) = "control" THEN @ - 1 ELSE @]
  /\ \/ /\ u \notin Plain
        /\ part' = [part EXCEPT ![u] = PacketOf(u)]
        /\ \E some \in {started[u], TRUE} : started' = [started EXCEPT ![u] = some]
        /\ UNCHANGED <<forced, view>>
     \/ /\ part' = [part EXCEPT ![u] = Nothing]
        /\ started' = [started EXCEPT ![u] = FALSE]
        /\ view' = Seen(u, PacketOf(u))
        /\ forced' \in {forced, forced \cup ({u} \ Plain)}
  /\ UNCHANGED <<here, channels, toMix, fromMix, atMix>>

PNext ==
  \/ \E u \in Users :
       \/ UserEnters(u) \/ ForcedOut(u) \/ Kickout(u) \/ ConnectionCloses(u)
       \/ ControlPacket(u) \/ RefusedByAccounting(u) \/ DummyPacket(u)
       \/ \E i \in InIds : OpenPacket(u, i) \/ DataPacket(u, i) \/ ClosePacket(u, i)
       \/ SendToUser(u)
  \/ MixTakes \/ FromMix
  \/ \E o \in OutIds : MixSends(o)

PSpec == PInit /\ [][PNext]_fmvars

-----------------------------------------------------------------------------
(* Properties.                                                             *)

(* What the next mix will make of a channel when it has had all packets.   *)
OpenAfterAll(o) ==
  LET about == {k \in DOMAIN toMix : toMix[k].out = o /\ toMix[k].kind # "data"}
  IN IF about = {} THEN atMix[o] # None
     ELSE toMix[CHOOSE k \in about : \A j \in about : j <= k].kind = "open"

(* The first mix and the next mix agree on the channels, whichever of them *)
(* or of the users closes one, and however a connection ends: what the     *)
(* next mix has open, or will have, is in the table, and a channel of the  *)
(* table is open there or its CLOSE is on its way back.                    *)
NextMixAgrees ==
  /\ \A o \in OutIds : OpenAfterAll(o) => \E c \in channels : c.out = o
  /\ \A c \in channels :
       \/ OpenAfterAll(c.out)
       \/ \E k \in DOMAIN fromMix : fromMix[k].out = c.out /\ fromMix[k].kind = "close"

(* The packets a user has yet to get: the one being sent, those that wait, *)
(* and, of all users, those that wait in m_pQueueReadFromMix.              *)
Unsent(u) == <<part[u]>> \o sendQ[u]
OnTheWay(u) == Unsent(u) \o fromMix

(* Their places that belong to channel i.                                  *)
InUnsent(u, i) == {k \in DOMAIN Unsent(u) : Unsent(u)[k].in = i}
InFromMix(u, i) == {k \in DOMAIN fromMix : \E c \in Known(u, i) : fromMix[k].out = c.out}
PlacesOf(u, i) == InUnsent(u, i) \cup {Len(Unsent(u)) + k : k \in InFromMix(u, i)}

(* At the places D of queue s is what comes after packet lo of a channel:  *)
(* the data up to packet hi, each once and in this order, and behind it,   *)
(* if the channel has ended, the CLOSE.                                    *)
InOrder(s, D, lo, hi, ended) ==
  /\ lo <= hi
  /\ \A k \in D : IF s[k].kind = "data" THEN lo < s[k].nr /\ s[k].nr <= hi
                 ELSE ended /\ s[k].kind = "close" /\ s[k].nr = hi
  /\ \A j, k \in D : j < k => s[j].kind = "data" /\ (s[k].kind = "data" => s[j].nr < s[k].nr)
  /\ \A n \in (lo + 1)..hi : \E k \in D : s[k].kind = "data" /\ s[k].nr = n
  /\ ended => \E k \in D : s[k].kind = "close"

(* What the next mix has sent in a channel: nothing before it is open.     *)
SentIn(c) == IF atMix[c.out] = None THEN 0 ELSE atMix[c.out]

(* A user who is not being kicked out gets every packet of a channel, once *)
(* and in the order in which the next mix has sent them, the CLOSE last,   *)
(* although packets are sent in parts and control messages overtake data;  *)
(* and a channel a user has open is in the table or its CLOSE is on its    *)
(* way to the user.                                                        *)
UserAgrees ==
  \A u \in here \ forced, i \in InIds :
    view[u][i] \notin {None, Refused} =>
      LET way == OnTheWay(u)
          mine == PlacesOf(u, i)
      IN \/ \E k \in mine : /\ way[k].kind = "close"
                            /\ InOrder(way, mine, view[u][i], way[k].nr, TRUE)
         \/ \E c \in Known(u, i) : InOrder(way, mine, view[u][i], SentIn(c), FALSE)
=============================================================================

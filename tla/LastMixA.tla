------------------------------- MODULE LastMixA -------------------------------
(***************************************************************************)
(* CALastMixA::loop(): the last mix connects each channel to a proxy       *)
(* server, writes what the user sends to that server and packs what the    *)
(* server sends into packets for the user.  One thread runs three steps    *)
(* for ever: process packets of the previous mix, write to the proxies,    *)
(* read from the proxies.                                                  *)
(*                                                                         *)
(* "up" is the way of the packets from the user to this loop, its end is   *)
(* m_pQueueReadFromMix; "down" the way back, its start m_pQueueSendToMix.  *)
(* The mixes between keep the order of the packets and lose none.  The     *)
(* user's OPEN packets decrypt; the replay database, the control channels  *)
(* and a restart are not part of this module.                              *)
(***************************************************************************)
EXTENDS Naturals, Sequences, FiniteSets

CONSTANTS
  Channels,
  SoftLimit,      (* FLOW_CONTROL_SENDME_SOFT_LIMIT                        *)
  HardLimit,      (* FLOW_CONTROL_SENDME_HARD_LIMIT                        *)
  MaxSendQueue,   (* MAX_MIXIN_SEND_QUEUE_SIZE, in packets                 *)
  MaxDown,        (* bound: items a proxy sends on each channel            *)
  NoEntry

VARIABLES
  entry,    (* m_pChannelList                                              *)
  proxy,    (* the proxy server at the other end of each channel's socket  *)
  pc,       (* the step of the loop                                        *)
  budget,   (* packets step 1 may still process                            *)
  ready,    (* channels the last select() signalled, not yet visited       *)
  up, down

loopVars == <<pc, budget, ready>>

-----------------------------------------------------------------------------
Entries ==
  [queue : Seq(Nat),                   (* pQueueSend                       *)
   closed : BOOLEAN,                   (* pQueueSend->isClosed()           *)
   downstream : 0..HardLimit,          (* sendmeCounterDownstream          *)
   upstream : 0..(SoftLimit - 1),      (* sendmeCounterUpstream            *)
   write : BOOLEAN]                    (* is in psocketgroupCacheWrite     *)

NewEntry == [queue |-> <<>>, closed |-> FALSE, downstream |-> 0,
             upstream |-> 0, write |-> FALSE]

Known == {c \in Channels : entry[c] # NoEntry}

(* "fin": it has closed its side, "reset": its connection is broken,       *)
(* "closed": the mix has closed the socket, or never got one.              *)
Proxies ==
  [state : {"none", "open", "fin", "reset", "closed"},
   got : Seq(Nat),      (* items written to it                             *)
   sent : Nat,          (* items it has sent                               *)
   read : Nat,          (* how many of them the mix has read               *)
   full : BOOLEAN]      (* no space in the socket's send buffer            *)

Packet(c, flags, item) ==
  [channel |-> c, flags |-> flags, sendme |-> FALSE, item |-> item]

SendMePacket(c) == [Packet(c, "DATA", 0) EXCEPT !.sendme = TRUE]

Init ==
  /\ entry = [c \in Channels |-> NoEntry]
  /\ proxy = [c \in Channels |->
       [state |-> "none", got |-> <<>>, sent |-> 0, read |-> 0, full |-> FALSE]]
  /\ pc = "packets" /\ budget = 1 /\ ready = {}

-----------------------------------------------------------------------------
(* Close the proxy's socket and remove the channel's entry.                *)
RemoveChannel(c) ==
  /\ entry' = [entry EXCEPT ![c] = NoEntry]
  /\ proxy' = [proxy EXCEPT ![c].state = "closed"]

SendClose(c) == down' = Append(down, Packet(c, "CLOSE", 0))

(* ... and tell the user.                                                  *)
RemoveAndTell(c) == RemoveChannel(c) /\ SendClose(c)

(* Step 1: the next packet of m_pQueueReadFromMix.                         *)
TakePacket ==
  /\ pc = "packets" /\ budget > 0 /\ up # <<>>
  /\ up' = Tail(up)
  /\ budget' = budget - 1
  /\ UNCHANGED <<pc, ready>>

(* OPEN of an unknown channel: a proxy accepts the connection and the data *)
(* that came with the packet ...                                           *)
OpenChannel ==
  /\ TakePacket
  /\ LET p == Head(up)
     IN  /\ p.flags = "OPEN" /\ p.channel \notin Known
         /\ entry' = [entry EXCEPT ![p.channel] = NewEntry]
         /\ proxy' = [proxy EXCEPT ![p.channel].state = "open",
                                   ![p.channel].got = <<p.item>>]
  /\ UNCHANGED down

(* ... or none does.                                                       *)
OpenFails ==
  /\ TakePacket
  /\ LET c == Head(up).channel
     IN  /\ Head(up).flags = "OPEN" /\ c \notin Known
         /\ proxy' = [proxy EXCEPT ![c].state = "closed"]
         /\ SendClose(c)
  /\ UNCHANGED entry

(* Variant: CLOSE drops what has not been written yet.                     *)
CloseDropping ==
  /\ TakePacket
  /\ Head(up).flags = "CLOSE" /\ Head(up).channel \in Known
  /\ RemoveChannel(Head(up).channel)
  /\ UNCHANGED down

(* CLOSE only closes the queue, so that the rest of it is still written.   *)
CloseChannel ==
  /\ TakePacket
  /\ LET c == Head(up).channel
     IN  /\ Head(up).flags = "CLOSE" /\ c \in Known
         /\ entry' = [entry EXCEPT ![c].closed = TRUE, ![c].write = TRUE]
  /\ UNCHANGED <<proxy, down>>

Minus(n, k) == IF n > k THEN n - k ELSE 0

(* A SENDME of the user frees a window.                                    *)
Credit(n, p) == IF p.sendme THEN Minus(n, SoftLimit) ELSE n

(* CAQueue::add() refuses data, but not the empty data of a SENDME, once   *)
(* the queue is closed.                                                    *)
Refused(c, p) == p.item # 0 /\ entry[c].closed

DataOnChannel ==
  /\ TakePacket
  /\ LET p == Head(up)
         c == p.channel
         n == entry[c].upstream + 1
     IN  /\ p.flags = "DATA" /\ c \in Known
         /\ IF Refused(c, p)
            THEN RemoveAndTell(c)
            ELSE /\ entry' = [entry EXCEPT
                      ![c].queue = IF p.item = 0 THEN @ ELSE Append(@, p.item),
                      ![c].downstream = Credit(@, p),
                      ![c].upstream = IF n >= SoftLimit THEN n - SoftLimit ELSE n,
                      ![c].write = TRUE]
                 /\ down' = IF n >= SoftLimit
                            THEN Append(down, SendMePacket(c)) ELSE down
                 /\ UNCHANGED proxy

(* DATA and CLOSE of an unknown channel, and OPEN of a known one.          *)
IgnorePacket ==
  /\ TakePacket
  /\ (Head(up).flags = "OPEN") <=> (Head(up).channel \in Known)
  /\ UNCHANGED <<entry, proxy, down>>

-----------------------------------------------------------------------------
(* Step 2: the sockets of the write group that take data or fail.          *)
Writable(c) == ~proxy[c].full \/ proxy[c].state = "reset"

EndPackets ==
  /\ pc = "packets"
  /\ budget = 0 \/ up = <<>>
  /\ pc' = "write" /\ budget' = 0
  /\ ready' = {c \in Known : entry[c].write /\ Writable(c)}
  /\ UNCHANGED <<entry, proxy, up, down>>

Visit(c, step) ==
  /\ pc = step
  /\ c \in ready /\ ready' = ready \ {c}
  /\ UNCHANGED <<pc, budget, up>>

(* Variant: all the bytes peeked are removed, not only those sent.         *)
LeftAfterPeek(queue, n) == <<>>

LeftAfter(queue, n) == SubSeq(queue, n + 1, Len(queue))

(* send() takes some of the queue; of an empty queue it takes nothing and  *)
(* cannot fail.  A queue written to its end leaves the write group, and if *)
(* the user has closed the channel, that was its end.                      *)
WriteToProxy(c) ==
  /\ Visit(c, "write")
  /\ \E n \in 0..Len(entry[c].queue) :
       LET left == LeftAfter(entry[c].queue, n)
           state == IF left = <<>> /\ entry[c].closed
                    THEN "closed" ELSE proxy[c].state
       IN  /\ n = 0 => entry[c].queue = <<>>
           /\ n > 0 => proxy[c].state # "reset"
           /\ proxy' = [proxy EXCEPT
                ![c].got = @ \o SubSeq(entry[c].queue, 1, n),
                ![c].full = n < Len(entry[c].queue),
                ![c].state = state]
           /\ entry' = [entry EXCEPT
                ![c] = IF left = <<>> /\ entry[c].closed THEN NoEntry
                       ELSE [@ EXCEPT !.queue = left, !.write = left # <<>>]]
  /\ UNCHANGED down

WriteFails(c) ==
  /\ Visit(c, "write")
  /\ entry[c].queue # <<>> /\ proxy[c].state = "reset"
  /\ RemoveAndTell(c)

-----------------------------------------------------------------------------
(* Step 3: the sockets with data, an end or an error, of channels whose    *)
(* user has acknowledged enough.                                           *)
Readable(c) ==
  proxy[c].sent > proxy[c].read \/ proxy[c].state \in {"fin", "reset"}

MayRead(c) == entry[c].downstream < HardLimit

(* The step is skipped while m_pQueueSendToMix is too long; any part of    *)
(* "down" may have left that queue already.                                *)
EndWrites ==
  /\ pc = "write" /\ ready = {}
  /\ pc' = "read"
  /\ \/ ready' = {c \in Known : Readable(c) /\ MayRead(c)}
     \/ Len(down) >= MaxSendQueue /\ ready' = {}
  /\ UNCHANGED <<budget, entry, proxy, up, down>>

ReadFromProxy(c) ==
  /\ Visit(c, "read")
  /\ proxy[c].sent > proxy[c].read /\ proxy[c].state # "reset"
  /\ proxy' = [proxy EXCEPT ![c].read = @ + 1]
  /\ entry' = [entry EXCEPT ![c].downstream = @ + 1]
  /\ down' = Append(down, Packet(c, "DATA", proxy[c].read + 1))

(* Variant: the user is not told.                                          *)
ReadEndsSilently(c) ==
  /\ Visit(c, "read")
  /\ \/ proxy[c].state = "reset"
     \/ proxy[c].state = "fin" /\ proxy[c].sent = proxy[c].read
  /\ RemoveChannel(c)
  /\ UNCHANGED down

ReadEnds(c) ==
  /\ Visit(c, "read")
  /\ \/ proxy[c].state = "reset"
     \/ proxy[c].state = "fin" /\ proxy[c].sent = proxy[c].read
  /\ RemoveAndTell(c)

(* The next round: one packet per channel, and one more.                   *)
EndReads ==
  /\ pc = "read" /\ ready = {}
  /\ pc' = "packets" /\ budget' = Cardinality(Known) + 1
  /\ UNCHANGED <<ready, entry, proxy, up, down>>

Loop ==
  \/ OpenChannel \/ OpenFails \/ CloseChannel \/ DataOnChannel \/ IgnorePacket
  \/ EndPackets \/ EndWrites \/ EndReads
  \/ \E c \in Channels :
       WriteToProxy(c) \/ WriteFails(c) \/ ReadFromProxy(c) \/ ReadEnds(c)

-----------------------------------------------------------------------------
(* The proxy servers.                                                      *)

ProxySends(c) ==
  /\ proxy[c].state = "open" /\ proxy[c].sent < MaxDown[c]
  /\ proxy' = [proxy EXCEPT ![c].sent = @ + 1]

ProxyEnds(c) ==
  /\ proxy[c].state = "open"
  /\ proxy' = [proxy EXCEPT ![c].state = "fin"]

ProxyBreaks(c) ==
  /\ proxy[c].state \in {"open", "fin"}
  /\ proxy' = [proxy EXCEPT ![c].state = "reset"]

(* It reads, so that the socket takes data again.                          *)
ProxyDrains(c) ==
  /\ proxy[c].full
  /\ proxy' = [proxy EXCEPT ![c].full = FALSE]

Servers ==
  /\ \E c \in Channels :
       ProxySends(c) \/ ProxyEnds(c) \/ ProxyBreaks(c) \/ ProxyDrains(c)
  /\ UNCHANGED <<entry, loopVars, up, down>>

Next == Loop \/ Servers
=============================================================================

------------------------------ MODULE LastMixB ------------------------------
(***************************************************************************)
(* The last mix of type B (TypeB/): a user's stream is a chain of short    *)
(* channels.  The previous mixes send one packet per channel; the last mix *)
(* sends a few packets back, each at a deadline or earlier when the proxy  *)
(* server has data, and the last of them is a CLOSE.  A chain without      *)
(* channels waits for the next one, for a time.                            *)
(*                                                                         *)
(* CALastMixB::loop() is one thread: it takes packets from the previous    *)
(* mix, writes to the proxy servers and asks every chain for a packet.     *)
(* Time is counted in ticks, relative to now.  The contents of packets     *)
(* (chain ids, error flags), delay buckets and statistics are left out.    *)
(***************************************************************************)
EXTENDS Integers, Sequences, FiniteSets

CONSTANTS
  Chains,             (* chain ids                                         *)
  ChannelIds,
  Watched,            (* the channels whose CLOSE is looked for             *)
  LineOf,             (* the lower 16 bits of a chain id: its hash line    *)
  LastLine,           (* 0xFFFF                                            *)
  MaxChains,          (* MAX_POLLFD                                        *)
  DownstreamPackets,  (* CHANNEL_DOWNSTREAM_PACKETS                        *)
  ChannelTimeout, ChainTimeout, DeadlineTimeout,
  NotIdle

ASSUME LastMixBAssumption ==
  /\ IsFiniteSet(Chains) /\ IsFiniteSet(ChannelIds)
  /\ LineOf \in [Chains -> 0..LastLine]
  /\ MaxChains \in Nat \ {0} /\ DownstreamPackets \in Nat \ {0}
  /\ {ChannelTimeout, ChainTimeout, DeadlineTimeout} \subseteq Nat \ {0}
  /\ Watched \subseteq ChannelIds
  /\ NotIdle \notin Int

VARIABLES
  chain,    (* the chain table: chains that exist                          *)
  due,      (* the channel table: when the packets left are to be sent     *)
  phase,    (* the step of the loop: "up", "write" or "down"               *)
  left,     (* packets the loop still takes in this round                  *)
  todo,     (* chains this step of the loop has still to look at           *)
  opened    (* ghost: channels the previous mixes have open                *)

chainvars == <<chain, due, phase, left, todo, opened>>

(* A chain has a socket as long as it is not closed (m_upstreamClosed and  *)
(* m_downstreamClosed change together); "idle" counts from m_lastAccessTime*)
(* and "pending" says that the upstream queue holds data and the socket is *)
(* in the write group.                                                     *)
Chain == [closed : BOOLEAN, pending : BOOLEAN, channels : Seq(ChannelIds),
          idle : {NotIdle} \cup 0..ChainTimeout + 1]

FreshChain == [closed |-> FALSE, pending |-> FALSE, channels |-> <<>>, idle |-> NotIdle]

Members(k) == {k.channels[i] : i \in DOMAIN k.channels}

(* A table with another entry for x, and one without those in S.           *)
With(f, x, v) == [y \in DOMAIN f \cup {x} |-> IF y = x THEN v ELSE f[y]]
Without(f, S) == [x \in DOMAIN f \ S |-> f[x]]

ChainInit ==
  /\ chain = <<>> /\ due = <<>> /\ opened = {}
  /\ phase = "up" /\ left = 1 /\ todo = {}

(* forceImmediateResponsesInternal() for the channels in S.                *)
Immediately(S, times) ==
  [h \in DOMAIN times |->
     IF h \in S THEN [i \in DOMAIN times[h] |-> IF times[h][i] > 0 THEN 0 ELSE times[h][i]]
                ELSE times[h]]

(* closeChainInternal(): what the chain is afterwards.                     *)
Closed(k) == [k EXCEPT !.closed = TRUE, !.pending = FALSE]

-----------------------------------------------------------------------------
(* Step 1: packets from the previous mix.                                  *)

Takes == phase = "up" /\ left > 0 /\ left' = left - 1 /\ UNCHANGED <<phase, todo>>

(* Dummies, control packets and a second packet on a channel.              *)
TakeUseless == Takes /\ UNCHANGED <<chain, due, opened>>

(* Variant: the third channel is ignored.                                  *)
AddChannelIgnored(c, k, h, fast, closes, data) ==
  LET third == Len(k.channels) >= 2
      shut  == k.closed \/ third \/ closes
      times == IF third THEN <<0>>
               ELSE [i \in 1..DownstreamPackets |->
                       IF shut \/ (fast /\ i = 1) THEN 0 ELSE ChannelTimeout]
  IN
  /\ h \notin DOMAIN due
  /\ chain' = With(chain, c, [closed   |-> shut,
                              pending  |-> ~shut /\ (k.pending \/ data),
                              channels |-> IF third THEN k.channels ELSE Append(k.channels, h),
                              idle     |-> IF k.closed \/ third THEN k.idle ELSE NotIdle])
  /\ due' = With(Immediately(Members(k), due), h, times)
  /\ opened' = opened \cup {h}

(* addChannel(), and what the rest of the packet makes of the chain: more  *)
(* data, its end, an error.  A third channel closes the chain and gets one *)
(* packet, the CLOSE.                                                      *)
AddChannel(c, k, h, fast, closes, data) ==
  LET third == Len(k.channels) >= 2
      shut  == k.closed \/ third \/ closes
      times == IF third THEN <<0>>
               ELSE [i \in 1..DownstreamPackets |->
                       IF shut \/ (fast /\ i = 1) THEN 0 ELSE ChannelTimeout]
  IN
  /\ h \notin DOMAIN due
  /\ chain' = With(chain, c, [closed   |-> shut,
                              pending  |-> ~shut /\ (k.pending \/ data),
                              channels |-> Append(k.channels, h),
                              idle     |-> IF k.closed \/ third THEN k.idle ELSE NotIdle])
  /\ due' = With(Immediately(Members(k), due), h, times)
  /\ opened' = opened \cup {h}

CreateEntry(c) == c \notin DOMAIN chain /\ Cardinality(DOMAIN chain) < MaxChains

(* createEntry() fails: a CLOSE goes back at once.                         *)
RefuseChannel(h) ==
  /\ Takes
  /\ h \notin opened /\ Cardinality(DOMAIN chain) >= MaxChains
  /\ UNCHANGED <<chain, due, opened>>

(* A new chain, with a connection to a proxy server or without.            *)
NewChain(c, h) ==
  /\ Takes
  /\ CreateEntry(c) /\ h \notin opened
  /\ \E fast, closes \in BOOLEAN : AddChannel(c, FreshChain, h, fast, closes, FALSE)

(* The packet continues a chain that is gone: a chain that only answers.   *)
UnknownChain(c, h) ==
  /\ Takes
  /\ CreateEntry(c) /\ h \notin opened
  /\ \E fast \in BOOLEAN : AddChannel(c, FreshChain, h, fast, TRUE, FALSE)

ContinueChain(c, h) ==
  /\ Takes
  /\ c \in DOMAIN chain /\ h \notin opened
  /\ \E fast, closes, data \in BOOLEAN : AddChannel(c, chain[c], h, fast, closes, data)

(* The queue is empty, or enough packets are taken for this round.         *)
EndTakes ==
  /\ phase = "up" /\ phase' = "write" /\ left' = 0
  /\ todo' \in SUBSET {c \in DOMAIN chain : chain[c].pending}
  /\ UNCHANGED <<chain, due, opened>>

-----------------------------------------------------------------------------
(* Step 2: what the proxy servers are ready to take.                       *)

WriteUpstream(c) ==
  /\ phase = "write" /\ c \in todo /\ todo' = todo \ {c}
  /\ \E rest \in BOOLEAN : chain' = [chain EXCEPT ![c].pending = rest]
  /\ UNCHANGED <<due, phase, left, opened>>

WriteUpstreamFails(c) ==
  /\ phase = "write" /\ c \in todo /\ todo' = todo \ {c}
  /\ chain' = [chain EXCEPT ![c] = Closed(@)]
  /\ due' = Immediately(Members(chain[c]), due)
  /\ UNCHANGED <<phase, left, opened>>

(* Variant: a closed chain is not asked any more.                          *)
AskedOpen == {c \in DOMAIN chain : ~chain[c].closed /\ LineOf[c] # LastLine}

(* What getFirstEntry() and getNextEntry() come to.  Only the chain at the *)
(* iterator is removed meanwhile.  The iterator counts the lines in 16     *)
(* bits and takes line 0xFFFF for the end of the table.                    *)
Asked == {c \in DOMAIN chain : LineOf[c] # LastLine}

(* Chains are asked only if the previous mix takes packets.                *)
StartDown ==
  /\ phase = "write" /\ todo = {}
  /\ phase' = "down" /\ todo' = Asked
  /\ UNCHANGED <<chain, due, left, opened>>

NextRound ==
  /\ phase' = "up" /\ left' = Cardinality(DOMAIN chain) + 1
  /\ UNCHANGED <<chain, due, todo, opened>>

SkipDown == phase = "write" /\ todo = {} /\ NextRound

EndDown == phase = "down" /\ todo = {} /\ NextRound

-----------------------------------------------------------------------------
(* Step 3: processDownstream() of one chain.                               *)

Asks(c) == phase = "down" /\ c \in todo /\ todo' = todo \ {c} /\ UNCHANGED <<phase, left>>

Idle(c)  == chain[c].idle # NotIdle
First(c) == chain[c].channels[1]
Late(c)  == due[First(c)][1] <= -DeadlineTimeout
Single(c) == Len(due[First(c)]) = 1

(* ~CAChain(): the chain takes the channels it has with it.                *)
DestroyChain(c) ==
  /\ chain' = Without(chain, {c})
  /\ due' = Without(due, Members(chain[c]))

(* No channel for too long.                                                *)
Expire(c) ==
  /\ Asks(c)
  /\ Idle(c) /\ chain[c].idle > ChainTimeout
  /\ DestroyChain(c)
  /\ UNCHANGED opened

(* Nothing to send.                                                        *)
Pass(c) ==
  /\ Asks(c)
  /\ IF Idle(c) THEN chain[c].idle <= ChainTimeout
                ELSE ~Single(c) /\ due[First(c)][1] > 0
  /\ UNCHANGED <<chain, due, opened>>

SendData(c) ==
  /\ Asks(c)
  /\ ~Idle(c) /\ ~Single(c) /\ ~Late(c) /\ ~chain[c].closed
  /\ due' = [due EXCEPT ![First(c)] = Tail(@)]
  /\ UNCHANGED <<chain, opened>>

(* No data, but a deadline.                                                *)
SendEmpty(c) ==
  /\ Asks(c)
  /\ ~Idle(c) /\ ~Single(c) /\ ~Late(c) /\ due[First(c)][1] <= 0
  /\ due' = [due EXCEPT ![First(c)] = Tail(@)]
  /\ UNCHANGED <<chain, opened>>

(* End of the data or an error: the chain closes.  The deadlines are set   *)
(* to a time read later than the one they are compared with, so that the   *)
(* first packet may go out now or at the next visit.                       *)
ReadEnds(c) ==
  /\ Asks(c)
  /\ ~Idle(c) /\ ~Single(c) /\ ~Late(c) /\ ~chain[c].closed
  /\ chain' = [chain EXCEPT ![c] = Closed(@)]
  /\ LET times == Immediately(Members(chain[c]), due) IN
       \/ due' = [times EXCEPT ![First(c)] = Tail(@)]
       \/ due[First(c)][1] > 0 /\ due' = times
  /\ UNCHANGED opened

(* The last packet of a channel, or all packets but the last one dropped   *)
(* because they are late, which closes the chain: a CLOSE.                 *)
SendChannelClose(c) ==
  /\ Asks(c)
  /\ ~Idle(c) /\ (Single(c) \/ Late(c))
  /\ LET h == First(c)
         k == IF Single(c) THEN chain[c] ELSE Closed(chain[c])
         rest == Tail(k.channels)
     IN
     /\ opened' = opened \ {h}
     /\ due' = Without(IF Single(c) THEN due ELSE Immediately(Members(k), due), {h})
     /\ chain' = IF rest = <<>> /\ k.closed THEN Without(chain, {c})
                 ELSE [chain EXCEPT ![c] =
                         [k EXCEPT !.channels = rest,
                                   !.idle = IF rest = <<>> THEN 0 ELSE @]]

-----------------------------------------------------------------------------
ChainTick ==
  /\ due' = [h \in DOMAIN due |->
               [i \in DOMAIN due[h] |->
                  IF due[h][i] > -DeadlineTimeout THEN due[h][i] - 1 ELSE due[h][i]]]
  /\ chain' = [c \in DOMAIN chain |->
                 IF Idle(c) /\ chain[c].idle <= ChainTimeout
                 THEN [chain[c] EXCEPT !.idle = @ + 1] ELSE chain[c]]
  /\ UNCHANGED <<phase, left, todo, opened>>

Takeup ==
  \/ TakeUseless
  \/ \E h \in ChannelIds : RefuseChannel(h)
  \/ \E c \in Chains, h \in ChannelIds :
       NewChain(c, h) \/ UnknownChain(c, h) \/ ContinueChain(c, h)

Ask(c) == Expire(c) \/ Pass(c) \/ SendData(c) \/ SendEmpty(c) \/ ReadEnds(c) \/ SendChannelClose(c)

ChainLoop ==
  \/ Takeup \/ EndTakes \/ StartDown \/ SkipDown \/ EndDown
  \/ \E c \in Chains : WriteUpstream(c) \/ WriteUpstreamFails(c) \/ Ask(c)

ChainNext == ChainLoop \/ ChainTick

ChainSpec == ChainInit /\ [][ChainNext]_chainvars

(* The loop runs, time passes, and the sender empties the queue to the     *)
(* previous mix, so that step 3 is not left out for ever.                  *)
ChainFairSpec ==
  ChainSpec /\ WF_chainvars(ChainLoop) /\ SF_chainvars(StartDown) /\ WF_chainvars(ChainTick)

-----------------------------------------------------------------------------
(* Every variable keeps its type.                                          *)
ChainTypeOK ==
  /\ DOMAIN chain \subseteq Chains /\ \A c \in DOMAIN chain : chain[c] \in Chain
  /\ DOMAIN due \subseteq ChannelIds /\ \A h \in DOMAIN due : due[h] \in Seq(Int) \ {<<>>}
  /\ phase \in {"up", "write", "down"} /\ left \in 0..MaxChains + 1
  /\ todo \subseteq Chains /\ opened \subseteq ChannelIds

(* Every channel the last mix knows is one the previous mixes have open,   *)
(* and is in the list of one chain, once; the lists hold nothing else.     *)
(* The channel table, the lists of the chains and the CLOSEs sent go       *)
(* together through third channels, late packets, ends of streams, failed  *)
(* writes and chains that expire.                                          *)
ChannelsKnown ==
  /\ DOMAIN due \subseteq opened
  /\ DOMAIN due = UNION {Members(chain[c]) : c \in DOMAIN chain}
  /\ \A c, d \in DOMAIN chain :
       \A i \in DOMAIN chain[c].channels, j \in DOMAIN chain[d].channels :
         chain[c].channels[i] = chain[d].channels[j] => c = d /\ i = j

(* The chain of channel h is not waiting for a channel.                    *)
InUse(h) == \E c \in DOMAIN chain : ~Idle(c) /\ h \in Members(chain[c])

(* Every channel of a chain in use is answered with a CLOSE in the end:    *)
(* "currently we have to send at least a CHANNEL-CLOSE because there is no *)
(* channel-timeout at first and middle mixes" (addChannel()).  A chain     *)
(* that a failed write closed while it waited for a channel goes on        *)
(* waiting, and takes the channels added then with it when it expires.     *)
EveryChannelCloses == \A h \in Watched : InUse(h) ~> h \notin opened
=============================================================================

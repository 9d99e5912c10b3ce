-------------------------- MODULE ChannelFlowProofs --------------------------
(***************************************************************************)
(* Proofs about a channel from end to end (ChannelFlow), for any number of *)
(* channels, any limits of the flow control and any amount of data.        *)
(***************************************************************************)
EXTENDS ChannelFlow, FiniteSetTheorems, SequenceTheorems, TLAPS

(* The last mix has not yet taken an OPEN of the channel.                  *)
Unseen(c) == proxy[c].state = "none"

(* No packet of the channel is in a queue.                                 *)
Empty(queue, c) == PacketsOf(queue, c) = {}

(* Packets of the channel with these flags come before, or after, all      *)
(* others of the channel.                                                  *)
Leads(queue, c, flags) ==
  \A i, j \in PacketsOf(queue, c) : queue[i].flags = flags => i <= j

Ends(queue, c, flags) ==
  \A i, j \in PacketsOf(queue, c) : queue[i].flags = flags => j <= i

(* An OPEN brings data, a CLOSE does not.                                  *)
CarriesWell(p) ==
  (p.flags = "OPEN" => p.item # 0) /\ (p.flags = "CLOSE" => p.item = 0)

Carries(queue, c) == \A i \in PacketsOf(queue, c) : CarriesWell(queue[i])

(* The items of the channel in a queue are those after from up to to, each *)
(* once and in order.                                                      *)
Items(queue, c) == {i \in PacketsOf(queue, c) : queue[i].item # 0}

Stream(queue, c, from, to) ==
  /\ from <= to
  /\ \A i \in Items(queue, c) : from < queue[i].item /\ queue[i].item <= to
  /\ \A i, j \in Items(queue, c) : i < j => queue[i].item < queue[j].item
  /\ \A n \in (from + 1)..to : \E i \in Items(queue, c) : queue[i].item = n

(* The items the last mix has got of a channel.                            *)
Reached(c) ==
  IF entry[c] = NoEntry THEN Len(proxy[c].got)
  ELSE Len(proxy[c].got) + Len(entry[c].queue)

(* Before its first data a connection is known to nobody.                  *)
BeforeOpen(c) ==
  /\ conn[c].state \in {"none", "new"} =>
       Unseen(c) /\ Empty(up, c) /\ conn[c].sent = 0
  /\ conn[c].state = "open" => conn[c].sent > 0

(* An OPEN comes before all else, and until it is taken nothing comes back.*)
OpenFirst(c) ==
  /\ Leads(up, c, "OPEN") /\ Carries(up, c)
  /\ OnItsWay(up, c, "OPEN") => Unseen(c)
  /\ Unseen(c) =>
       /\ Empty(down, c)
       /\ (conn[c].sent > 0 => OnItsWay(up, c, "OPEN"))
       /\ conn[c].got = <<>>
       /\ proxy[c].got = <<>> /\ proxy[c].read = 0

(* The CLOSE of the user is its last packet, and closes the queue.         *)
CloseLast(c) ==
  /\ Ends(up, c, "CLOSE")
  /\ OnItsWay(up, c, "CLOSE") => conn[c].state = "closed"
  /\ conn[c].state = "closed" =>
       \/ OnItsWay(up, c, "CLOSE")
       \/ Empty(up, c) /\ (entry[c] = NoEntry \/ entry[c].closed)
  /\ entry[c] # NoEntry /\ entry[c].closed =>
       conn[c].state = "closed" /\ Empty(up, c)

(* So is the CLOSE of the last mix, which it sends when it gives up a      *)
(* channel by itself.                                                      *)
EndLast(c) ==
  /\ (entry[c] # NoEntry) <=> proxy[c].state \in {"open", "fin", "reset"}
  /\ Ends(down, c, "CLOSE") /\ Carries(down, c)
  /\ OnItsWay(down, c, "CLOSE") => proxy[c].state = "closed"
  /\ conn[c].state = "open" /\ proxy[c].state = "closed" => OnItsWay(down, c, "CLOSE")
  /\ conn[c].state = "ended" => proxy[c].state = "closed"

(* What has arrived is what was sent, in order, and the rest is under way. *)
UpOrdered(c) ==
  /\ proxy[c].state # "closed" => Stream(up, c, Reached(c), conn[c].sent)
  /\ \A i \in 1..Len(proxy[c].got) : proxy[c].got[i] = i
  /\ entry[c] # NoEntry =>
       \A i \in 1..Len(entry[c].queue) : entry[c].queue[i] = Len(proxy[c].got) + i

DownOrdered(c) ==
  /\ conn[c].state \in {"none", "new", "open"} =>
       Stream(down, c, Len(conn[c].got), proxy[c].read)
  /\ \A i \in 1..Len(conn[c].got) : conn[c].got[i] = i

ChannelInv(c) ==
  /\ BeforeOpen(c) /\ OpenFirst(c) /\ CloseLast(c) /\ EndLast(c)
  /\ UpOrdered(c) /\ DownOrdered(c)

(* The loop visits only channels it has, and reads only what it may.       *)
LoopFits ==
  /\ pc = "packets" => ready = {}
  /\ pc = "read" => \A c \in ready : entry[c].downstream < HardLimit

-----------------------------------------------------------------------------
(* Queues of packets.                                                      *)

Queues == Seq(Local!Packets)

(* What a queue holds after a packet has been added.                       *)
LEMMA AfterAppend ==
  ASSUME NEW q \in Queues, NEW p \in Local!Packets, NEW c
  PROVE  /\ Append(q, p) \in Queues
         /\ PacketsOf(Append(q, p), c) =
              PacketsOf(q, c) \cup (IF p.channel = c THEN {Len(q) + 1} ELSE {})
         /\ \A i \in PacketsOf(q, c) : i \in 1..Len(q) /\ Append(q, p)[i] = q[i]
         /\ Append(q, p)[Len(q) + 1] = p
BY DEF Queues, PacketsOf

(* And after the first has been taken.                                     *)
LEMMA AfterTail ==
  ASSUME NEW q \in Queues, q # <<>>, NEW c
  PROVE  /\ Tail(q) \in Queues /\ Head(q) \in Local!Packets /\ Head(q) = q[1]
         /\ PacketsOf(Tail(q), c) = {i \in 1..(Len(q) - 1) : i + 1 \in PacketsOf(q, c)}
         /\ \A i \in PacketsOf(Tail(q), c) : Tail(q)[i] = q[i + 1]
         /\ \A i \in PacketsOf(q, c) : i \in 1..Len(q)
         /\ 1 \in PacketsOf(q, c) <=> Head(q).channel = c
<1>1. /\ Tail(q) \in Queues /\ Head(q) \in Local!Packets /\ Head(q) = q[1]
      /\ Len(q) \in Nat /\ Len(q) >= 1 /\ Len(Tail(q)) = Len(q) - 1
      /\ \A i \in 1..(Len(q) - 1) : Tail(q)[i] = q[i + 1]
  BY DEF Queues
<1> QED BY <1>1 DEF PacketsOf

(* To a channel two queues look the same if they hold the same packets of  *)
(* it, some places apart.                                                  *)
Apart(q, r, c, d) ==
  /\ \A i \in PacketsOf(q, c) : i + d \in PacketsOf(r, c) /\ r[i + d] = q[i]
  /\ \A i \in PacketsOf(r, c) : i - d \in PacketsOf(q, c)

SameView(q, r, c) == \E d \in Int : Apart(q, r, c, d)

LEMMA SameUnchanged ==
  ASSUME NEW q \in Queues, NEW c PROVE SameView(q, q, c)
<1>1. \A i \in PacketsOf(q, c) : i \in Int /\ i + 0 = i /\ i - 0 = i
  BY DEF Queues, PacketsOf
<1>2. Apart(q, q, c, 0) BY <1>1 DEF Apart
<1> QED BY <1>2 DEF SameView

LEMMA SameAppend ==
  ASSUME NEW q \in Queues, NEW p \in Local!Packets, NEW c, p.channel # c
  PROVE  SameView(q, Append(q, p), c)
<1>1. \A i \in PacketsOf(q, c) : i \in Int /\ i + 0 = i /\ i - 0 = i
  BY DEF Queues, PacketsOf
<1>2. Apart(q, Append(q, p), c, 0) BY <1>1, AfterAppend DEF Apart
<1> QED BY <1>2 DEF SameView

LEMMA SameTail ==
  ASSUME NEW q \in Queues, q # <<>>, NEW c, Head(q).channel # c
  PROVE  SameView(q, Tail(q), c)
<1>1. Len(q) \in Nat /\ \A i \in PacketsOf(q, c) : i \in 1..Len(q) /\ i # 1
  BY AfterTail DEF Queues
<1>2. \A i \in PacketsOf(q, c) : i - 1 \in PacketsOf(Tail(q), c) /\ Tail(q)[i - 1] = q[i]
  <2> TAKE i \in PacketsOf(q, c)
  <2>1. i - 1 \in 1..(Len(q) - 1) /\ (i - 1) + 1 = i BY <1>1
  <2> QED BY <2>1, AfterTail
<1>3. \A i \in PacketsOf(Tail(q), c) : i + 1 \in PacketsOf(q, c) /\ i \in Int BY AfterTail
<1>4. \A i \in Int : i + (-1) = i - 1 /\ i - (-1) = i + 1 OBVIOUS
<1>5. \A i \in PacketsOf(q, c) : i \in Int BY <1>1
<1>6. Apart(q, Tail(q), c, -1) BY <1>2, <1>3, <1>4, <1>5 DEF Apart
<1> QED BY <1>6 DEF SameView

(* What is said of a queue here is said of its view.                       *)
LEMMA SameSays ==
  ASSUME NEW q \in Queues, NEW r \in Queues, NEW c, SameView(q, r, c)
  PROVE  /\ Empty(q, c) <=> Empty(r, c)
         /\ \A f : OnItsWay(q, c, f) <=> OnItsWay(r, c, f)
         /\ \A f : Leads(q, c, f) => Leads(r, c, f)
         /\ \A f : Ends(q, c, f) => Ends(r, c, f)
         /\ Carries(q, c) => Carries(r, c)
         /\ \A a, b \in Nat : Stream(q, c, a, b) => Stream(r, c, a, b)
<1> PICK d \in Int : Apart(q, r, c, d) BY DEF SameView
<1>1. /\ \A i \in PacketsOf(q, c) : i \in Int /\ i + d \in PacketsOf(r, c) /\ r[i + d] = q[i]
      /\ \A i \in PacketsOf(r, c) : i \in Int /\ i - d \in PacketsOf(q, c) /\ q[i - d] = r[i]
  <2>1. /\ \A i \in PacketsOf(q, c) : i \in Int
        /\ \A i \in PacketsOf(r, c) : i \in Int
    BY DEF Queues, PacketsOf
  <2>2. \A i \in Int : (i - d) + d = i OBVIOUS
  <2> QED BY <2>1, <2>2 DEF Apart
<1> HIDE DEF Apart
<1>2. Empty(q, c) <=> Empty(r, c) BY <1>1 DEF Empty
<1>3. ASSUME NEW f PROVE OnItsWay(q, c, f) <=> OnItsWay(r, c, f) BY <1>1 DEF OnItsWay
<1>4. ASSUME NEW f, Leads(q, c, f) PROVE Leads(r, c, f)
  <2> SUFFICES ASSUME NEW i \in PacketsOf(r, c), NEW j \in PacketsOf(r, c), r[i].flags = f
               PROVE  i <= j
    BY DEF Leads
  <2>1. i - d <= j - d BY <1>1, <1>4 DEF Leads
  <2> QED BY <2>1, <1>1
<1>5. ASSUME NEW f, Ends(q, c, f) PROVE Ends(r, c, f)
  <2> SUFFICES ASSUME NEW i \in PacketsOf(r, c), NEW j \in PacketsOf(r, c), r[i].flags = f
               PROVE  j <= i
    BY DEF Ends
  <2>1. j - d <= i - d BY <1>1, <1>5 DEF Ends
  <2> QED BY <2>1, <1>1
<1>6. Carries(q, c) => Carries(r, c) BY <1>1 DEF Carries
<1>7. ASSUME NEW a \in Nat, NEW b \in Nat, Stream(q, c, a, b) PROVE Stream(r, c, a, b)
  <2>1. /\ \A i \in Items(q, c) : i + d \in Items(r, c) /\ r[i + d] = q[i]
        /\ \A i \in Items(r, c) : i \in Int /\ i - d \in Items(q, c) /\ q[i - d] = r[i]
    BY <1>1 DEF Items
  <2>2. \A i, j \in Items(r, c) : i < j => r[i].item < r[j].item
    <3> SUFFICES ASSUME NEW i \in Items(r, c), NEW j \in Items(r, c), i < j
                 PROVE  r[i].item < r[j].item
      OBVIOUS
    <3>1. i - d < j - d BY <2>1
    <3> QED BY <3>1, <2>1, <1>7 DEF Stream
  <2>3. \A i \in Items(r, c) : a < r[i].item /\ r[i].item <= b
    BY <2>1, <1>7 DEF Stream
  <2>4. \A n \in (a + 1)..b : \E i \in Items(r, c) : r[i].item = n
    BY <2>1, <1>7 DEF Stream
  <2> QED BY <2>2, <2>3, <2>4, <1>7 DEF Stream
<1> QED BY <1>2, <1>3, <1>4, <1>5, <1>6, <1>7

LEMMA ItemsTyped ==
  ASSUME NEW q \in Queues, NEW c, NEW i \in Items(q, c)
  PROVE  i \in Int /\ q[i].item \in Nat
<1>1. i \in 1..Len(q) BY DEF Items, PacketsOf
<1>2. Len(q) \in Nat /\ q[i] \in Local!Packets BY <1>1 DEF Queues
<1> QED BY <1>1, <1>2 DEF Local!Packets

(* A packet of the channel itself is added.                                *)
LEMMA OwnAppend ==
  ASSUME NEW q \in Queues, NEW p \in Local!Packets, NEW r, r = Append(q, p),
         NEW c, p.channel = c
  PROVE  /\ r \in Queues /\ ~Empty(r, c)
         /\ \A f : OnItsWay(r, c, f) <=> OnItsWay(q, c, f) \/ p.flags = f
         /\ \A f : Leads(q, c, f) /\ (Empty(q, c) \/ p.flags # f) => Leads(r, c, f)
         /\ \A f : ~OnItsWay(q, c, f) => Ends(r, c, f)
         /\ Carries(q, c) /\ CarriesWell(p) => Carries(r, c)
         /\ \A a, b \in Nat : Stream(q, c, a, b) =>
              /\ p.item = 0 => Stream(r, c, a, b)
              /\ p.item = b + 1 => Stream(r, c, a, b + 1)
<1>1. /\ r \in Queues
      /\ PacketsOf(r, c) = PacketsOf(q, c) \cup {Len(q) + 1}
      /\ \A i \in PacketsOf(q, c) : i \in 1..Len(q) /\ r[i] = q[i]
      /\ r[Len(q) + 1] = p
      /\ Len(q) \in Nat
  BY AfterAppend DEF Queues
<1> HIDE DEF PacketsOf
<1>2. ~Empty(r, c) BY <1>1 DEF Empty
<1>3. ASSUME NEW f PROVE OnItsWay(r, c, f) <=> OnItsWay(q, c, f) \/ p.flags = f
  BY <1>1 DEF OnItsWay
<1>4. ASSUME NEW f, Leads(q, c, f), Empty(q, c) \/ p.flags # f PROVE Leads(r, c, f)
  <2> SUFFICES ASSUME NEW i \in PacketsOf(r, c), NEW j \in PacketsOf(r, c), r[i].flags = f
               PROVE  i <= j
    BY DEF Leads
  <2>1. CASE i \in PacketsOf(q, c) BY <2>1, <1>1, <1>4 DEF Leads, Empty
  <2>2. CASE i = Len(q) + 1 BY <2>2, <1>1, <1>4 DEF Empty
  <2> QED BY <2>1, <2>2, <1>1
<1>5. ASSUME NEW f, ~OnItsWay(q, c, f) PROVE Ends(r, c, f)
  <2> SUFFICES ASSUME NEW i \in PacketsOf(r, c), NEW j \in PacketsOf(r, c), r[i].flags = f
               PROVE  j <= i
    BY DEF Ends
  <2>1. i = Len(q) + 1 BY <1>1, <1>5 DEF OnItsWay
  <2> QED BY <2>1, <1>1
<1>6. Carries(q, c) /\ CarriesWell(p) => Carries(r, c)
  BY <1>1 DEF Carries
<1>7. ASSUME NEW a \in Nat, NEW b \in Nat, Stream(q, c, a, b), p.item = 0
      PROVE  Stream(r, c, a, b)
  <2>1. Items(r, c) = Items(q, c) /\ \A i \in Items(q, c) : r[i] = q[i]
    BY <1>1, <1>7 DEF Items
  <2>2. \A i \in Items(r, c) : a < r[i].item /\ r[i].item <= b BY <2>1, <1>7 DEF Stream
  <2>3. \A i, j \in Items(r, c) : i < j => r[i].item < r[j].item
    <3> SUFFICES ASSUME NEW i \in Items(r, c), NEW j \in Items(r, c), i < j
                 PROVE  r[i].item < r[j].item
      OBVIOUS
    <3>1. q[i].item < q[j].item BY <2>1, <1>7 DEF Stream
    <3> QED BY <3>1, <2>1
  <2>4. \A n \in (a + 1)..b : \E i \in Items(r, c) : r[i].item = n
    <3> TAKE n \in (a + 1)..b
    <3>1. PICK i \in Items(q, c) : q[i].item = n BY <1>7 DEF Stream
    <3> QED BY <3>1, <2>1
  <2> QED BY <2>2, <2>3, <2>4, <1>7 DEF Stream
<1>8. ASSUME NEW a \in Nat, NEW b \in Nat, Stream(q, c, a, b), p.item = b + 1
      PROVE  Stream(r, c, a, b + 1)
  <2>1. /\ Items(r, c) = Items(q, c) \cup {Len(q) + 1}
        /\ \A i \in Items(q, c) : i \in 1..Len(q) /\ r[i] = q[i]
    BY <1>1, <1>8 DEF Items
  <2>2. \A i \in Items(r, c) : a < r[i].item /\ r[i].item <= b + 1
    <3> TAKE i \in Items(r, c)
    <3>1. CASE i \in Items(q, c)
      <4>1. q[i].item \in Nat BY <3>1, ItemsTyped
      <4> QED BY <3>1, <4>1, <2>1, <1>8 DEF Stream
    <3>2. CASE i = Len(q) + 1 BY <3>2, <1>1, <1>8 DEF Stream
    <3> QED BY <3>1, <3>2, <2>1
  <2>3. \A i, j \in Items(r, c) : i < j => r[i].item < r[j].item
    <3> SUFFICES ASSUME NEW i \in Items(r, c), NEW j \in Items(r, c), i < j
                 PROVE  r[i].item < r[j].item
      OBVIOUS
    <3>1. i \in Items(q, c) BY <2>1, <1>1
    <3>2. CASE j \in Items(q, c) BY <3>1, <3>2, <2>1, <1>8 DEF Stream
    <3>3. CASE j = Len(q) + 1
      <4>1. q[i].item \in Nat BY <3>1, ItemsTyped
      <4>2. q[i].item <= b /\ r[i] = q[i] BY <3>1, <2>1, <1>8 DEF Stream
      <4> QED BY <4>1, <4>2, <3>3, <1>1, <1>8
    <3> QED BY <3>2, <3>3, <2>1
  <2>4. \A n \in (a + 1)..(b + 1) : \E i \in Items(r, c) : r[i].item = n
    <3> TAKE n \in (a + 1)..(b + 1)
    <3>0. n \in (a + 1)..b \/ n = b + 1 OBVIOUS
    <3>1. CASE n \in (a + 1)..b BY <3>1, <2>1, <1>8 DEF Stream
    <3>2. CASE n = b + 1 BY <3>2, <2>1, <1>1, <1>8
    <3> QED BY <3>0, <3>1, <3>2
  <2>5. a <= b + 1 BY <1>8 DEF Stream
  <2> QED BY <2>2, <2>3, <2>4, <2>5 DEF Stream
<1> QED BY <1>1, <1>2, <1>3, <1>4, <1>5, <1>6, <1>7, <1>8

(* The packet taken is one of the channel itself.                          *)
LEMMA OwnTail ==
  ASSUME NEW q \in Queues, q # <<>>, NEW p, p = Head(q), NEW r, r = Tail(q),
         NEW c, p.channel = c
  PROVE  /\ r \in Queues /\ ~Empty(q, c) /\ p \in Local!Packets
         /\ \A f : OnItsWay(q, c, f) <=> OnItsWay(r, c, f) \/ p.flags = f
         /\ \A f : Leads(q, c, f) => Leads(r, c, f) /\ ~OnItsWay(r, c, f)
         /\ \A f : Ends(q, c, f) => Ends(r, c, f)
         /\ Ends(q, c, p.flags) => Empty(r, c)
         /\ Carries(q, c) => Carries(r, c) /\ CarriesWell(p)
         /\ \A a, b \in Nat : Stream(q, c, a, b) =>
              /\ p.item = 0 => Stream(r, c, a, b)
              /\ p.item # 0 => p.item = a + 1 /\ a + 1 <= b /\ Stream(r, c, a + 1, b)
<1>1. /\ r \in Queues /\ p \in Local!Packets
      /\ \A i \in PacketsOf(r, c) : i \in 1..(Len(q) - 1) /\ i + 1 \in PacketsOf(q, c) /\ r[i] = q[i + 1]
      /\ \A i \in PacketsOf(q, c) :
           \/ i = 1
           \/ i > 1 /\ i - 1 \in PacketsOf(r, c) /\ r[i - 1] = q[i]
      /\ 1 \in PacketsOf(q, c) /\ q[1] = p
      /\ \A i \in PacketsOf(q, c) : i \in 1..Len(q)
      /\ Len(q) \in Nat
  <2>1. /\ r \in Queues /\ p \in Local!Packets /\ q[1] = p
        /\ PacketsOf(r, c) = {i \in 1..(Len(q) - 1) : i + 1 \in PacketsOf(q, c)}
        /\ \A i \in PacketsOf(r, c) : r[i] = q[i + 1]
        /\ \A i \in PacketsOf(q, c) : i \in 1..Len(q)
        /\ 1 \in PacketsOf(q, c)
    BY AfterTail
  <2>2. Len(q) \in Nat BY DEF Queues
  <2>3. ASSUME NEW i \in PacketsOf(q, c), i # 1
        PROVE  i > 1 /\ i - 1 \in PacketsOf(r, c) /\ r[i - 1] = q[i]
    <3>1. i - 1 \in 1..(Len(q) - 1) /\ (i - 1) + 1 = i /\ i > 1 BY <2>1, <2>2, <2>3
    <3> QED BY <3>1, <2>1
  <2> QED BY <2>1, <2>2, <2>3
<1>2. ~Empty(q, c) BY <1>1 DEF Empty
<1>3. ASSUME NEW f PROVE OnItsWay(q, c, f) <=> OnItsWay(r, c, f) \/ p.flags = f
  BY <1>1 DEF OnItsWay
<1>4. ASSUME NEW f, Leads(q, c, f) PROVE Leads(r, c, f) /\ ~OnItsWay(r, c, f)
  <2>1. \A i \in PacketsOf(r, c) : r[i].flags # f
    <3> SUFFICES ASSUME NEW i \in PacketsOf(r, c), r[i].flags = f PROVE FALSE
      OBVIOUS
    <3>1. i + 1 <= 1 BY <1>1, <1>4 DEF Leads
    <3> QED BY <3>1, <1>1
  <2> QED BY <2>1 DEF Leads, OnItsWay
<1>5. ASSUME NEW f, Ends(q, c, f) PROVE Ends(r, c, f) /\ (p.flags = f => Empty(r, c))
  <2>1. Ends(r, c, f)
    <3> SUFFICES ASSUME NEW i \in PacketsOf(r, c), NEW j \in PacketsOf(r, c), r[i].flags = f
                 PROVE  j <= i
      BY DEF Ends
    <3>1. j + 1 <= i + 1 BY <1>1, <1>5 DEF Ends
    <3> QED BY <3>1, <1>1
  <2>2. ASSUME p.flags = f, NEW j \in PacketsOf(r, c) PROVE FALSE
    <3>1. j + 1 <= 1 BY <1>1, <1>5, <2>2 DEF Ends
    <3> QED BY <3>1, <1>1
  <2> QED BY <2>1, <2>2 DEF Empty
<1>6. Carries(q, c) => Carries(r, c) /\ CarriesWell(p)
  BY <1>1 DEF Carries
<1>7. ASSUME NEW a \in Nat, NEW b \in Nat, Stream(q, c, a, b), p.item = 0
      PROVE  Stream(r, c, a, b)
  <2>1. /\ \A i \in Items(r, c) : i \in Int /\ i + 1 \in Items(q, c) /\ r[i] = q[i + 1]
        /\ \A i \in Items(q, c) : i - 1 \in Items(r, c) /\ r[i - 1] = q[i]
    BY <1>1, <1>7 DEF Items
  <2>2. \A i, j \in Items(r, c) : i < j => r[i].item < r[j].item
    <3> SUFFICES ASSUME NEW i \in Items(r, c), NEW j \in Items(r, c), i < j
                 PROVE  r[i].item < r[j].item
      OBVIOUS
    <3>1. i + 1 < j + 1 /\ i + 1 \in Items(q, c) /\ j + 1 \in Items(q, c) BY <2>1
    <3>2. q[i + 1].item < q[j + 1].item BY <3>1, <1>7 DEF Stream
    <3> QED BY <3>2, <2>1
  <2>3. \A i \in Items(r, c) : a < r[i].item /\ r[i].item <= b BY <2>1, <1>7, ZenonT(60) DEF Stream
  <2>4. \A n \in (a + 1)..b : \E i \in Items(r, c) : r[i].item = n
    <3> TAKE n \in (a + 1)..b
    <3>1. PICK i \in Items(q, c) : q[i].item = n BY <1>7 DEF Stream
    <3> QED BY <3>1, <2>1
  <2> QED BY <2>2, <2>3, <2>4, <1>7 DEF Stream
<1>8. ASSUME NEW a \in Nat, NEW b \in Nat, Stream(q, c, a, b), p.item # 0
      PROVE  p.item = a + 1 /\ a + 1 <= b /\ Stream(r, c, a + 1, b)
  <2>1. /\ \A i \in Items(r, c) : i \in 1..(Len(q) - 1) /\ i + 1 \in Items(q, c) /\ r[i] = q[i + 1]
        /\ \A i \in Items(q, c) :
             \/ i = 1
             \/ i > 1 /\ i - 1 \in Items(r, c) /\ r[i - 1] = q[i]
        /\ 1 \in Items(q, c) /\ q[1] = p
    BY <1>1, <1>8 DEF Items
  <2>2. \A i \in Items(q, c) : i \in Int /\ q[i].item \in Nat BY ItemsTyped
  <2>3. a < p.item /\ p.item <= b /\ p.item \in Nat BY <2>1, <2>2, <1>8 DEF Stream
  <2>4. \A i \in Items(q, c) : i > 1 => p.item < q[i].item BY <2>1, <2>2, <1>8 DEF Stream
  <2>5. p.item = a + 1
    <3>1. a + 1 \in (a + 1)..b BY <2>3
    <3>2. PICK i \in Items(q, c) : q[i].item = a + 1 BY <3>1, <1>8 DEF Stream
    <3>3. CASE i = 1 BY <3>3, <3>2, <2>1
    <3>4. CASE i > 1 BY <3>4, <3>2, <2>2, <2>3, <2>4
    <3> QED BY <3>3, <3>4, <2>1
  <2>6. \A i \in Items(r, c) : a + 1 < r[i].item /\ r[i].item <= b
    <3> TAKE i \in Items(r, c)
    <3>1. i + 1 > 1 /\ i + 1 \in Items(q, c) /\ r[i] = q[i + 1] BY <2>1, <1>1
    <3> QED BY <3>1, <2>4, <2>5, <1>8 DEF Stream
  <2>7. \A i, j \in Items(r, c) : i < j => r[i].item < r[j].item
    <3> SUFFICES ASSUME NEW i \in Items(r, c), NEW j \in Items(r, c), i < j
                 PROVE  r[i].item < r[j].item
      OBVIOUS
    <3>1. i + 1 < j + 1 BY <2>1, <1>1
    <3> QED BY <3>1, <2>1, <1>8 DEF Stream
  <2>8. \A n \in (a + 1 + 1)..b : \E i \in Items(r, c) : r[i].item = n
    <3> TAKE n \in (a + 1 + 1)..b
    <3>1. n \in (a + 1)..b /\ n # a + 1 OBVIOUS
    <3>2. PICK i \in Items(q, c) : q[i].item = n BY <3>1, <1>8 DEF Stream
    <3>3. i # 1 BY <3>1, <3>2, <2>1, <2>5
    <3> QED BY <3>2, <3>3, <2>1
  <2>9. a + 1 <= b BY <2>3, <2>5
  <2> QED BY <2>5, <2>6, <2>7, <2>8, <2>9 DEF Stream
<1> QED BY <1>1, <1>2, <1>3, <1>4, <1>5, <1>6, <1>7, <1>8

(* A queue without packets of the channel has no part of its stream.       *)
LEMMA EmptySays ==
  ASSUME NEW q, NEW c, Empty(q, c)
  PROVE  /\ \A f : ~OnItsWay(q, c, f) /\ Leads(q, c, f) /\ Ends(q, c, f)
         /\ Carries(q, c)
         /\ \A a, b \in Nat : Stream(q, c, a, b) <=> a = b
<1>1. PacketsOf(q, c) = {} /\ Items(q, c) = {} BY DEF Empty, Items
<1> QED BY <1>1 DEF OnItsWay, Leads, Ends, Carries, Stream

-----------------------------------------------------------------------------
(* Types.                                                                  *)

TypeInv == TypeOK /\ LoopFits

LEMMA InitTypes == Init => TypeInv
<1> SUFFICES ASSUME Init PROVE TypeInv
  OBVIOUS
<1> USE ChannelFlowAssumption DEF Init, Local!Init, Last!Init
<1>1. conn \in [Channels -> Local!Connections] BY DEF Local!Connections
<1>2. proxy \in [Channels -> Last!Proxies] BY DEF Last!Proxies
<1>3. entry \in [Channels -> Last!Entries \cup {NoEntry}] OBVIOUS
<1>4. ready \subseteq Last!Known /\ up \in Seq(Local!Packets) /\ down \in Seq(Local!Packets)
  OBVIOUS
<1> QED BY <1>1, <1>2, <1>3, <1>4 DEF TypeInv, TypeOK, LoopFits

(* The packets each end sends.                                             *)
LEMMA PacketsTyped ==
  ASSUME NEW c \in Channels, NEW n \in Nat
  PROVE  /\ \A f \in {"OPEN", "DATA"} : Local!Packet(c, f, n) \in Local!Packets
         /\ Last!Packet(c, "DATA", n) \in Local!Packets
         /\ Last!Packet(c, "CLOSE", 0) \in Local!Packets
         /\ Local!Close(c) \in Local!Packets
         /\ Local!SendMePacket(c) \in Local!Packets
         /\ Last!SendMePacket(c) \in Local!Packets
BY DEF Local!Packet, Last!Packet, Local!Close, Local!SendMePacket, Last!SendMePacket,
       Local!Packets

(* Steps of the local proxy.                                               *)
ConnsTyped ==
  conn \in [Channels -> Local!Connections] /\ up \in Queues /\ down \in Queues

LEMMA LocalTypes ==
  ASSUME TypeInv, Local!Next, UNCHANGED lastVars
  PROVE  TypeInv'
<1> USE ChannelFlowAssumption
<1>1. /\ entry' = entry /\ proxy' = proxy /\ pc' = pc /\ budget' = budget /\ ready' = ready
  BY DEF lastVars
<1>2. ConnsTyped BY DEF TypeInv, TypeOK, Queues, ConnsTyped
<1> USE DEF ConnsTyped
<1>3. ConnsTyped'
  <2>1. ASSUME Local!ReceiveUnknown PROVE ConnsTyped'
    BY <1>2, <2>1, AfterTail DEF Local!ReceiveUnknown
  <2>2. ASSUME Local!ReceiveClose PROVE ConnsTyped'
    <3>1. Head(down).channel \in Channels BY <1>2, <2>2, AfterTail DEF Local!ReceiveClose, Local!Packets
    <3>2. conn' \in [Channels -> Local!Connections]
      BY <1>2, <2>2, <3>1 DEF Local!ReceiveClose, Local!Connections
    <3> QED BY <1>2, <2>2, <3>2, AfterTail DEF Local!ReceiveClose
  <2>3. ASSUME Local!ReceiveData PROVE ConnsTyped'
    <3> DEFINE p == Head(down)
               c == p.channel
    <3>1. p \in Local!Packets /\ c \in Channels /\ p.item \in Nat
      BY <1>2, <2>3, AfterTail DEF Local!ReceiveData, Local!Packets
    <3>2. /\ conn' = [conn EXCEPT
               ![c].counter = IF Local!Acknowledges(c) THEN @ - (SoftLimit - 1) ELSE @ + 1,
               ![c].got = IF p.item = 0 THEN @ ELSE Append(@, p.item)]
          /\ up' = IF Local!Acknowledges(c) THEN Append(up, Local!SendMePacket(c)) ELSE up
          /\ down' = Tail(down) /\ down # <<>>
      BY <2>3 DEF Local!ReceiveData
    <3>3. conn[c] \in Local!Connections BY <1>2, <3>1
    <3>4. (IF Local!Acknowledges(c) THEN conn[c].counter - (SoftLimit - 1)
           ELSE conn[c].counter + 1) \in 0..(SoftLimit - 1)
      BY <3>3 DEF Local!Acknowledges, Local!Connections
    <3>5. (IF p.item = 0 THEN conn[c].got ELSE Append(conn[c].got, p.item)) \in Seq(Nat)
      BY <3>1, <3>3 DEF Local!Connections
    <3> HIDE DEF p, c
    <3>6. conn' \in [Channels -> Local!Connections]
      BY <1>2, <3>1, <3>2, <3>3, <3>4, <3>5 DEF Local!Connections
    <3> QED BY <1>2, <3>1, <3>2, <3>6, AfterTail, AfterAppend, PacketsTyped
  <2>4. ASSUME NEW c \in Channels, Local!Accept(c) PROVE ConnsTyped'
    BY <1>2, <2>4 DEF Local!Accept, Local!Connections
  <2>5. ASSUME NEW c \in Channels, Local!BrowserData(c) PROVE ConnsTyped'
    <3>1. conn[c] \in Local!Connections /\ conn[c].sent + 1 \in Nat
      BY <1>2 DEF Local!Connections
    <3>2. conn' \in [Channels -> Local!Connections]
      BY <1>2, <2>5, <3>1 DEF Local!BrowserData, Local!Connections
    <3>3. PICK p \in Local!Packets : up' = Append(up, p) /\ down' = down
      BY <2>5, <3>1, PacketsTyped DEF Local!BrowserData
    <3> QED BY <1>2, <3>2, <3>3, AfterAppend
  <2>6. ASSUME NEW c \in Channels, Local!BrowserClose(c) PROVE ConnsTyped'
    <3>1. conn' \in [Channels -> Local!Connections]
      BY <1>2, <2>6 DEF Local!BrowserClose, Local!Connections
    <3> QED BY <1>2, <2>6, <3>1, AfterAppend, PacketsTyped DEF Local!BrowserClose
  <2> QED BY <2>1, <2>2, <2>3, <2>4, <2>5, <2>6 DEF Local!Next, Local!Receive
<1> QED BY <1>1, <1>3 DEF TypeInv, TypeOK, LoopFits, Queues, Last!Known

(* Steps of the last mix.                                                  *)
LastTyped ==
  /\ entry \in [Channels -> Last!Entries \cup {NoEntry}]
  /\ proxy \in [Channels -> Last!Proxies]
  /\ up \in Queues /\ down \in Queues

LoopTyped ==
  /\ pc \in {"packets", "write", "read"} /\ budget \in Nat
  /\ ready \subseteq Last!Known /\ LoopFits

LEMMA TypeParts == TypeInv <=> ConnsTyped /\ LastTyped /\ LoopTyped
BY DEF TypeInv, TypeOK, ConnsTyped, LastTyped, LoopTyped, Queues

(* What a step of the loop does to an entry that it keeps.                 *)
LEMMA EntryTyped ==
  ASSUME NEW c \in Channels, LastTyped, entry[c] # NoEntry
  PROVE  /\ entry[c] \in Last!Entries
         /\ \A q \in Seq(Nat), b \in BOOLEAN : [entry[c] EXCEPT !.queue = q, !.write = b] \in Last!Entries
         /\ [entry[c] EXCEPT !.closed = TRUE, !.write = TRUE] \in Last!Entries
         /\ \A q \in Seq(Nat), d \in 0..HardLimit, u \in 0..(SoftLimit - 1) :
              [entry[c] EXCEPT !.queue = q, !.downstream = d, !.upstream = u, !.write = TRUE]
                \in Last!Entries
         /\ entry[c].downstream < HardLimit =>
              [entry[c] EXCEPT !.downstream = @ + 1] \in Last!Entries
<1> USE ChannelFlowAssumption
<1>1. entry[c] \in Last!Entries BY DEF LastTyped
<1>2. entry[c].downstream < HardLimit => entry[c].downstream + 1 \in 0..HardLimit
  BY <1>1 DEF Last!Entries
<1> QED BY <1>1, <1>2, Zenon DEF Last!Entries

(* And to a proxy server.                                                  *)
LEMMA ProxyTyped ==
  ASSUME NEW c \in Channels, LastTyped
  PROVE  /\ proxy[c] \in Last!Proxies
         /\ \A s \in {"open", "fin", "reset", "closed"} :
              [proxy[c] EXCEPT !.state = s] \in Last!Proxies
         /\ \A g \in Seq(Nat) :
              [proxy[c] EXCEPT !.state = "open", !.got = g] \in Last!Proxies
         /\ \A g \in Seq(Nat), f \in BOOLEAN, s \in {"none", "open", "fin", "reset", "closed"} :
              [proxy[c] EXCEPT !.got = g, !.full = f, !.state = s] \in Last!Proxies
         /\ [proxy[c] EXCEPT !.read = @ + 1] \in Last!Proxies
         /\ [proxy[c] EXCEPT !.sent = @ + 1] \in Last!Proxies
         /\ [proxy[c] EXCEPT !.full = FALSE] \in Last!Proxies
<1>1. proxy[c] \in Last!Proxies BY DEF LastTyped
<1>2. proxy[c].read + 1 \in Nat /\ proxy[c].sent + 1 \in Nat BY <1>1 DEF Last!Proxies
<1> QED BY <1>1, <1>2, Zenon DEF Last!Proxies

(* What send() takes of a queue, and what it leaves.                       *)
LEMMA WriteSplits ==
  ASSUME NEW q \in Seq(Nat), NEW n \in 0..Len(q)
  PROVE  /\ SubSeq(q, 1, n) \in Seq(Nat) /\ Len(SubSeq(q, 1, n)) = n
         /\ \A i \in 1..n : SubSeq(q, 1, n)[i] = q[i]
         /\ Last!LeftAfter(q, n) \in Seq(Nat) /\ Len(Last!LeftAfter(q, n)) = Len(q) - n
         /\ \A i \in 1..(Len(q) - n) : Last!LeftAfter(q, n)[i] = q[n + i]
<1>1. Len(q) \in Nat /\ n \in Nat /\ n <= Len(q) OBVIOUS
<1>2. \A i \in 1..n : q[i] \in Nat BY <1>1
<1>3. \A i \in (n + 1)..Len(q) : q[i] \in Nat BY <1>1
<1>4. /\ SubSeq(q, 1, n) \in Seq(Nat)
      /\ Len(SubSeq(q, 1, n)) = IF 1 <= n THEN n - 1 + 1 ELSE 0
      /\ \A i \in 1..(n - 1 + 1) : SubSeq(q, 1, n)[i] = q[1 + i - 1]
  BY <1>1, <1>2, SubSeqProperties
<1>5. /\ SubSeq(q, n + 1, Len(q)) \in Seq(Nat)
      /\ Len(SubSeq(q, n + 1, Len(q))) = IF n + 1 <= Len(q) THEN Len(q) - (n + 1) + 1 ELSE 0
      /\ \A i \in 1..(Len(q) - (n + 1) + 1) : SubSeq(q, n + 1, Len(q))[i] = q[(n + 1) + i - 1]
  <2>1. n + 1 \in Int /\ Len(q) \in Int BY <1>1
  <2> QED BY <2>1, <1>3, SubSeqProperties
<1>6. \A i \in Int : 1 + i - 1 = i /\ (n + 1) + i - 1 = n + i BY <1>1
<1>7. n - 1 + 1 = n /\ Len(q) - (n + 1) + 1 = Len(q) - n BY <1>1
<1>8. \A i \in 1..n : SubSeq(q, 1, n)[i] = q[i]
  <2> TAKE i \in 1..n
  <2>1. i \in 1..(n - 1 + 1) /\ 1 + i - 1 = i BY <1>6, <1>7
  <2> QED BY <2>1, <1>4
<1>9. \A i \in 1..(Len(q) - n) : SubSeq(q, n + 1, Len(q))[i] = q[n + i]
  <2> TAKE i \in 1..(Len(q) - n)
  <2>1. i \in 1..(Len(q) - (n + 1) + 1) /\ (n + 1) + i - 1 = n + i BY <1>6, <1>7
  <2> QED BY <2>1, <1>5
<1>10. Len(SubSeq(q, 1, n)) = n /\ Len(SubSeq(q, n + 1, Len(q))) = Len(q) - n
  BY <1>1, <1>4, <1>5
<1> QED BY <1>4, <1>5, <1>8, <1>9, <1>10 DEF Last!LeftAfter

LEMMA TakesTyped ==
  ASSUME ConnsTyped, LastTyped, LoopTyped, Last!TakePacket
  PROVE  /\ Head(up) \in Local!Packets /\ Head(up).channel \in Channels
         /\ Head(up).item \in Nat /\ Head(up).sendme \in BOOLEAN
         /\ up' \in Queues /\ up' = Tail(up) /\ up # <<>>
         /\ budget' \in Nat /\ pc' = pc /\ ready' = ready /\ ready = {} /\ pc = "packets"
<1>1. up # <<>> /\ up \in Queues BY DEF Last!TakePacket, LastTyped
<1>2. Head(up) \in Local!Packets /\ up' \in Queues
  BY <1>1, AfterTail DEF Last!TakePacket
<1> QED BY <1>1, <1>2 DEF Last!TakePacket, LoopTyped, LoopFits, Local!Packets

(* A channel is removed.                                                   *)
LEMMA RemoveTyped ==
  ASSUME LastTyped, NEW c \in Channels, Last!RemoveChannel(c)
  PROVE  /\ entry' \in [Channels -> Last!Entries \cup {NoEntry}]
         /\ proxy' \in [Channels -> Last!Proxies]
         /\ \A d \in Channels \ {c} : entry'[d] = entry[d]
BY DEF LastTyped, Last!RemoveChannel, Last!Proxies

LEMMA LastTypes ==
  ASSUME TypeInv, Last!Next, conn' = conn
  PROVE  TypeInv'
<1> USE ChannelFlowAssumption
<1>1. ConnsTyped /\ LastTyped /\ LoopTyped BY TypeParts
<1>2. LastTyped' /\ LoopTyped'
  <2>1. ASSUME Last!OpenChannel PROVE LastTyped' /\ LoopTyped'
    <3> DEFINE c == Head(up).channel
    <3>1. Last!TakePacket BY <2>1 DEF Last!OpenChannel
    <3>2. Last!NewEntry \in Last!Entries BY DEF Last!NewEntry, Last!Entries
    <3>3. entry' \in [Channels -> Last!Entries \cup {NoEntry}]
      BY <1>1, <2>1, <3>1, <3>2, TakesTyped DEF LastTyped, Last!OpenChannel
    <3>4. <<Head(up).item>> \in Seq(Nat) BY <1>1, <3>1, TakesTyped
    <3>5. proxy' = [proxy EXCEPT ![c] =
                      [proxy[c] EXCEPT !.state = "open", !.got = <<Head(up).item>>]]
      BY <1>1, <2>1, <3>1, TakesTyped, Zenon DEF LastTyped, Last!OpenChannel
    <3>6. c \in Channels BY <1>1, <3>1, TakesTyped
    <3> HIDE DEF c
    <3>7. proxy' \in [Channels -> Last!Proxies]
      BY <1>1, <3>4, <3>5, <3>6, ProxyTyped, Zenon DEF LastTyped
    <3> QED BY <1>1, <2>1, <3>1, <3>3, <3>7, TakesTyped
            DEF LastTyped, LoopTyped, LoopFits, Last!OpenChannel
  <2>2. ASSUME Last!OpenFails PROVE LastTyped' /\ LoopTyped'
    <3>1. Last!TakePacket BY <2>2 DEF Last!OpenFails
    <3>2. proxy' \in [Channels -> Last!Proxies]
      BY <1>1, <2>2, <3>1, TakesTyped, ProxyTyped, Zenon DEF LastTyped, Last!OpenFails
    <3>3. down' \in Queues
      BY <1>1, <2>2, <3>1, TakesTyped, PacketsTyped, AfterAppend
         DEF LastTyped, Last!OpenFails, Last!SendClose
    <3> QED BY <1>1, <2>2, <3>1, <3>2, <3>3, TakesTyped
            DEF LastTyped, LoopTyped, LoopFits, Last!OpenFails
  <2>3. ASSUME Last!CloseChannel PROVE LastTyped' /\ LoopTyped'
    <3> DEFINE c == Head(up).channel
    <3>1. Last!TakePacket BY <2>3 DEF Last!CloseChannel
    <3>2. /\ c \in Channels /\ entry[c] # NoEntry
          /\ entry' = [entry EXCEPT ![c] = [entry[c] EXCEPT !.closed = TRUE, !.write = TRUE]]
      BY <1>1, <2>3, <3>1, TakesTyped DEF Last!CloseChannel, Last!Known, LastTyped
    <3>3. entry' \in [Channels -> Last!Entries \cup {NoEntry}]
      BY <1>1, <3>2, EntryTyped, Zenon DEF LastTyped
    <3> QED BY <1>1, <2>3, <3>1, <3>3, TakesTyped
            DEF LastTyped, LoopTyped, LoopFits, Last!CloseChannel
  <2>4. ASSUME Last!DataOnChannel PROVE LastTyped' /\ LoopTyped'
    <3> DEFINE p == Head(up)
               c == p.channel
               n == entry[c].upstream + 1
               q == IF p.item = 0 THEN entry[c].queue ELSE Append(entry[c].queue, p.item)
               d == Last!Credit(entry[c].downstream, p)
               u == IF n >= SoftLimit THEN n - SoftLimit ELSE n
    <3>1. Last!TakePacket BY <2>4, Zenon DEF Last!DataOnChannel
    <3>2. c \in Channels /\ entry[c] # NoEntry /\ p.item \in Nat
      BY <1>1, <2>4, <3>1, TakesTyped, Zenon DEF Last!DataOnChannel, Last!Known
    <3>3. entry[c] \in Last!Entries BY <1>1, <3>2, EntryTyped, Zenon
    <3>4. down' \in Queues /\ entry' \in [Channels -> Last!Entries \cup {NoEntry}]
          /\ proxy' \in [Channels -> Last!Proxies]
      <4>1. CASE Last!Refused(c, p)
        <5>1. Last!RemoveAndTell(c) BY <2>4, <4>1 DEF Last!DataOnChannel
        <5> QED BY <1>1, <5>1, <3>2, RemoveTyped, PacketsTyped, AfterAppend, Zenon
                DEF LastTyped, Last!RemoveAndTell, Last!SendClose
      <4>2. CASE ~Last!Refused(c, p)
        <5>1. /\ entry' = [entry EXCEPT
                   ![c].queue = IF p.item = 0 THEN @ ELSE Append(@, p.item),
                   ![c].downstream = Last!Credit(@, p),
                   ![c].upstream = u, ![c].write = TRUE]
              /\ down' = IF n >= SoftLimit THEN Append(down, Last!SendMePacket(c)) ELSE down
              /\ proxy' = proxy
          BY <2>4, <4>2, Zenon DEF Last!DataOnChannel
        <5>2. q \in Seq(Nat) BY <3>2, <3>3 DEF Last!Entries
        <5>3. d \in 0..HardLimit BY <3>3 DEF Last!Entries, Last!Credit, Last!Minus
        <5>4. u \in 0..(SoftLimit - 1) BY <3>3 DEF Last!Entries
        <5>5. entry' = [entry EXCEPT ![c] =
                 [entry[c] EXCEPT !.queue = q, !.downstream = d, !.upstream = u, !.write = TRUE]]
          BY <1>1, <3>2, <5>1, Zenon DEF LastTyped
        <5> HIDE DEF q, d, u, n
        <5>6. entry' \in [Channels -> Last!Entries \cup {NoEntry}]
          BY <1>1, <3>2, <5>2, <5>3, <5>4, <5>5, EntryTyped, Zenon DEF LastTyped
        <5> QED BY <1>1, <3>2, <5>1, <5>6, PacketsTyped, AfterAppend, Zenon DEF LastTyped
      <4> QED BY <4>1, <4>2
    <3> QED BY <1>1, <2>4, <3>1, <3>4, TakesTyped DEF LastTyped, LoopTyped, LoopFits
  <2>5. ASSUME Last!IgnorePacket PROVE LastTyped' /\ LoopTyped'
    <3>1. Last!TakePacket BY <2>5 DEF Last!IgnorePacket
    <3> QED BY <1>1, <2>5, <3>1, TakesTyped
            DEF LastTyped, LoopTyped, LoopFits, Last!IgnorePacket
  <2>6. ASSUME Last!EndPackets PROVE LastTyped' /\ LoopTyped'
    BY <1>1, <2>6 DEF LastTyped, LoopTyped, LoopFits, Last!EndPackets, Last!Known
  <2>7. ASSUME Last!EndWrites PROVE LastTyped' /\ LoopTyped'
    BY <1>1, <2>7 DEF LastTyped, LoopTyped, LoopFits, Last!EndWrites, Last!Known, Last!MayRead
  <2>8. ASSUME Last!EndReads PROVE LastTyped' /\ LoopTyped'
    <3>1. Cardinality(Last!Known) \in Nat
      <4>1. Last!Known \subseteq Channels BY DEF Last!Known
      <4> QED BY <4>1, FS_Subset, FS_CardinalityType
    <3>2. budget' \in Nat
      <4>1. budget' = Cardinality(Last!Known) + 1 BY <2>8 DEF Last!EndReads, Last!Cardinality, Cardinality
      <4> HIDE DEF Last!Known
      <4> QED BY <3>1, <4>1
    <3> HIDE DEF Last!Known
    <3>3. /\ pc' = "packets" /\ ready' = ready /\ ready = {} /\ entry' = entry
          /\ proxy' = proxy /\ up' = up /\ down' = down
      BY <2>8 DEF Last!EndReads
    <3> QED BY <1>1, <3>2, <3>3 DEF LastTyped, LoopTyped, LoopFits
  <2>9. ASSUME NEW c \in Channels, NEW step, Last!Visit(c, step), LastTyped',
               \A e \in Channels \ {c} : entry'[e] = entry[e]
        PROVE  LoopTyped'
    <3>1. /\ c \in ready /\ ready' = ready \ {c} /\ pc' = pc /\ budget' = budget
      BY <2>9 DEF Last!Visit
    <3>2. ready' \subseteq Last!Known' BY <1>1, <2>9, <3>1 DEF LoopTyped, Last!Known
    <3>3. LoopFits' BY <1>1, <2>9, <3>1, <3>2 DEF LoopTyped, LoopFits, Last!Known
    <3> QED BY <1>1, <3>1, <3>2, <3>3 DEF LoopTyped
  <2>10. ASSUME NEW c \in Channels, Last!WriteToProxy(c) PROVE LastTyped' /\ LoopTyped'
    <3>1. Last!Visit(c, "write") /\ down' = down /\ up' = up BY <2>10 DEF Last!WriteToProxy, Last!Visit
    <3>2. entry[c] # NoEntry /\ entry[c] \in Last!Entries
      BY <1>1, <3>1, EntryTyped, Zenon DEF Last!Visit, LoopTyped, Last!Known
    <3> DEFINE queue == entry[c].queue
    <3>3. queue \in Seq(Nat) /\ Len(queue) \in Nat /\ proxy[c] \in Last!Proxies
      BY <1>1, <3>2 DEF Last!Entries, LastTyped
    <3>4. PICK n \in 0..Len(queue) :
            /\ proxy' = [proxy EXCEPT
                 ![c].got = @ \o SubSeq(queue, 1, n),
                 ![c].full = n < Len(queue),
                 ![c].state = IF Last!LeftAfter(queue, n) = <<>> /\ entry[c].closed
                              THEN "closed" ELSE proxy[c].state]
            /\ entry' = [entry EXCEPT
                 ![c] = IF Last!LeftAfter(queue, n) = <<>> /\ entry[c].closed THEN NoEntry
                        ELSE [@ EXCEPT !.queue = Last!LeftAfter(queue, n),
                                       !.write = Last!LeftAfter(queue, n) # <<>>]]
      BY <2>10, Zenon DEF Last!WriteToProxy
    <3>5. SubSeq(queue, 1, n) \in Seq(Nat) /\ Last!LeftAfter(queue, n) \in Seq(Nat)
      BY <3>3, WriteSplits
    <3> HIDE DEF queue
    <3>6. entry' \in [Channels -> Last!Entries \cup {NoEntry}]
      BY <1>1, <3>2, <3>4, <3>5, EntryTyped, Zenon DEF LastTyped
    <3>7. proxy[c].got \o SubSeq(queue, 1, n) \in Seq(Nat)
      BY <3>3, <3>5 DEF Last!Proxies
    <3>8. proxy' \in [Channels -> Last!Proxies]
      <4> DEFINE g == proxy[c].got \o SubSeq(queue, 1, n)
                 f == n < Len(queue)
                 st == IF Last!LeftAfter(queue, n) = <<>> /\ entry[c].closed
                       THEN "closed" ELSE proxy[c].state
      <4>1. g \in Seq(Nat) /\ f \in BOOLEAN /\ st \in {"none", "open", "fin", "reset", "closed"}
        BY <3>3, <3>7 DEF Last!Proxies
      <4>2. proxy' = [proxy EXCEPT ![c] =
                        [proxy[c] EXCEPT !.got = g, !.full = f, !.state = st]]
        BY <1>1, <3>4 DEF LastTyped
      <4> HIDE DEF g, f, st
      <4> QED BY <1>1, <4>1, <4>2, ProxyTyped, Zenon DEF LastTyped
    <3>9. LastTyped' BY <1>1, <3>1, <3>6, <3>8 DEF LastTyped
    <3>10. \A e \in Channels \ {c} : entry'[e] = entry[e] BY <1>1, <3>4 DEF LastTyped
    <3> QED BY <2>9, <3>1, <3>9, <3>10
  <2>11. ASSUME NEW c \in Channels, NEW step, Last!Visit(c, step), Last!RemoveAndTell(c)
         PROVE  LastTyped' /\ LoopTyped'
    <3>1. /\ Last!RemoveChannel(c) /\ up' = up
          /\ down' = Append(down, Last!Packet(c, "CLOSE", 0))
      BY <2>11 DEF Last!RemoveAndTell, Last!SendClose, Last!Visit
    <3>2. LastTyped' BY <1>1, <3>1, RemoveTyped, PacketsTyped, AfterAppend DEF LastTyped
    <3> QED BY <1>1, <2>9, <2>11, <3>1, <3>2, RemoveTyped
  <2>12. ASSUME NEW c \in Channels, Last!WriteFails(c) PROVE LastTyped' /\ LoopTyped'
    BY <2>11, <2>12 DEF Last!WriteFails
  <2>13. ASSUME NEW c \in Channels, Last!ReadEnds(c) PROVE LastTyped' /\ LoopTyped'
    BY <2>11, <2>13 DEF Last!ReadEnds
  <2>14. ASSUME NEW c \in Channels, Last!ReadFromProxy(c) PROVE LastTyped' /\ LoopTyped'
    <3>1. Last!Visit(c, "read") /\ up' = up BY <2>14 DEF Last!ReadFromProxy, Last!Visit
    <3>2. entry[c] # NoEntry /\ entry[c].downstream < HardLimit
      BY <1>1, <3>1 DEF Last!Visit, LoopTyped, LoopFits, Last!Known
    <3>3. entry' = [entry EXCEPT ![c] = [entry[c] EXCEPT !.downstream = @ + 1]]
      BY <1>1, <2>14 DEF Last!ReadFromProxy, LastTyped
    <3>4. entry' \in [Channels -> Last!Entries \cup {NoEntry}]
      BY <1>1, <3>2, <3>3, EntryTyped, Zenon DEF LastTyped
    <3>5. proxy[c] \in Last!Proxies /\ proxy[c].read + 1 \in Nat
      BY <1>1 DEF LastTyped, Last!Proxies
    <3>6. proxy' \in [Channels -> Last!Proxies]
      BY <1>1, <2>14, ProxyTyped, Zenon DEF LastTyped, Last!ReadFromProxy
    <3>7. down' \in Queues
      BY <1>1, <2>14, <3>5, PacketsTyped, AfterAppend DEF LastTyped, Last!ReadFromProxy
    <3>8. LastTyped' BY <1>1, <3>1, <3>4, <3>6, <3>7 DEF LastTyped
    <3> QED BY <1>1, <2>9, <3>1, <3>3, <3>8 DEF LastTyped
  <2>15. ASSUME Last!Servers PROVE LastTyped' /\ LoopTyped'
    <3>1. /\ entry' = entry /\ pc' = pc /\ budget' = budget /\ ready' = ready
          /\ up' = up /\ down' = down
      BY <2>15 DEF Last!Servers, Last!loopVars
    <3>2. ASSUME NEW c \in Channels,
                 Last!ProxySends(c) \/ Last!ProxyEnds(c) \/ Last!ProxyBreaks(c) \/ Last!ProxyDrains(c)
          PROVE  proxy' \in [Channels -> Last!Proxies]
      <4>1. CASE Last!ProxySends(c)
        BY <1>1, <4>1, ProxyTyped, Zenon DEF LastTyped, Last!ProxySends
      <4>2. CASE Last!ProxyEnds(c)
        BY <1>1, <4>2, ProxyTyped, Zenon DEF LastTyped, Last!ProxyEnds
      <4>3. CASE Last!ProxyBreaks(c)
        BY <1>1, <4>3, ProxyTyped, Zenon DEF LastTyped, Last!ProxyBreaks
      <4>4. CASE Last!ProxyDrains(c)
        BY <1>1, <4>4, ProxyTyped, Zenon DEF LastTyped, Last!ProxyDrains
      <4> QED BY <3>2, <4>1, <4>2, <4>3, <4>4
    <3>3. proxy' \in [Channels -> Last!Proxies] BY <2>15, <3>2 DEF Last!Servers
    <3> QED BY <1>1, <3>1, <3>3 DEF LastTyped, LoopTyped, LoopFits, Last!Known
  <2> QED BY <2>1, <2>2, <2>3, <2>4, <2>5, <2>6, <2>7, <2>8, <2>10, <2>12, <2>13, <2>14, <2>15
          DEF Last!Next, Last!Loop
<1>3. ConnsTyped' BY <1>1, <1>2 DEF ConnsTyped, LastTyped
<1> QED BY <1>2, <1>3, TypeParts DEF ConnsTyped, LastTyped, LoopTyped, TypeInv, TypeOK, Queues

-----------------------------------------------------------------------------
(* The channels, one at a time.                                            *)

Types == ConnsTyped /\ LastTyped

(* The types of what is kept of a channel.                                 *)
LEMMA ChannelTyped ==
  ASSUME Types, NEW c \in Channels
  PROVE  /\ up \in Queues /\ down \in Queues
         /\ conn[c].state \in {"none", "new", "open", "closed", "ended"}
         /\ conn[c].sent \in Nat /\ conn[c].got \in Seq(Nat) /\ Len(conn[c].got) \in Nat
         /\ proxy[c].state \in {"none", "open", "fin", "reset", "closed"}
         /\ proxy[c].got \in Seq(Nat) /\ Len(proxy[c].got) \in Nat /\ proxy[c].read \in Nat
         /\ entry[c] # NoEntry =>
              /\ entry[c] \in Last!Entries
              /\ entry[c].queue \in Seq(Nat) /\ Len(entry[c].queue) \in Nat
              /\ entry[c].closed \in BOOLEAN
         /\ Reached(c) \in Nat
<1>1. /\ conn[c] \in Local!Connections /\ proxy[c] \in Last!Proxies
      /\ entry[c] # NoEntry => entry[c] \in Last!Entries
      /\ up \in Queues /\ down \in Queues
  BY DEF Types, ConnsTyped, LastTyped
<1>2. /\ conn[c].state \in {"none", "new", "open", "closed", "ended"}
      /\ conn[c].sent \in Nat /\ conn[c].got \in Seq(Nat)
  BY <1>1 DEF Local!Connections
<1>3. /\ proxy[c].state \in {"none", "open", "fin", "reset", "closed"}
      /\ proxy[c].got \in Seq(Nat) /\ proxy[c].read \in Nat
  BY <1>1 DEF Last!Proxies
<1>4. entry[c] # NoEntry => entry[c].queue \in Seq(Nat) /\ entry[c].closed \in BOOLEAN
  BY <1>1 DEF Last!Entries
<1>5. /\ Len(conn[c].got) \in Nat /\ Len(proxy[c].got) \in Nat
      /\ entry[c] # NoEntry => Len(entry[c].queue) \in Nat
  BY <1>2, <1>3, <1>4
<1>6. Reached(c) \in Nat
  <2>1. CASE entry[c] = NoEntry
    <3>1. Reached(c) = Len(proxy[c].got) BY <2>1 DEF Reached
    <3> QED BY <3>1, <1>5
  <2>2. CASE entry[c] # NoEntry
    <3>1. Reached(c) = Len(proxy[c].got) + Len(entry[c].queue) BY <2>2 DEF Reached
    <3>2. Len(proxy[c].got) \in Nat /\ Len(entry[c].queue) \in Nat BY <2>2, <1>5
    <3>3. \A a, b \in Nat : a + b \in Nat OBVIOUS
    <3> QED BY <3>1, <3>2, <3>3, Zenon
  <2> QED BY <2>1, <2>2
<1> QED BY <1>1, <1>2, <1>3, <1>4, <1>5, <1>6

(* A step about other channels.                                            *)
Untouched(c) ==
  /\ conn'[c] = conn[c] /\ entry'[c] = entry[c] /\ proxy'[c] = proxy[c]
  /\ SameView(up, up', c) /\ SameView(down, down', c)

LEMMA UntouchedKeep ==
  ASSUME Types, Types', NEW c \in Channels, ChannelInv(c), Untouched(c)
  PROVE  ChannelInv(c)'
<1>1. /\ up \in Queues /\ down \in Queues /\ up' \in Queues /\ down' \in Queues
      /\ conn[c].sent \in Nat /\ Len(conn[c].got) \in Nat /\ proxy[c].read \in Nat
      /\ Reached(c) \in Nat
  BY ChannelTyped DEF Types, LastTyped
<1>2. /\ conn'[c] = conn[c] /\ entry'[c] = entry[c] /\ proxy'[c] = proxy[c]
      /\ SameView(up, up', c) /\ SameView(down, down', c)
  BY DEF Untouched
<1>3. /\ Empty(up, c) <=> Empty(up', c)
      /\ \A f : OnItsWay(up, c, f) <=> OnItsWay(up', c, f)
      /\ \A f : Leads(up, c, f) => Leads(up', c, f)
      /\ \A f : Ends(up, c, f) => Ends(up', c, f)
      /\ Carries(up, c) => Carries(up', c)
      /\ \A a, b \in Nat : Stream(up, c, a, b) => Stream(up', c, a, b)
  BY <1>1, <1>2, SameSays
<1>4. /\ Empty(down, c) <=> Empty(down', c)
      /\ \A f : OnItsWay(down, c, f) <=> OnItsWay(down', c, f)
      /\ \A f : Ends(down, c, f) => Ends(down', c, f)
      /\ Carries(down, c) => Carries(down', c)
      /\ \A a, b \in Nat : Stream(down, c, a, b) => Stream(down', c, a, b)
  BY <1>1, <1>2, SameSays
<1> USE DEF ChannelInv
<1>5. BeforeOpen(c)' BY <1>2, <1>3, <1>4 DEF BeforeOpen, Unseen
<1>6. OpenFirst(c)' BY <1>2, <1>3, <1>4 DEF OpenFirst, Unseen
<1>7. CloseLast(c)' BY <1>2, <1>3, <1>4 DEF CloseLast
<1>8. EndLast(c)' BY <1>2, <1>3, <1>4 DEF EndLast
<1>9. UpOrdered(c)'
  <2>1. Reached(c)' = Reached(c) BY <1>2 DEF Reached
  <2> QED BY <2>1, <1>1, <1>2, <1>3 DEF UpOrdered
<1>10. DownOrdered(c)' BY <1>1, <1>2, <1>4 DEF DownOrdered
<1> QED BY <1>5, <1>6, <1>7, <1>8, <1>9, <1>10

ChannelsInv == \A c \in Channels : ChannelInv(c)

(* A step about one channel.                                               *)
LEMMA OneTouched ==
  ASSUME Types, Types', ChannelsInv, NEW c \in Channels, ChannelInv(c)',
         \A d \in Channels \ {c} : Untouched(d)
  PROVE  ChannelsInv'
BY UntouchedKeep DEF ChannelsInv

(* The first data of a connection, and more.                               *)
LEMMA BrowserDataKeeps ==
  ASSUME Types, Types', ChannelsInv, NEW c \in Channels, Local!BrowserData(c),
         UNCHANGED lastVars
  PROVE  ChannelsInv'
<1>1. /\ ChannelInv(c) /\ entry' = entry /\ proxy' = proxy /\ down' = down
  BY DEF ChannelsInv, lastVars, Local!BrowserData
<1>2. conn \in [Channels -> Local!Connections] BY DEF Types, ConnsTyped
<1> DEFINE p == Local!Packet(c, IF conn[c].state = "new" THEN "OPEN" ELSE "DATA",
                             conn[c].sent + 1)
<1>3. /\ conn[c].state \in {"new", "open"}
      /\ conn'[c].state = "open" /\ conn'[c].sent = conn[c].sent + 1
      /\ conn'[c].got = conn[c].got
      /\ \A d \in Channels \ {c} : conn'[d] = conn[d]
      /\ up' = Append(up, p)
  BY <1>2 DEF Local!BrowserData, Local!Listed, Local!Connections
<1>4. /\ p \in Local!Packets /\ p.channel = c /\ p.item = conn[c].sent + 1
      /\ p.flags = IF conn[c].state = "new" THEN "OPEN" ELSE "DATA"
  <2>1. conn[c].sent + 1 \in Nat BY ChannelTyped
  <2> QED BY <2>1, PacketsTyped DEF Local!Packet
<1> HIDE DEF p
<1>5. /\ up \in Queues /\ down \in Queues /\ conn[c].sent \in Nat /\ Reached(c) \in Nat
  BY ChannelTyped
<1>6. CarriesWell(p) BY <1>4, <1>5 DEF CarriesWell
<1>7. /\ ~Empty(up', c)
      /\ \A f : OnItsWay(up', c, f) <=> OnItsWay(up, c, f) \/ p.flags = f
      /\ \A f : Leads(up, c, f) /\ (Empty(up, c) \/ p.flags # f) => Leads(up', c, f)
      /\ \A f : ~OnItsWay(up, c, f) => Ends(up', c, f)
      /\ Carries(up, c) => Carries(up', c)
      /\ \A a \in Nat : Stream(up, c, a, conn[c].sent) => Stream(up', c, a, conn[c].sent + 1)
  BY <1>3, <1>4, <1>5, <1>6, OwnAppend
<1>8. ChannelInv(c)'
  <2> USE <1>1, <1>3, <1>4, <1>5 DEF ChannelInv
  <2>1. BeforeOpen(c)' BY DEF BeforeOpen
  <2>2. OpenFirst(c)' BY <1>7 DEF OpenFirst, BeforeOpen, Unseen
  <2>3. CloseLast(c)' BY <1>7 DEF CloseLast
  <2>4. EndLast(c)' BY DEF EndLast, BeforeOpen, Unseen
  <2>5. UpOrdered(c)'
    <3>1. Reached(c)' = Reached(c) BY DEF Reached
    <3> QED BY <3>1, <1>7 DEF UpOrdered
  <2>6. DownOrdered(c)' BY DEF DownOrdered
  <2> QED BY <2>1, <2>2, <2>3, <2>4, <2>5, <2>6
<1>9. \A d \in Channels \ {c} : Untouched(d)
  BY <1>1, <1>3, <1>4, <1>5, SameAppend, SameUnchanged DEF Untouched
<1> QED BY <1>8, <1>9, OneTouched

LEMMA BrowserCloseKeeps ==
  ASSUME Types, Types', ChannelsInv, NEW c \in Channels, Local!BrowserClose(c),
         UNCHANGED lastVars
  PROVE  ChannelsInv'
<1>1. /\ ChannelInv(c) /\ entry' = entry /\ proxy' = proxy /\ down' = down
  BY DEF ChannelsInv, lastVars, Local!BrowserClose
<1>2. conn \in [Channels -> Local!Connections] BY DEF Types, ConnsTyped
<1> DEFINE p == Local!Close(c)
<1>3. /\ conn[c].state \in {"new", "open"}
      /\ conn'[c].state = "closed" /\ conn'[c].sent = conn[c].sent
      /\ conn'[c].got = conn[c].got
      /\ \A d \in Channels \ {c} : conn'[d] = conn[d]
      /\ up' = Append(up, p)
  BY <1>2 DEF Local!BrowserClose, Local!Listed, Local!Connections
<1>4. p \in Local!Packets /\ p.channel = c /\ p.item = 0 /\ p.flags = "CLOSE"
  BY PacketsTyped DEF Local!Packet, Local!Close
<1> HIDE DEF p
<1>5. /\ up \in Queues /\ down \in Queues /\ conn[c].sent \in Nat /\ Reached(c) \in Nat
  BY ChannelTyped
<1>6. CarriesWell(p) BY <1>4 DEF CarriesWell
<1>7. /\ ~Empty(up', c)
      /\ \A f : OnItsWay(up', c, f) <=> OnItsWay(up, c, f) \/ p.flags = f
      /\ \A f : Leads(up, c, f) /\ (Empty(up, c) \/ p.flags # f) => Leads(up', c, f)
      /\ \A f : ~OnItsWay(up, c, f) => Ends(up', c, f)
      /\ Carries(up, c) => Carries(up', c)
      /\ \A a, b \in Nat : Stream(up, c, a, b) => Stream(up', c, a, b)
  BY <1>3, <1>4, <1>5, <1>6, OwnAppend
<1>8. ChannelInv(c)'
  <2> USE <1>1, <1>3, <1>4, <1>5 DEF ChannelInv
  <2>1. BeforeOpen(c)' BY DEF BeforeOpen
  <2>2. OpenFirst(c)' BY <1>7 DEF OpenFirst, BeforeOpen, Unseen
  <2>3. CloseLast(c)' BY <1>7 DEF CloseLast
  <2>4. EndLast(c)' BY DEF EndLast
  <2>5. UpOrdered(c)'
    <3>1. Reached(c)' = Reached(c) BY DEF Reached
    <3> QED BY <3>1, <1>7 DEF UpOrdered
  <2>6. DownOrdered(c)' BY DEF DownOrdered
  <2> QED BY <2>1, <2>2, <2>3, <2>4, <2>5, <2>6
<1>9. \A d \in Channels \ {c} : Untouched(d)
  BY <1>1, <1>3, <1>4, <1>5, SameAppend, SameUnchanged DEF Untouched
<1> QED BY <1>8, <1>9, OneTouched

LEMMA AcceptKeeps ==
  ASSUME Types, Types', ChannelsInv, NEW c \in Channels, Local!Accept(c),
         UNCHANGED lastVars
  PROVE  ChannelsInv'
<1>1. /\ ChannelInv(c) /\ entry' = entry /\ proxy' = proxy /\ down' = down /\ up' = up
  BY DEF ChannelsInv, lastVars, Local!Accept
<1>2. conn \in [Channels -> Local!Connections] BY DEF Types, ConnsTyped
<1>3. /\ conn[c].state = "none"
      /\ conn'[c].state = "new" /\ conn'[c].sent = conn[c].sent
      /\ conn'[c].got = conn[c].got
      /\ \A d \in Channels \ {c} : conn'[d] = conn[d]
  BY <1>2 DEF Local!Accept, Local!Connections
<1>4. up \in Queues /\ down \in Queues BY ChannelTyped
<1>5. ChannelInv(c)'
  <2> USE <1>1, <1>3 DEF ChannelInv
  <2>1. BeforeOpen(c)' BY DEF BeforeOpen, Unseen
  <2>2. OpenFirst(c)' BY DEF OpenFirst, Unseen
  <2>3. CloseLast(c)' BY DEF CloseLast
  <2>4. EndLast(c)' BY DEF EndLast
  <2>5. UpOrdered(c)' BY DEF UpOrdered, Reached
  <2>6. DownOrdered(c)' BY DEF DownOrdered
  <2> QED BY <2>1, <2>2, <2>3, <2>4, <2>5, <2>6
<1>6. \A d \in Channels \ {c} : Untouched(d)
  BY <1>1, <1>3, <1>4, SameUnchanged DEF Untouched
<1> QED BY <1>5, <1>6, OneTouched

(* One more number in order.                                               *)
LEMMA OneMore ==
  ASSUME NEW s \in Seq(Nat), NEW k \in Nat, \A i \in 1..Len(s) : s[i] = k + i,
         NEW n, n = k + Len(s) + 1
  PROVE  /\ Append(s, n) \in Seq(Nat) /\ k + Len(Append(s, n)) = n
         /\ \A i \in 1..Len(Append(s, n)) : Append(s, n)[i] = k + i
<1>1. Len(s) \in Nat /\ n \in Nat OBVIOUS
<1>2. /\ Append(s, n) \in Seq(Nat) /\ Len(Append(s, n)) = Len(s) + 1
      /\ \A i \in 1..Len(s) : Append(s, n)[i] = s[i]
      /\ Append(s, n)[Len(s) + 1] = n
  BY <1>1
<1>3. ASSUME NEW i \in 1..(Len(s) + 1) PROVE Append(s, n)[i] = k + i
  <2>1. i \in 1..Len(s) \/ i = Len(s) + 1 BY <1>1
  <2>2. CASE i \in 1..Len(s) BY <2>2, <1>2
  <2>3. CASE i = Len(s) + 1 BY <2>3, <1>1, <1>2
  <2> QED BY <2>1, <2>2, <2>3
<1>4. k + Len(Append(s, n)) = n BY <1>1, <1>2
<1> QED BY <1>2, <1>3, <1>4

(* The numbers after k, in order.                                          *)
Follows(s, k) == \A i \in 1..Len(s) : s[i] = k + i

LEMMA FollowsMore ==
  ASSUME NEW s \in Seq(Nat), NEW k \in Nat, Follows(s, k),
         NEW n, n = k + Len(s) + 1
  PROVE  Follows(Append(s, n), k) /\ k + Len(Append(s, n)) = n
BY OneMore DEF Follows

LEMMA Counted ==
  ASSUME NEW s \in Seq(Nat), \A i \in 1..Len(s) : s[i] = i,
         NEW n, n = Len(s) + 1
  PROVE  /\ Append(s, n) \in Seq(Nat) /\ Len(Append(s, n)) = n
         /\ \A i \in 1..Len(Append(s, n)) : Append(s, n)[i] = i
<1>1. Len(s) \in Nat /\ \A i \in 1..Len(s) : s[i] = 0 + i OBVIOUS
<1>2. n = 0 + Len(s) + 1 BY <1>1
<1>3. /\ Append(s, n) \in Seq(Nat) /\ 0 + Len(Append(s, n)) = n
      /\ \A i \in 1..Len(Append(s, n)) : Append(s, n)[i] = 0 + i
  BY <1>1, <1>2, OneMore
<1> QED BY <1>3

(* What the local proxy knows of the packet it takes.                      *)
LEMMA ReceiveFacts ==
  ASSUME Types, Types', ChannelsInv, down # <<>>, down' = Tail(down),
         NEW p, p = Head(down), NEW c, c = p.channel
  PROVE  /\ p \in Local!Packets /\ c \in Channels /\ p.item \in Nat
         /\ ChannelInv(c) /\ ~Empty(down, c)
         /\ conn[c].state \notin {"none", "new"}
         /\ \A f : OnItsWay(down, c, f) <=> OnItsWay(down', c, f) \/ p.flags = f
         /\ \A f : Ends(down, c, f) => Ends(down', c, f)
         /\ Ends(down, c, p.flags) => Empty(down', c)
         /\ Carries(down', c) /\ CarriesWell(p)
         /\ \A a, b \in Nat : Stream(down, c, a, b) =>
              /\ p.item = 0 => Stream(down', c, a, b)
              /\ p.item # 0 => p.item = a + 1 /\ a + 1 <= b /\ Stream(down', c, a + 1, b)
         /\ \A d \in Channels \ {c} : SameView(down, down', d)
<1>1. down \in Queues BY DEF Types, ConnsTyped
<1>2. /\ p \in Local!Packets /\ ~Empty(down, c)
      /\ \A f : OnItsWay(down, c, f) <=> OnItsWay(down', c, f) \/ p.flags = f
      /\ \A f : Ends(down, c, f) => Ends(down', c, f)
      /\ Ends(down, c, p.flags) => Empty(down', c)
      /\ \A a, b \in Nat : Stream(down, c, a, b) =>
           /\ p.item = 0 => Stream(down', c, a, b)
           /\ p.item # 0 => p.item = a + 1 /\ a + 1 <= b /\ Stream(down', c, a + 1, b)
  <2>1. p \in Local!Packets /\ ~Empty(down, c) BY <1>1, OwnTail
  <2>2. \A f : OnItsWay(down, c, f) <=> OnItsWay(down', c, f) \/ p.flags = f BY <1>1, OwnTail
  <2>3. (\A f : Ends(down, c, f) => Ends(down', c, f)) /\ (Ends(down, c, p.flags) => Empty(down', c))
    BY <1>1, OwnTail
  <2>4. ASSUME NEW a \in Nat, NEW b \in Nat, Stream(down, c, a, b)
        PROVE  /\ p.item = 0 => Stream(down', c, a, b)
               /\ p.item # 0 => p.item = a + 1 /\ a + 1 <= b /\ Stream(down', c, a + 1, b)
    BY <1>1, <2>4, OwnTail
  <2> QED BY <2>1, <2>2, <2>3, <2>4
<1>3. c \in Channels /\ p.item \in Nat BY <1>2 DEF Local!Packets
<1>4. ChannelInv(c) BY <1>3 DEF ChannelsInv
<1>5. conn[c].state \notin {"none", "new"}
  BY <1>2, <1>4 DEF ChannelInv, BeforeOpen, OpenFirst
<1>6. \A d \in Channels \ {c} : SameView(down, down', d) BY <1>1, SameTail
<1>7. Carries(down', c) /\ CarriesWell(p)
  <2>1. Carries(down, c) BY <1>4 DEF ChannelInv, EndLast
  <2> QED BY <1>1, <2>1, OwnTail
<1> QED BY <1>2, <1>3, <1>4, <1>5, <1>6, <1>7

LEMMA ReceiveUnknownKeeps ==
  ASSUME Types, Types', ChannelsInv, Local!ReceiveUnknown, UNCHANGED lastVars
  PROVE  ChannelsInv'
<1>0. Types /\ down # <<>>
  BY DEF Local!ReceiveUnknown, Local!ReceiveClose, Local!ReceiveData
<1> PICK p \in Local!Packets : p = Head(down) BY <1>0, AfterTail DEF Types, ConnsTyped
<1> PICK c \in Channels : c = p.channel BY DEF Local!Packets
<1>1. /\ entry' = entry /\ proxy' = proxy /\ conn' = conn /\ up' = up
      /\ down # <<>> /\ down' = Tail(down) /\ conn[c].state \notin {"new", "open"}
  BY DEF lastVars, Local!ReceiveUnknown, Local!Listed
<1>2. /\ c \in Channels /\ ChannelInv(c) /\ ~Empty(down, c)
      /\ conn[c].state \notin {"none", "new"}
      /\ \A f : OnItsWay(down, c, f) <=> OnItsWay(down', c, f) \/ p.flags = f
      /\ \A f : Ends(down, c, f) => Ends(down', c, f)
      /\ Carries(down', c)
      /\ \A d \in Channels \ {c} : SameView(down, down', d)
  BY <1>1, ReceiveFacts
<1>3. up \in Queues /\ down \in Queues BY <1>2, ChannelTyped
<1>4. ChannelInv(c)'
  <2> USE <1>1, <1>2 DEF ChannelInv
  <2>1. BeforeOpen(c)' BY DEF BeforeOpen, Unseen
  <2>2. OpenFirst(c)' BY DEF OpenFirst, Unseen
  <2>3. CloseLast(c)' BY DEF CloseLast
  <2>4. EndLast(c)' BY DEF EndLast
  <2>5. UpOrdered(c)' BY DEF UpOrdered, Reached
  <2>6. DownOrdered(c)' BY DEF DownOrdered
  <2> QED BY <2>1, <2>2, <2>3, <2>4, <2>5, <2>6
<1>5. \A d \in Channels \ {c} : Untouched(d)
  BY <1>1, <1>2, <1>3, SameUnchanged DEF Untouched
<1> QED BY <1>2, <1>4, <1>5, OneTouched

LEMMA ReceiveCloseKeeps ==
  ASSUME Types, Types', ChannelsInv, Local!ReceiveClose, UNCHANGED lastVars
  PROVE  ChannelsInv'
<1>0. Types /\ down # <<>>
  BY DEF Local!ReceiveUnknown, Local!ReceiveClose, Local!ReceiveData
<1> PICK p \in Local!Packets : p = Head(down) BY <1>0, AfterTail DEF Types, ConnsTyped
<1> PICK c \in Channels : c = p.channel BY DEF Local!Packets
<1>1. /\ entry' = entry /\ proxy' = proxy /\ up' = up
      /\ conn' = [conn EXCEPT ![c].state = "ended"]
      /\ down # <<>> /\ down' = Tail(down) /\ conn[c].state \in {"new", "open"}
      /\ p.flags = "CLOSE"
  BY DEF lastVars, Local!ReceiveClose, Local!Listed
<1>2. /\ c \in Channels /\ ChannelInv(c) /\ ~Empty(down, c)
      /\ conn[c].state \notin {"none", "new"}
      /\ \A f : OnItsWay(down, c, f) <=> OnItsWay(down', c, f) \/ p.flags = f
      /\ \A f : Ends(down, c, f) => Ends(down', c, f)
      /\ Carries(down', c)
      /\ \A d \in Channels \ {c} : SameView(down, down', d)
  BY <1>1, ReceiveFacts
<1>3. conn \in [Channels -> Local!Connections] BY DEF Types, ConnsTyped
<1>4. /\ conn'[c].state = "ended" /\ conn'[c].sent = conn[c].sent
      /\ conn'[c].got = conn[c].got
      /\ \A d \in Channels \ {c} : conn'[d] = conn[d]
  BY <1>1, <1>2, <1>3 DEF Local!Connections
<1>5. up \in Queues /\ down \in Queues BY <1>2, ChannelTyped
<1>6. ChannelInv(c)'
  <2> USE <1>1, <1>2, <1>4 DEF ChannelInv
  <2>1. BeforeOpen(c)' BY DEF BeforeOpen
  <2>2. OpenFirst(c)' BY DEF OpenFirst, Unseen
  <2>3. CloseLast(c)' BY DEF CloseLast
  <2>4. EndLast(c)' BY DEF EndLast
  <2>5. UpOrdered(c)' BY DEF UpOrdered, Reached
  <2>6. DownOrdered(c)' BY DEF DownOrdered
  <2> QED BY <2>1, <2>2, <2>3, <2>4, <2>5, <2>6
<1>7. \A d \in Channels \ {c} : Untouched(d)
  BY <1>1, <1>2, <1>4, <1>5, SameUnchanged DEF Untouched
<1> QED BY <1>2, <1>6, <1>7, OneTouched

LEMMA ReceiveDataKeeps ==
  ASSUME Types, Types', ChannelsInv, Local!ReceiveData, UNCHANGED lastVars
  PROVE  ChannelsInv'
<1>0. Types /\ down # <<>>
  BY DEF Local!ReceiveUnknown, Local!ReceiveClose, Local!ReceiveData
<1> PICK p \in Local!Packets : p = Head(down) BY <1>0, AfterTail DEF Types, ConnsTyped
<1> PICK c \in Channels : c = p.channel BY DEF Local!Packets
<1> DEFINE s == Local!SendMePacket(c)
           got == IF p.item = 0 THEN conn[c].got ELSE Append(conn[c].got, p.item)
<1>1. /\ entry' = entry /\ proxy' = proxy
      /\ up' = IF Local!Acknowledges(c) THEN Append(up, s) ELSE up
      /\ conn' = [conn EXCEPT
           ![c].counter = IF Local!Acknowledges(c) THEN @ - (SoftLimit - 1) ELSE @ + 1,
           ![c].got = IF p.item = 0 THEN @ ELSE Append(@, p.item)]
      /\ down # <<>> /\ down' = Tail(down) /\ conn[c].state \in {"new", "open"}
      /\ p.flags # "CLOSE"
  BY DEF lastVars, Local!ReceiveData, Local!Listed
<1>2. /\ c \in Channels /\ ChannelInv(c) /\ ~Empty(down, c) /\ p.item \in Nat
      /\ conn[c].state \notin {"none", "new"}
      /\ \A f : OnItsWay(down, c, f) <=> OnItsWay(down', c, f) \/ p.flags = f
      /\ \A f : Ends(down, c, f) => Ends(down', c, f)
      /\ Carries(down', c)
      /\ \A a, b \in Nat : Stream(down, c, a, b) =>
           /\ p.item = 0 => Stream(down', c, a, b)
           /\ p.item # 0 => p.item = a + 1 /\ a + 1 <= b /\ Stream(down', c, a + 1, b)
      /\ \A d \in Channels \ {c} : SameView(down, down', d)
  BY <1>1, ReceiveFacts
<1>3. s \in Local!Packets /\ s.channel = c /\ s.flags = "DATA" /\ s.item = 0
  BY <1>2, PacketsTyped, Zenon DEF Local!SendMePacket, Local!Packet
<1> HIDE DEF s
<1>4. conn \in [Channels -> Local!Connections] BY DEF Types, ConnsTyped
<1>5. /\ conn'[c].state = "open" /\ conn[c].state = "open" /\ conn'[c].sent = conn[c].sent
      /\ conn'[c].got = got
      /\ \A d \in Channels \ {c} : conn'[d] = conn[d]
  BY <1>1, <1>2, <1>4, ZenonT(60) DEF Local!Connections
<1>6. /\ up \in Queues /\ down \in Queues /\ conn[c].sent \in Nat /\ Reached(c) \in Nat
      /\ conn[c].got \in Seq(Nat) /\ Len(conn[c].got) \in Nat /\ proxy[c].read \in Nat
  BY <1>2, ChannelTyped
<1>7. /\ \A f : OnItsWay(up, c, f) => OnItsWay(up', c, f)
      /\ \A f : f # "DATA" /\ OnItsWay(up', c, f) => OnItsWay(up, c, f)
      /\ \A f : f # "DATA" /\ Leads(up, c, f) => Leads(up', c, f)
      /\ \A f : ~OnItsWay(up, c, f) /\ Ends(up, c, f) => Ends(up', c, f)
      /\ Carries(up, c) => Carries(up', c)
      /\ \A a, b \in Nat : Stream(up, c, a, b) => Stream(up', c, a, b)
  <2>1. CASE ~Local!Acknowledges(c) BY <1>1, <2>1
  <2>2. CASE Local!Acknowledges(c)
    <3>1. up' = Append(up, s) /\ CarriesWell(s) BY <1>1, <1>3, <2>2 DEF CarriesWell
    <3> QED BY <3>1, <1>3, <1>6, OwnAppend
  <2> QED BY <2>1, <2>2
<1>8. ChannelInv(c)'
  <2> USE <1>2, <1>5, <1>6 DEF ChannelInv
  <2>1. BeforeOpen(c)' BY DEF BeforeOpen
  <2>2. OpenFirst(c)' BY <1>1, <1>7, Zenon DEF OpenFirst, Unseen
  <2>3. CloseLast(c)' BY <1>1, <1>7, Zenon DEF CloseLast
  <2>4. EndLast(c)' BY <1>1, Zenon DEF EndLast
  <2>5. UpOrdered(c)'
    <3>1. Reached(c)' = Reached(c) BY <1>1, Zenon DEF Reached
    <3> QED BY <3>1, <1>1, <1>7, ZenonT(60) DEF UpOrdered
  <2>6. DownOrdered(c)'
    <3>1. Stream(down, c, Len(conn[c].got), proxy[c].read)
          /\ \A i \in 1..Len(conn[c].got) : conn[c].got[i] = i
      BY DEF DownOrdered
    <3>2. CASE p.item = 0 BY <1>1, <3>1, <3>2, Zenon DEF DownOrdered
    <3>3. CASE p.item # 0
      <4>1. p.item = Len(conn[c].got) + 1 /\ Stream(down', c, Len(conn[c].got) + 1, proxy[c].read)
        BY <3>1, <3>3, Zenon
      <4>2. Len(got) = Len(conn[c].got) + 1 /\ \A i \in 1..Len(got) : got[i] = i
        BY ONLY <1>6, <3>1, <3>3, <4>1, Counted
      <4> HIDE DEF got
      <4> QED BY <1>1, <4>1, <4>2, Zenon DEF DownOrdered
    <3> QED BY <3>2, <3>3
  <2> QED BY <2>1, <2>2, <2>3, <2>4, <2>5, <2>6
<1>9. \A d \in Channels \ {c} : Untouched(d)
  <2> TAKE d \in Channels \ {c}
  <2>1. SameView(up, up', d)
    <3>1. s.channel # d BY <1>3
    <3> QED BY <3>1, <1>1, <1>3, <1>6, SameAppend, SameUnchanged
  <2> QED BY <2>1, <1>1, <1>2, <1>5, Zenon DEF Untouched
<1> QED BY <1>2, <1>8, <1>9, OneTouched

(* What the last mix knows of the packet it takes.                         *)
LEMMA TakeFacts ==
  ASSUME Types, Types', ChannelsInv, Last!TakePacket,
         NEW p, p = Head(up), NEW c, c = p.channel
  PROVE  /\ c \in Channels /\ p.item \in Nat /\ p.flags \in {"OPEN", "DATA", "CLOSE"}
         /\ ChannelInv(c) /\ ~Empty(up, c)
         /\ conn[c].state \notin {"none", "new"}
         /\ \A f : OnItsWay(up, c, f) <=> OnItsWay(up', c, f) \/ p.flags = f
         /\ Leads(up', c, "OPEN") /\ ~OnItsWay(up', c, "OPEN")
         /\ Ends(up', c, "CLOSE")
         /\ p.flags = "CLOSE" => Empty(up', c) /\ conn[c].state = "closed"
         /\ Carries(up', c) /\ CarriesWell(p)
         /\ \A a, b \in Nat : Stream(up, c, a, b) =>
              /\ p.item = 0 => Stream(up', c, a, b)
              /\ p.item # 0 => p.item = a + 1 /\ a + 1 <= b /\ Stream(up', c, a + 1, b)
         /\ \A d \in Channels \ {c} : SameView(up, up', d)
<1>1. up \in Queues /\ up # <<>> /\ up' = Tail(up)
  BY DEF Types, ConnsTyped, Last!TakePacket
<1>2. p \in Local!Packets /\ ~Empty(up, c) BY <1>1, OwnTail
<1>3. c \in Channels /\ p.item \in Nat /\ p.flags \in {"OPEN", "DATA", "CLOSE"}
  BY <1>2 DEF Local!Packets
<1>4. ChannelInv(c) BY <1>3 DEF ChannelsInv
<1>5. conn[c].state \notin {"none", "new"} BY <1>2, <1>4 DEF ChannelInv, BeforeOpen
<1>6. \A f : OnItsWay(up, c, f) <=> OnItsWay(up', c, f) \/ p.flags = f BY <1>1, OwnTail
<1>7. Leads(up', c, "OPEN") /\ ~OnItsWay(up', c, "OPEN")
  <2>1. Leads(up, c, "OPEN") BY <1>4 DEF ChannelInv, OpenFirst
  <2> QED BY <1>1, <2>1, OwnTail
<1>8. Ends(up, c, "CLOSE") BY <1>4 DEF ChannelInv, CloseLast
<1>9. Ends(up', c, "CLOSE") BY <1>1, <1>8, OwnTail
<1>10. ASSUME p.flags = "CLOSE" PROVE Empty(up', c) /\ conn[c].state = "closed"
  <2>1. Ends(up, c, p.flags) BY <1>8, <1>10
  <2>2. Empty(up', c) BY <1>1, <2>1, OwnTail
  <2>3. OnItsWay(up, c, "CLOSE") BY <1>6, <1>10
  <2> QED BY <2>2, <2>3, <1>4 DEF ChannelInv, CloseLast
<1>11. Carries(up', c) /\ CarriesWell(p)
  <2>1. Carries(up, c) BY <1>4 DEF ChannelInv, OpenFirst
  <2> QED BY <1>1, <2>1, OwnTail
<1>12. ASSUME NEW a \in Nat, NEW b \in Nat, Stream(up, c, a, b)
       PROVE  /\ p.item = 0 => Stream(up', c, a, b)
              /\ p.item # 0 => p.item = a + 1 /\ a + 1 <= b /\ Stream(up', c, a + 1, b)
  BY <1>1, <1>12, OwnTail
<1>13. \A d \in Channels \ {c} : SameView(up, up', d) BY <1>1, SameTail
<1> QED BY <1>2, <1>3, <1>4, <1>5, <1>6, <1>7, <1>9, <1>10, <1>11, <1>12, <1>13

(* A packet without data that the last mix sends.                          *)
LEMMA TellFacts ==
  ASSUME Types, ChannelsInv, NEW c \in Channels, NEW s \in Local!Packets,
         s.channel = c, s.item = 0, s.flags # "OPEN", down' = Append(down, s)
  PROVE  /\ \A f : OnItsWay(down', c, f) <=> OnItsWay(down, c, f) \/ s.flags = f
         /\ proxy[c].state # "closed" => Ends(down', c, "CLOSE")
         /\ Carries(down', c)
         /\ \A a, b \in Nat : Stream(down, c, a, b) => Stream(down', c, a, b)
         /\ \A d \in Channels \ {c} : SameView(down, down', d)
<1>1. down \in Queues BY DEF Types, ConnsTyped
<1>2. ASSUME proxy[c].state # "closed" PROVE Ends(down', c, "CLOSE")
  <2>1. ~OnItsWay(down, c, "CLOSE") BY <1>2 DEF ChannelsInv, ChannelInv, EndLast
  <2> QED BY <1>1, <2>1, OwnAppend
<1>3. \A f : OnItsWay(down', c, f) <=> OnItsWay(down, c, f) \/ s.flags = f BY <1>1, OwnAppend
<1>4. ASSUME NEW a \in Nat, NEW b \in Nat, Stream(down, c, a, b) PROVE Stream(down', c, a, b)
  BY <1>1, <1>4, OwnAppend
<1>5. \A d \in Channels \ {c} : SameView(down, down', d) BY <1>1, SameAppend
<1>6. Carries(down', c)
  <2>1. Carries(down, c) BY DEF ChannelsInv, ChannelInv, EndLast
  <2>2. CarriesWell(s) BY DEF CarriesWell
  <2> QED BY <1>1, <2>1, <2>2, OwnAppend
<1> QED BY <1>2, <1>3, <1>4, <1>5, <1>6

LEMMA CloseIsPacket ==
  ASSUME NEW c \in Channels, NEW s, s = Last!Packet(c, "CLOSE", 0)
  PROVE  s \in Local!Packets /\ s.channel = c /\ s.item = 0 /\ s.flags = "CLOSE"
BY PacketsTyped DEF Last!Packet

(* The OPEN finds no entry, and brings the first data.                     *)
LEMMA OpenFacts ==
  ASSUME Types, Types', ChannelsInv, Last!TakePacket,
         NEW p, p = Head(up), NEW c, c = p.channel, p.flags = "OPEN"
  PROVE  /\ Unseen(c) /\ entry[c] = NoEntry /\ p.item = 1 /\ 1 <= conn[c].sent
         /\ Stream(up', c, 1, conn[c].sent)
         /\ Empty(down, c)
         /\ conn[c].state = "closed" => OnItsWay(up', c, "CLOSE")
<1>1. /\ c \in Channels /\ p.item \in Nat /\ ChannelInv(c) /\ ~Empty(up, c)
      /\ \A f : OnItsWay(up, c, f) <=> OnItsWay(up', c, f) \/ p.flags = f
      /\ CarriesWell(p)
      /\ \A a, b \in Nat : Stream(up, c, a, b) =>
           (p.item # 0 => p.item = a + 1 /\ a + 1 <= b /\ Stream(up', c, a + 1, b))
  BY TakeFacts
<1>2. Unseen(c) /\ p.item # 0 BY <1>1 DEF ChannelInv, OpenFirst, CarriesWell
<1>3. entry[c] = NoEntry BY <1>1, <1>2 DEF ChannelInv, EndLast, Unseen
<1>4. proxy[c].got = <<>> /\ Empty(down, c) BY <1>1, <1>2 DEF ChannelInv, OpenFirst
<1>5. Reached(c) = 0 BY <1>3, <1>4 DEF Reached
<1>6. Stream(up, c, 0, conn[c].sent) BY <1>1, <1>2, <1>5 DEF ChannelInv, UpOrdered, Unseen
<1>7. conn[c].sent \in Nat BY <1>1, ChannelTyped
<1>8. p.item = 0 + 1 /\ 0 + 1 <= conn[c].sent /\ Stream(up', c, 0 + 1, conn[c].sent)
  BY <1>1, <1>2, <1>6, <1>7
<1>9. conn[c].state = "closed" => OnItsWay(up', c, "CLOSE")
  BY <1>1 DEF ChannelInv, CloseLast
<1> QED BY <1>2, <1>3, <1>4, <1>8, <1>9

LEMMA OpenChannelKeeps ==
  ASSUME Types, Types', ChannelsInv, Last!OpenChannel, conn' = conn
  PROVE  ChannelsInv'
<1>0. Last!TakePacket BY DEF Last!OpenChannel
<1> PICK p : p = Head(up) OBVIOUS
<1> PICK c : c = p.channel OBVIOUS
<1>1. /\ c \in Channels /\ p.item \in Nat /\ ChannelInv(c)
      /\ \A f : OnItsWay(up, c, f) <=> OnItsWay(up', c, f) \/ p.flags = f
      /\ Leads(up', c, "OPEN") /\ ~OnItsWay(up', c, "OPEN") /\ Ends(up', c, "CLOSE")
      /\ Carries(up', c) /\ conn[c].state \notin {"none", "new"}
      /\ \A d \in Channels \ {c} : SameView(up, up', d)
  BY <1>0, TakeFacts
<1>2. /\ p.flags = "OPEN" /\ entry' = [entry EXCEPT ![c] = Last!NewEntry]
      /\ proxy' = [proxy EXCEPT ![c].state = "open", ![c].got = <<p.item>>]
      /\ down' = down
  BY DEF Last!OpenChannel
<1>3. /\ entry \in [Channels -> Last!Entries \cup {NoEntry}]
      /\ proxy \in [Channels -> Last!Proxies] /\ down \in Queues
  BY DEF Types, LastTyped
<1>4. /\ entry'[c] = Last!NewEntry /\ entry'[c] # NoEntry
      /\ entry'[c].queue = <<>> /\ entry'[c].closed = FALSE
      /\ \A d \in Channels \ {c} : entry'[d] = entry[d]
  <2>1. entry'[c] = Last!NewEntry /\ \A d \in Channels \ {c} : entry'[d] = entry[d]
    BY <1>1, <1>2, <1>3
  <2>2. Last!NewEntry \in Last!Entries
    BY ChannelFlowAssumption DEF Last!NewEntry, Last!Entries
  <2>3. Last!NewEntry.queue = <<>> /\ Last!NewEntry.closed = FALSE BY DEF Last!NewEntry
  <2> QED BY <2>1, <2>2, <2>3, NoEntryAssumption
<1>5. /\ proxy'[c].state = "open" /\ proxy'[c].got = <<p.item>>
      /\ proxy'[c].read = proxy[c].read
      /\ \A d \in Channels \ {c} : proxy'[d] = proxy[d]
  BY <1>1, <1>2, <1>3 DEF Last!Proxies
<1>6. /\ Unseen(c) /\ entry[c] = NoEntry /\ p.item = 1
      /\ Stream(up', c, 1, conn[c].sent) /\ Empty(down, c)
      /\ conn[c].state = "closed" => OnItsWay(up', c, "CLOSE")
  BY <1>0, <1>2, OpenFacts, SMTT(30)
<1>7. ChannelInv(c)'
  <2> USE <1>1, <1>2, <1>4, <1>5, <1>6 DEF ChannelInv
  <2>1. BeforeOpen(c)' BY Zenon DEF BeforeOpen
  <2>2. OpenFirst(c)' BY Zenon DEF OpenFirst, Unseen
  <2>3. CloseLast(c)' BY ZenonT(60) DEF CloseLast
  <2>4. EndLast(c)' BY EmptySays DEF EndLast, Unseen
  <2>5. UpOrdered(c)'
    <3>1. proxy'[c].got = <<1>> BY ONLY <1>5, <1>6
    <3>2. Len(proxy'[c].got) = 1 /\ proxy'[c].got[1] = 1 BY ONLY <3>1
    <3>3. Len(entry'[c].queue) = 0 BY ONLY <1>4
    <3>4. Reached(c)' = 1 BY ONLY <1>4, <3>2, <3>3 DEF Reached
    <3>5. \A i \in 1..Len(proxy'[c].got) : proxy'[c].got[i] = i BY ONLY <3>2
    <3>6. \A i \in 1..Len(entry'[c].queue) : entry'[c].queue[i] = Len(proxy'[c].got) + i
      BY ONLY <3>3, SMTT(30)
    <3>7. Stream(up', c, Reached(c)', conn'[c].sent) BY <3>4
    <3> QED BY ONLY <3>5, <3>6, <3>7 DEF UpOrdered
  <2>6. DownOrdered(c)' BY Zenon DEF DownOrdered
  <2> QED BY <2>1, <2>2, <2>3, <2>4, <2>5, <2>6
<1>8. \A d \in Channels \ {c} : Untouched(d)
  BY <1>1, <1>2, <1>3, <1>4, <1>5, SameUnchanged DEF Untouched
<1> QED BY <1>1, <1>7, <1>8, OneTouched

LEMMA OpenFailsKeeps ==
  ASSUME Types, Types', ChannelsInv, Last!OpenFails, conn' = conn
  PROVE  ChannelsInv'
<1>0. Last!TakePacket BY DEF Last!OpenFails
<1> PICK p : p = Head(up) OBVIOUS
<1> PICK c : c = p.channel OBVIOUS
<1> PICK s : s = Last!Packet(c, "CLOSE", 0) OBVIOUS
<1>1. /\ c \in Channels /\ p.item \in Nat /\ ChannelInv(c)
      /\ \A f : OnItsWay(up, c, f) <=> OnItsWay(up', c, f) \/ p.flags = f
      /\ Leads(up', c, "OPEN") /\ ~OnItsWay(up', c, "OPEN") /\ Ends(up', c, "CLOSE")
      /\ Carries(up', c) /\ conn[c].state \notin {"none", "new"}
      /\ \A d \in Channels \ {c} : SameView(up, up', d)
  BY <1>0, TakeFacts
<1>2. /\ p.flags = "OPEN" /\ entry' = entry
      /\ proxy' = [proxy EXCEPT ![c].state = "closed"]
      /\ down' = Append(down, s)
  BY DEF Last!OpenFails, Last!SendClose
<1>3. /\ proxy \in [Channels -> Last!Proxies] /\ down \in Queues
  BY DEF Types, LastTyped
<1>4. /\ proxy'[c].state = "closed" /\ proxy'[c].got = proxy[c].got
      /\ proxy'[c].read = proxy[c].read
      /\ \A d \in Channels \ {c} : proxy'[d] = proxy[d]
  BY <1>1, <1>2, <1>3 DEF Last!Proxies
<1>5. /\ Unseen(c) /\ entry[c] = NoEntry
      /\ conn[c].state = "closed" => OnItsWay(up', c, "CLOSE")
  BY <1>0, <1>2, OpenFacts
<1>6. s \in Local!Packets /\ s.channel = c /\ s.item = 0 /\ s.flags = "CLOSE"
  BY <1>1, CloseIsPacket
<1>7. /\ OnItsWay(down', c, "CLOSE") /\ Ends(down', c, "CLOSE")
      /\ Carries(down', c)
      /\ \A a, b \in Nat : Stream(down, c, a, b) => Stream(down', c, a, b)
      /\ \A d \in Channels \ {c} : SameView(down, down', d)
  BY <1>1, <1>2, <1>5, <1>6, TellFacts DEF Unseen
<1>8. Len(conn[c].got) \in Nat /\ proxy[c].read \in Nat BY <1>1, ChannelTyped
<1>9. ChannelInv(c)'
  <2> USE <1>1, <1>2, <1>4, <1>5, <1>7, <1>8 DEF ChannelInv
  <2>1. BeforeOpen(c)' BY DEF BeforeOpen
  <2>2. OpenFirst(c)' BY DEF OpenFirst, Unseen
  <2>3. CloseLast(c)' BY DEF CloseLast
  <2>4. EndLast(c)' BY DEF EndLast
  <2>5. UpOrdered(c)' BY DEF UpOrdered
  <2>6. DownOrdered(c)' BY DEF DownOrdered
  <2> QED BY <2>1, <2>2, <2>3, <2>4, <2>5, <2>6
<1>10. \A d \in Channels \ {c} : Untouched(d)
  BY <1>1, <1>2, <1>4, <1>7 DEF Untouched
<1> QED BY <1>1, <1>9, <1>10, OneTouched

LEMMA CloseChannelKeeps ==
  ASSUME Types, Types', ChannelsInv, Last!CloseChannel, conn' = conn
  PROVE  ChannelsInv'
<1>0. Last!TakePacket BY DEF Last!CloseChannel
<1> PICK p : p = Head(up) OBVIOUS
<1> PICK c : c = p.channel OBVIOUS
<1>1. /\ c \in Channels /\ p.item \in Nat /\ ChannelInv(c)
      /\ \A f : OnItsWay(up, c, f) <=> OnItsWay(up', c, f) \/ p.flags = f
      /\ Leads(up', c, "OPEN") /\ ~OnItsWay(up', c, "OPEN") /\ Ends(up', c, "CLOSE")
      /\ Carries(up', c) /\ CarriesWell(p) /\ conn[c].state \notin {"none", "new"}
      /\ p.flags = "CLOSE" => Empty(up', c) /\ conn[c].state = "closed"
      /\ \A a, b \in Nat : Stream(up, c, a, b) => (p.item = 0 => Stream(up', c, a, b))
      /\ \A d \in Channels \ {c} : SameView(up, up', d)
  BY <1>0, TakeFacts
<1>2. /\ p.flags = "CLOSE" /\ entry[c] # NoEntry
      /\ entry' = [entry EXCEPT ![c].closed = TRUE, ![c].write = TRUE]
      /\ proxy' = proxy /\ down' = down
  BY DEF Last!CloseChannel, Last!Known
<1>3. entry \in [Channels -> Last!Entries \cup {NoEntry}] /\ down \in Queues
  BY DEF Types, LastTyped
<1>4. /\ entry'[c] \in Last!Entries /\ entry'[c] # NoEntry
      /\ entry'[c].queue = entry[c].queue /\ entry'[c].closed = TRUE
      /\ \A d \in Channels \ {c} : entry'[d] = entry[d]
  <2>1. /\ entry'[c] = [entry[c] EXCEPT !.closed = TRUE, !.write = TRUE]
        /\ \A d \in Channels \ {c} : entry'[d] = entry[d]
    BY <1>1, <1>2, <1>3
  <2>2. entry[c] \in Last!Entries BY <1>1, <1>2, <1>3
  <2>3. /\ entry'[c] \in Last!Entries
        /\ entry'[c].queue = entry[c].queue /\ entry'[c].closed = TRUE
    BY <2>1, <2>2 DEF Last!Entries
  <2> QED BY <2>1, <2>3, NoEntryAssumption
<1>5. conn[c].sent \in Nat /\ Reached(c) \in Nat BY <1>1, ChannelTyped
<1>6. ChannelInv(c)'
  <2> USE <1>1, <1>2, <1>4, <1>5 DEF ChannelInv
  <2>a. BeforeOpen(c) /\ OpenFirst(c) /\ CloseLast(c) /\ EndLast(c)
    BY ONLY <1>1 DEF ChannelInv
  <2>b. ~Unseen(c) BY ONLY <1>2, <2>a DEF EndLast, Unseen
  <2>1. BeforeOpen(c)' BY ONLY <1>1, <2>a, conn' = conn DEF BeforeOpen
  <2>2. OpenFirst(c)' BY ONLY <1>1, <1>2, <2>b DEF OpenFirst, Unseen
  <2>3. CloseLast(c)'
    <3>1. Ends(up', c, "CLOSE") /\ Empty(up', c) /\ conn'[c].state = "closed"
      BY ONLY <1>1, <1>2, conn' = conn
    <3>2. entry'[c] # NoEntry /\ entry'[c].closed BY ONLY <1>4
    <3> QED BY ONLY <3>1, <3>2 DEF CloseLast
  <2>4. EndLast(c)' BY DEF EndLast
  <2>5. UpOrdered(c)'
    <3>1. Reached(c)' = Reached(c)
      <4>1. /\ Reached(c) = Len(proxy[c].got) + Len(entry[c].queue)
            /\ Reached(c)' = Len(proxy'[c].got) + Len(entry'[c].queue)
        BY DEF Reached
      <4>2. proxy'[c].got = proxy[c].got /\ entry'[c].queue = entry[c].queue BY ONLY <1>2, <1>4
      <4> QED BY ONLY <4>1, <4>2
    <3>2. p.item = 0 BY DEF CarriesWell
    <3>3. Stream(up', c, Reached(c), conn[c].sent) BY <3>2, Zenon DEF UpOrdered, EndLast
    <3> QED BY <3>1, <3>3, ZenonT(60) DEF UpOrdered
  <2>6. DownOrdered(c)' BY Zenon DEF DownOrdered
  <2> QED BY <2>1, <2>2, <2>3, <2>4, <2>5, <2>6
<1>7. \A d \in Channels \ {c} : Untouched(d)
  BY <1>1, <1>2, <1>3, <1>4, SameUnchanged DEF Untouched
<1> QED BY <1>1, <1>6, <1>7, OneTouched

(* Data finds the queue open: after the CLOSE of the user nothing comes.   *)
LEMMA NeverRefused ==
  ASSUME Types, Types', ChannelsInv, Last!DataOnChannel
  PROVE  ~Last!Refused(Head(up).channel, Head(up))
<1>1. Last!TakePacket BY Zenon DEF Last!DataOnChannel
<1> PICK p : p = Head(up) OBVIOUS
<1> PICK c : c = p.channel OBVIOUS
<1>2. c \in Channels /\ ChannelInv(c) /\ ~Empty(up, c) BY <1>1, TakeFacts
<1>3. entry[c] # NoEntry BY Zenon DEF Last!DataOnChannel, Last!Known
<1>4. ~entry[c].closed BY <1>2, <1>3 DEF ChannelInv, CloseLast
<1> QED BY <1>4 DEF Last!Refused

LEMMA DataOnChannelKeeps ==
  ASSUME Types, Types', ChannelsInv, Last!DataOnChannel, conn' = conn
  PROVE  ChannelsInv'
<1>0. Last!TakePacket BY Zenon DEF Last!DataOnChannel
<1> PICK p : p = Head(up) OBVIOUS
<1> PICK c : c = p.channel OBVIOUS
<1> PICK s : s = Last!SendMePacket(c) OBVIOUS
<1>1. /\ c \in Channels /\ p.item \in Nat /\ ChannelInv(c)
      /\ \A f : OnItsWay(up, c, f) <=> OnItsWay(up', c, f) \/ p.flags = f
      /\ Leads(up', c, "OPEN") /\ ~OnItsWay(up', c, "OPEN") /\ Ends(up', c, "CLOSE")
      /\ Carries(up', c) /\ CarriesWell(p) /\ conn[c].state \notin {"none", "new"}
      /\ \A a, b \in Nat : Stream(up, c, a, b) =>
           /\ p.item = 0 => Stream(up', c, a, b)
           /\ p.item # 0 => p.item = a + 1 /\ a + 1 <= b /\ Stream(up', c, a + 1, b)
      /\ \A d \in Channels \ {c} : SameView(up, up', d)
      /\ ~Empty(up, c)
  BY <1>0, TakeFacts
<1> DEFINE n == entry[c].upstream + 1
           q == IF p.item = 0 THEN entry[c].queue ELSE Append(entry[c].queue, p.item)
<1>2. /\ p.flags = "DATA" /\ entry[c] # NoEntry /\ proxy' = proxy
      /\ entry' = [entry EXCEPT
           ![c].queue = IF p.item = 0 THEN @ ELSE Append(@, p.item),
           ![c].downstream = Last!Credit(@, p),
           ![c].upstream = IF n >= SoftLimit THEN n - SoftLimit ELSE n,
           ![c].write = TRUE]
      /\ \/ down' = down
         \/ down' = Append(down, s)
  BY NeverRefused, Zenon DEF Last!DataOnChannel, Last!Known
<1>3. /\ entry \in [Channels -> Last!Entries \cup {NoEntry}] /\ down \in Queues
      /\ entry' \in [Channels -> Last!Entries \cup {NoEntry}]
  BY DEF Types, LastTyped
<1>4. entry[c] \in Last!Entries BY <1>1, <1>2, <1>3, ZenonT(60)
<1>5. /\ entry'[c].queue = q /\ entry'[c].closed = entry[c].closed
      /\ entry'[c] = [queue |-> q, closed |-> entry[c].closed,
                      downstream |-> Last!Credit(entry[c].downstream, p),
                      upstream |-> IF n >= SoftLimit THEN n - SoftLimit ELSE n,
                      write |-> TRUE]
      /\ \A d \in Channels \ {c} : entry'[d] = entry[d]
  BY <1>1, <1>2, <1>3, <1>4, ZenonT(60) DEF Last!Entries
<1>6. /\ conn[c].sent \in Nat /\ Reached(c) \in Nat /\ Len(conn[c].got) \in Nat
      /\ proxy[c].read \in Nat /\ Len(proxy[c].got) \in Nat
      /\ entry[c].queue \in Seq(Nat) /\ Len(entry[c].queue) \in Nat
      /\ entry[c].closed \in BOOLEAN
  BY <1>1, <1>2, ChannelTyped, Zenon
<1>7. entry'[c] # NoEntry
  <2>1. q \in Seq(Nat) BY <1>1, <1>6
  <2>2. Last!Credit(entry[c].downstream, p) \in 0..HardLimit
    BY <1>4, ChannelFlowAssumption DEF Last!Entries, Last!Credit, Last!Minus
  <2>3. (IF n >= SoftLimit THEN n - SoftLimit ELSE n) \in 0..(SoftLimit - 1)
    BY <1>4, ChannelFlowAssumption DEF Last!Entries
  <2> HIDE DEF n, q
  <2>4. entry'[c] \in Last!Entries BY <1>5, <1>6, <2>1, <2>2, <2>3 DEF Last!Entries
  <2> QED BY <2>4, NoEntryAssumption
<1> HIDE DEF n
<1>8. s \in Local!Packets /\ s.channel = c /\ s.item = 0 /\ s.flags = "DATA"
  BY <1>1, PacketsTyped, Zenon DEF Last!SendMePacket, Last!Packet
<1>9. proxy[c].state \in {"open", "fin", "reset"} /\ ~OnItsWay(up, c, "OPEN")
  BY <1>1, <1>2, Zenon DEF ChannelInv, EndLast, OpenFirst, Unseen
<1>10. /\ \A f : f # "DATA" => (OnItsWay(down', c, f) <=> OnItsWay(down, c, f))
       /\ Ends(down', c, "CLOSE") /\ Carries(down', c)
       /\ \A a, b \in Nat : Stream(down, c, a, b) => Stream(down', c, a, b)
       /\ \A d \in Channels \ {c} : SameView(down, down', d)
  <2>1. CASE down' = down
    BY <1>1, <1>3, <2>1, SameUnchanged DEF ChannelInv, EndLast
  <2>2. CASE down' = Append(down, s)
    BY <1>1, <1>8, <1>9, <2>2, TellFacts
  <2> QED BY <1>2, <2>1, <2>2, Zenon
<1>11. ChannelInv(c)'
  <2> HIDE DEF q
  <2> USE <1>1, <1>2, <1>5, <1>6, <1>7, <1>9, <1>10 DEF ChannelInv
  <2>1. BeforeOpen(c)' BY Zenon DEF BeforeOpen
  <2>2. OpenFirst(c)' BY Zenon DEF OpenFirst, Unseen
  <2>3. CloseLast(c)' BY Zenon DEF CloseLast
  <2>4. EndLast(c)' BY Zenon DEF EndLast
  <2>5. UpOrdered(c)'
    <3>1. /\ Stream(up, c, Reached(c), conn[c].sent)
          /\ \A i \in 1..Len(proxy[c].got) : proxy[c].got[i] = i
          /\ \A i \in 1..Len(entry[c].queue) : entry[c].queue[i] = Len(proxy[c].got) + i
      BY Zenon DEF UpOrdered
    <3>2. /\ Reached(c) = Len(proxy[c].got) + Len(entry[c].queue)
          /\ Reached(c)' = Len(proxy[c].got) + Len(q)
      BY Zenon DEF Reached
    <3>0. entry'[c].queue = q /\ proxy'[c] = proxy[c] /\ conn'[c] = conn[c] BY Zenon
    <3>3. CASE p.item = 0
      <4>1. q = entry[c].queue BY <3>3, Zenon DEF q
      <4>2. Reached(c)' = Reached(c) BY ONLY <3>2, <4>1
      <4>3. Stream(up', c, Reached(c)', conn'[c].sent)
        <5>1. Reached(c) \in Nat /\ conn[c].sent \in Nat BY ONLY <1>6
        <5>2. \A a, b \in Nat : Stream(up, c, a, b) => (p.item = 0 => Stream(up', c, a, b))
          BY ONLY <1>1
        <5>3. Stream(up', c, Reached(c), conn[c].sent) BY ONLY <3>1, <3>3, <5>1, <5>2
        <5> QED BY ONLY <3>0, <4>2, <5>3
      <4>4. \A i \in 1..Len(q) : q[i] = Len(proxy[c].got) + i BY ONLY <3>1, <4>1
      <4> QED BY ONLY <3>0, <3>1, <4>3, <4>4 DEF UpOrdered
    <3>4. CASE p.item # 0
      <4>1. p.item = Reached(c) + 1 /\ Stream(up', c, Reached(c) + 1, conn[c].sent)
        BY <3>1, <3>4, Zenon
      <4>2. q = Append(entry[c].queue, p.item) BY <3>4, Zenon DEF q
      <4>3. /\ Len(proxy[c].got) \in Nat /\ entry[c].queue \in Seq(Nat)
            /\ p.item = Len(proxy[c].got) + Len(entry[c].queue) + 1
        BY <3>2, <4>1, Zenon
      <4>4. /\ Len(proxy[c].got) + Len(q) = p.item
            /\ \A i \in 1..Len(q) : q[i] = Len(proxy[c].got) + i
        <5>1. Follows(entry[c].queue, Len(proxy[c].got)) BY ONLY <3>1 DEF Follows
        <5>2. /\ Len(proxy[c].got) + Len(Append(entry[c].queue, p.item)) = p.item
              /\ Follows(Append(entry[c].queue, p.item), Len(proxy[c].got))
          BY ONLY <4>3, <5>1, FollowsMore, Zenon
        <5> QED BY ONLY <4>2, <5>2 DEF Follows
      <4>5. Stream(up', c, Reached(c)', conn'[c].sent)
        <5>1. Reached(c)' = Reached(c) + 1 BY ONLY <3>2, <4>1, <4>4
        <5> QED BY <4>1, <5>1, Zenon
      <4>6. \A i \in 1..Len(q) : q[i] = Len(proxy[c].got) + i BY ONLY <4>4
      <4> QED BY ONLY <3>0, <3>1, <4>5, <4>6 DEF UpOrdered
    <3> QED BY <3>3, <3>4, Zenon
  <2>6. DownOrdered(c)' BY Zenon DEF DownOrdered
  <2> QED BY <2>1, <2>2, <2>3, <2>4, <2>5, <2>6, Zenon
<1>12. \A d \in Channels \ {c} : Untouched(d)
  BY <1>1, <1>2, <1>5, <1>10, Zenon DEF Untouched
<1> QED BY <1>1, <1>11, <1>12, OneTouched

(* What is ignored is a CLOSE of a channel that never was opened, or what  *)
(* comes after the last mix has given up.                                  *)
LEMMA IgnorePacketKeeps ==
  ASSUME Types, Types', ChannelsInv, Last!IgnorePacket, conn' = conn
  PROVE  ChannelsInv'
<1>0. Last!TakePacket BY DEF Last!IgnorePacket
<1> PICK p : p = Head(up) OBVIOUS
<1> PICK c : c = p.channel OBVIOUS
<1>1. /\ c \in Channels /\ p.item \in Nat /\ ChannelInv(c)
      /\ \A f : OnItsWay(up, c, f) <=> OnItsWay(up', c, f) \/ p.flags = f
      /\ Leads(up', c, "OPEN") /\ ~OnItsWay(up', c, "OPEN") /\ Ends(up', c, "CLOSE")
      /\ Carries(up', c) /\ conn[c].state \notin {"none", "new"}
      /\ p.flags = "CLOSE" => Empty(up', c) /\ conn[c].state = "closed"
      /\ \A a, b \in Nat : Stream(up, c, a, b) =>
           /\ p.item = 0 => Stream(up', c, a, b)
           /\ p.item # 0 => a + 1 <= b
      /\ \A d \in Channels \ {c} : SameView(up, up', d)
      /\ ~Empty(up, c)
  BY <1>0, TakeFacts
<1>2. /\ entry' = entry /\ proxy' = proxy /\ down' = down
      /\ (p.flags = "OPEN") <=> (entry[c] # NoEntry)
  BY <1>1 DEF Last!IgnorePacket, Last!Known
<1>3. p.flags # "OPEN" /\ entry[c] = NoEntry
  <2>1. p.flags = "OPEN" => Unseen(c) BY <1>1 DEF ChannelInv, OpenFirst
  <2>2. Unseen(c) => entry[c] = NoEntry BY <1>1 DEF ChannelInv, EndLast, Unseen
  <2> QED BY <2>1, <2>2, <1>2
<1>4. ~OnItsWay(up, c, "OPEN") BY <1>1, <1>3
<1>5. /\ conn[c].sent \in Nat /\ Reached(c) \in Nat /\ down \in Queues
      /\ proxy[c].state \in {"none", "open", "fin", "reset", "closed"}
  BY <1>1, ChannelTyped
<1>6. ChannelInv(c)'
  <2> USE <1>1, <1>2, <1>3, <1>4 DEF ChannelInv
  <2>1. BeforeOpen(c)' BY DEF BeforeOpen
  <2>2. OpenFirst(c)' BY DEF OpenFirst, Unseen
  <2>3. CloseLast(c)' BY DEF CloseLast
  <2>4. EndLast(c)' BY DEF EndLast
  <2>5. UpOrdered(c)'
    <3>1. Reached(c)' = Reached(c) BY DEF Reached
    <3>2. ASSUME proxy[c].state # "closed" PROVE Stream(up', c, Reached(c), conn[c].sent)
      <4>1. Unseen(c) BY <1>5, <3>2 DEF EndLast, Unseen
      <4>2. conn[c].sent = 0 BY <1>5, <4>1 DEF OpenFirst
      <4>3. Stream(up, c, Reached(c), conn[c].sent) BY <3>2 DEF UpOrdered
      <4>4. p.item = 0 BY <1>5, <4>2, <4>3
      <4> QED BY <1>5, <4>3, <4>4
    <3> QED BY <3>1, <3>2 DEF UpOrdered
  <2>6. DownOrdered(c)' BY DEF DownOrdered
  <2> QED BY <2>1, <2>2, <2>3, <2>4, <2>5, <2>6
<1>7. \A d \in Channels \ {c} : Untouched(d)
  BY <1>1, <1>2, <1>5, SameUnchanged DEF Untouched
<1> QED BY <1>1, <1>6, <1>7, OneTouched

(* A channel is given up.                                                  *)
LEMMA RemoveAndTellKeeps ==
  ASSUME Types, Types', ChannelsInv, NEW c \in Channels, Last!RemoveAndTell(c),
         entry[c] # NoEntry, up' = up, conn' = conn
  PROVE  ChannelsInv'
<1> PICK s : s = Last!Packet(c, "CLOSE", 0) OBVIOUS
<1>1. /\ entry' = [entry EXCEPT ![c] = NoEntry]
      /\ proxy' = [proxy EXCEPT ![c].state = "closed"]
      /\ down' = Append(down, s) /\ ChannelInv(c)
  BY DEF Last!RemoveAndTell, Last!RemoveChannel, Last!SendClose, ChannelsInv
<1>2. /\ entry \in [Channels -> Last!Entries \cup {NoEntry}]
      /\ proxy \in [Channels -> Last!Proxies] /\ up \in Queues
  BY DEF Types, LastTyped
<1>3. /\ proxy'[c].state = "closed" /\ proxy'[c].got = proxy[c].got
      /\ proxy'[c].read = proxy[c].read /\ entry'[c] = NoEntry
      /\ \A d \in Channels \ {c} : proxy'[d] = proxy[d] /\ entry'[d] = entry[d]
  BY <1>1, <1>2 DEF Last!Proxies
<1>4. s \in Local!Packets /\ s.channel = c /\ s.item = 0 /\ s.flags = "CLOSE"
  BY CloseIsPacket
<1>5. proxy[c].state \in {"open", "fin", "reset"} BY <1>1 DEF ChannelInv, EndLast
<1>6. /\ OnItsWay(down', c, "CLOSE") /\ Ends(down', c, "CLOSE")
      /\ Carries(down', c)
      /\ \A a, b \in Nat : Stream(down, c, a, b) => Stream(down', c, a, b)
      /\ \A d \in Channels \ {c} : SameView(down, down', d)
  BY <1>1, <1>4, <1>5, TellFacts
<1>7. Len(conn[c].got) \in Nat /\ proxy[c].read \in Nat BY ChannelTyped
<1>8. ChannelInv(c)'
  <2> USE <1>1, <1>3, <1>5, <1>6, <1>7 DEF ChannelInv
  <2>1. BeforeOpen(c)' BY DEF BeforeOpen, Unseen
  <2>2. OpenFirst(c)' BY DEF OpenFirst, Unseen
  <2>3. CloseLast(c)' BY DEF CloseLast
  <2>4. EndLast(c)' BY DEF EndLast
  <2>5. UpOrdered(c)' BY DEF UpOrdered
  <2>6. DownOrdered(c)' BY DEF DownOrdered
  <2> QED BY <2>1, <2>2, <2>3, <2>4, <2>5, <2>6
<1>9. \A d \in Channels \ {c} : Untouched(d)
  BY <1>2, <1>3, <1>6, SameUnchanged DEF Untouched
<1> QED BY <1>8, <1>9, OneTouched

LEMMA ReadFromProxyKeeps ==
  ASSUME Types, Types', ChannelsInv, NEW c \in Channels, Last!ReadFromProxy(c),
         entry[c] # NoEntry, entry[c].downstream < HardLimit, conn' = conn
  PROVE  ChannelsInv'
<1> PICK s : s = Last!Packet(c, "DATA", proxy[c].read + 1) OBVIOUS
<1>1. /\ entry' = [entry EXCEPT ![c].downstream = @ + 1]
      /\ proxy' = [proxy EXCEPT ![c].read = @ + 1]
      /\ down' = Append(down, s) /\ ChannelInv(c) /\ up' = up
  BY DEF Last!ReadFromProxy, Last!Visit, ChannelsInv
<1>2. /\ entry \in [Channels -> Last!Entries \cup {NoEntry}]
      /\ entry' \in [Channels -> Last!Entries \cup {NoEntry}]
      /\ proxy \in [Channels -> Last!Proxies] /\ up \in Queues /\ down \in Queues
  BY DEF Types, LastTyped
<1>3. /\ proxy'[c].state = proxy[c].state /\ proxy'[c].got = proxy[c].got
      /\ proxy'[c].read = proxy[c].read + 1
      /\ \A d \in Channels \ {c} : proxy'[d] = proxy[d] /\ entry'[d] = entry[d]
  BY <1>1, <1>2 DEF Last!Proxies
<1>4. /\ Len(conn[c].got) \in Nat /\ proxy[c].read \in Nat
      /\ entry[c] \in Last!Entries /\ entry[c].closed \in BOOLEAN
  BY ChannelTyped
<1>5. s \in Local!Packets /\ s.channel = c /\ s.item = proxy[c].read + 1 /\ s.flags = "DATA"
  <2>1. proxy[c].read + 1 \in Nat BY <1>4
  <2> QED BY <2>1, PacketsTyped DEF Last!Packet
<1>6. /\ entry'[c].queue = entry[c].queue /\ entry'[c].closed = entry[c].closed
      /\ entry'[c] # NoEntry
  <2>1. entry'[c] = [entry[c] EXCEPT !.downstream = @ + 1] BY <1>1, <1>2
  <2>2. entry'[c] \in Last!Entries BY <2>1, EntryTyped, Zenon DEF Types
  <2> QED BY <1>4, <2>1, <2>2, NoEntryAssumption DEF Last!Entries
<1>7. proxy[c].state \in {"open", "fin", "reset"} /\ ~OnItsWay(down, c, "CLOSE")
  BY <1>1 DEF ChannelInv, EndLast
<1>8. /\ \A f : f # "DATA" => (OnItsWay(down', c, f) <=> OnItsWay(down, c, f))
      /\ Ends(down', c, "CLOSE") /\ Carries(down', c)
      /\ \A a \in Nat :
           Stream(down, c, a, proxy[c].read) => Stream(down', c, a, proxy[c].read + 1)
      /\ \A d \in Channels \ {c} : SameView(down, down', d)
  <2>1. \A f : f # "DATA" => (OnItsWay(down', c, f) <=> OnItsWay(down, c, f))
    BY <1>1, <1>2, <1>5, OwnAppend, ZenonT(60)
  <2>2. Ends(down', c, "CLOSE") BY <1>1, <1>2, <1>5, <1>7, OwnAppend
  <2>3. ASSUME NEW a \in Nat, Stream(down, c, a, proxy[c].read)
        PROVE  Stream(down', c, a, proxy[c].read + 1)
    <3>1. down' = Append(down, s) /\ down \in Queues /\ proxy[c].read \in Nat
      BY ONLY <1>1, <1>2, <1>4
    <3>2. s \in Local!Packets /\ s.channel = c /\ s.item = proxy[c].read + 1 BY ONLY <1>5
    <3> QED BY ONLY <2>3, <3>1, <3>2, OwnAppend
  <2>4. \A d \in Channels \ {c} : SameView(down, down', d)
    BY <1>1, <1>2, <1>5, SameAppend
  <2>5. Carries(down', c)
    <3>1. Carries(down, c) BY <1>1 DEF ChannelInv, EndLast
    <3>2. CarriesWell(s) BY <1>5 DEF CarriesWell
    <3> QED BY <1>1, <1>2, <1>5, <3>1, <3>2, OwnAppend
  <2> QED BY <2>1, <2>2, <2>3, <2>4, <2>5
<1>9. ChannelInv(c)'
  <2> USE <1>1, <1>3, <1>4, <1>6, <1>7, <1>8 DEF ChannelInv
  <2>1. BeforeOpen(c)' BY DEF BeforeOpen, Unseen
  <2>2. OpenFirst(c)' BY DEF OpenFirst, Unseen
  <2>3. CloseLast(c)' BY DEF CloseLast
  <2>4. EndLast(c)' BY DEF EndLast
  <2>5. UpOrdered(c)'
    <3>1. Reached(c)' = Reached(c) BY DEF Reached
    <3> QED BY <3>1 DEF UpOrdered
  <2>6. DownOrdered(c)' BY <1>5 DEF DownOrdered
  <2> QED BY <2>1, <2>2, <2>3, <2>4, <2>5, <2>6
<1>10. \A d \in Channels \ {c} : Untouched(d)
  BY <1>1, <1>2, <1>3, <1>8, SameUnchanged DEF Untouched
<1> QED BY <1>9, <1>10, OneTouched

(* The numbers from 1 on, in order.                                        *)
Counts(s) == \A i \in 1..Len(s) : s[i] = i

(* What send() moves from the queue to the proxy server stays in order.    *)
LEMMA WriteFollows ==
  ASSUME NEW g \in Seq(Nat), Counts(g), NEW q \in Seq(Nat), Follows(q, Len(g)), NEW n \in 0..Len(q)
  PROVE  LET h == g \o SubSeq(q, 1, n)
             left == Last!LeftAfter(q, n)
         IN  /\ h \in Seq(Nat) /\ Len(h) = Len(g) + n /\ Counts(h)
             /\ left \in Seq(Nat) /\ Follows(left, Len(h))
             /\ Len(h) + Len(left) = Len(g) + Len(q)
<1> PICK h : h = g \o SubSeq(q, 1, n) OBVIOUS
<1> PICK left : left = Last!LeftAfter(q, n) OBVIOUS
<1>1. Len(g) \in Nat /\ Len(q) \in Nat /\ n \in Nat /\ n <= Len(q) OBVIOUS
<1>2. /\ SubSeq(q, 1, n) \in Seq(Nat) /\ Len(SubSeq(q, 1, n)) = n
      /\ \A i \in 1..n : SubSeq(q, 1, n)[i] = q[i]
      /\ left \in Seq(Nat) /\ Len(left) = Len(q) - n
      /\ \A i \in 1..(Len(q) - n) : left[i] = q[n + i]
  BY WriteSplits
<1>3. PICK w \in Seq(Nat) : w = SubSeq(q, 1, n) BY <1>2
<1>4. Len(w) = n /\ (\A i \in 1..n : w[i] = q[i]) /\ h = g \o w BY <1>2, <1>3
<1>5. /\ h \in Seq(Nat) /\ Len(h) = Len(g) + n
      /\ \A i \in 1..(Len(g) + n) : h[i] = IF i <= Len(g) THEN g[i] ELSE w[i - Len(g)]
  BY ONLY <1>1, <1>4, ConcatProperties
<1>6. /\ \A i \in 1..Len(q) : q[i] = Len(g) + i
      /\ \A i \in 1..Len(g) : g[i] = i
  BY DEF Follows, Counts
<1>7. ASSUME NEW i \in 1..(Len(g) + n) PROVE h[i] = i
  <2>1. CASE i <= Len(g)
    <3>1. i \in 1..Len(g) BY <1>1, <2>1
    <3> QED BY <1>5, <1>6, <2>1, <3>1
  <2>2. CASE ~(i <= Len(g))
    <3>1. i - Len(g) \in 1..n /\ i - Len(g) \in 1..Len(q) /\ Len(g) + (i - Len(g)) = i
      BY <1>1, <2>2
    <3>2. h[i] = w[i - Len(g)] BY <1>5, <2>2
    <3> QED BY <1>4, <1>6, <3>1, <3>2
  <2> QED BY <2>1, <2>2
<1>8. ASSUME NEW i \in 1..Len(left) PROVE left[i] = Len(h) + i
  <2>0. i \in 1..(Len(q) - n) BY <1>2
  <2>1. i \in 1..(Len(q) - n) /\ n + i \in 1..Len(q) BY ONLY <1>1, <2>0
  <2>2. left[i] = Len(g) + (n + i) BY <1>2, <1>6, <2>1
  <2>3. i \in Nat BY <1>1, <2>1
  <2>4. Len(h) = Len(g) + n BY ONLY <1>5
  <2> QED BY ONLY <1>1, <2>2, <2>3, <2>4
<1>9. Len(h) + Len(left) = Len(g) + Len(q)
  <2>1. Len(h) = Len(g) + n /\ Len(left) = Len(q) - n BY ONLY <1>2, <1>5
  <2> QED BY ONLY <1>1, <2>1
<1>10. Counts(h)
  <2>1. Len(h) = Len(g) + n BY ONLY <1>5
  <2> QED BY ONLY <1>7, <2>1 DEF Counts
<1>11. Follows(left, Len(h)) BY ONLY <1>8 DEF Follows
<1>12. h = g \o SubSeq(q, 1, n) /\ left = Last!LeftAfter(q, n) OBVIOUS
<1>13. /\ h \in Seq(Nat) /\ Len(h) = Len(g) + n /\ Counts(h)
       /\ left \in Seq(Nat) /\ Follows(left, Len(h)) /\ Len(h) + Len(left) = Len(g) + Len(q)
  BY ONLY <1>2, <1>5, <1>9, <1>10, <1>11
<1> QED BY ONLY <1>12, <1>13, Zenon

LEMMA WriteToProxyKeeps ==
  ASSUME Types, Types', ChannelsInv, NEW c \in Channels, Last!WriteToProxy(c),
         entry[c] # NoEntry, conn' = conn
  PROVE  ChannelsInv'
<1>1. ChannelInv(c) /\ up' = up /\ down' = down
  BY DEF ChannelsInv, Last!WriteToProxy, Last!Visit
<1>2. /\ entry \in [Channels -> Last!Entries \cup {NoEntry}]
      /\ entry' \in [Channels -> Last!Entries \cup {NoEntry}]
      /\ proxy \in [Channels -> Last!Proxies] /\ up \in Queues /\ down \in Queues
  BY DEF Types, LastTyped
<1>3. /\ entry[c] \in Last!Entries /\ entry[c].queue \in Seq(Nat)
      /\ proxy[c].got \in Seq(Nat) /\ conn[c].sent \in Nat /\ Reached(c) \in Nat
  BY ChannelTyped
<1> PICK q \in Seq(Nat) : q = entry[c].queue BY <1>3
<1> PICK n \in 0..Len(q) :
      /\ proxy' = [proxy EXCEPT
           ![c].got = @ \o SubSeq(q, 1, n),
           ![c].full = n < Len(q),
           ![c].state = IF Last!LeftAfter(q, n) = <<>> /\ entry[c].closed
                        THEN "closed" ELSE proxy[c].state]
      /\ entry' = [entry EXCEPT
           ![c] = IF Last!LeftAfter(q, n) = <<>> /\ entry[c].closed THEN NoEntry
                  ELSE [@ EXCEPT !.queue = Last!LeftAfter(q, n),
                                 !.write = Last!LeftAfter(q, n) # <<>>]]
  BY ZenonT(60) DEF Last!WriteToProxy
<1> PICK left : left = Last!LeftAfter(q, n) OBVIOUS
<1> PICK h : h = proxy[c].got \o SubSeq(q, 1, n) OBVIOUS
<1>4. /\ proxy'[c].got = h /\ proxy'[c].read = proxy[c].read
      /\ proxy'[c].state = IF left = <<>> /\ entry[c].closed THEN "closed" ELSE proxy[c].state
      /\ \A d \in Channels \ {c} : proxy'[d] = proxy[d] /\ entry'[d] = entry[d]
  <2>1. /\ proxy'[c].got = h /\ proxy'[c].read = proxy[c].read
        /\ proxy'[c].state = IF left = <<>> /\ entry[c].closed
                             THEN "closed" ELSE proxy[c].state
    BY <1>2, SMTT(30) DEF Last!Proxies
  <2>2. \A d \in Channels \ {c} : proxy'[d] = proxy[d] BY <1>2
  <2>3. \A d \in Channels \ {c} : entry'[d] = entry[d] BY <1>2
  <2> QED BY <2>1, <2>2, <2>3, ZenonT(60)
<1>5. /\ \A i \in 1..Len(proxy[c].got) : proxy[c].got[i] = i
      /\ Follows(q, Len(proxy[c].got))
  BY <1>1 DEF ChannelInv, UpOrdered, Follows
<1>6. /\ h \in Seq(Nat) /\ \A i \in 1..Len(h) : h[i] = i
      /\ left \in Seq(Nat) /\ Follows(left, Len(h))
      /\ Len(h) + Len(left) = Len(proxy[c].got) + Len(q)
  <2> PICK g \in Seq(Nat) : g = proxy[c].got BY <1>3
  <2>1. Counts(g) /\ Follows(q, Len(g)) BY <1>5 DEF Counts
  <2>2. h = g \o SubSeq(q, 1, n) OBVIOUS
  <2>3. /\ h \in Seq(Nat) /\ \A i \in 1..Len(h) : h[i] = i
        /\ left \in Seq(Nat) /\ Follows(left, Len(h)) /\ Len(h) + Len(left) = Len(g) + Len(q)
    <3>1. left = Last!LeftAfter(q, n) /\ q \in Seq(Nat) /\ n \in 0..Len(q) /\ g \in Seq(Nat)
      OBVIOUS
    <3>2. /\ h \in Seq(Nat) /\ Len(h) = Len(g) + n /\ Counts(h)
          /\ left \in Seq(Nat) /\ Follows(left, Len(h)) /\ Len(h) + Len(left) = Len(g) + Len(q)
      <4>1. LET k == g \o SubSeq(q, 1, n)
                l == Last!LeftAfter(q, n)
            IN  /\ k \in Seq(Nat) /\ Len(k) = Len(g) + n /\ Counts(k)
                /\ l \in Seq(Nat) /\ Follows(l, Len(k)) /\ Len(k) + Len(l) = Len(g) + Len(q)
        BY ONLY <2>1, <3>1, WriteFollows
      <4> QED BY ONLY <2>2, <3>1, <4>1, Zenon
    <3> QED BY ONLY <3>2 DEF Counts
  <2> QED BY ONLY <2>3, g = proxy[c].got
<1>7. proxy[c].state \in {"open", "fin", "reset"} BY <1>1 DEF ChannelInv, EndLast
<1>8. ChannelInv(c)'
  <2>1. CASE left = <<>> /\ entry[c].closed
    <3>1. entry'[c] = NoEntry BY <1>2, <2>1, SMTT(30)
    <3>2. proxy'[c].state = "closed" BY <1>4, <2>1
    <3>3. conn[c].state = "closed" /\ Empty(up, c)
      BY <1>1, <2>1 DEF ChannelInv, CloseLast
    <3>4. ~OnItsWay(up, c, "OPEN") BY <3>3, EmptySays
    <3> USE <1>1, <3>1, <3>2, <3>3 DEF ChannelInv
    <3>5. BeforeOpen(c)' BY DEF BeforeOpen
    <3>6. OpenFirst(c)' BY <3>4 DEF OpenFirst, Unseen
    <3>7. CloseLast(c)' BY DEF CloseLast
    <3>8. EndLast(c)' BY DEF EndLast
    <3>9. UpOrdered(c)' BY ONLY <1>4, <1>6, <3>1, <3>2 DEF UpOrdered
    <3>10. DownOrdered(c)' BY DEF DownOrdered
    <3> QED BY <3>5, <3>6, <3>7, <3>8, <3>9, <3>10
  <2>2. CASE ~(left = <<>> /\ entry[c].closed)
    <3>1. entry'[c] = [entry[c] EXCEPT !.queue = left, !.write = left # <<>>]
      BY <1>2, <2>2
    <3>2. proxy'[c].state = proxy[c].state BY <1>4, <2>2, Zenon
    <3>3. entry'[c].queue = left /\ entry'[c].closed = entry[c].closed
      BY ONLY <1>3, <3>1 DEF Last!Entries
    <3>4. entry'[c] # NoEntry
      <4>1. entry'[c] \in Last!Entries
        <5>1. (left # <<>>) \in BOOLEAN OBVIOUS
        <5>2. \A r \in Seq(Nat), b \in BOOLEAN :
                [entry[c] EXCEPT !.queue = r, !.write = b] \in Last!Entries
          BY EntryTyped, Zenon DEF Types
        <5>3. [entry[c] EXCEPT !.queue = left, !.write = left # <<>>] \in Last!Entries
          BY ONLY <5>1, <5>2, <1>6, Zenon
        <5> QED BY <3>1, <5>3, Zenon
      <4> QED BY <4>1, NoEntryAssumption
    <3>5. Reached(c)' = Reached(c)
      <4>1. Reached(c) = Len(proxy[c].got) + Len(q) BY DEF Reached
      <4>2. Reached(c)' = Len(h) + Len(left)
        BY ONLY <1>4, <3>3, <3>4 DEF Reached
      <4> QED BY ONLY <1>6, <4>1, <4>2
    <3> USE <1>1, <3>2, <3>3, <3>4 DEF ChannelInv
    <3>6. BeforeOpen(c)' BY <1>7 DEF BeforeOpen, Unseen
    <3>7. OpenFirst(c)' BY <1>7 DEF OpenFirst, Unseen
    <3>8. CloseLast(c)' BY DEF CloseLast
    <3>9. EndLast(c)' BY DEF EndLast
    <3>10. UpOrdered(c)'
      <4>1. Stream(up', c, Reached(c)', conn'[c].sent) BY <1>7, <3>5 DEF UpOrdered
      <4>2. \A i \in 1..Len(proxy'[c].got) : proxy'[c].got[i] = i BY ONLY <1>4, <1>6
      <4>3. \A i \in 1..Len(entry'[c].queue) : entry'[c].queue[i] = Len(proxy'[c].got) + i
        BY ONLY <1>4, <1>6, <3>3 DEF Follows
      <4> QED BY ONLY <4>1, <4>2, <4>3 DEF UpOrdered
    <3>11. DownOrdered(c)' BY <1>4, Zenon DEF DownOrdered
    <3> QED BY <3>6, <3>7, <3>8, <3>9, <3>10, <3>11
  <2> QED BY <2>1, <2>2
<1>9. \A d \in Channels \ {c} : Untouched(d)
  BY <1>1, <1>2, <1>4, SameUnchanged DEF Untouched
<1> QED BY <1>8, <1>9, OneTouched

(* The proxy servers.                                                      *)
LEMMA ServersKeep ==
  ASSUME Types, Types', ChannelsInv, Last!Servers, conn' = conn
  PROVE  ChannelsInv'
<1> PICK c \in Channels :
      Last!ProxySends(c) \/ Last!ProxyEnds(c) \/ Last!ProxyBreaks(c) \/ Last!ProxyDrains(c)
  BY DEF Last!Servers
<1>1. ChannelInv(c) /\ entry' = entry /\ up' = up /\ down' = down
  BY DEF ChannelsInv, Last!Servers
<1>2. /\ entry \in [Channels -> Last!Entries \cup {NoEntry}]
      /\ proxy \in [Channels -> Last!Proxies] /\ up \in Queues /\ down \in Queues
  BY DEF Types, LastTyped
<1>3. /\ proxy'[c].got = proxy[c].got /\ proxy'[c].read = proxy[c].read
      /\ \/ proxy'[c].state = proxy[c].state
         \/ /\ proxy[c].state \in {"open", "fin"}
            /\ proxy'[c].state \in {"fin", "reset"}
      /\ \A d \in Channels \ {c} : proxy'[d] = proxy[d]
  <2>1. CASE Last!ProxySends(c) BY <1>2, <2>1 DEF Last!ProxySends, Last!Proxies
  <2>2. CASE Last!ProxyEnds(c) BY <1>2, <2>2 DEF Last!ProxyEnds, Last!Proxies
  <2>3. CASE Last!ProxyBreaks(c) BY <1>2, <2>3 DEF Last!ProxyBreaks, Last!Proxies
  <2>4. CASE Last!ProxyDrains(c) BY <1>2, <2>4 DEF Last!ProxyDrains, Last!Proxies
  <2> QED BY <2>1, <2>2, <2>3, <2>4
<1>4. ChannelInv(c)'
  <2> USE <1>1, <1>3 DEF ChannelInv
  <2>1. BeforeOpen(c)' BY DEF BeforeOpen, Unseen
  <2>2. OpenFirst(c)' BY DEF OpenFirst, Unseen
  <2>3. CloseLast(c)' BY DEF CloseLast
  <2>4. EndLast(c)' BY DEF EndLast
  <2>5. UpOrdered(c)' BY DEF UpOrdered, Reached
  <2>6. DownOrdered(c)' BY DEF DownOrdered
  <2> QED BY <2>1, <2>2, <2>3, <2>4, <2>5, <2>6
<1>5. \A d \in Channels \ {c} : Untouched(d)
  BY <1>1, <1>2, <1>3, SameUnchanged DEF Untouched
<1> QED BY <1>4, <1>5, OneTouched

(* The steps of the loop between its phases.                               *)
LEMMA QuietKeep ==
  ASSUME Types, Types', ChannelsInv, UNCHANGED <<conn, entry, proxy, up, down>>
  PROVE  ChannelsInv'
<1>1. up \in Queues /\ down \in Queues BY DEF Types, ConnsTyped
<1>2. \A c \in Channels : Untouched(c) BY <1>1, SameUnchanged DEF Untouched
<1> QED BY <1>2, UntouchedKeep DEF ChannelsInv

LEMMA TypesFollow == TypeInv => Types /\ LoopTyped
BY TypeParts DEF Types

LEMMA ChannelsInit == Init => ChannelsInv
<1> SUFFICES ASSUME Init, NEW c \in Channels PROVE ChannelInv(c)
  BY DEF ChannelsInv
<1>1. /\ conn[c].state = "none" /\ conn[c].sent = 0 /\ conn[c].got = <<>>
      /\ entry[c] = NoEntry
      /\ proxy[c].state = "none" /\ proxy[c].got = <<>> /\ proxy[c].read = 0
      /\ up = <<>> /\ down = <<>>
  BY DEF Init, Local!Init, Last!Init
<1>2. Empty(up, c) /\ Empty(down, c) BY <1>1 DEF Empty, PacketsOf
<1>3. Len(conn[c].got) = 0 /\ Len(proxy[c].got) = 0 /\ Reached(c) = 0
  BY <1>1 DEF Reached
<1>4. Stream(up, c, 0, 0) /\ Stream(down, c, 0, 0) BY <1>2, EmptySays
<1>5. /\ \A f : ~OnItsWay(up, c, f) /\ Leads(up, c, f) /\ Ends(up, c, f)
      /\ \A f : ~OnItsWay(down, c, f) /\ Ends(down, c, f)
      /\ Carries(up, c) /\ Carries(down, c)
  BY <1>2, EmptySays
<1>6. BeforeOpen(c) BY <1>1, <1>2 DEF BeforeOpen, Unseen
<1>7. OpenFirst(c) BY <1>1, <1>2, <1>5 DEF OpenFirst, Unseen
<1>8. CloseLast(c) BY <1>1, <1>5 DEF CloseLast
<1>9. EndLast(c) BY <1>1, <1>5 DEF EndLast
<1>10. UpOrdered(c) BY <1>1, <1>3, <1>4 DEF UpOrdered
<1>11. DownOrdered(c) BY <1>1, <1>3, <1>4 DEF DownOrdered
<1> QED BY <1>6, <1>7, <1>8, <1>9, <1>10, <1>11 DEF ChannelInv

LEMMA TypesStep == TypeInv /\ [Next]_vars => TypeInv'
<1> SUFFICES ASSUME TypeInv, [Next]_vars PROVE TypeInv'
  OBVIOUS
<1>1. CASE Local!Next /\ UNCHANGED lastVars BY <1>1, LocalTypes
<1>2. CASE Last!Next /\ UNCHANGED conn BY <1>2, LastTypes
<1>3. CASE UNCHANGED vars
  BY <1>3 DEF vars, lastVars, TypeInv, TypeOK, LoopFits, Last!Known
<1> QED BY <1>1, <1>2, <1>3 DEF Next

(* A step of the loop that visits a channel.                               *)
LEMMA VisitFinds ==
  ASSUME LoopTyped, NEW c \in Channels
  PROVE  /\ Last!Visit(c, "write") => entry[c] # NoEntry
         /\ Last!Visit(c, "read") => entry[c] # NoEntry /\ entry[c].downstream < HardLimit
BY DEF LoopTyped, LoopFits, Last!Visit, Last!Known

LEMMA ChannelsStep == TypeInv /\ ChannelsInv /\ [Next]_vars => ChannelsInv'
<1> SUFFICES ASSUME TypeInv, ChannelsInv, [Next]_vars PROVE ChannelsInv'
  OBVIOUS
<1>1. Types /\ Types' /\ LoopTyped
  <2>1. Types /\ LoopTyped BY TypesFollow
  <2>2. TypeInv' BY TypesStep
  <2>3. Types' BY <2>2 DEF TypeInv, TypeOK, Types, ConnsTyped, LastTyped, Queues
  <2> QED BY <2>1, <2>3
<1>2. CASE Local!Next /\ UNCHANGED lastVars
  <2>1. CASE Local!ReceiveUnknown BY <1>1, <1>2, <2>1, ReceiveUnknownKeeps
  <2>2. CASE Local!ReceiveClose BY <1>1, <1>2, <2>2, ReceiveCloseKeeps
  <2>3. CASE Local!ReceiveData BY <1>1, <1>2, <2>3, ReceiveDataKeeps
  <2>4. ASSUME NEW c \in Channels, Local!Accept(c) PROVE ChannelsInv'
    BY <1>1, <1>2, <2>4, AcceptKeeps
  <2>5. ASSUME NEW c \in Channels, Local!BrowserData(c) PROVE ChannelsInv'
    BY <1>1, <1>2, <2>5, BrowserDataKeeps
  <2>6. ASSUME NEW c \in Channels, Local!BrowserClose(c) PROVE ChannelsInv'
    BY <1>1, <1>2, <2>6, BrowserCloseKeeps
  <2> QED BY <1>2, <2>1, <2>2, <2>3, <2>4, <2>5, <2>6 DEF Local!Next, Local!Receive
<1>3. CASE Last!Next /\ UNCHANGED conn
  <2>0. conn' = conn BY <1>3
  <2>1. CASE Last!OpenChannel BY <1>1, <2>0, <2>1, OpenChannelKeeps
  <2>2. CASE Last!OpenFails BY <1>1, <2>0, <2>2, OpenFailsKeeps
  <2>3. CASE Last!CloseChannel BY <1>1, <2>0, <2>3, CloseChannelKeeps
  <2>4. CASE Last!DataOnChannel BY <1>1, <2>0, <2>4, DataOnChannelKeeps
  <2>5. CASE Last!IgnorePacket BY <1>1, <2>0, <2>5, IgnorePacketKeeps
  <2>6. CASE Last!EndPackets \/ Last!EndWrites \/ Last!EndReads
    BY <1>1, <2>0, <2>6, QuietKeep DEF Last!EndPackets, Last!EndWrites, Last!EndReads
  <2>7. ASSUME NEW c \in Channels, Last!WriteToProxy(c) PROVE ChannelsInv'
    <3>1. entry[c] # NoEntry BY <1>1, <2>7, VisitFinds DEF Last!WriteToProxy
    <3> QED BY <1>1, <2>0, <2>7, <3>1, WriteToProxyKeeps
  <2>8. ASSUME NEW c \in Channels, Last!WriteFails(c) PROVE ChannelsInv'
    <3>1. Last!Visit(c, "write") /\ Last!RemoveAndTell(c) BY <2>8 DEF Last!WriteFails
    <3>2. entry[c] # NoEntry /\ up' = up BY <1>1, <3>1, VisitFinds DEF Last!Visit
    <3> QED BY <1>1, <2>0, <3>1, <3>2, RemoveAndTellKeeps
  <2>9. ASSUME NEW c \in Channels, Last!ReadFromProxy(c) PROVE ChannelsInv'
    <3>1. entry[c] # NoEntry /\ entry[c].downstream < HardLimit
      BY <1>1, <2>9, VisitFinds DEF Last!ReadFromProxy
    <3> QED BY <1>1, <2>0, <2>9, <3>1, ReadFromProxyKeeps
  <2>10. ASSUME NEW c \in Channels, Last!ReadEnds(c) PROVE ChannelsInv'
    <3>1. Last!Visit(c, "read") /\ Last!RemoveAndTell(c) BY <2>10 DEF Last!ReadEnds
    <3>2. entry[c] # NoEntry /\ up' = up BY <1>1, <3>1, VisitFinds DEF Last!Visit
    <3> QED BY <1>1, <2>0, <3>1, <3>2, RemoveAndTellKeeps
  <2>11. CASE Last!Servers BY <1>1, <2>0, <2>11, ServersKeep
  <2> QED BY <1>3, <2>1, <2>2, <2>3, <2>4, <2>5, <2>6, <2>7, <2>8, <2>9, <2>10, <2>11
          DEF Last!Next, Last!Loop
<1>4. CASE UNCHANGED vars BY <1>1, <1>4, QuietKeep DEF vars, lastVars
<1> QED BY <1>2, <1>3, <1>4 DEF Next

(* Both ends agree on the channels there are: the order of the packets of  *)
(* a channel tells which news of it is still on its way.                   *)
LEMMA InvAgrees == TypeInv /\ ChannelsInv => ChannelsAgree
<1> SUFFICES ASSUME TypeInv, ChannelsInv, NEW c \in Channels
             PROVE  /\ conn[c].state = "open" =>
                         \/ c \in Last!Known
                         \/ OnItsWay(up, c, "OPEN") \/ OnItsWay(down, c, "CLOSE")
                    /\ c \in Last!Known /\ ~entry[c].closed =>
                         conn[c].state = "open" \/ OnItsWay(up, c, "CLOSE")
  BY DEF ChannelsAgree
<1>1. ChannelInv(c) BY DEF ChannelsInv
<1>2. /\ conn[c].state \in {"none", "new", "open", "closed", "ended"}
      /\ proxy[c].state \in {"none", "open", "fin", "reset", "closed"}
  BY TypesFollow, ChannelTyped
<1>3. c \in Last!Known <=> proxy[c].state \in {"open", "fin", "reset"}
  BY <1>1 DEF ChannelInv, EndLast, Last!Known
<1>4. conn[c].state = "open" /\ proxy[c].state = "none" => OnItsWay(up, c, "OPEN")
  BY <1>1 DEF ChannelInv, BeforeOpen, OpenFirst, Unseen
<1>5. conn[c].state = "open" /\ proxy[c].state = "closed" => OnItsWay(down, c, "CLOSE")
  BY <1>1 DEF ChannelInv, EndLast
<1>6. conn[c].state \in {"none", "new"} => proxy[c].state = "none"
  BY <1>1 DEF ChannelInv, BeforeOpen, Unseen
<1>7. conn[c].state = "ended" => proxy[c].state = "closed"
  BY <1>1 DEF ChannelInv, EndLast
<1>8. conn[c].state = "closed" =>
        OnItsWay(up, c, "CLOSE") \/ entry[c] = NoEntry \/ entry[c].closed
  BY <1>1 DEF ChannelInv, CloseLast
<1>9. c \in Last!Known => entry[c] # NoEntry BY DEF Last!Known
<1> QED BY <1>2, <1>3, <1>4, <1>5, <1>6, <1>7, <1>8, <1>9
-----------------------------------------------------------------------------
(* Counting packets.                                                       *)

Places(q, S) == {i \in 1..Len(q) : q[i] \in S}
Held(q, S) == Cardinality(Places(q, S))

LEMMA HeldCounts ==
  ASSUME NEW q \in Queues, NEW S
  PROVE  IsFiniteSet(Places(q, S)) /\ Held(q, S) \in Nat
<1>1. Len(q) \in Nat BY DEF Queues
<1>2. IsFiniteSet(1..Len(q)) BY <1>1, FS_Interval
<1>3. Places(q, S) \in SUBSET (1..Len(q)) BY DEF Places
<1>4. IsFiniteSet(Places(q, S)) BY <1>2, <1>3, FS_Subset
<1> QED BY <1>4, FS_CardinalityType DEF Held

LEMMA HeldAppend ==
  ASSUME NEW q \in Queues, NEW p \in Local!Packets, NEW S
  PROVE  /\ Append(q, p) \in Queues
         /\ p \in S => Held(Append(q, p), S) = Held(q, S) + 1
         /\ p \notin S => Held(Append(q, p), S) = Held(q, S)
<1>1. /\ Append(q, p) \in Queues /\ Len(q) \in Nat /\ Len(Append(q, p)) = Len(q) + 1
      /\ \A i \in 1..Len(q) : Append(q, p)[i] = q[i]
      /\ Append(q, p)[Len(q) + 1] = p
  BY DEF Queues
<1>2. Len(q) + 1 \notin Places(q, S) BY <1>1 DEF Places
<1>3. ASSUME p \in S PROVE Held(Append(q, p), S) = Held(q, S) + 1
  <2>1. Places(Append(q, p), S) = Places(q, S) \cup {Len(q) + 1}
    BY <1>1, <1>3 DEF Places
  <2> QED BY <2>1, <1>2, HeldCounts, FS_AddElement DEF Held
<1>4. ASSUME p \notin S PROVE Held(Append(q, p), S) = Held(q, S)
  <2>1. Places(Append(q, p), S) = Places(q, S)
    BY <1>1, <1>4 DEF Places
  <2> QED BY <2>1 DEF Held
<1> QED BY <1>1, <1>3, <1>4

LEMMA HeldTail ==
  ASSUME NEW q \in Queues, q # <<>>, NEW S
  PROVE  /\ Tail(q) \in Queues
         /\ Head(q) \in S => Held(q, S) = Held(Tail(q), S) + 1
         /\ Head(q) \notin S => Held(q, S) = Held(Tail(q), S)
<1> DEFINE r == Tail(q)
<1>1. /\ r \in Queues /\ Head(q) = q[1]
      /\ Len(q) \in Nat /\ Len(q) >= 1 /\ Len(r) = Len(q) - 1
      /\ \A i \in 1..(Len(q) - 1) : r[i] = q[i + 1]
  BY DEF Queues
<1> HIDE DEF r
<1> DEFINE T == {i \in Places(q, S) : i # 1}
           f == [i \in Places(r, S) |-> i + 1]
<1>2. \A i \in Places(r, S) : i \in Nat /\ i + 1 \in T
  <2> TAKE i \in Places(r, S)
  <2>1. i \in 1..(Len(q) - 1) /\ r[i] \in S BY <1>1 DEF Places
  <2>2. i + 1 \in 1..Len(q) /\ i + 1 # 1 /\ q[i + 1] \in S BY <1>1, <2>1
  <2> QED BY <2>1, <2>2 DEF Places
<1>3. \A j \in T : j - 1 \in Places(r, S) /\ (j - 1) + 1 = j
  <2> TAKE j \in T
  <2>1. j \in 1..Len(q) /\ j # 1 /\ q[j] \in S BY DEF Places
  <2>2. j - 1 \in 1..(Len(q) - 1) /\ (j - 1) + 1 = j BY <1>1, <2>1
  <2>3. r[j - 1] = q[j] BY <1>1, <2>2
  <2>4. j - 1 \in 1..Len(r) BY <1>1, <2>2
  <2> QED BY <2>1, <2>2, <2>3, <2>4 DEF Places
<1>4. f \in Bijection(Places(r, S), T)
  <2>1. f \in [Places(r, S) -> T] BY <1>2
  <2>2. \A a, b \in Places(r, S) : f[a] = f[b] => a = b BY <1>2
  <2>3. \A t \in T : \E a \in Places(r, S) : f[a] = t BY <1>3
  <2> QED BY <2>1, <2>2, <2>3 DEF Bijection, Injection, Surjection, IsInjective
<1>5. ExistsBijection(Places(r, S), T) BY <1>4 DEF ExistsBijection
<1> HIDE DEF T, f
<1>6. IsFiniteSet(T) /\ Cardinality(T) = Held(r, S)
  <2>1. IsFiniteSet(Places(r, S)) BY <1>1, HeldCounts
  <2> QED BY <2>1, <1>5, FS_Bijection DEF Held
<1>7. ASSUME Head(q) \in S PROVE Held(q, S) = Held(r, S) + 1
  <2>1. Places(q, S) = T \cup {1} BY <1>1, <1>7 DEF T, Places
  <2>2. 1 \notin T BY DEF T
  <2> QED BY <2>1, <2>2, <1>6, FS_AddElement DEF Held
<1>8. ASSUME Head(q) \notin S PROVE Held(q, S) = Held(r, S)
  <2>1. Places(q, S) = T BY <1>1, <1>8 DEF T, Places
  <2> QED BY <2>1, <1>6 DEF Held
<1> QED BY <1>1, <1>7, <1>8 DEF r

-----------------------------------------------------------------------------
(* The windows.                                                            *)

DataOf(c) == {p \in Local!Packets : p.channel = c /\ p.item # 0}
AsksOf(c) == {p \in Local!Packets : p.channel = c /\ p.sendme}

Window(c) ==
  entry[c] # NoEntry /\ conn[c].state = "open" =>
    entry[c].downstream <=
      Held(down, DataOf(c)) + conn[c].counter + SoftLimit * Held(up, AsksOf(c))

WindowsInv == \A c \in Channels : Window(c)

LEMMA WindowsAreWindows == Types => (WindowsReturn <=> WindowsInv)
<1> SUFFICES ASSUME Types PROVE WindowsReturn <=> WindowsInv
  OBVIOUS
<1>1. ASSUME NEW c, NEW q \in Queues
      PROVE  /\ {i \in PacketsOf(q, c) : q[i].item # 0} = Places(q, DataOf(c))
             /\ {i \in PacketsOf(q, c) : q[i].sendme} = Places(q, AsksOf(c))
  <2>1. \A i \in 1..Len(q) : q[i] \in Local!Packets BY DEF Queues
  <2> QED BY <2>1 DEF PacketsOf, Places, DataOf, AsksOf
<1>2. up \in Queues /\ down \in Queues BY DEF Types, ConnsTyped
<1>3. \A c \in Channels :
        /\ Cardinality({i \in PacketsOf(down, c) : down[i].item # 0}) = Held(down, DataOf(c))
        /\ Cardinality({i \in PacketsOf(up, c) : up[i].sendme}) = Held(up, AsksOf(c))
  BY <1>1, <1>2 DEF Held
<1> QED BY <1>3 DEF WindowsReturn, WindowsInv, Window, Last!Known

LEMMA WindowTyped ==
  ASSUME Types, NEW c \in Channels
  PROVE  /\ Held(down, DataOf(c)) \in Nat /\ Held(up, AsksOf(c)) \in Nat
         /\ conn[c].counter \in Nat
         /\ entry[c] # NoEntry => entry[c].downstream \in Nat
<1>1. up \in Queues /\ down \in Queues BY DEF Types, ConnsTyped
<1>2. conn[c] \in Local!Connections /\ (entry[c] # NoEntry => entry[c] \in Last!Entries)
  BY DEF Types, ConnsTyped, LastTyped
<1>3. conn[c].counter \in Nat BY <1>2, ChannelFlowAssumption DEF Local!Connections
<1>4. entry[c] # NoEntry => entry[c].downstream \in Nat
  BY <1>2, ChannelFlowAssumption DEF Last!Entries
<1> QED BY <1>1, <1>3, <1>4, HeldCounts

LEMMA Products ==
  ASSUME NEW s \in Nat, NEW a \in Nat, NEW b \in Nat
  PROVE  s * a \in Nat /\ s * (a + 1) = s * a + s /\ (a <= b => s * a <= s * b)
<1>1. s * a \in Nat /\ s * (a + 1) = s * a + s OBVIOUS
<1>2. ASSUME a <= b PROVE s * a <= s * b
  <2>1. PICK d \in Nat : b = a + d BY <1>2
  <2>2. s * b = s * a + s * d /\ s * d \in Nat /\ s * a \in Nat BY <2>1
  <2> QED BY <2>2
<1> QED BY <1>1, <1>2

(* A step that takes nothing from a window.                                *)
Steady(c) ==
  entry'[c] # NoEntry /\ conn'[c].state = "open" =>
    /\ entry[c] # NoEntry /\ conn[c].state = "open"
    /\ entry'[c].downstream <= entry[c].downstream
    /\ conn[c].counter <= conn'[c].counter
    /\ Held(up, AsksOf(c)) <= Held(up', AsksOf(c))
    /\ Held(down, DataOf(c)) <= Held(down', DataOf(c))

LEMMA SteadyArithmetic ==
  ASSUME NEW w \in Nat, NEW d \in Nat, NEW n \in Nat, NEW u \in Nat,
         NEW w1 \in Nat, NEW d1 \in Nat, NEW n1 \in Nat, NEW u1 \in Nat, NEW s \in Nat,
         w <= d + n + s * u, w1 <= w, d <= d1, n <= n1, u <= u1
  PROVE  w1 <= d1 + n1 + s * u1
<1>1. s * u \in Nat /\ s * u1 \in Nat /\ s * u <= s * u1 BY Products
<1> QED BY <1>1

LEMMA SteadyKeeps ==
  ASSUME Types, Types', NEW c \in Channels, Window(c), Steady(c)
  PROVE  Window(c)'
<1> SUFFICES ASSUME entry'[c] # NoEntry, conn'[c].state = "open"
             PROVE  entry'[c].downstream <=
                      Held(down', DataOf(c)) + conn'[c].counter
                      + SoftLimit * Held(up', AsksOf(c))
  BY DEF Window
<1>1. /\ entry[c] # NoEntry /\ conn[c].state = "open"
      /\ entry'[c].downstream <= entry[c].downstream
      /\ conn[c].counter <= conn'[c].counter
      /\ Held(up, AsksOf(c)) <= Held(up', AsksOf(c))
      /\ Held(down, DataOf(c)) <= Held(down', DataOf(c))
  BY DEF Steady
<1>2. entry[c].downstream <=
        Held(down, DataOf(c)) + conn[c].counter + SoftLimit * Held(up, AsksOf(c))
  BY <1>1 DEF Window
<1>3. /\ Held(down, DataOf(c)) \in Nat /\ Held(up, AsksOf(c)) \in Nat
      /\ conn[c].counter \in Nat /\ entry[c].downstream \in Nat
  BY <1>1, WindowTyped
<1>4. /\ Held(down', DataOf(c)) \in Nat /\ Held(up', AsksOf(c)) \in Nat
      /\ conn'[c].counter \in Nat /\ entry'[c].downstream \in Nat
  <2>1. up' \in Queues /\ down' \in Queues BY DEF Types, ConnsTyped
  <2>2. conn'[c] \in Local!Connections /\ entry'[c] \in Last!Entries
    BY DEF Types, ConnsTyped, LastTyped
  <2>3. conn'[c].counter \in Nat BY <2>2, ChannelFlowAssumption DEF Local!Connections
  <2>4. entry'[c].downstream \in Nat BY <2>2, ChannelFlowAssumption DEF Last!Entries
  <2> QED BY <2>1, <2>3, <2>4, HeldCounts
<1>5. SoftLimit \in Nat BY ChannelFlowAssumption
<1> QED BY ONLY <1>1, <1>2, <1>3, <1>4, <1>5, SteadyArithmetic

LEMMA OneWindow ==
  ASSUME Types, Types', WindowsInv, NEW c \in Channels, Window(c)',
         \A d \in Channels \ {c} : Steady(d)
  PROVE  WindowsInv'
BY SteadyKeeps DEF WindowsInv

LEMMA AllSteady ==
  ASSUME Types, Types', WindowsInv, \A d \in Channels : Steady(d)
  PROVE  WindowsInv'
BY SteadyKeeps DEF WindowsInv

LEMMA HeldGrows ==
  ASSUME NEW q \in Queues, NEW r, NEW S,
         r = q \/ \E p \in Local!Packets : r = Append(q, p)
  PROVE  Held(q, S) <= Held(r, S)
<1>0. Held(q, S) \in Nat BY HeldCounts
<1>1. CASE r = q BY <1>0, <1>1
<1>2. ASSUME NEW p \in Local!Packets, r = Append(q, p) PROVE Held(q, S) <= Held(r, S)
  <2>1. CASE p \in S BY <1>0, <1>2, <2>1, HeldAppend
  <2>2. CASE p \notin S BY <1>0, <1>2, <2>2, HeldAppend
  <2> QED BY <2>1, <2>2
<1> QED BY <1>1, <1>2

(* What is taken counts for its own channel only.                          *)
LEMMA HeldOthers ==
  ASSUME NEW q \in Queues, q # <<>>, NEW c, Head(q).channel # c
  PROVE  /\ Held(q, AsksOf(c)) <= Held(Tail(q), AsksOf(c))
         /\ Held(q, DataOf(c)) <= Held(Tail(q), DataOf(c))
<1>1. Head(q) \notin AsksOf(c) /\ Head(q) \notin DataOf(c) BY DEF AsksOf, DataOf
<1>2. /\ Held(q, AsksOf(c)) = Held(Tail(q), AsksOf(c))
      /\ Held(q, DataOf(c)) = Held(Tail(q), DataOf(c))
  BY <1>1, HeldTail
<1>3. Held(q, AsksOf(c)) \in Nat /\ Held(q, DataOf(c)) \in Nat BY HeldCounts
<1> QED BY ONLY <1>2, <1>3

(* A step that changes neither the queues nor what is counted.             *)
LEMMA StillWindows ==
  ASSUME Types, Types', WindowsInv, UNCHANGED <<conn, entry, up, down>>
  PROVE  WindowsInv'
BY DEF WindowsInv, Window

(* The browser.                                                            *)
LEMMA BrowserWindows ==
  ASSUME Types, Types', ChannelsInv, WindowsInv, UNCHANGED lastVars, NEW c \in Channels,
         Local!Accept(c) \/ Local!BrowserData(c) \/ Local!BrowserClose(c)
  PROVE  WindowsInv'
<1>1. up \in Queues /\ down \in Queues /\ conn \in [Channels -> Local!Connections]
  BY DEF Types, ConnsTyped
<1>2. entry' = entry /\ down' = down
  BY DEF lastVars, Local!Accept, Local!BrowserData, Local!BrowserClose
<1>3. up' = up \/ \E p \in Local!Packets : up' = Append(up, p)
  <2>1. CASE Local!Accept(c) BY <2>1 DEF Local!Accept
  <2>2. CASE Local!BrowserData(c)
    <3>1. conn[c].sent + 1 \in Nat BY ChannelTyped
    <3> QED BY <2>2, <3>1, PacketsTyped DEF Local!BrowserData
  <2>3. CASE Local!BrowserClose(c) BY <2>3, PacketsTyped DEF Local!BrowserClose
  <2> QED BY <2>1, <2>2, <2>3
<1>4. \A d \in Channels :
        /\ conn'[d].counter = conn[d].counter
        /\ conn'[d].state = "open" => conn[d].state = "open" \/ conn[d].state = "new"
  <2>1. CASE Local!Accept(c) BY <1>1, <2>1 DEF Local!Accept, Local!Connections
  <2>2. CASE Local!BrowserData(c)
    BY <1>1, <2>2 DEF Local!BrowserData, Local!Listed, Local!Connections
  <2>3. CASE Local!BrowserClose(c) BY <1>1, <2>3 DEF Local!BrowserClose, Local!Connections
  <2> QED BY <2>1, <2>2, <2>3
<1>5. ASSUME NEW d \in Channels PROVE Steady(d)
  <2>1. conn[d].state = "new" => entry[d] = NoEntry
    BY DEF ChannelsInv, ChannelInv, BeforeOpen, EndLast, Unseen
  <2>2. Held(up, AsksOf(d)) <= Held(up', AsksOf(d)) BY <1>1, <1>3, HeldGrows
  <2>3. Held(down, DataOf(d)) <= Held(down', DataOf(d)) BY <1>1, <1>2, HeldGrows
  <2>4. conn[d].counter <= conn'[d].counter BY <1>4, WindowTyped
  <2>5. entry'[d] = entry[d] /\ (entry[d] # NoEntry => entry[d].downstream \in Nat)
    BY <1>2, WindowTyped
  <2> QED BY <1>4, <2>1, <2>2, <2>3, <2>4, <2>5 DEF Steady
<1> QED BY <1>5, AllSteady

(* What the local proxy takes counts as long as nobody has asked for it.   *)
LEMMA ReceiveArithmetic ==
  ASSUME NEW w \in Nat, NEW d \in Nat, NEW n \in Nat, NEW u \in Nat,
         NEW d1 \in Nat, NEW s \in Nat, w <= d + n + s * u, d <= d1 + 1
  PROVE  /\ w <= d1 + (n + 1) + s * u
         /\ w <= d1 + (n - (s - 1)) + s * (u + 1)
<1>1. s * u \in Nat /\ s * (u + 1) = s * u + s BY Products
<1> QED BY <1>1

LEMMA ReceiveWindows ==
  ASSUME Types, Types', ChannelsInv, WindowsInv, UNCHANGED lastVars, Local!Receive
  PROVE  WindowsInv'
<1>1. up \in Queues /\ down \in Queues /\ conn \in [Channels -> Local!Connections]
  BY DEF Types, ConnsTyped
<1>2. entry' = entry /\ down # <<>> /\ down' = Tail(down)
  BY DEF lastVars, Local!Receive, Local!ReceiveUnknown, Local!ReceiveClose, Local!ReceiveData
<1> PICK p \in Local!Packets : p = Head(down) BY <1>1, <1>2, AfterTail
<1> PICK c \in Channels : c = p.channel BY DEF Local!Packets
<1>3. /\ up' = up \/ up' = Append(up, Local!SendMePacket(c))
      /\ \A d \in Channels \ {c} : conn'[d] = conn[d]
  BY <1>1 DEF Local!Receive, Local!ReceiveUnknown, Local!ReceiveClose, Local!ReceiveData
<1>4. up' = up \/ \E s \in Local!Packets : up' = Append(up, s) BY <1>3, PacketsTyped
<1>5. ASSUME NEW d \in Channels \ {c} PROVE Steady(d)
  <2>1. Held(up, AsksOf(d)) <= Held(up', AsksOf(d)) BY <1>1, <1>4, HeldGrows
  <2>2. Held(down, DataOf(d)) <= Held(down', DataOf(d)) BY <1>1, <1>2, HeldOthers
  <2>3. /\ entry'[d] = entry[d] /\ conn'[d] = conn[d] /\ conn[d].counter \in Nat
        /\ entry[d] # NoEntry => entry[d].downstream \in Nat
    BY <1>2, <1>3, WindowTyped
  <2> QED BY <2>1, <2>2, <2>3 DEF Steady
<1>6. Window(c)'
  <2>1. CASE Local!ReceiveUnknown \/ Local!ReceiveClose
    <3>1. conn'[c].state # "open"
      BY <1>1, <2>1 DEF Local!ReceiveUnknown, Local!ReceiveClose, Local!Listed,
                        Local!Connections
    <3> QED BY <3>1 DEF Window
  <2>2. CASE Local!ReceiveData
    <3> SUFFICES ASSUME entry'[c] # NoEntry, conn'[c].state = "open"
                 PROVE  entry'[c].downstream <=
                          Held(down', DataOf(c)) + conn'[c].counter
                          + SoftLimit * Held(up', AsksOf(c))
      BY DEF Window
    <3>1. /\ conn'[c].counter = IF Local!Acknowledges(c)
                                THEN conn[c].counter - (SoftLimit - 1) ELSE conn[c].counter + 1
          /\ conn'[c].state = conn[c].state
          /\ up' = IF Local!Acknowledges(c) THEN Append(up, Local!SendMePacket(c)) ELSE up
      <4> PICK k, n : /\ k = conn[c]
                      /\ n = IF Local!Acknowledges(c)
                             THEN conn[c].counter - (SoftLimit - 1) ELSE conn[c].counter + 1
        OBVIOUS
      <4>1. k \in Local!Connections BY <1>1
      <4>2. /\ \E g : conn' = [conn EXCEPT ![c].counter = n, ![c].got = g]
            /\ up' = IF Local!Acknowledges(c) THEN Append(up, Local!SendMePacket(c)) ELSE up
        BY <2>2 DEF Local!ReceiveData
      <4> PICK g : conn' = [conn EXCEPT ![c].counter = n, ![c].got = g] BY <4>2
      <4>3. conn'[c] = [k EXCEPT !.counter = n, !.got = g] BY <1>1
      <4>4. conn'[c].counter = n /\ conn'[c].state = k.state
        BY ONLY <4>1, <4>3 DEF Local!Connections
      <4> QED BY <4>2, <4>4
    <3>2. entry[c].downstream <=
            Held(down, DataOf(c)) + conn[c].counter + SoftLimit * Held(up, AsksOf(c))
      BY <1>2, <3>1 DEF WindowsInv, Window
    <3>3. /\ Held(down, DataOf(c)) \in Nat /\ Held(up, AsksOf(c)) \in Nat
          /\ conn[c].counter \in Nat /\ entry[c].downstream \in Nat /\ SoftLimit \in Nat
      BY <1>2, WindowTyped, ChannelFlowAssumption
    <3>4. /\ Held(down', DataOf(c)) \in Nat
          /\ Held(down, DataOf(c)) <= Held(down', DataOf(c)) + 1
      <4>1. Tail(down) \in Queues BY <1>1, <1>2, AfterTail
      <4>2. Held(down', DataOf(c)) \in Nat BY <1>2, <4>1, HeldCounts
      <4>3. \/ Held(down, DataOf(c)) = Held(Tail(down), DataOf(c)) + 1
            \/ Held(down, DataOf(c)) = Held(Tail(down), DataOf(c))
        BY <1>1, <1>2, HeldTail
      <4> QED BY ONLY <1>2, <4>2, <4>3
    <3>5. /\ entry[c].downstream <=
               Held(down', DataOf(c)) + (conn[c].counter + 1) + SoftLimit * Held(up, AsksOf(c))
          /\ entry[c].downstream <=
               Held(down', DataOf(c)) + (conn[c].counter - (SoftLimit - 1))
               + SoftLimit * (Held(up, AsksOf(c)) + 1)
      BY ONLY <3>2, <3>3, <3>4, ReceiveArithmetic
    <3>6. entry'[c] = entry[c] BY <1>2
    <3>7. CASE ~Local!Acknowledges(c) BY <3>1, <3>5, <3>6, <3>7
    <3>8. CASE Local!Acknowledges(c)
      <4>1. Local!SendMePacket(c) \in Local!Packets /\ Local!SendMePacket(c) \in AsksOf(c)
        BY PacketsTyped DEF AsksOf, Local!SendMePacket, Local!Packet
      <4>2. Held(up', AsksOf(c)) = Held(up, AsksOf(c)) + 1
        BY <1>1, <3>1, <3>8, <4>1, HeldAppend
      <4> QED BY <3>1, <3>5, <3>6, <3>8, <4>2
    <3> QED BY <3>7, <3>8
  <2> QED BY <2>1, <2>2 DEF Local!Receive
<1> QED BY <1>5, <1>6, OneWindow

(* The last mix takes a packet: for the other channels nothing changes.    *)
LEMMA TakenWindows ==
  ASSUME Types, Types', ChannelsInv, Last!TakePacket, conn' = conn,
         NEW p, p = Head(up), NEW c, c = p.channel,
         down' = down \/ \E s \in Local!Packets : down' = Append(down, s),
         NEW d \in Channels \ {c}, entry'[d] = entry[d]
  PROVE  Steady(d)
<1>1. up \in Queues /\ down \in Queues /\ up # <<>> /\ up' = Tail(up)
  BY DEF Types, ConnsTyped, Last!TakePacket
<1>2. Held(up, AsksOf(d)) <= Held(up', AsksOf(d)) BY <1>1, HeldOthers
<1>3. Held(down, DataOf(d)) <= Held(down', DataOf(d)) BY <1>1, HeldGrows
<1>4. /\ conn[d].counter \in Nat
      /\ entry[d] # NoEntry => entry[d].downstream \in Nat
  BY WindowTyped
<1> QED BY <1>2, <1>3, <1>4 DEF Steady

LEMMA OpenChannelWindows ==
  ASSUME Types, Types', ChannelsInv, WindowsInv, Last!OpenChannel, conn' = conn
  PROVE  WindowsInv'
<1>0. Last!TakePacket BY DEF Last!OpenChannel
<1> PICK p : p = Head(up) OBVIOUS
<1> PICK c : c = p.channel OBVIOUS
<1>1. c \in Channels BY <1>0, TakeFacts
<1>2. /\ entry' = [entry EXCEPT ![c] = Last!NewEntry] /\ down' = down
      /\ entry \in [Channels -> Last!Entries \cup {NoEntry}]
  BY DEF Last!OpenChannel, Types, LastTyped
<1>3. ASSUME NEW d \in Channels \ {c} PROVE Steady(d)
  <2>1. entry'[d] = entry[d] BY <1>2
  <2> QED BY <1>0, <1>2, <2>1, TakenWindows
<1>4. Window(c)'
  <2>1. entry'[c].downstream = 0 BY <1>1, <1>2 DEF Last!NewEntry
  <2>2. up' \in Queues /\ down' \in Queues BY DEF Types, ConnsTyped
  <2>3. Held(down', DataOf(c)) \in Nat /\ Held(up', AsksOf(c)) \in Nat BY <2>2, HeldCounts
  <2>4. conn'[c].counter \in Nat /\ SoftLimit \in Nat
    BY <1>1, WindowTyped, ChannelFlowAssumption
  <2>5. SoftLimit * Held(up', AsksOf(c)) \in Nat BY ONLY <2>3, <2>4, Products
  <2>6. 0 <= Held(down', DataOf(c)) + conn'[c].counter + SoftLimit * Held(up', AsksOf(c))
    BY ONLY <2>3, <2>4, <2>5
  <2> QED BY ONLY <2>1, <2>6 DEF Window
<1> QED BY <1>1, <1>3, <1>4, OneWindow

LEMMA OpenFailsWindows ==
  ASSUME Types, Types', ChannelsInv, WindowsInv, Last!OpenFails, conn' = conn
  PROVE  WindowsInv'
<1>0. Last!TakePacket BY DEF Last!OpenFails
<1> PICK p : p = Head(up) OBVIOUS
<1> PICK c : c = p.channel OBVIOUS
<1>1. c \in Channels BY <1>0, TakeFacts
<1>2. /\ p.flags = "OPEN" /\ entry' = entry
      /\ down' = Append(down, Last!Packet(c, "CLOSE", 0))
  BY DEF Last!OpenFails, Last!SendClose
<1>3. entry[c] = NoEntry BY <1>0, <1>2, OpenFacts
<1>4. \E s \in Local!Packets : down' = Append(down, s) BY <1>1, <1>2, CloseIsPacket
<1>5. ASSUME NEW d \in Channels \ {c} PROVE Steady(d)
  BY <1>0, <1>2, <1>4, TakenWindows
<1>6. Steady(c) BY <1>2, <1>3 DEF Steady
<1> QED BY <1>5, <1>6, AllSteady

LEMMA CloseChannelWindows ==
  ASSUME Types, Types', ChannelsInv, WindowsInv, Last!CloseChannel, conn' = conn
  PROVE  WindowsInv'
<1>0. Last!TakePacket BY DEF Last!CloseChannel
<1> PICK p : p = Head(up) OBVIOUS
<1> PICK c : c = p.channel OBVIOUS
<1>1. p.flags = "CLOSE" /\ down' = down /\ \A d \in Channels \ {c} : entry'[d] = entry[d]
  <2>1. entry \in [Channels -> Last!Entries \cup {NoEntry}] BY DEF Types, LastTyped
  <2> QED BY <2>1 DEF Last!CloseChannel
<1>2. c \in Channels /\ conn[c].state = "closed" BY <1>0, <1>1, TakeFacts
<1>3. ASSUME NEW d \in Channels \ {c} PROVE Steady(d) BY <1>0, <1>1, TakenWindows
<1>4. Steady(c) BY <1>2 DEF Steady
<1> QED BY <1>3, <1>4, AllSteady

LEMMA IgnorePacketWindows ==
  ASSUME Types, Types', ChannelsInv, WindowsInv, Last!IgnorePacket, conn' = conn
  PROVE  WindowsInv'
<1>0. Last!TakePacket BY DEF Last!IgnorePacket
<1> PICK p : p = Head(up) OBVIOUS
<1> PICK c : c = p.channel OBVIOUS
<1>1. /\ c \in Channels /\ ChannelInv(c)
      /\ \A f : OnItsWay(up, c, f) <=> OnItsWay(up', c, f) \/ p.flags = f
  BY <1>0, TakeFacts
<1>2. /\ entry' = entry /\ down' = down
      /\ (p.flags = "OPEN") <=> (entry[c] # NoEntry)
  BY <1>1 DEF Last!IgnorePacket, Last!Known
<1>3. entry[c] = NoEntry
  <2>1. p.flags = "OPEN" => Unseen(c) BY <1>1 DEF ChannelInv, OpenFirst
  <2>2. Unseen(c) => entry[c] = NoEntry BY <1>1 DEF ChannelInv, EndLast, Unseen
  <2> QED BY <2>1, <2>2, <1>2
<1>4. ASSUME NEW d \in Channels \ {c} PROVE Steady(d) BY <1>0, <1>2, TakenWindows
<1>5. Steady(c) BY <1>2, <1>3 DEF Steady
<1> QED BY <1>4, <1>5, AllSteady

(* A SENDME opens the window by what it was worth while under way.         *)
LEMMA CreditArithmetic ==
  ASSUME NEW w \in Nat, NEW d \in Nat, NEW n \in Nat, NEW u \in Nat,
         NEW d1 \in Nat, NEW s \in Nat, w <= d + n + s * (u + 1), d <= d1
  PROVE  (IF w > s THEN w - s ELSE 0) <= d1 + n + s * u
<1>1. s * u \in Nat /\ s * (u + 1) = s * u + s BY Products
<1> QED BY <1>1

LEMMA DataOnChannelWindows ==
  ASSUME Types, Types', ChannelsInv, WindowsInv, Last!DataOnChannel, conn' = conn
  PROVE  WindowsInv'
<1>0. Last!TakePacket BY Zenon DEF Last!DataOnChannel
<1> PICK p : p = Head(up) OBVIOUS
<1> PICK c : c = p.channel OBVIOUS
<1> DEFINE n == entry[c].upstream + 1
<1>1. /\ c \in Channels /\ up \in Queues /\ down \in Queues
      /\ up # <<>> /\ up' = Tail(up) /\ p \in Local!Packets
  <2>1. up \in Queues /\ down \in Queues /\ up # <<>> /\ up' = Tail(up)
    BY <1>0 DEF Last!TakePacket, Types, ConnsTyped
  <2> QED BY <1>0, <2>1, TakeFacts, AfterTail
<1>2. /\ entry[c] # NoEntry
      /\ entry' = [entry EXCEPT
           ![c].queue = IF p.item = 0 THEN @ ELSE Append(@, p.item),
           ![c].downstream = Last!Credit(@, p),
           ![c].upstream = IF n >= SoftLimit THEN n - SoftLimit ELSE n,
           ![c].write = TRUE]
      /\ down' = down \/ down' = Append(down, Last!SendMePacket(c))
  BY NeverRefused, Zenon DEF Last!DataOnChannel, Last!Known
<1>3. /\ entry \in [Channels -> Last!Entries \cup {NoEntry}]
      /\ down' = down \/ \E s \in Local!Packets : down' = Append(down, s)
  BY <1>1, <1>2, PacketsTyped, Zenon DEF Types, LastTyped
<1>4. ASSUME NEW d \in Channels \ {c} PROVE Steady(d)
  <2>1. entry'[d] = entry[d] BY <1>2, <1>3, Zenon
  <2> QED BY <1>0, <1>3, <2>1, TakenWindows
<1>5. entry'[c].downstream = Last!Credit(entry[c].downstream, p)
  <2>1. entry[c] \in Last!Entries BY <1>1, <1>2, <1>3, Zenon
  <2> QED BY <1>1, <1>2, <1>3, <2>1, Zenon DEF Last!Entries
<1> HIDE DEF n
<1>6. Window(c)'
  <2> SUFFICES ASSUME conn[c].state = "open"
               PROVE  entry'[c].downstream <=
                        Held(down', DataOf(c)) + conn[c].counter
                        + SoftLimit * Held(up', AsksOf(c))
    BY DEF Window
  <2>1. entry[c].downstream <=
          Held(down, DataOf(c)) + conn[c].counter + SoftLimit * Held(up, AsksOf(c))
    BY <1>1, <1>2, Zenon DEF WindowsInv, Window
  <2>2. /\ Held(down, DataOf(c)) \in Nat /\ Held(up, AsksOf(c)) \in Nat
        /\ conn[c].counter \in Nat /\ entry[c].downstream \in Nat /\ SoftLimit \in Nat
    BY <1>1, <1>2, WindowTyped, ChannelFlowAssumption, Zenon
  <2>3. Held(down, DataOf(c)) <= Held(down', DataOf(c)) BY <1>1, <1>3, HeldGrows
  <2>4. up' \in Queues /\ down' \in Queues BY DEF Types, ConnsTyped
  <2>5. Held(down', DataOf(c)) \in Nat /\ Held(up', AsksOf(c)) \in Nat BY <2>4, HeldCounts
  <2>6. CASE p.sendme
    <3>1. p \in AsksOf(c) BY <1>1, <2>6 DEF AsksOf
    <3>2. Held(up, AsksOf(c)) = Held(up', AsksOf(c)) + 1 BY <1>1, <3>1, HeldTail
    <3>3. entry'[c].downstream = IF entry[c].downstream > SoftLimit
                                 THEN entry[c].downstream - SoftLimit ELSE 0
      BY <1>5, <2>6 DEF Last!Credit, Last!Minus
    <3>4. entry[c].downstream <=
            Held(down, DataOf(c)) + conn[c].counter
            + SoftLimit * (Held(up', AsksOf(c)) + 1)
      BY ONLY <2>1, <3>2
    <3>5. (IF entry[c].downstream > SoftLimit THEN entry[c].downstream - SoftLimit ELSE 0)
            <= Held(down', DataOf(c)) + conn[c].counter + SoftLimit * Held(up', AsksOf(c))
      BY ONLY <2>2, <2>3, <2>5, <3>4, CreditArithmetic
    <3> QED BY ONLY <3>3, <3>5
  <2>7. CASE ~p.sendme
    <3>1. p \notin AsksOf(c) BY <2>7 DEF AsksOf
    <3>2. Held(up, AsksOf(c)) = Held(up', AsksOf(c)) BY <1>1, <3>1, HeldTail
    <3>3. entry'[c].downstream = entry[c].downstream BY <1>5, <2>7 DEF Last!Credit
    <3>4. SoftLimit * Held(up', AsksOf(c)) \in Nat BY ONLY <2>2, <2>5, Products
    <3> QED BY ONLY <2>1, <2>2, <2>3, <2>5, <3>2, <3>3, <3>4
  <2> QED BY <2>6, <2>7
<1> QED BY <1>1, <1>4, <1>6, OneWindow

LEMMA WriteToProxyWindows ==
  ASSUME Types, Types', WindowsInv, NEW c \in Channels, Last!WriteToProxy(c),
         entry[c] # NoEntry, conn' = conn
  PROVE  WindowsInv'
<1>1. /\ up' = up /\ down' = down /\ up \in Queues /\ down \in Queues
      /\ entry \in [Channels -> Last!Entries \cup {NoEntry}]
  BY DEF Last!WriteToProxy, Last!Visit, Types, ConnsTyped, LastTyped
<1>2. \A d \in Channels \ {c} : entry'[d] = entry[d]
  BY <1>1 DEF Last!WriteToProxy
<1>3. entry'[c] = NoEntry \/ entry'[c].downstream = entry[c].downstream
  <2> SUFFICES ASSUME entry'[c] # NoEntry
               PROVE  entry'[c].downstream = entry[c].downstream
    OBVIOUS
  <2>1. entry[c] \in Last!Entries BY <1>1
  <2> PICK n \in 0..Len(entry[c].queue) :
        entry' = [entry EXCEPT
          ![c] = IF Last!LeftAfter(entry[c].queue, n) = <<>> /\ entry[c].closed THEN NoEntry
                 ELSE [@ EXCEPT !.queue = Last!LeftAfter(entry[c].queue, n),
                                !.write = Last!LeftAfter(entry[c].queue, n) # <<>>]]
    BY Zenon DEF Last!WriteToProxy
  <2>2. entry'[c] = [entry[c] EXCEPT !.queue = Last!LeftAfter(entry[c].queue, n),
                                     !.write = Last!LeftAfter(entry[c].queue, n) # <<>>]
    BY <1>1
  <2> QED BY ONLY <2>1, <2>2 DEF Last!Entries
<1>4. ASSUME NEW d \in Channels \ {c} PROVE Steady(d)
  <2>1. Held(up, AsksOf(d)) \in Nat /\ Held(down, DataOf(d)) \in Nat /\ conn[d].counter \in Nat
        /\ (entry[d] # NoEntry => entry[d].downstream \in Nat)
    BY WindowTyped
  <2> QED BY <1>1, <1>2, <2>1 DEF Steady
<1>5. Window(c)' BY <1>1, <1>3 DEF WindowsInv, Window
<1> QED BY <1>4, <1>5, OneWindow

LEMMA RemoveAndTellWindows ==
  ASSUME Types, Types', WindowsInv, NEW c \in Channels, Last!RemoveAndTell(c),
         up' = up, conn' = conn
  PROVE  WindowsInv'
<1>1. /\ down' = Append(down, Last!Packet(c, "CLOSE", 0))
      /\ entry' = [entry EXCEPT ![c] = NoEntry]
      /\ entry \in [Channels -> Last!Entries \cup {NoEntry}]
      /\ up \in Queues /\ down \in Queues
  BY DEF Last!RemoveAndTell, Last!RemoveChannel, Last!SendClose, Types, ConnsTyped, LastTyped
<1>2. \E s \in Local!Packets : down' = Append(down, s) BY <1>1, CloseIsPacket
<1>3. ASSUME NEW d \in Channels \ {c} PROVE Steady(d)
  <2>1. Held(down, DataOf(d)) <= Held(down', DataOf(d)) BY <1>1, <1>2, HeldGrows
  <2>2. /\ Held(up, AsksOf(d)) \in Nat /\ conn[d].counter \in Nat
        /\ entry[d] # NoEntry => entry[d].downstream \in Nat
    BY WindowTyped
  <2>3. entry'[d] = entry[d] BY <1>1
  <2> QED BY <2>1, <2>2, <2>3 DEF Steady
<1>4. Steady(c) BY <1>1 DEF Steady
<1> QED BY <1>3, <1>4, AllSteady

LEMMA ReadFromProxyWindows ==
  ASSUME Types, Types', WindowsInv, NEW c \in Channels, Last!ReadFromProxy(c),
         entry[c] # NoEntry, conn' = conn
  PROVE  WindowsInv'
<1> PICK s : s = Last!Packet(c, "DATA", proxy[c].read + 1) OBVIOUS
<1>1. /\ entry' = [entry EXCEPT ![c].downstream = @ + 1]
      /\ down' = Append(down, s) /\ up' = up
      /\ entry \in [Channels -> Last!Entries \cup {NoEntry}]
      /\ up \in Queues /\ down \in Queues
  BY DEF Last!ReadFromProxy, Last!Visit, Types, ConnsTyped, LastTyped
<1>2. proxy[c].read \in Nat BY ChannelTyped
<1>3. s \in Local!Packets /\ s.channel = c /\ s.item # 0
  <2>1. proxy[c].read + 1 \in Nat /\ proxy[c].read + 1 # 0 BY <1>2
  <2> QED BY <2>1, PacketsTyped DEF Last!Packet
<1>4. ASSUME NEW d \in Channels \ {c} PROVE Steady(d)
  <2>1. Held(down, DataOf(d)) <= Held(down', DataOf(d)) BY <1>1, <1>3, HeldGrows
  <2>2. /\ Held(up, AsksOf(d)) \in Nat /\ conn[d].counter \in Nat
        /\ entry[d] # NoEntry => entry[d].downstream \in Nat
    BY WindowTyped
  <2>3. entry'[d] = entry[d] BY <1>1
  <2> QED BY <1>1, <2>1, <2>2, <2>3 DEF Steady
<1>5. Window(c)'
  <2> SUFFICES ASSUME conn[c].state = "open"
               PROVE  entry'[c].downstream <=
                        Held(down', DataOf(c)) + conn[c].counter
                        + SoftLimit * Held(up', AsksOf(c))
    BY DEF Window
  <2>1. entry[c].downstream <=
          Held(down, DataOf(c)) + conn[c].counter + SoftLimit * Held(up, AsksOf(c))
    BY DEF WindowsInv, Window
  <2>2. /\ Held(down, DataOf(c)) \in Nat /\ Held(up, AsksOf(c)) \in Nat
        /\ conn[c].counter \in Nat /\ entry[c].downstream \in Nat /\ SoftLimit \in Nat
    BY WindowTyped, ChannelFlowAssumption
  <2>3. s \in DataOf(c) BY <1>3 DEF DataOf
  <2>4. Held(down', DataOf(c)) = Held(down, DataOf(c)) + 1 BY <1>1, <1>3, <2>3, HeldAppend
  <2>5. entry[c] \in Last!Entries BY <1>1
  <2>6. entry'[c].downstream = entry[c].downstream + 1 BY <1>1, <2>5 DEF Last!Entries
  <2>7. SoftLimit * Held(up, AsksOf(c)) \in Nat BY ONLY <2>2, Products
  <2>8. Held(up', AsksOf(c)) = Held(up, AsksOf(c)) BY <1>1
  <2> QED BY ONLY <2>1, <2>2, <2>4, <2>6, <2>7, <2>8
<1> QED BY <1>4, <1>5, OneWindow

LEMMA WindowsInit == Init => WindowsInv
BY DEF Init, Last!Init, WindowsInv, Window

LEMMA WindowsStep == TypeInv /\ ChannelsInv /\ WindowsInv /\ [Next]_vars => WindowsInv'
<1> SUFFICES ASSUME TypeInv, ChannelsInv, WindowsInv, [Next]_vars PROVE WindowsInv'
  OBVIOUS
<1>1. Types /\ Types' /\ LoopTyped
  <2>1. Types /\ LoopTyped BY TypesFollow
  <2>2. TypeInv' BY TypesStep
  <2>3. Types' BY <2>2 DEF TypeInv, TypeOK, Types, ConnsTyped, LastTyped, Queues
  <2> QED BY <2>1, <2>3
<1>2. CASE Local!Next /\ UNCHANGED lastVars
  <2>1. CASE Local!Receive BY <1>1, <1>2, <2>1, ReceiveWindows
  <2>2. ASSUME NEW c \in Channels,
               Local!Accept(c) \/ Local!BrowserData(c) \/ Local!BrowserClose(c)
        PROVE  WindowsInv'
    BY <1>1, <1>2, <2>2, BrowserWindows
  <2> QED BY <1>2, <2>1, <2>2 DEF Local!Next
<1>3. CASE Last!Next /\ UNCHANGED conn
  <2>0. conn' = conn BY <1>3
  <2>1. CASE Last!OpenChannel BY <1>1, <2>0, <2>1, OpenChannelWindows
  <2>2. CASE Last!OpenFails BY <1>1, <2>0, <2>2, OpenFailsWindows
  <2>3. CASE Last!CloseChannel BY <1>1, <2>0, <2>3, CloseChannelWindows
  <2>4. CASE Last!DataOnChannel BY <1>1, <2>0, <2>4, DataOnChannelWindows
  <2>5. CASE Last!IgnorePacket BY <1>1, <2>0, <2>5, IgnorePacketWindows
  <2>6. CASE Last!EndPackets \/ Last!EndWrites \/ Last!EndReads
    BY <1>1, <2>0, <2>6, StillWindows DEF Last!EndPackets, Last!EndWrites, Last!EndReads
  <2>7. ASSUME NEW c \in Channels, Last!WriteToProxy(c) PROVE WindowsInv'
    <3>1. entry[c] # NoEntry BY <1>1, <2>7, VisitFinds DEF Last!WriteToProxy
    <3> QED BY <1>1, <2>0, <2>7, <3>1, WriteToProxyWindows
  <2>8. ASSUME NEW c \in Channels, Last!WriteFails(c) PROVE WindowsInv'
    BY <1>1, <2>0, <2>8, RemoveAndTellWindows DEF Last!WriteFails, Last!Visit
  <2>9. ASSUME NEW c \in Channels, Last!ReadFromProxy(c) PROVE WindowsInv'
    <3>1. entry[c] # NoEntry BY <1>1, <2>9, VisitFinds DEF Last!ReadFromProxy
    <3> QED BY <1>1, <2>0, <2>9, <3>1, ReadFromProxyWindows
  <2>10. ASSUME NEW c \in Channels, Last!ReadEnds(c) PROVE WindowsInv'
    BY <1>1, <2>0, <2>10, RemoveAndTellWindows DEF Last!ReadEnds, Last!Visit
  <2>11. CASE Last!Servers BY <1>1, <2>0, <2>11, StillWindows DEF Last!Servers
  <2> QED BY <1>3, <2>1, <2>2, <2>3, <2>4, <2>5, <2>6, <2>7, <2>8, <2>9, <2>10, <2>11
          DEF Last!Next, Last!Loop
<1>4. CASE UNCHANGED vars BY <1>1, <1>4, StillWindows DEF vars, lastVars
<1> QED BY <1>2, <1>3, <1>4 DEF Next

-----------------------------------------------------------------------------
FlowInv == TypeInv /\ ChannelsInv /\ WindowsInv

LEMMA FlowInvariant == Spec => []FlowInv
<1>1. Init => FlowInv BY InitTypes, ChannelsInit, WindowsInit DEF FlowInv
<1>2. FlowInv /\ [Next]_vars => FlowInv'
  BY TypesStep, ChannelsStep, WindowsStep DEF FlowInv
<1> QED BY <1>1, <1>2, PTL DEF Spec

(* Every variable of the two ends keeps its type, with the limits of the   *)
(* flow control in it (CALocalProxy.cpp, CALastMixA.cpp).                  *)
THEOREM FlowTypes == Spec => []TypeOK
<1>1. FlowInv => TypeOK BY DEF FlowInv, TypeInv
<1> QED BY <1>1, FlowInvariant, PTL

(* The local proxy and the last mix agree on which channels there are, or  *)
(* news of it is under way, and the window of the last mix is never        *)
(* smaller than what is under way or counted leaves of it: so a stream     *)
(* from the server never waits for a SENDME that nobody will send.         *)
THEOREM BothEndsKeepAgreeing == Spec => []BothEndsAgree
<1>1. FlowInv => BothEndsAgree
  <2>1. FlowInv => ChannelsAgree BY InvAgrees DEF FlowInv
  <2>2. FlowInv => WindowsReturn
    BY TypesFollow, WindowsAreWindows DEF FlowInv
  <2> QED BY <2>1, <2>2 DEF BothEndsAgree
<1> QED BY <1>1, FlowInvariant, PTL
-----------------------------------------------------------------------------
(* The tunnel.                                                             *)

LEMMA UserMoves ==
  ASSUME NEW c \in Channels, \A d \in Channels \ {c} : conn'[d] = conn[d]
  PROVE  Users' = [Users EXCEPT ![c] = UserOf(c)'] /\ Users[c] = UserOf(c)
<1>1. \A d \in Channels \ {c} : UserOf(d)' = UserOf(d) BY DEF UserOf
<1>2. Users' = [d \in Channels |-> UserOf(d)'] BY DEF Users
<1> HIDE DEF UserOf
<1> QED BY <1>1, <1>2 DEF Users

LEMMA ServerMoves ==
  ASSUME NEW c \in Channels, \A d \in Channels \ {c} : proxy'[d] = proxy[d]
  PROVE  Servers' = [Servers EXCEPT ![c] = ServerOf(c)'] /\ Servers[c] = ServerOf(c)
<1>1. \A d \in Channels \ {c} : ServerOf(d)' = ServerOf(d) BY DEF ServerOf
<1>2. Servers' = [d \in Channels |-> ServerOf(d)'] BY DEF Servers
<1> HIDE DEF ServerOf
<1> QED BY <1>1, <1>2 DEF Servers

LEMMA UsersStay == conn' = conn => Users' = Users
BY DEF Users, UserOf

LEMMA ServersStay == proxy' = proxy => Servers' = Servers
BY DEF Servers, ServerOf

(* The numbers from 1 on are the stream up to their last.                  *)
LEMMA CountsUpto ==
  ASSUME NEW s \in Seq(Nat), Counts(s)
  PROVE  s = Promise!Upto(Len(s))
<1>1. s = [i \in 1..Len(s) |-> s[i]] OBVIOUS
<1>2. \A i \in 1..Len(s) : s[i] = i BY DEF Counts
<1>3. [i \in 1..Len(s) |-> s[i]] = [i \in 1..Len(s) |-> i] BY <1>2
<1> QED BY <1>1, <1>3 DEF Promise!Upto

StepOfPromise == [Promise!Next]_<<Users, Servers>>

LEMMA PromiseInit == Init => Promise!Init
<1> SUFFICES ASSUME Init PROVE Promise!Init
  OBVIOUS
<1>1. \A c \in Channels : UserOf(c) = Promise!Start /\ ServerOf(c) = Promise!Start
  BY DEF Init, Local!Init, Last!Init, UserOf, ServerOf, Promise!Start
<1> QED BY <1>1 DEF Promise!Init, Users, Servers

LEMMA BrowserMoves ==
  ASSUME Types, NEW c \in Channels, UNCHANGED lastVars,
         Local!Accept(c) \/ Local!BrowserData(c) \/ Local!BrowserClose(c)
  PROVE  StepOfPromise
<1>1. Servers' = Servers BY ServersStay DEF lastVars
<1>2. conn \in [Channels -> Local!Connections] BY DEF Types, ConnsTyped
<1>3. \A d \in Channels \ {c} : conn'[d] = conn[d]
  BY <1>2 DEF Local!Accept, Local!BrowserData, Local!BrowserClose
<1>4. Users' = [Users EXCEPT ![c] = UserOf(c)'] /\ Users[c] = UserOf(c)
  BY <1>3, UserMoves
<1>5. CASE Local!Accept(c)
  <2>1. UserOf(c)' = [UserOf(c) EXCEPT !.state = "open"] /\ UserOf(c).state = "none"
    BY <1>2, <1>5 DEF Local!Accept, Local!Connections, UserOf
  <2>2. Promise!UserOpens(c) BY <1>1, <1>4, <2>1 DEF Promise!UserOpens
  <2> QED BY <2>2 DEF StepOfPromise, Promise!Next
<1>6. CASE Local!BrowserData(c)
  <2>1. UserOf(c)' = [UserOf(c) EXCEPT !.sent = @ + 1] /\ UserOf(c).state = "open"
    BY <1>2, <1>6 DEF Local!BrowserData, Local!Listed, Local!Connections, UserOf
  <2>2. Promise!UserSends(c) BY <1>1, <1>4, <2>1 DEF Promise!UserSends
  <2> QED BY <2>2 DEF StepOfPromise, Promise!Next
<1>7. CASE Local!BrowserClose(c)
  <2>0. /\ conn[c].state \in {"new", "open"}
        /\ conn'[c].state = "closed" /\ conn'[c].sent = conn[c].sent
        /\ conn'[c].got = conn[c].got
    BY <1>2, <1>7 DEF Local!BrowserClose, Local!Listed, Local!Connections
  <2>1. UserOf(c)' = [UserOf(c) EXCEPT !.state = "closed"] /\ UserOf(c).state = "open"
    BY ONLY <2>0 DEF UserOf
  <2>2. Promise!UserCloses(c) BY <1>1, <1>4, <2>1 DEF Promise!UserCloses
  <2> QED BY <2>2 DEF StepOfPromise, Promise!Next
<1> QED BY <1>5, <1>6, <1>7

LEMMA ReceiveMoves ==
  ASSUME Types, Types', ChannelsInv, Local!Receive, UNCHANGED lastVars
  PROVE  StepOfPromise
<1>1. Servers' = Servers BY ServersStay DEF lastVars
<1>2. /\ conn \in [Channels -> Local!Connections] /\ down \in Queues
      /\ down # <<>> /\ down' = Tail(down)
  BY DEF Types, ConnsTyped, Local!Receive, Local!ReceiveUnknown, Local!ReceiveClose,
         Local!ReceiveData
<1> PICK p \in Local!Packets : p = Head(down) BY <1>2, AfterTail
<1> PICK c \in Channels : c = p.channel BY DEF Local!Packets
<1>3. /\ ChannelInv(c) /\ p.item \in Nat
      /\ \A f : OnItsWay(down, c, f) <=> OnItsWay(down', c, f) \/ p.flags = f
      /\ Ends(down, c, p.flags) => Empty(down', c)
      /\ CarriesWell(p)
      /\ \A a, b \in Nat : Stream(down, c, a, b) =>
           /\ p.item = 0 => Stream(down', c, a, b)
           /\ p.item # 0 => p.item = a + 1 /\ a + 1 <= b
  BY <1>2, ReceiveFacts
<1>4. \A d \in Channels \ {c} : conn'[d] = conn[d]
  BY <1>2 DEF Local!Receive, Local!ReceiveUnknown, Local!ReceiveClose, Local!ReceiveData
<1>5. /\ Users' = [Users EXCEPT ![c] = UserOf(c)'] /\ Users[c] = UserOf(c)
      /\ Servers[c] = ServerOf(c)
  BY <1>4, UserMoves DEF Servers
<1>6. /\ conn[c].got \in Seq(Nat) /\ Len(conn[c].got) \in Nat /\ proxy[c].read \in Nat
  BY ChannelTyped
<1>7. CASE Local!ReceiveUnknown
  <2>1. Users' = Users BY <1>7, UsersStay DEF Local!ReceiveUnknown
  <2> QED BY <1>1, <2>1 DEF StepOfPromise
<1>8. CASE Local!ReceiveClose
  <2>1. /\ p.flags = "CLOSE" /\ conn[c].state \in {"new", "open"}
        /\ conn' = [conn EXCEPT ![c].state = "ended"]
    BY <1>8 DEF Local!ReceiveClose, Local!Listed
  <2>0. /\ conn'[c].state = "ended" /\ conn'[c].sent = conn[c].sent
        /\ conn'[c].got = conn[c].got
    BY <1>2, <2>1 DEF Local!Connections
  <2>2. UserOf(c)' = [UserOf(c) EXCEPT !.state = "ended"] /\ UserOf(c).state = "open"
        /\ UserOf(c).got = conn[c].got
    BY ONLY <2>0, <2>1 DEF UserOf
  <2>3. proxy[c].state = "closed" /\ Empty(down', c)
    BY <1>3, <2>1 DEF ChannelInv, EndLast
  <2>4. Stream(down', c, Len(conn[c].got), proxy[c].read)
    <3>1. Stream(down, c, Len(conn[c].got), proxy[c].read)
      BY <1>3, <2>1 DEF ChannelInv, DownOrdered
    <3>2. p.item = 0 BY <1>3, <2>1 DEF CarriesWell
    <3> QED BY <1>3, <1>6, <3>1, <3>2
  <2>5. Len(conn[c].got) = proxy[c].read BY <1>6, <2>3, <2>4, EmptySays
  <2>6. ServerOf(c).state = "closed" /\ ServerOf(c).sent = proxy[c].read
    BY <2>3 DEF ServerOf
  <2>7. Promise!UserEnds(c) BY <1>1, <1>5, <2>2, <2>5, <2>6, ZenonT(60) DEF Promise!UserEnds
  <2> QED BY <2>7 DEF StepOfPromise, Promise!Next
<1>9. CASE Local!ReceiveData
  <2>1. /\ conn[c].state \in {"new", "open"}
        /\ conn' = [conn EXCEPT
             ![c].counter = IF Local!Acknowledges(c) THEN @ - (SoftLimit - 1) ELSE @ + 1,
             ![c].got = IF p.item = 0 THEN @ ELSE Append(@, p.item)]
    BY <1>9 DEF Local!ReceiveData, Local!Listed
  <2>2. /\ UserOf(c)' = [UserOf(c) EXCEPT
                          !.got = IF p.item = 0 THEN conn[c].got ELSE Append(conn[c].got, p.item)]
        /\ UserOf(c).state = "open" /\ UserOf(c).got = conn[c].got
    <3>1. /\ conn'[c].state = conn[c].state /\ conn'[c].sent = conn[c].sent
          /\ conn'[c].got = IF p.item = 0 THEN conn[c].got ELSE Append(conn[c].got, p.item)
      <4>1. conn[c] \in Local!Connections
            /\ conn'[c] = [conn[c] EXCEPT
                 !.counter = IF Local!Acknowledges(c) THEN @ - (SoftLimit - 1) ELSE @ + 1,
                 !.got = IF p.item = 0 THEN @ ELSE Append(@, p.item)]
        BY ONLY <1>2, <2>1, c \in Channels
      <4> QED BY ONLY <4>1 DEF Local!Connections
    <3>2. conn[c].state \in {"new", "open"} BY ONLY <2>1
    <3> QED BY ONLY <3>1, <3>2 DEF UserOf
  <2>3. CASE p.item = 0
    <3>1. UserOf(c)' = UserOf(c) BY <2>2, <2>3 DEF UserOf
    <3>2. Users' = Users BY <1>5, <3>1 DEF Users
    <3> QED BY <1>1, <3>2 DEF StepOfPromise
  <2>4. CASE p.item # 0
    <3>1. Stream(down, c, Len(conn[c].got), proxy[c].read) /\ Counts(conn[c].got)
      BY <1>3, <2>1 DEF ChannelInv, DownOrdered, Counts
    <3>2. p.item = Len(conn[c].got) + 1 /\ Len(conn[c].got) < proxy[c].read
      BY <1>3, <1>6, <2>4, <3>1
    <3>3. /\ Append(conn[c].got, p.item) \in Seq(Nat)
          /\ Len(Append(conn[c].got, p.item)) = Len(conn[c].got) + 1
          /\ Counts(Append(conn[c].got, p.item))
      <4> PICK g \in Seq(Nat) : g = conn[c].got BY <1>6
      <4>1. \A i \in 1..Len(g) : g[i] = i BY <3>1 DEF Counts
      <4>2. p.item = Len(g) + 1 BY <3>2
      <4>3. /\ Append(g, p.item) \in Seq(Nat) /\ Len(Append(g, p.item)) = p.item
            /\ \A i \in 1..Len(Append(g, p.item)) : Append(g, p.item)[i] = i
        BY <4>1, <4>2, Counted
      <4> QED BY <4>2, <4>3 DEF Counts
    <3>4. Append(conn[c].got, p.item) = Promise!Upto(Len(conn[c].got) + 1)
      BY ONLY <3>3, CountsUpto
    <3>5. ServerOf(c).sent = proxy[c].read BY DEF ServerOf
    <3>6. UserOf(c)' = [UserOf(c) EXCEPT !.got = Promise!Upto(Len(UserOf(c).got) + 1)]
      BY ONLY <2>2, <2>4, <3>4
    <3>7. Promise!UserGets(c) BY <1>1, <1>5, <2>2, <3>2, <3>5, <3>6 DEF Promise!UserGets
    <3> QED BY <3>7 DEF StepOfPromise, Promise!Next
  <2> QED BY <2>3, <2>4
<1> QED BY <1>7, <1>8, <1>9 DEF Local!Receive

(* State and stream of a server at once.                                   *)
EndOf(state, sent, got) == [state |-> state, sent |-> sent, got |-> got]

WithState(r, s) == [r EXCEPT !.state = s]
WithGot(r, g)   == [r EXCEPT !.got = g]

WithBoth(r, s, g) == [r EXCEPT !.state = s, !.got = g]

LEMMA StateOfEnd ==
  ASSUME NEW a, NEW b, NEW d, NEW e
  PROVE  WithState(EndOf(a, b, d), e) = EndOf(e, b, d)
<1> PICK r : r = [state |-> a, sent |-> b, got |-> d] OBVIOUS
<1>1. [r EXCEPT !.state = e] = [state |-> e, sent |-> b, got |-> d] OBVIOUS
<1>2. r = EndOf(a, b, d) BY DEF EndOf
<1>3. WithState(r, e) = EndOf(e, b, d) BY <1>1 DEF WithState, EndOf
<1> QED BY <1>2, <1>3

LEMMA BothOfEnd ==
  \A a, b, d, e, f : WithBoth(EndOf(a, b, d), e, f) = EndOf(e, b, f)
<1>1. \A a, b, d, e : WithGot(EndOf(a, b, d), e) = EndOf(a, b, e)
  BY DEF WithGot, EndOf
<1>2. \A r, s, g : WithBoth(r, s, g) = WithGot(WithState(r, s), g)
  BY DEF WithState, WithGot, WithBoth
<1> QED BY ONLY <1>1, <1>2, StateOfEnd

LEMMA BothFields ==
  ASSUME NEW c \in Channels, NEW s, NEW g,
         Servers' = [Servers EXCEPT ![c] = [ServerOf(c) EXCEPT !.state = s, !.got = g]],
         Servers[c] = ServerOf(c)
  PROVE  Servers' = [Servers EXCEPT ![c].state = s, ![c].got = g]
<1>1. DOMAIN Servers = Channels BY DEF Servers
<1>2. [Servers EXCEPT ![c].state = s][c] = [ServerOf(c) EXCEPT !.state = s] BY <1>1
<1>3. [Servers EXCEPT ![c].state = s, ![c].got = g]
        = [Servers EXCEPT ![c] = [[ServerOf(c) EXCEPT !.state = s] EXCEPT !.got = g]]
  BY <1>1, <1>2
<1> QED BY <1>3

(* The proxy server of a channel gets data, its state may change.          *)
OnlyServer(c) == \A d \in Channels \ {c} : proxy'[d] = proxy[d]

Takes(c, s, g) == Servers' = [Servers EXCEPT ![c].state = s, ![c].got = g]

LEMMA ServerTakes ==
  ASSUME NEW c \in Channels, NEW s, NEW g, OnlyServer(c),
         ServerOf(c)' = EndOf(s, proxy[c].read, g)
  PROVE  Takes(c, s, g)
<1>1. Servers' = [Servers EXCEPT ![c] = ServerOf(c)'] /\ Servers[c] = ServerOf(c)
  BY ServerMoves DEF OnlyServer
<1>2. \E a, d : ServerOf(c) = EndOf(a, proxy[c].read, d) BY Zenon DEF ServerOf, EndOf
<1>3. WithBoth(ServerOf(c), s, g) = EndOf(s, proxy[c].read, g) BY ONLY <1>2, BothOfEnd
<1>4. ServerOf(c)' = [ServerOf(c) EXCEPT !.state = s, !.got = g]
  BY ONLY <1>3, ServerOf(c)' = EndOf(s, proxy[c].read, g), Zenon DEF WithBoth
<1> QED BY ONLY <1>1, <1>4, c \in Channels, BothFields, Zenon DEF Takes

(* The last mix takes a packet.                                            *)
LEMMA PacketMoves ==
  ASSUME Types, Types', ChannelsInv, conn' = conn,
         \/ Last!OpenChannel \/ Last!OpenFails \/ Last!CloseChannel
         \/ Last!DataOnChannel \/ Last!IgnorePacket
  PROVE  StepOfPromise
<1>0. Last!TakePacket
  BY Zenon DEF Last!OpenChannel, Last!OpenFails, Last!CloseChannel, Last!DataOnChannel,
         Last!IgnorePacket
<1> PICK p : p = Head(up) OBVIOUS
<1> PICK c : c = p.channel OBVIOUS
<1>1. c \in Channels /\ ChannelInv(c) BY <1>0, TakeFacts
<1>2. Users' = Users BY UsersStay
<1>3. proxy \in [Channels -> Last!Proxies] BY DEF Types, LastTyped
<1>4. CASE Last!OpenChannel
  <2>1. /\ p.flags = "OPEN"
        /\ proxy' = [proxy EXCEPT ![c].state = "open", ![c].got = <<p.item>>]
    BY <1>4 DEF Last!OpenChannel
  <2>2. Unseen(c) /\ p.item = 1 /\ 1 <= conn[c].sent /\ conn[c].sent \in Nat
    BY <1>0, <1>1, <2>1, OpenFacts, ChannelTyped
  <2>3. /\ proxy'[c].state = "open" /\ proxy'[c].got = <<1>> /\ proxy'[c].read = proxy[c].read
        /\ proxy[c].state = "none" /\ proxy[c].got = <<>>
        /\ \A d \in Channels \ {c} : proxy'[d] = proxy[d]
    BY <1>1, <1>3, <2>1, <2>2 DEF Last!Proxies, Unseen, ChannelInv, OpenFirst
  <2>4. <<1>> = Promise!Upto(1)
    <3>1. <<1>> \in Seq(Nat) /\ Len(<<1>>) = 1 /\ Counts(<<1>>) BY DEF Counts
    <3> QED BY <3>1, CountsUpto
  <2>5. Servers[c].state = "none" /\ Servers[c].got = <<>>
    <3>1. ServerOf(c).state = "none" /\ ServerOf(c).got = <<>> BY ONLY <2>3 DEF ServerOf
    <3> QED BY ONLY <1>1, <3>1 DEF Servers
  <2>6. ServerOf(c)' = EndOf("open", proxy[c].read, Promise!Upto(1))
    <3>1. proxy'[c].got = Promise!Upto(1) BY ONLY <2>3, <2>4, Zenon
    <3>2. ServerOf(c)' = EndOf("open", proxy[c].read, proxy'[c].got)
      BY ONLY <2>3 DEF ServerOf, EndOf
    <3> QED BY ONLY <3>1, <3>2, Zenon
  <2>7. Users[c].sent = conn[c].sent BY <1>1 DEF Users, UserOf
  <2>8. 1 \in Len(Servers[c].got)..Users[c].sent
    <3>1. Len(Servers[c].got) = 0 BY ONLY <2>5
    <3> QED BY ONLY <2>2, <2>7, <3>1
  <2>9. Servers' = [Servers EXCEPT
          ![c].state = IF @ = "none" THEN "open" ELSE @, ![c].got = Promise!Upto(1)]
    <3>1. Servers' = [Servers EXCEPT ![c].state = "open", ![c].got = Promise!Upto(1)]
      <4>1. OnlyServer(c) BY ONLY <2>3 DEF OnlyServer
      <4>2. Takes(c, "open", Promise!Upto(1)) BY ONLY <1>1, <2>6, <4>1, ServerTakes
      <4> QED BY ONLY <4>2 DEF Takes
    <3> QED BY ONLY <2>5, <3>1
  <2>10. Promise!ServerGets(c)
    <3>1. 1 > 0 OBVIOUS
    <3> QED BY ONLY <1>2, <2>5, <2>8, <2>9, <3>1 DEF Promise!ServerGets
  <2> QED BY <1>1, <2>10 DEF StepOfPromise, Promise!Next
<1>5. CASE Last!OpenFails
  <2>1. p.flags = "OPEN" /\ proxy' = [proxy EXCEPT ![c].state = "closed"]
    BY <1>5 DEF Last!OpenFails
  <2>2. Unseen(c) /\ 1 <= conn[c].sent /\ conn[c].sent \in Nat
    BY <1>0, <1>1, <2>1, OpenFacts, ChannelTyped
  <2>3. /\ proxy'[c].state = "closed" /\ proxy'[c].got = proxy[c].got
        /\ proxy'[c].read = proxy[c].read /\ proxy[c].state = "none"
        /\ \A d \in Channels \ {c} : proxy'[d] = proxy[d]
    BY <1>1, <1>3, <2>1, <2>2 DEF Last!Proxies, Unseen
  <2>4. ServerOf(c)' = [ServerOf(c) EXCEPT !.state = "closed"] /\ ServerOf(c).state = "none"
    BY ONLY <2>3 DEF ServerOf
  <2>5. Servers' = [Servers EXCEPT ![c] = ServerOf(c)'] /\ Servers[c] = ServerOf(c)
    BY <1>1, <2>3, ServerMoves
  <2>6. Users[c].sent > 0
    <3>1. Users[c].sent = conn[c].sent BY <1>1 DEF Users, UserOf
    <3> QED BY ONLY <2>2, <3>1
  <2>7. Promise!ServerGone(c) BY ONLY <1>2, <2>4, <2>5, <2>6 DEF Promise!ServerGone
  <2> QED BY <1>1, <2>7 DEF StepOfPromise, Promise!Next
<1>6. CASE Last!CloseChannel \/ Last!DataOnChannel \/ Last!IgnorePacket
  <2>1. proxy' = proxy
    BY <1>6, NeverRefused, Zenon DEF Last!CloseChannel, Last!DataOnChannel, Last!IgnorePacket
  <2>2. Servers' = Servers BY <2>1, ServersStay
  <2> QED BY <1>2, <2>2 DEF StepOfPromise
<1> QED BY <1>4, <1>5, <1>6

(* The last mix gives up a channel whose proxy server has gone.            *)
LEMMA RemoveMoves ==
  ASSUME Types, NEW c \in Channels, Last!RemoveAndTell(c), conn' = conn,
         proxy[c].state \in {"fin", "reset"}
  PROVE  StepOfPromise
<1>1. Users' = Users BY UsersStay
<1>2. /\ proxy \in [Channels -> Last!Proxies]
      /\ proxy' = [proxy EXCEPT ![c].state = "closed"]
  BY DEF Types, LastTyped, Last!RemoveAndTell, Last!RemoveChannel
<1>3. /\ proxy'[c].state = "closed" /\ proxy'[c].got = proxy[c].got
      /\ proxy'[c].read = proxy[c].read
      /\ \A d \in Channels \ {c} : proxy'[d] = proxy[d]
  BY <1>2 DEF Last!Proxies
<1>4. proxy[c].state \in {"fin", "reset"} OBVIOUS
<1>5. ServerOf(c)' = [ServerOf(c) EXCEPT !.state = "closed"] /\ ServerOf(c).state = "leaving"
  BY ONLY <1>3, <1>4 DEF ServerOf
<1>6. Servers' = [Servers EXCEPT ![c] = ServerOf(c)'] /\ Servers[c] = ServerOf(c)
  BY <1>3, ServerMoves
<1>7. Promise!ServerGone(c) BY ONLY <1>1, <1>5, <1>6 DEF Promise!ServerGone
<1> QED BY <1>7 DEF StepOfPromise, Promise!Next

LEMMA ReadMoves ==
  ASSUME Types, ChannelsInv, NEW c \in Channels, Last!ReadFromProxy(c),
         entry[c] # NoEntry, conn' = conn
  PROVE  StepOfPromise
<1>1. Users' = Users BY UsersStay
<1>2. /\ proxy \in [Channels -> Last!Proxies]
      /\ proxy' = [proxy EXCEPT ![c].read = @ + 1]
  BY DEF Types, LastTyped, Last!ReadFromProxy
<1>3. /\ proxy'[c].state = proxy[c].state /\ proxy'[c].got = proxy[c].got
      /\ proxy'[c].read = proxy[c].read + 1
      /\ \A d \in Channels \ {c} : proxy'[d] = proxy[d]
  BY <1>2 DEF Last!Proxies
<1>4. proxy[c].state \in {"open", "fin", "reset"} BY DEF ChannelsInv, ChannelInv, EndLast
<1>5. /\ ServerOf(c)' = [ServerOf(c) EXCEPT !.sent = @ + 1]
      /\ ServerOf(c).state \in {"open", "leaving"}
  BY ONLY <1>3, <1>4 DEF ServerOf
<1>6. Servers' = [Servers EXCEPT ![c] = ServerOf(c)'] /\ Servers[c] = ServerOf(c)
  BY <1>3, ServerMoves
<1>7. Promise!ServerSends(c) BY ONLY <1>1, <1>5, <1>6 DEF Promise!ServerSends
<1> QED BY <1>7 DEF StepOfPromise, Promise!Next

LEMMA ServersMove ==
  ASSUME Types, Last!Servers, conn' = conn
  PROVE  StepOfPromise
<1> PICK c \in Channels :
      Last!ProxySends(c) \/ Last!ProxyEnds(c) \/ Last!ProxyBreaks(c) \/ Last!ProxyDrains(c)
  BY DEF Last!Servers
<1>1. Users' = Users BY UsersStay
<1>2. proxy \in [Channels -> Last!Proxies] BY DEF Types, LastTyped
<1>3. /\ proxy'[c].got = proxy[c].got /\ proxy'[c].read = proxy[c].read
      /\ \/ proxy'[c].state = proxy[c].state
         \/ /\ proxy[c].state \in {"open", "fin"}
            /\ proxy'[c].state \in {"fin", "reset"}
      /\ \A d \in Channels \ {c} : proxy'[d] = proxy[d]
  <2>1. CASE Last!ProxySends(c) BY <1>2, <2>1 DEF Last!ProxySends, Last!Proxies
  <2>2. CASE Last!ProxyEnds(c) BY <1>2, <2>2 DEF Last!ProxyEnds, Last!Proxies
  <2>3. CASE Last!ProxyBreaks(c) BY <1>2, <2>3 DEF Last!ProxyBreaks, Last!Proxies
  <2>4. CASE Last!ProxyDrains(c) BY <1>2, <2>4 DEF Last!ProxyDrains, Last!Proxies
  <2> QED BY <2>1, <2>2, <2>3, <2>4
<1>4. Servers' = [Servers EXCEPT ![c] = ServerOf(c)'] /\ Servers[c] = ServerOf(c)
  BY <1>3, ServerMoves
<1>5. CASE ServerOf(c)' = ServerOf(c)
  <2>1. Servers' = Servers BY <1>4, <1>5 DEF Servers
  <2> QED BY <1>1, <2>1 DEF StepOfPromise
<1>6. CASE ServerOf(c)' # ServerOf(c)
  <2>1. proxy[c].state = "open" /\ proxy'[c].state \in {"fin", "reset"}
    BY ONLY <1>3, <1>6 DEF ServerOf
  <2>2. /\ ServerOf(c)' = [ServerOf(c) EXCEPT !.state = "leaving"]
        /\ ServerOf(c).state = "open"
    BY ONLY <1>3, <2>1 DEF ServerOf
  <2>3. Promise!ServerLeaves(c) BY ONLY <1>1, <1>4, <2>2 DEF Promise!ServerLeaves
  <2> QED BY <2>3 DEF StepOfPromise, Promise!Next
<1> QED BY <1>5, <1>6

(* What the last mix has got reaches the proxy server; with the last of it *)
(* the end of a closed channel.                                            *)
LEMMA WriteMoves ==
  ASSUME Types, ChannelsInv, NEW c \in Channels, Last!WriteToProxy(c),
         entry[c] # NoEntry, conn' = conn
  PROVE  StepOfPromise
<1>0. Users' = Users /\ Users[c].sent = conn[c].sent
      /\ (conn[c].state = "closed" => Users[c].state = "closed")
  BY UsersStay DEF Users, UserOf
<1>1. ChannelInv(c) BY DEF ChannelsInv
<1>2. proxy \in [Channels -> Last!Proxies] BY DEF Types, LastTyped
<1>3. /\ entry[c].queue \in Seq(Nat) /\ proxy[c].got \in Seq(Nat)
      /\ conn[c].sent \in Nat /\ Reached(c) \in Nat
  BY ChannelTyped
<1> PICK q \in Seq(Nat) : q = entry[c].queue BY <1>3
<1> PICK g \in Seq(Nat) : g = proxy[c].got BY <1>3
<1> PICK n \in 0..Len(q) :
      proxy' = [proxy EXCEPT
        ![c].got = @ \o SubSeq(q, 1, n),
        ![c].full = n < Len(q),
        ![c].state = IF Last!LeftAfter(q, n) = <<>> /\ entry[c].closed
                     THEN "closed" ELSE proxy[c].state]
  BY ZenonT(60) DEF Last!WriteToProxy
<1> PICK left : left = Last!LeftAfter(q, n) OBVIOUS
<1> PICK h : h = g \o SubSeq(q, 1, n) OBVIOUS
<1>4. /\ proxy'[c].got = h /\ proxy'[c].read = proxy[c].read
      /\ proxy'[c].state = IF left = <<>> /\ entry[c].closed THEN "closed" ELSE proxy[c].state
      /\ \A d \in Channels \ {c} : proxy'[d] = proxy[d]
  BY <1>2 DEF Last!Proxies
<1>5. Counts(g) /\ Follows(q, Len(g))
  BY <1>1 DEF ChannelInv, UpOrdered, Follows, Counts
<1>6. /\ h \in Seq(Nat) /\ Counts(h) /\ left \in Seq(Nat)
      /\ Len(h) = Len(g) + n /\ Len(h) + Len(left) = Len(g) + Len(q)
  <2>1. left = Last!LeftAfter(q, n) /\ h = g \o SubSeq(q, 1, n)
        /\ q \in Seq(Nat) /\ n \in 0..Len(q) /\ g \in Seq(Nat)
    OBVIOUS
  <2>2. LET k == g \o SubSeq(q, 1, n)
            l == Last!LeftAfter(q, n)
        IN  /\ k \in Seq(Nat) /\ Len(k) = Len(g) + n /\ Counts(k)
            /\ l \in Seq(Nat) /\ Follows(l, Len(k)) /\ Len(k) + Len(l) = Len(g) + Len(q)
    BY ONLY <1>5, <2>1, WriteFollows
  <2> QED BY ONLY <2>1, <2>2, Zenon
<1>7. h = Promise!Upto(Len(h)) BY ONLY <1>6, CountsUpto
<1>8. /\ Len(g) \in Nat /\ Len(q) \in Nat /\ Len(h) \in Nat /\ Len(left) \in Nat
      /\ Len(g) <= Len(h)
  BY ONLY <1>6, n \in 0..Len(q), q \in Seq(Nat), g \in Seq(Nat)
<1>9. Reached(c) = Len(g) + Len(q) /\ proxy[c].state \in {"open", "fin", "reset"}
  BY <1>1 DEF Reached, ChannelInv, EndLast
<1>10. Stream(up, c, Reached(c), conn[c].sent)
  BY <1>1, <1>9 DEF ChannelInv, UpOrdered
<1>11. Len(h) <= conn[c].sent
  <2>1. Reached(c) <= conn[c].sent BY ONLY <1>10 DEF Stream
  <2> QED BY ONLY <1>3, <1>6, <1>8, <1>9, <2>1
<1>12. /\ Servers[c].got = g /\ Servers[c].state \in {"open", "leaving"}
       /\ Servers[c].state = IF proxy[c].state \in {"fin", "reset"}
                             THEN "leaving" ELSE proxy[c].state
  <2>1. g = proxy[c].got OBVIOUS
  <2>2. /\ ServerOf(c).got = g /\ ServerOf(c).state \in {"open", "leaving"}
        /\ ServerOf(c).state = IF proxy[c].state \in {"fin", "reset"}
                               THEN "leaving" ELSE proxy[c].state
    BY ONLY <1>9, <2>1 DEF ServerOf
  <2>3. c \in Channels OBVIOUS
  <2> QED BY ONLY <2>2, <2>3 DEF Servers
<1>13. Len(h) \in Len(Servers[c].got)..Users[c].sent
  BY ONLY <1>0, <1>3, <1>8, <1>11, <1>12
<1>14. CASE left = <<>> /\ entry[c].closed
  <2>1. proxy'[c].state = "closed" BY ONLY <1>4, <1>14
  <2>2. ServerOf(c)' = EndOf("closed", proxy[c].read, Promise!Upto(Len(h)))
    <3>1. ServerOf(c)' = EndOf("closed", proxy[c].read, h)
      BY ONLY <1>4, <2>1 DEF ServerOf, EndOf
    <3> QED BY ONLY <1>7, <3>1, Zenon
  <2>3. Servers' = [Servers EXCEPT ![c].state = "closed", ![c].got = Promise!Upto(Len(h))]
    <3>1. OnlyServer(c) /\ c \in Channels BY ONLY <1>4, c \in Channels DEF OnlyServer
    <3>2. Takes(c, "closed", Promise!Upto(Len(h))) BY ONLY <2>2, <3>1, ServerTakes
    <3> QED BY ONLY <3>2 DEF Takes
  <2>4. conn[c].state = "closed" /\ Empty(up, c)
    BY <1>1, <1>14 DEF ChannelInv, CloseLast
  <2>5. Len(h) = Users[c].sent
    <3>1. Reached(c) = conn[c].sent BY <1>3, <1>10, <2>4, EmptySays
    <3>2. Len(left) = 0 BY ONLY <1>14
    <3> QED BY ONLY <1>0, <1>6, <1>8, <1>9, <3>1, <3>2
  <2>6. Promise!ServerGets(c)
    BY ONLY <1>0, <1>12, <1>13, <2>3, <2>4, <2>5 DEF Promise!ServerGets
  <2> QED BY <2>6 DEF StepOfPromise, Promise!Next
<1>15. CASE ~(left = <<>> /\ entry[c].closed)
  <2>1. proxy'[c].state = proxy[c].state BY ONLY <1>4, <1>15
  <2>2. ServerOf(c)' = EndOf(Servers[c].state, proxy[c].read, h)
    BY ONLY <1>4, <1>12, <2>1 DEF ServerOf, EndOf
  <2>3. CASE Len(h) = 0
    <3>1. h = g
      <4>1. Len(g) = 0 BY ONLY <1>8, <2>3
      <4>2. h = <<>> /\ g = <<>> BY ONLY <1>6, <2>3, <4>1, g \in Seq(Nat)
      <4> QED BY ONLY <4>2
    <3>2. ServerOf(c)' = ServerOf(c)
      <4>1. g = proxy[c].got OBVIOUS
      <4> QED BY ONLY <1>4, <2>1, <3>1, <4>1, SMTT(30) DEF ServerOf
    <3>3. Servers' = [Servers EXCEPT ![c] = ServerOf(c)'] /\ Servers[c] = ServerOf(c)
      BY <1>4, ServerMoves, ZenonT(60)
    <3>4. Servers' = Servers BY <3>2, <3>3 DEF Servers
    <3> QED BY <1>0, <3>4 DEF StepOfPromise
  <2>4. CASE Len(h) # 0
    <3>1. ServerOf(c)' = EndOf(Servers[c].state, proxy[c].read, Promise!Upto(Len(h)))
      BY ONLY <1>7, <2>2, Zenon
    <3>2. Servers' = [Servers EXCEPT
                        ![c].state = Servers[c].state, ![c].got = Promise!Upto(Len(h))]
      <4>1. OnlyServer(c) /\ c \in Channels BY ONLY <1>4, c \in Channels DEF OnlyServer
      <4>2. Takes(c, Servers[c].state, Promise!Upto(Len(h)))
        BY ONLY <3>1, <4>1, ServerTakes
      <4> QED BY ONLY <4>2 DEF Takes
    <3>3. Servers' = [Servers EXCEPT
            ![c].state = IF @ = "none" THEN "open" ELSE @, ![c].got = Promise!Upto(Len(h))]
      BY ONLY <1>12, <3>2
    <3>4. Len(h) > 0 BY ONLY <1>8, <2>4
    <3>5. Promise!ServerGets(c)
      BY ONLY <1>0, <1>12, <1>13, <3>3, <3>4 DEF Promise!ServerGets
    <3> QED BY <3>5 DEF StepOfPromise, Promise!Next
  <2> QED BY <2>3, <2>4
<1> QED BY <1>14, <1>15

LEMMA PromiseStep == TypeInv /\ ChannelsInv /\ [Next]_vars => StepOfPromise
<1> SUFFICES ASSUME TypeInv, ChannelsInv, [Next]_vars PROVE StepOfPromise
  OBVIOUS
<1>1. Types /\ Types' /\ LoopTyped
  <2>1. Types /\ LoopTyped BY TypesFollow
  <2>2. TypeInv' BY TypesStep
  <2>3. Types' BY <2>2 DEF TypeInv, TypeOK, Types, ConnsTyped, LastTyped, Queues
  <2> QED BY <2>1, <2>3
<1>2. CASE Local!Next /\ UNCHANGED lastVars
  <2>1. CASE Local!Receive BY <1>1, <1>2, <2>1, ReceiveMoves
  <2>2. ASSUME NEW c \in Channels,
               Local!Accept(c) \/ Local!BrowserData(c) \/ Local!BrowserClose(c)
        PROVE  StepOfPromise
    BY <1>1, <1>2, <2>2, BrowserMoves
  <2> QED BY <1>2, <2>1, <2>2 DEF Local!Next
<1>3. CASE Last!Next /\ UNCHANGED conn
  <2>0. conn' = conn BY <1>3
  <2>1. CASE \/ Last!OpenChannel \/ Last!OpenFails \/ Last!CloseChannel
             \/ Last!DataOnChannel \/ Last!IgnorePacket
    BY <1>1, <2>0, <2>1, PacketMoves
  <2>2. CASE Last!EndPackets \/ Last!EndWrites \/ Last!EndReads
    <3>1. proxy' = proxy BY <2>2 DEF Last!EndPackets, Last!EndWrites, Last!EndReads
    <3>2. Users' = Users /\ Servers' = Servers BY <2>0, <3>1, UsersStay, ServersStay
    <3> QED BY <3>2 DEF StepOfPromise
  <2>3. ASSUME NEW c \in Channels, Last!WriteToProxy(c) PROVE StepOfPromise
    <3>1. entry[c] # NoEntry BY <1>1, <2>3, VisitFinds DEF Last!WriteToProxy
    <3> QED BY <1>1, <2>0, <2>3, <3>1, WriteMoves
  <2>4. ASSUME NEW c \in Channels, Last!WriteFails(c) PROVE StepOfPromise
    BY <1>1, <2>0, <2>4, RemoveMoves DEF Last!WriteFails
  <2>5. ASSUME NEW c \in Channels, Last!ReadFromProxy(c) PROVE StepOfPromise
    <3>1. entry[c] # NoEntry BY <1>1, <2>5, VisitFinds DEF Last!ReadFromProxy
    <3> QED BY <1>1, <2>0, <2>5, <3>1, ReadMoves
  <2>6. ASSUME NEW c \in Channels, Last!ReadEnds(c) PROVE StepOfPromise
    BY <1>1, <2>0, <2>6, RemoveMoves DEF Last!ReadEnds
  <2>7. CASE Last!Servers BY <1>1, <2>0, <2>7, ServersMove
  <2> QED BY <1>3, <2>1, <2>2, <2>3, <2>4, <2>5, <2>6, <2>7 DEF Last!Next, Last!Loop
<1>4. CASE UNCHANGED vars
  <2>1. Users' = Users /\ Servers' = Servers
    BY <1>4, UsersStay, ServersStay DEF vars, lastVars
  <2> QED BY <2>1 DEF StepOfPromise
<1> QED BY <1>2, <1>3, <1>4 DEF Next

(* Local proxy and last mix carry streams as the Tunnel promises: what a   *)
(* browser gets is what was taken from the server, and what the server     *)
(* gets is what the browser sent, complete, in order, and ended only after *)
(* what came before the end, whatever is closed, broken or refused when    *)
(* (CALocalProxy.cpp, CALastMixA.cpp).                                     *)
THEOREM FlowImplementsTunnel == Spec => ImplementsTunnel
<1>1. TypeInv /\ ChannelsInv /\ [Next]_vars => [Promise!Next]_<<Users, Servers>>
  BY PromiseStep DEF StepOfPromise
<1>2. FlowInv => TypeInv /\ ChannelsInv BY DEF FlowInv
<1> QED BY <1>1, <1>2, PromiseInit, FlowInvariant, PTL
        DEF Spec, ImplementsTunnel, Promise!Spec
=============================================================================

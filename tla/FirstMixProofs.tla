--------------------------- MODULE FirstMixProofs ---------------------------
(***************************************************************************)
(* Proofs about the first mix: FirstMixTimeouts for any number of          *)
(* connections, AcceptUsers for any number of users, addresses and         *)
(* threads, FirstMixA for any number of users, channels and packets,       *)
(* ControlChannel for any number of threads and messages of any length.    *)
(*                                                                         *)
(* The timeout list is a doubly linked list that every packet of a user    *)
(* changes. It is whole because some sequence runs through it in both      *)
(* directions and no other entry is linked (Chain): the invariant says     *)
(* that there is one (TimeoutInv), and each step gives the new one.        *)
(*                                                                         *)
(* The counters of users are exact because every user that they count is   *)
(* in one place (Placed), and four sums over those places are what the     *)
(* counters say (FourCounts).                                              *)
(*                                                                         *)
(* The first mix and the next agree on the channels because of one         *)
(* equation (ChannelsAgree): what the next mix has open when it has had    *)
(* the packets of the queue is what the table holds, less what is on its   *)
(* way back. That it survives a CLOSE of the next mix needs that no OPEN   *)
(* is in the queue for a channel already open there (OpenedOnce).          *)
(*                                                                         *)
(* A user gets all packets in order because the user's queues bring those  *)
(* up to some number and the queue from the next mix goes on from there    *)
(* (WayFits): every step moves one packet over one of the two borders.     *)
(*                                                                         *)
(* A message of the control channel is decrypted with its own number       *)
(* because the messages in the queue can be counted from the one the       *)
(* receiver is at (Numbers), and all that have a number are completed, in  *)
(* the queue or with a thread. That its pieces come to exactly 0 missing   *)
(* bytes needs that the buffer and the queue fit each other (BufferFits).  *)
(***************************************************************************)
EXTENDS FirstMixTimeouts, AcceptUsers, FirstMixA, ControlChannel, FiniteSetTheorems, TLAPS

-----------------------------------------------------------------------------
(* The timeout list.                                                       *)

Passes == [at : {"idle", "pop", "look", "judge", "push", "last"}, cur : Entries \cup {Nobody},
           first : Entries \cup {Nobody}, forced : BOOLEAN]

(* The entry a pass has in its hands is an open connection.                *)
HoldsOpen ==
  /\ pass \in Passes
  /\ IF pass.at \in {"look", "judge", "push", "last"}
     THEN pass.cur \in Entries /\ conn[pass.cur] = "open"
     ELSE pass.cur = Nobody

LinkedLists ==
  [next : [Entries -> Entries \cup {Nobody}], prev : [Entries -> Entries \cup {Nobody}],
   head : Entries \cup {Nobody}, foot : Entries \cup {Nobody}]

(* l is a chain through s[1], ..., s[n], and nothing else is linked.       *)
Chain(l, n, s) ==
  /\ l \in LinkedLists
  /\ n \in Nat /\ s \in [1..n -> Entries]
  /\ \A i, j \in 1..n : s[i] = s[j] => i = j
  /\ l.head = IF n = 0 THEN Nobody ELSE s[1]
  /\ l.foot = IF n = 0 THEN Nobody ELSE s[n]
  /\ \A i \in 1..(n - 1) : l.next[s[i]] = s[i + 1] /\ l.prev[s[i + 1]] = s[i]
  /\ n > 0 => l.next[s[n]] = Nobody
  /\ \A e \in Entries : (\A i \in 1..n : s[i] # e) => l.next[e] = Nobody /\ l.prev[e] = Nobody

(* s without its k-th element, and with e behind the last one.             *)
Without(s, n, k) == [i \in 1..(n - 1) |-> IF i < k THEN s[i] ELSE s[i + 1]]
Followed(s, n, e) == [i \in 1..(n + 1) |-> IF i = n + 1 THEN e ELSE s[i]]

(* Taking out what is not in the list changes nothing.                     *)
LEMMA UnlinkStranger ==
  ASSUME NEW l, NEW n, NEW s, Chain(l, n, s), NEW e \in Entries, \A i \in 1..n : s[i] # e
  PROVE  Unlinked(l, e) = l
<1>1. l.next[e] = Nobody /\ l.prev[e] = Nobody BY DEF Chain
<1>2. l.head # e BY TimeoutAssumption DEF Chain
<1> QED BY <1>1, <1>2 DEF Unlinked

(* Taking out an element of the list, at its head, its foot or between.    *)
LEMMA UnlinkElement ==
  ASSUME NEW l, NEW n, NEW s, Chain(l, n, s), NEW k \in 1..n
  PROVE  Chain(Unlinked(l, s[k]), n - 1, Without(s, n, k))
<1> DEFINE e == s[k]
           w == Without(s, n, k)
           u == Unlinked(l, e)
           cleared == [l EXCEPT !.next[e] = Nobody, !.prev[e] = Nobody]
<1>1. /\ l \in LinkedLists /\ n \in Nat /\ n > 0 /\ n - 1 \in Nat /\ k \in Nat /\ 1 <= k /\ k <= n
      /\ s \in [1..n -> Entries] /\ e \in Entries /\ e # Nobody
      /\ \A i, j \in 1..n : s[i] = s[j] => i = j
      /\ l.head = s[1] /\ l.foot = s[n] /\ l.next[s[n]] = Nobody
      /\ \A i \in 1..(n - 1) : l.next[s[i]] = s[i + 1] /\ l.prev[s[i + 1]] = s[i]
      /\ \A x \in Entries : (\A i \in 1..n : s[i] # x) => l.next[x] = Nobody /\ l.prev[x] = Nobody
  BY TimeoutAssumption DEF Chain
<1>2. /\ w \in [1..(n - 1) -> Entries]
      /\ \A i \in 1..(n - 1) : w[i] = IF i < k THEN s[i] ELSE s[i + 1]
      /\ \A i \in 1..(n - 1) : w[i] # e
      /\ \A i, j \in 1..(n - 1) : w[i] = w[j] => i = j
  BY <1>1 DEF Without
<1>3. \A x \in Entries : x # e /\ (\A i \in 1..(n - 1) : w[i] # x) => (\A i \in 1..n : s[i] # x)
  <2> SUFFICES ASSUME NEW x \in Entries, x # e, NEW i \in 1..n, s[i] = x
               PROVE  \E j \in 1..(n - 1) : w[j] = x
    OBVIOUS
  <2>1. i # k BY <1>1
  <2>2. CASE i < k BY <1>1, <1>2, <2>2
  <2>3. CASE i > k
    <3>1. i - 1 \in 1..(n - 1) /\ ~(i - 1 < k) /\ (i - 1) + 1 = i BY <1>1, <2>3
    <3> QED BY <1>2, <3>1
  <2> QED BY <1>1, <2>1, <2>2, <2>3
<1>4. /\ cleared \in LinkedLists /\ cleared.head = s[1] /\ cleared.foot = s[n]
      /\ cleared.next[e] = Nobody /\ cleared.prev[e] = Nobody
      /\ \A x \in Entries : x # e => cleared.next[x] = l.next[x] /\ cleared.prev[x] = l.prev[x]
  BY <1>1 DEF LinkedLists
<1>5. CASE k = 1
  <2>1. l.head = e BY <1>1, <1>5
  <2>2. CASE n = 1
    <3>1. u = [cleared EXCEPT !.head = Nobody, !.foot = Nobody]
      BY <1>1, <1>5, <2>1, <2>2 DEF Unlinked
    <3>2. /\ u \in LinkedLists /\ u.head = Nobody /\ u.foot = Nobody
          /\ u.next = cleared.next /\ u.prev = cleared.prev
      BY <1>4, <3>1 DEF LinkedLists
    <3> QED BY <1>1, <1>2, <1>3, <1>4, <2>2, <3>2 DEF Chain
  <2>3. CASE n > 1
    <3>1. l.foot # e BY <1>1, <1>5, <2>3
    <3>2. l.next[e] = s[2] /\ s[2] \in Entries BY <1>1, <1>5, <2>3
    <3>3. u = [cleared EXCEPT !.head = s[2]]
      BY <1>1, <1>5, <2>1, <3>1, <3>2 DEF Unlinked
    <3>4. /\ u \in LinkedLists /\ u.head = s[2] /\ u.foot = s[n]
          /\ u.next = cleared.next /\ u.prev = cleared.prev
      BY <1>4, <3>2, <3>3 DEF LinkedLists
    <3>5. w[1] = s[2] /\ w[n - 1] = s[n] BY <1>1, <1>2, <1>5, <2>3
    <3>6. \A i \in 1..(n - 2) : u.next[w[i]] = w[i + 1] /\ u.prev[w[i + 1]] = w[i]
      <4> SUFFICES ASSUME NEW i \in 1..(n - 2)
                   PROVE  u.next[w[i]] = w[i + 1] /\ u.prev[w[i + 1]] = w[i]
        OBVIOUS
      <4>1. i \in 1..(n - 1) /\ i + 1 \in 1..(n - 1) /\ (i + 1) + 1 \in 1..n BY <1>1
      <4>2. w[i] = s[i + 1] /\ w[i + 1] = s[(i + 1) + 1] BY <1>2, <1>5, <4>1
      <4>3. w[i] \in Entries /\ w[i + 1] \in Entries /\ w[i] # e /\ w[i + 1] # e BY <1>2, <4>1
      <4> QED BY <1>1, <1>4, <3>4, <4>1, <4>2, <4>3
    <3>7. u.next[w[n - 1]] = Nobody
      <4>1. s[n] # e /\ s[n] \in Entries BY <1>1, <3>1
      <4> QED BY <1>1, <1>4, <3>4, <3>5, <4>1
    <3>8. \A x \in Entries : (\A i \in 1..(n - 1) : w[i] # x) => u.next[x] = Nobody /\ u.prev[x] = Nobody
      BY <1>1, <1>3, <1>4, <3>4
    <3>9. (n - 1) - 1 = n - 2 BY <1>1
    <3> QED BY <1>1, <1>2, <2>3, <3>4, <3>5, <3>6, <3>7, <3>8, <3>9 DEF Chain
  <2> QED BY <1>1, <2>2, <2>3
<1>6. CASE k > 1
  <2> DEFINE p == s[k - 1]
  <2>1. /\ l.head # e /\ l.head # Nobody /\ l.prev[e] = p /\ p \in Entries /\ p # e /\ p # Nobody
        /\ k - 1 \in 1..(n - 1)
    <3>1. k - 1 \in 1..(n - 1) /\ (k - 1) + 1 = k /\ 1 \in 1..n /\ k - 1 \in 1..n BY <1>1, <1>6
    <3>2. p \in Entries /\ l.prev[e] = p BY <1>1, <3>1
    <3>3. s[1] # e /\ p # e BY <1>1, <1>6, <3>1
    <3> QED BY <1>1, <3>1, <3>2, <3>3, TimeoutAssumption
  <2>2. CASE k = n
    <3>1. l.next[e] = Nobody BY <1>1, <2>2
    <3>2. u = [cleared EXCEPT !.foot = p, !.next[p] = Nobody]
      BY <2>1, <3>1 DEF Unlinked
    <3>3. /\ u \in LinkedLists /\ u.head = s[1] /\ u.foot = p /\ u.prev = cleared.prev
          /\ u.next[p] = Nobody /\ \A x \in Entries : x # p => u.next[x] = cleared.next[x]
      <4> HIDE DEF cleared, u, e, p
      <4>1. u.next = [cleared.next EXCEPT ![p] = Nobody] BY <1>4, <3>2 DEF LinkedLists
      <4> QED BY <1>1, <1>4, <2>1, <3>2, <4>1 DEF LinkedLists
    <3>4. w[1] = s[1] /\ w[n - 1] = p BY <1>1, <1>2, <1>6, <2>1, <2>2
    <3>5. \A i \in 1..(n - 2) : u.next[w[i]] = w[i + 1] /\ u.prev[w[i + 1]] = w[i]
      <4> SUFFICES ASSUME NEW i \in 1..(n - 2)
                   PROVE  u.next[w[i]] = w[i + 1] /\ u.prev[w[i + 1]] = w[i]
        OBVIOUS
      <4>1. i \in 1..(n - 1) /\ i + 1 \in 1..(n - 1) /\ i # n - 1 /\ n - 1 \in 1..(n - 1) BY <1>1, <1>6, <2>2
      <4>2. w[i] = s[i] /\ w[i + 1] = s[i + 1] BY <1>1, <1>2, <2>2, <4>1
      <4>3. /\ w[i] \in Entries /\ w[i + 1] \in Entries /\ w[i] # e /\ w[i + 1] # e
            /\ w[i] # p
        BY <1>2, <3>4, <4>1
      <4> QED BY <1>1, <1>4, <3>3, <4>1, <4>2, <4>3
    <3>6. \A x \in Entries : (\A i \in 1..(n - 1) : w[i] # x) => u.next[x] = Nobody /\ u.prev[x] = Nobody
      BY <1>1, <1>3, <1>4, <3>3
    <3>7. (n - 1) - 1 = n - 2 BY <1>1
    <3> QED BY <1>1, <1>2, <1>6, <2>2, <3>3, <3>4, <3>5, <3>6, <3>7 DEF Chain
  <2>3. CASE k < n
    <3> DEFINE q == s[k + 1]
    <3>1. k \in 1..(n - 1) /\ k + 1 \in 1..n BY <1>1, <2>3
    <3>2. q \in Entries /\ q # e /\ q # p /\ q # Nobody /\ l.next[e] = q
      <4>1. q \in Entries /\ l.next[e] = q BY <1>1, <3>1
      <4>2. q # e /\ q # p BY <1>1, <2>1, <3>1
      <4> QED BY <4>1, <4>2, TimeoutAssumption
    <3>3. u = [cleared EXCEPT !.next[p] = q, !.prev[q] = p]
      BY <2>1, <3>2 DEF Unlinked
    <3>4. /\ u \in LinkedLists /\ u.head = s[1] /\ u.foot = s[n]
          /\ u.next[p] = q /\ (\A x \in Entries : x # p => u.next[x] = cleared.next[x])
          /\ u.prev[q] = p /\ (\A x \in Entries : x # q => u.prev[x] = cleared.prev[x])
      <4> HIDE DEF cleared, u, e, p, q
      <4>1. /\ u.next = [cleared.next EXCEPT ![p] = q]
            /\ u.prev = [cleared.prev EXCEPT ![q] = p]
        BY <1>4, <3>3 DEF LinkedLists
      <4>2. /\ cleared.next \in [Entries -> Entries \cup {Nobody}]
            /\ cleared.prev \in [Entries -> Entries \cup {Nobody}]
        BY ONLY <1>4 DEF LinkedLists
      <4>3. /\ u.next \in [Entries -> Entries \cup {Nobody}] /\ u.next[p] = q
            /\ \A x \in Entries : x # p => u.next[x] = cleared.next[x]
        BY ONLY <2>1, <3>2, <4>1, <4>2
      <4>4. /\ u.prev \in [Entries -> Entries \cup {Nobody}] /\ u.prev[q] = p
            /\ \A x \in Entries : x # q => u.prev[x] = cleared.prev[x]
        BY ONLY <2>1, <3>2, <4>1, <4>2
      <4>5. /\ u.head = cleared.head /\ u.foot = cleared.foot
            /\ u = [next |-> u.next, prev |-> u.prev, head |-> u.head, foot |-> u.foot]
        BY ONLY <1>4, <3>3 DEF LinkedLists
      <4>6. cleared.head = s[1] /\ cleared.foot = s[n] BY <1>1, <1>4, <2>1
      <4>7. u.head \in Entries \cup {Nobody} /\ u.foot \in Entries \cup {Nobody}
        BY ONLY <1>4, <4>5 DEF LinkedLists
      <4>8. u \in LinkedLists BY ONLY <4>3, <4>4, <4>5, <4>7 DEF LinkedLists
      <4> QED BY ONLY <4>3, <4>4, <4>5, <4>6, <4>8
    <3>5. w[1] = s[1] /\ w[n - 1] = s[n] /\ w[k - 1] = p /\ w[k] = q BY <1>1, <1>2, <1>6, <2>1, <2>3
    <3>6. \A i \in 1..(n - 2) : u.next[w[i]] = w[i + 1] /\ u.prev[w[i + 1]] = w[i]
      <4> SUFFICES ASSUME NEW i \in 1..(n - 2)
                   PROVE  u.next[w[i]] = w[i + 1] /\ u.prev[w[i + 1]] = w[i]
        OBVIOUS
      <4>1. i \in 1..(n - 1) /\ i + 1 \in 1..(n - 1) BY <1>1
      <4>2. CASE i = k - 1
        <5>1. i + 1 = k BY <1>1, <4>2
        <5> QED BY <3>4, <3>5, <4>2, <5>1
      <4>3. CASE i # k - 1
        <5>1. k - 1 \in 1..(n - 1) /\ k \in 1..(n - 1) /\ i + 1 # k BY <1>1, <2>1, <3>1, <4>3
        <5>2. /\ w[i] \in Entries /\ w[i + 1] \in Entries /\ w[i] # e /\ w[i + 1] # e
              /\ w[i] # p /\ w[i + 1] # q
          BY <1>2, <3>5, <4>1, <4>3, <5>1
        <5>3. \E j \in 1..(n - 1) : w[i] = s[j] /\ w[i + 1] = s[j + 1]
          <6>1. CASE i < k - 1 BY <1>1, <1>2, <4>1, <6>1
          <6>2. CASE i > k - 1
            <7>1. i + 1 \in 1..(n - 1) /\ ~(i < k) /\ ~(i + 1 < k) BY <1>1, <4>1, <6>2
            <7> QED BY <1>2, <4>1, <7>1
          <6> QED BY <1>1, <4>3, <6>1, <6>2
        <5>4. u.next[w[i]] = cleared.next[w[i]] /\ u.prev[w[i + 1]] = cleared.prev[w[i + 1]]
          BY ONLY <3>4, <5>2
        <5> QED BY <1>1, <1>4, <5>2, <5>3, <5>4
      <4> QED BY <4>2, <4>3
    <3>7. u.next[w[n - 1]] = Nobody
      <4>1. s[n] \in Entries /\ s[n] # e /\ s[n] # p BY <1>1, <2>1, <2>3
      <4> QED BY <1>1, <1>4, <3>4, <3>5, <4>1
    <3>8. \A x \in Entries : (\A i \in 1..(n - 1) : w[i] # x) => u.next[x] = Nobody /\ u.prev[x] = Nobody
      <4> SUFFICES ASSUME NEW x \in Entries, \A i \in 1..(n - 1) : w[i] # x
                   PROVE  u.next[x] = Nobody /\ u.prev[x] = Nobody
        OBVIOUS
      <4>1. x # p /\ x # q BY <2>1, <3>1, <3>5
      <4> QED BY <1>1, <1>3, <1>4, <3>4, <4>1
    <3>9. (n - 1) - 1 = n - 2 BY <1>1
    <3> QED BY <1>1, <1>2, <1>6, <2>3, <3>4, <3>5, <3>6, <3>7, <3>8, <3>9 DEF Chain
  <2> QED BY <1>1, <2>2, <2>3
<1> QED BY <1>1, <1>5, <1>6

(* Putting a stranger behind the last element.                             *)
LEMMA AppendStranger ==
  ASSUME NEW l, NEW n, NEW s, Chain(l, n, s), NEW e \in Entries, \A i \in 1..n : s[i] # e
  PROVE  Chain(Appended(l, e), n + 1, Followed(s, n, e))
<1> DEFINE f == Followed(s, n, e)
           a == Appended(l, e)
<1>1. /\ l \in LinkedLists /\ n \in Nat /\ n + 1 \in Nat /\ s \in [1..n -> Entries] /\ e # Nobody
      /\ \A i, j \in 1..n : s[i] = s[j] => i = j
      /\ l.head = (IF n = 0 THEN Nobody ELSE s[1]) /\ l.foot = (IF n = 0 THEN Nobody ELSE s[n])
      /\ \A i \in 1..(n - 1) : l.next[s[i]] = s[i + 1] /\ l.prev[s[i + 1]] = s[i]
      /\ \A x \in Entries : (\A i \in 1..n : s[i] # x) => l.next[x] = Nobody /\ l.prev[x] = Nobody
  BY TimeoutAssumption DEF Chain
<1>2. /\ f \in [1..(n + 1) -> Entries] /\ f[n + 1] = e
      /\ \A i \in 1..n : f[i] = s[i] /\ i # n + 1
      /\ \A i \in 1..(n + 1) : i # n + 1 => i \in 1..n
      /\ \A i, j \in 1..(n + 1) : f[i] = f[j] => i = j
      /\ (n + 1) - 1 = n /\ n + 1 \in 1..(n + 1) /\ n + 1 > 0
  BY <1>1 DEF Followed
<1>3. CASE n = 0
  <2>1. a = [l EXCEPT !.prev[e] = Nobody, !.next[e] = Nobody, !.head = e, !.foot = e]
    BY <1>1, <1>3 DEF Appended
  <2>2. /\ a.next = [l.next EXCEPT ![e] = Nobody] /\ a.prev = [l.prev EXCEPT ![e] = Nobody]
        /\ a.head = e /\ a.foot = e /\ a \in LinkedLists
    <3> HIDE DEF a
    <3>1. /\ a.next = [l.next EXCEPT ![e] = Nobody] /\ a.prev = [l.prev EXCEPT ![e] = Nobody]
          /\ a.head = e /\ a.foot = e
      BY <1>1, <2>1 DEF LinkedLists
    <3>2. a = [next |-> a.next, prev |-> a.prev, head |-> a.head, foot |-> a.foot]
      BY <1>1, <2>1 DEF LinkedLists
    <3> QED BY <1>1, <3>1, <3>2 DEF LinkedLists
  <2>3. \A x \in Entries : a.next[x] = Nobody /\ a.prev[x] = Nobody
    BY <1>1, <1>3, <2>2 DEF LinkedLists
  <2>4. f[1] = e BY <1>2, <1>3
  <2> QED BY <1>1, <1>2, <1>3, <2>2, <2>3, <2>4 DEF Chain
<1>4. CASE n > 0
  <2> DEFINE g == s[n]
  <2>1. l.foot = g /\ g \in Entries /\ g # Nobody /\ g # e /\ n \in 1..n
    BY <1>1, <1>4, TimeoutAssumption
  <2>2. a = [l EXCEPT !.next[l.foot] = e, !.prev[e] = l.foot, !.next[e] = Nobody, !.foot = e]
    BY <2>1 DEF Appended
  <2>3. /\ a \in LinkedLists /\ a.head = s[1] /\ a.foot = e
        /\ a.next[g] = e /\ a.next[e] = Nobody /\ a.prev[e] = g
        /\ \A x \in Entries : x # e => a.prev[x] = l.prev[x] /\ (x # g => a.next[x] = l.next[x])
    <3> HIDE DEF g, a
    <3>1. /\ a.next = [l.next EXCEPT ![g] = e, ![e] = Nobody]
          /\ a.prev = [l.prev EXCEPT ![e] = g] /\ a.head = l.head /\ a.foot = e
      BY <1>1, <2>1, <2>2 DEF LinkedLists
    <3>2. a = [next |-> a.next, prev |-> a.prev, head |-> a.head, foot |-> a.foot]
      BY <1>1, <2>2 DEF LinkedLists
    <3> QED BY <1>1, <1>4, <2>1, <3>1, <3>2 DEF LinkedLists
  <2>4. \A i \in 1..n : a.next[f[i]] = f[i + 1] /\ a.prev[f[i + 1]] = f[i]
    <3> SUFFICES ASSUME NEW i \in 1..n
                 PROVE  a.next[f[i]] = f[i + 1] /\ a.prev[f[i + 1]] = f[i]
      OBVIOUS
    <3>1. CASE i = n BY <1>2, <2>1, <2>3, <3>1
    <3>2. CASE i # n
      <4>1. i \in 1..(n - 1) /\ i + 1 \in 1..n BY <1>1, <3>2
      <4>2. f[i] = s[i] /\ f[i + 1] = s[i + 1] BY <1>2, <4>1
      <4>3. s[i] \in Entries /\ s[i + 1] \in Entries /\ s[i] # e /\ s[i + 1] # e /\ s[i] # g
        BY <1>1, <2>1, <3>2, <4>1
      <4> QED BY <1>1, <2>3, <4>1, <4>2, <4>3
    <3> QED BY <3>1, <3>2
  <2>5. \A x \in Entries : (\A i \in 1..(n + 1) : f[i] # x) => a.next[x] = Nobody /\ a.prev[x] = Nobody
    <3> SUFFICES ASSUME NEW x \in Entries, \A i \in 1..(n + 1) : f[i] # x
                 PROVE  a.next[x] = Nobody /\ a.prev[x] = Nobody
      OBVIOUS
    <3>1. x # e /\ (\A i \in 1..n : s[i] # x) BY <1>1, <1>2
    <3>2. x # g BY <2>1, <3>1
    <3> QED BY <1>1, <2>3, <3>1, <3>2
  <2>6. f[1] = s[1] BY <1>1, <1>2, <1>4
  <2> QED BY <1>1, <1>2, <1>4, <2>3, <2>4, <2>5, <2>6 DEF Chain
<1> QED BY <1>1, <1>3, <1>4

-----------------------------------------------------------------------------
(* The elements of a chain as a set.                                       *)
ChainOf(l, S) ==
  \E n \in Nat : \E s \in [1..n -> Entries] : Chain(l, n, s) /\ S = {s[i] : i \in 1..n}

(* Taking an element out of a chain leaves a chain of the others.          *)
LEMMA UnlinkFrom ==
  ASSUME NEW l, NEW S, ChainOf(l, S), NEW e \in Entries
  PROVE  ChainOf(Unlinked(l, e), S \ {e})
<1>0. PICK n \in Nat : \E s \in [1..n -> Entries] : Chain(l, n, s) /\ S = {s[i] : i \in 1..n}
  BY DEF ChainOf
<1>1. PICK s \in [1..n -> Entries] : Chain(l, n, s) /\ S = {s[i] : i \in 1..n}
  BY <1>0
<1>2. CASE e \notin S
  <2>1. Unlinked(l, e) = l BY <1>1, <1>2, UnlinkStranger
  <2>2. S \ {e} = S BY <1>2
  <2> QED BY <2>1, <2>2
<1>3. CASE e \in S
  <2>1. PICK k \in 1..n : s[k] = e BY <1>1, <1>3
  <2> DEFINE w == Without(s, n, k)
  <2>2. Chain(Unlinked(l, e), n - 1, w) BY <1>1, <2>1, UnlinkElement
  <2>3. n - 1 \in Nat /\ w \in [1..(n - 1) -> Entries] BY <2>2 DEF Chain
  <2>4. \A i \in 1..(n - 1) : w[i] = IF i < k THEN s[i] ELSE s[i + 1] BY DEF Without
  <2>5. \A i, j \in 1..n : s[i] = s[j] => i = j BY <1>1 DEF Chain
  <2>6. \A i \in 1..(n - 1) : w[i] \in S \ {e} BY <1>1, <2>1, <2>4, <2>5
  <2>7. ASSUME NEW x \in S \ {e} PROVE \E j \in 1..(n - 1) : w[j] = x
    <3>1. PICK i \in 1..n : s[i] = x BY <1>1
    <3>2. i # k BY <2>1, <3>1
    <3>3. CASE i < k BY <2>4, <3>1, <3>3
    <3>4. CASE i > k
      <4>1. i - 1 \in 1..(n - 1) /\ ~(i - 1 < k) /\ (i - 1) + 1 = i BY <3>4
      <4> QED BY <2>4, <3>1, <4>1
    <3> QED BY <3>2, <3>3, <3>4
  <2>8. S \ {e} = {w[i] : i \in 1..(n - 1)} BY <2>6, <2>7
  <2> QED BY <2>2, <2>3, <2>8 DEF ChainOf
<1> QED BY <1>2, <1>3

(* Appending a new element to a chain makes a chain with it at the end.    *)
LEMMA AppendTo ==
  ASSUME NEW l, NEW S, ChainOf(l, S), NEW e \in Entries, e \notin S
  PROVE  ChainOf(Appended(l, e), S \cup {e})
<1>0. PICK n \in Nat : \E s \in [1..n -> Entries] : Chain(l, n, s) /\ S = {s[i] : i \in 1..n}
  BY DEF ChainOf
<1>1. PICK s \in [1..n -> Entries] : Chain(l, n, s) /\ S = {s[i] : i \in 1..n}
  BY <1>0
<1> DEFINE f == Followed(s, n, e)
<1>2. Chain(Appended(l, e), n + 1, f) BY <1>1, AppendStranger
<1>3. n + 1 \in Nat /\ f \in [1..(n + 1) -> Entries] BY <1>2 DEF Chain
<1>4. \A i \in 1..(n + 1) : f[i] = IF i = n + 1 THEN e ELSE s[i] BY DEF Followed
<1>5. \A i \in 1..(n + 1) : f[i] \in S \cup {e} BY <1>1, <1>4
<1>6. \A x \in S \cup {e} : \E i \in 1..(n + 1) : f[i] = x
  <2>1. n + 1 \in 1..(n + 1) /\ f[n + 1] = e BY <1>4
  <2>2. \A i \in 1..n : i \in 1..(n + 1) /\ f[i] = s[i] BY <1>4
  <2> QED BY <1>1, <2>1, <2>2
<1>7. S \cup {e} = {f[i] : i \in 1..(n + 1)} BY <1>5, <1>6
<1> QED BY <1>2, <1>3, <1>7 DEF ChainOf

(* pushTimeoutEntry() puts an entry at the foot, wherever it was.          *)
LEMMA PushTo ==
  ASSUME NEW l, NEW S, ChainOf(l, S), NEW e \in Entries
  PROVE  ChainOf(Appended(Unlinked(l, e), e), S \cup {e})
<1>1. ChainOf(Unlinked(l, e), S \ {e}) BY UnlinkFrom
<1>2. ChainOf(Appended(Unlinked(l, e), e), (S \ {e}) \cup {e}) BY <1>1, AppendTo
<1>3. (S \ {e}) \cup {e} = S \cup {e} OBVIOUS
<1> QED BY <1>2, <1>3

(* What the four variables are when the list is set.                       *)
LEMMA ListIsSet ==
  ASSUME NEW l, NEW S, ChainOf(l, S), SetList(l)
  PROVE  ChainOf(TheList', S)
<1>1. l \in LinkedLists BY DEF ChainOf, Chain
<1>2. l = [next |-> l.next, prev |-> l.prev, head |-> l.head, foot |-> l.foot]
  BY <1>1 DEF LinkedLists
<1>3. TheList' = l BY <1>2 DEF TheList, SetList
<1> QED BY <1>3

(* The inductive invariant of the list and of those who use it.            *)
TimeoutInv ==
  /\ conn \in [Entries -> {"free", "login", "open"}]
  /\ recover \in [Entries -> BOOLEAN]
  /\ HoldsOpen
  /\ ChainOf(TheList, Listed)

(* The list is empty at first.                                             *)
LEMMA TimeoutInit == TInit => TimeoutInv
<1> SUFFICES ASSUME TInit PROVE TimeoutInv
  OBVIOUS
<1>1. /\ conn \in [Entries -> {"free", "login", "open"}] /\ recover \in [Entries -> BOOLEAN]
      /\ HoldsOpen /\ Listed = {}
  BY DEF TInit, HoldsOpen, Idle, Listed, Passes
<1>2. TheList \in LinkedLists BY DEF TInit, TheList, LinkedLists
<1>3. Chain(TheList, 0, [i \in 1..0 |-> Nobody]) BY <1>2 DEF TInit, TheList, Chain
<1>4. ChainOf(TheList, {})
  <2> DEFINE s == [i \in 1..0 |-> Nobody]
  <2>1. s \in [1..0 -> Entries] /\ {s[i] : i \in 1..0} = {} OBVIOUS
  <2> QED BY <1>3, <2>1 DEF ChainOf
<1> QED BY <1>1, <1>4 DEF TimeoutInv

(* Every packet, every step of a pass over the list and every removal keep *)
(* it whole.                                                               *)
LEMMA TimeoutStep == TimeoutInv /\ [TNext]_tvars => TimeoutInv'
<1> SUFFICES ASSUME TimeoutInv, [TNext]_tvars PROVE TimeoutInv'
  OBVIOUS
<1>1. /\ conn \in [Entries -> {"free", "login", "open"}] /\ recover \in [Entries -> BOOLEAN]
      /\ HoldsOpen /\ ChainOf(TheList, Listed) /\ Nobody \notin Entries
  BY TimeoutAssumption DEF TimeoutInv
<1>2. ASSUME UNCHANGED listVars, Listed' = Listed PROVE ChainOf(TheList, Listed)'
  <2>1. TheList' = TheList BY <1>2 DEF listVars, TheList
  <2> QED BY <1>1, <1>2, <2>1 DEF ChainOf
<1>3. ASSUME NEW e \in Entries, RemoveConnection(e), UNCHANGED pass
      PROVE  /\ conn' \in [Entries -> {"free", "login", "open"}] /\ recover' \in [Entries -> BOOLEAN]
             /\ ChainOf(TheList, Listed)' /\ conn' = [conn EXCEPT ![e] = "free"]
  <2>1. Listed' = Listed \ {e} BY <1>1, <1>3 DEF RemoveConnection, Listed
  <2>2. ChainOf(Unlinked(TheList, e), Listed \ {e}) BY <1>1, UnlinkFrom
  <2>3. ChainOf(TheList', Listed') BY <1>3, <2>1, <2>2, ListIsSet DEF RemoveConnection
  <2> QED BY <1>1, <1>3, <2>3 DEF RemoveConnection, ChainOf
<1>4. ASSUME NEW e \in Entries, NEW f \in BOOLEAN, Push(e, f), Listed' = Listed \cup {e}
      PROVE  recover' \in [Entries -> BOOLEAN] /\ ChainOf(TheList, Listed)'
  <2>1. ChainOf(Appended(Unlinked(TheList, e), e), Listed') BY <1>1, <1>4, PushTo
  <2>2. ChainOf(TheList', Listed') BY <1>4, <2>1, ListIsSet DEF Push
  <2> QED BY <1>1, <1>4, <2>2 DEF Push, RecoverAfter, ChainOf
<1>5. CASE \E e \in Entries : AddConnection(e) \/ ForceKickout(e)
  <2>1. PICK e \in Entries : AddConnection(e) \/ ForceKickout(e) BY <1>5
  <2>2. Listed' = Listed /\ UNCHANGED listVars
    BY <1>1, <2>1 DEF AddConnection, ForceKickout, Listed, listVars
  <2>3. conn' \in [Entries -> {"free", "login", "open"}] /\ recover' \in [Entries -> BOOLEAN]
    BY <1>1, <2>1 DEF AddConnection, ForceKickout, RecoverAfter
  <2>4. HoldsOpen' BY <1>1, <2>1 DEF AddConnection, ForceKickout, HoldsOpen
  <2> QED BY <1>2, <2>2, <2>3, <2>4 DEF TimeoutInv
<1>6. CASE \E e \in Entries : LoginSucceeds(e)
  <2>1. PICK e \in Entries : LoginSucceeds(e) BY <1>6
  <2>2. e # pass.cur BY <1>1, <2>1 DEF HoldsOpen, LoginSucceeds
  <2>3. Listed' = Listed \cup {e} BY <1>1, <2>1, <2>2 DEF LoginSucceeds, Listed
  <2>4. recover' \in [Entries -> BOOLEAN] /\ ChainOf(TheList, Listed)'
    BY <1>4, <2>1, <2>3 DEF LoginSucceeds
  <2>5. conn' \in [Entries -> {"free", "login", "open"}] BY <1>1, <2>1 DEF LoginSucceeds
  <2>6. HoldsOpen' BY <1>1, <2>1 DEF LoginSucceeds, HoldsOpen
  <2> QED BY <2>4, <2>5, <2>6 DEF TimeoutInv
<1>7. CASE \E e \in Entries : LoginFails(e)
  <2>1. PICK e \in Entries : LoginFails(e) BY <1>7
  <2>2. HoldsOpen'
    <3>1. conn[e] = "login" /\ conn' = [conn EXCEPT ![e] = "free"] /\ pass' = pass
      BY <2>1 DEF LoginFails, RemoveConnection
    <3> QED BY <1>1, <3>1 DEF HoldsOpen
  <2> QED BY <1>3, <2>1, <2>2 DEF LoginFails, TimeoutInv
<1>8. CASE \E e \in Entries : UserPacket(e)
  <2>1. PICK e \in Entries : UserPacket(e) BY <1>8
  <2>2. pass.at = "idle" /\ pass.cur = Nobody /\ e \in Listed /\ UNCHANGED pass
    BY <1>1, <2>1 DEF UserPacket, HoldsOpen, Listed
  <2>3. HoldsOpen' BY <1>1, <2>2 DEF HoldsOpen
  <2>4. CASE Push(e, FALSE) /\ UNCHANGED conn
    <3>1. Listed' = Listed \cup {e} BY <2>2, <2>4 DEF Listed
    <3> QED BY <1>1, <1>4, <2>3, <2>4, <3>1 DEF TimeoutInv
  <2>5. CASE recover' = [recover EXCEPT ![e] = FALSE] /\ UNCHANGED <<conn, tnext, tprev, thead, tfoot>>
    <3>1. Listed' = Listed /\ UNCHANGED listVars BY <2>2, <2>5 DEF Listed, listVars
    <3> QED BY <1>1, <1>2, <2>3, <2>5, <3>1 DEF TimeoutInv
  <2>6. CASE RemoveConnection(e)
    BY <1>3, <2>2, <2>3, <2>6 DEF TimeoutInv
  <2> QED BY <2>1, <2>4, <2>5, <2>6 DEF UserPacket
<1>9. CASE \E e \in Entries : ControlSent(e)
  <2>1. Listed' = Listed /\ UNCHANGED <<listVars, conn, recover, pass>>
    BY <1>9 DEF ControlSent, Listed, listVars
  <2> QED BY <1>1, <1>2, <2>1 DEF TimeoutInv, HoldsOpen
<1>10. CASE \E e \in Entries : CloseDead(e)
  <2>1. PICK e \in Entries : CloseDead(e) BY <1>10
  <2>2. HoldsOpen' BY <1>1, <2>1 DEF CloseDead, HoldsOpen
  <2> QED BY <1>3, <2>1, <2>2 DEF CloseDead, TimeoutInv
<1>11. CASE StartPass \/ LookForced \/ JudgeAgain
  <2>1. UNCHANGED <<listVars, conn, recover>>
    BY <1>11 DEF StartPass, LookForced, JudgeAgain, listVars
  <2>3. ASSUME StartPass PROVE HoldsOpen' /\ pass'.cur = pass.cur
    <3>1. pass' \in Passes /\ pass'.at = "pop" /\ pass'.cur = Nobody /\ pass.cur = Nobody
      BY <1>1, <2>3 DEF StartPass, HoldsOpen, Idle, Passes
    <3> QED BY <3>1 DEF HoldsOpen
  <2>4. ASSUME LookForced PROVE HoldsOpen' /\ pass'.cur = pass.cur
    <3>1. pass.cur \in Entries /\ conn[pass.cur] = "open" BY <1>1, <2>4 DEF LookForced, HoldsOpen
    <3>2. (~recover[pass.cur]) \in BOOLEAN OBVIOUS
    <3>3. pass' \in Passes /\ pass'.at = "judge" /\ pass'.cur = pass.cur
      BY <1>1, <2>4, <3>2 DEF LookForced, HoldsOpen, Passes
    <3> QED BY <2>1, <3>1, <3>3 DEF HoldsOpen
  <2>5. ASSUME JudgeAgain PROVE HoldsOpen' /\ pass'.cur = pass.cur
    <3>1. pass.cur \in Entries /\ conn[pass.cur] = "open" BY <1>1, <2>5 DEF JudgeAgain, HoldsOpen
    <3>2. pass' \in Passes /\ pass'.at = "last" /\ pass'.cur = pass.cur
      BY <1>1, <2>5 DEF JudgeAgain, HoldsOpen, Passes
    <3> QED BY <2>1, <3>1, <3>2 DEF HoldsOpen
  <2>2. Listed' = Listed BY <2>1, <2>3, <2>4, <2>5, <1>11 DEF Listed
  <2> QED BY <1>1, <1>2, <1>11, <2>1, <2>2, <2>3, <2>4, <2>5 DEF TimeoutInv
<1>12. CASE PopEntry
  <2>1. pass.cur = Nobody BY <1>1, <1>12 DEF PopEntry, HoldsOpen
  <2>2. CASE thead = Nobody
    <3>1. UNCHANGED <<listVars, conn, recover>> /\ pass' = Idle BY <1>12, <2>2 DEF PopEntry
    <3>2. Listed' = Listed /\ HoldsOpen' BY <2>1, <3>1 DEF Listed, Idle, HoldsOpen, Passes
    <3> QED BY <1>1, <1>2, <3>1, <3>2 DEF TimeoutInv
  <2>3. CASE thead # Nobody
    <3>0. thead \in Entries \cup {Nobody} BY <1>1 DEF ChainOf, Chain, LinkedLists, TheList
    <3>a. /\ pass' = [pass EXCEPT !.at = "look", !.cur = thead]
          /\ SetList(Unlinked(TheList, thead)) /\ UNCHANGED <<conn, recover>>
      BY ONLY <1>12, <2>3 DEF PopEntry
    <3>b. pass \in Passes BY <1>1 DEF HoldsOpen
    <3>1. /\ pass'.at = "look" /\ pass'.cur = thead /\ SetList(Unlinked(TheList, thead))
          /\ pass' \in Passes /\ UNCHANGED <<conn, recover>>
      BY ONLY <3>0, <3>a, <3>b DEF Passes
    <3>2. thead \in Listed
      <4>1. PICK n \in Nat : \E s \in [1..n -> Entries] :
                               Chain(TheList, n, s) /\ Listed = {s[i] : i \in 1..n}
        BY <1>1 DEF ChainOf
      <4>2. PICK s \in [1..n -> Entries] : Chain(TheList, n, s) /\ Listed = {s[i] : i \in 1..n}
        BY <4>1
      <4>3. thead = IF n = 0 THEN Nobody ELSE s[1] BY <4>2 DEF Chain, TheList
      <4> QED BY <2>3, <4>2, <4>3
    <3>3. thead \in Entries /\ conn[thead] = "open" BY <3>2 DEF Listed
    <3>4. Listed' = Listed \ {thead} BY <1>1, <2>1, <3>1 DEF Listed
    <3>5. ChainOf(TheList', Listed') BY <1>1, <3>1, <3>3, <3>4, UnlinkFrom, ListIsSet
    <3>6. HoldsOpen' BY <3>1, <3>3 DEF HoldsOpen
    <3> QED BY <1>1, <3>1, <3>5, <3>6 DEF TimeoutInv, ChainOf
  <2> QED BY <2>2, <2>3
<1>13. CASE JudgeNew
  <2>1. pass.cur \in Entries /\ conn[pass.cur] = "open" BY <1>1, <1>13 DEF JudgeNew, HoldsOpen
  <2>2. CASE Due(pass.cur)
    <3> DEFINE e == pass.cur
    <3>1. /\ RemoveConnection(e) /\ pass' \in Passes /\ pass'.at = "pop" /\ pass'.cur = Nobody
      BY <1>1, <1>13, <2>2 DEF JudgeNew, HoldsOpen, Passes
    <3>2. e \notin Listed /\ Listed' = Listed \ {e}
      BY <1>1, <2>1, <3>1 DEF RemoveConnection, Listed
    <3>3. ChainOf(TheList', Listed') BY <1>1, <2>1, <3>1, <3>2, UnlinkFrom, ListIsSet DEF RemoveConnection
    <3>4. conn' \in [Entries -> {"free", "login", "open"}] /\ recover' \in [Entries -> BOOLEAN]
      BY <1>1, <3>1 DEF RemoveConnection
    <3> QED BY <3>1, <3>3, <3>4 DEF TimeoutInv, HoldsOpen, ChainOf
  <2>3. CASE ~Due(pass.cur)
    <3>1. UNCHANGED <<listVars, conn, recover>> BY <1>13, <2>3 DEF JudgeNew, listVars
    <3>3. (IF pass.first = Nobody THEN pass.cur ELSE pass.first) \in Entries \cup {Nobody}
      BY <1>1, <2>1 DEF HoldsOpen, Passes
    <3>4. pass' \in Passes /\ pass'.cur = pass.cur /\ pass'.at = "push"
      BY <1>1, <1>13, <2>3, <3>3 DEF JudgeNew, HoldsOpen, Passes
    <3>2. Listed' = Listed BY <3>1, <3>4 DEF Listed
    <3> QED BY <1>1, <1>2, <2>1, <3>1, <3>2, <3>4 DEF TimeoutInv, HoldsOpen
  <2> QED BY <2>2, <2>3
<1>14. CASE PushBack
  <2>1. pass.cur \in Entries /\ conn[pass.cur] = "open" BY <1>1, <1>14 DEF PushBack, HoldsOpen
  <2>2. /\ Push(pass.cur, pass.forced) /\ UNCHANGED conn
        /\ pass' \in Passes /\ pass'.cur = Nobody /\ pass'.at \in {"idle", "pop"}
    BY <1>1, <1>14 DEF PushBack, Idle, HoldsOpen, Passes
  <2>3. Listed' = Listed \cup {pass.cur} BY <1>1, <2>1, <2>2 DEF Listed
  <2>4. ChainOf(Appended(Unlinked(TheList, pass.cur), pass.cur), Listed') BY <1>1, <2>1, <2>3, PushTo
  <2>5. ChainOf(TheList', Listed') BY <2>2, <2>4, ListIsSet DEF Push
  <2>6. recover' \in [Entries -> BOOLEAN] BY <1>1, <2>2 DEF Push, RecoverAfter
  <2> QED BY <1>1, <2>2, <2>5, <2>6 DEF TimeoutInv, HoldsOpen, ChainOf
<1>15. CASE Tick \/ UNCHANGED tvars
  <2>1. UNCHANGED <<listVars, conn, recover, pass>> BY <1>15 DEF Tick, tvars, listVars
  <2>2. Listed' = Listed BY <2>1 DEF Listed
  <2> QED BY <1>1, <1>2, <2>1, <2>2 DEF TimeoutInv, HoldsOpen
<1> QED BY <1>5, <1>6, <1>7, <1>8, <1>9, <1>10, <1>11, <1>12, <1>13, <1>14, <1>15 DEF TNext, PassStep

(* The invariant holds in every reachable state.                           *)
LEMMA TimeoutInvariance == TSpec => []TimeoutInv
BY TimeoutInit, TimeoutStep, PTL DEF TSpec

(* A chain through the listed entries is what TimeoutListWhole looks for:  *)
(* its length is their number.                                             *)
LEMMA ChainIsWhole == ChainOf(TheList, Listed) => TimeoutListWhole
<1> SUFFICES ASSUME ChainOf(TheList, Listed) PROVE TimeoutListWhole
  OBVIOUS
<1>1. PICK n \in Nat : \E s \in [1..n -> Entries] : Chain(TheList, n, s) /\ Listed = {s[i] : i \in 1..n}
  BY DEF ChainOf
<1>2. PICK s \in [1..n -> Entries] : Chain(TheList, n, s) /\ Listed = {s[i] : i \in 1..n}
  BY <1>1
<1>3. \A i, j \in 1..n : s[i] = s[j] => i = j BY <1>2 DEF Chain
<1>4. s \in [1..n -> Listed] BY <1>2
<1>5. Cardinality(Listed) = n
  <2>1. s \in Bijection(1..n, Listed)
    <3>1. \A e \in Listed : \E i \in 1..n : s[i] = e BY <1>2
    <3> QED BY <1>3, <1>4, <3>1 DEF Bijection, Injection, Surjection, IsInjective
  <2>2. ExistsBijection(1..n, Listed) BY <2>1 DEF ExistsBijection
  <2> QED BY <2>2, FS_CountingElements
<1>6. s \in Orders BY <1>3, <1>4, <1>5 DEF Orders
<1>7. /\ thead = IF n = 0 THEN Nobody ELSE s[1]
      /\ tfoot = IF n = 0 THEN Nobody ELSE s[n]
      /\ \A i \in 1..(n - 1) : tnext[s[i]] = s[i + 1] /\ tprev[s[i + 1]] = s[i]
      /\ n > 0 => tnext[s[n]] = Nobody
      /\ \A e \in Entries : (\A i \in 1..n : s[i] # e) => tnext[e] = Nobody /\ tprev[e] = Nobody
  BY <1>2 DEF Chain, TheList
<1>8. \A e \in Entries \ Listed : tnext[e] = Nobody /\ tprev[e] = Nobody BY <1>2, <1>7
<1> QED BY <1>5, <1>6, <1>7, <1>8 DEF TimeoutListWhole

(* For any number of connections and in every interleaving of the main     *)
(* loop with the logins: removing, renewing and taking out entries at the  *)
(* head, in the middle and at the foot leaves one chain through exactly    *)
(* the open connections, the one in the hands of a pass excepted.          *)
THEOREM TimeoutListStaysWhole == TSpec => []TimeoutListWhole
<1>1. TimeoutInv => TimeoutListWhole BY ChainIsWhole DEF TimeoutInv
<1> QED BY <1>1, TimeoutInvariance, PTL

(* The flag of a forced kickout is read in one call, and the entry pushed  *)
(* back with what was read in another: whatever happens in between, and    *)
(* however often a packet renews the timeout, the force is never taken     *)
(* back while the connection exists.                                       *)
THEOREM KickoutStaysForced == TSpec => ForcedStays
<1> DEFINE Stays == \A e \in Entries :
                      conn[e] # "free" /\ ~recover[e] => conn'[e] = "free" \/ ~recover'[e]
<1>1. TimeoutInv /\ [TNext]_tvars => [Stays]_tvars
  <2> SUFFICES ASSUME TimeoutInv, TNext, NEW e \in Entries, conn[e] # "free", ~recover[e]
               PROVE  conn'[e] = "free" \/ ~recover'[e]
    BY DEF tvars
  <2>1. /\ conn \in [Entries -> {"free", "login", "open"}] /\ recover \in [Entries -> BOOLEAN]
    BY DEF TimeoutInv
  <2>2. ASSUME NEW x \in Entries, RemoveConnection(x) PROVE conn'[e] = "free" \/ ~recover'[e]
    BY <2>1, <2>2 DEF RemoveConnection
  <2>3. ASSUME NEW x, NEW f, Push(x, f) PROVE ~recover'[e]
    BY <2>1, <2>3 DEF Push, RecoverAfter
  <2>4. CASE \E x \in Entries : AddConnection(x) \/ ForceKickout(x) \/ ControlSent(x)
    BY <2>1, <2>4 DEF AddConnection, ForceKickout, ControlSent, RecoverAfter
  <2>5. CASE \E x \in Entries : LoginSucceeds(x) \/ LoginFails(x) \/ CloseDead(x)
    BY <2>2, <2>3, <2>5 DEF LoginSucceeds, LoginFails, CloseDead
  <2>6. CASE \E x \in Entries : UserPacket(x)
    <3>1. PICK x \in Entries : UserPacket(x) BY <2>6
    <3>2. CASE recover' = [recover EXCEPT ![x] = FALSE] BY <2>1, <3>2
    <3> QED BY <2>2, <2>3, <3>1, <3>2 DEF UserPacket
  <2>7. CASE StartPass \/ PopEntry \/ LookForced \/ JudgeAgain \/ Tick
    BY <2>7 DEF StartPass, PopEntry, LookForced, JudgeAgain, Tick
  <2>8. CASE JudgeNew
    <3>1. pass.cur \in Entries BY <2>8 DEF TimeoutInv, HoldsOpen, JudgeNew
    <3> QED BY <2>2, <2>8, <3>1 DEF JudgeNew
  <2>9. CASE PushBack BY <2>3, <2>9 DEF PushBack
  <2> QED BY <2>4, <2>5, <2>6, <2>7, <2>8, <2>9 DEF TNext, PassStep
<1> QED BY <1>1, TimeoutInvariance, PTL DEF TSpec, ForcedStays

-----------------------------------------------------------------------------
(* Counting the users.                                                     *)

(* One more element, one more in the count.                                *)
LEMMA CountUp ==
  ASSUME NEW S, IsFiniteSet(S), NEW x, x \notin S, NEW T, T = S \cup {x}
  PROVE  IsFiniteSet(T) /\ Cardinality(T) = Cardinality(S) + 1 /\ Cardinality(T) > 0
<1>1. IsFiniteSet(T) /\ Cardinality(T) = Cardinality(S) + 1 BY FS_AddElement
<1>2. Cardinality(S) \in Nat BY FS_CardinalityType
<1> QED BY <1>1, <1>2

(* One element less, one less in the count.                                *)
LEMMA CountDown ==
  ASSUME NEW S, IsFiniteSet(S), NEW x \in S, NEW T, T = S \ {x}
  PROVE  IsFiniteSet(T) /\ Cardinality(T) = Cardinality(S) - 1 /\ Cardinality(S) > 0
<1>1. IsFiniteSet(T) /\ Cardinality(T) = Cardinality(S) - 1 BY FS_RemoveElement
<1>2. Cardinality(S) \in Nat /\ Cardinality(T) \in Nat BY <1>1, FS_CardinalityType
<1> QED BY <1>1, <1>2

Asks == {"users", "refuse", "new", "address", "request"}

AcceptTypeOK ==
  /\ at \in [Conns -> {"out", "new", "login", "listed"}]
  /\ thread \in [Conns -> {"none", "queued", "login", "tail", "done"}]
  /\ acc \in {Waits, [next |-> "ended"]} \cup {For(c, n) : c \in Conns, n \in Asks}
  /\ newConnections \in Int /\ nUser \in Int /\ entries \in Int
  /\ ips \in [Addresses -> Int]
  /\ blocked \in [Addresses -> {"no", "valid", "over"}]

(* Where a connection is, where the thread of its login, and whether the   *)
(* accept thread has it: the ways through the three kinds of threads.      *)
Placed(c) ==
  /\ (\E n \in Asks : acc = For(c, n)) => at[c] = "new" /\ thread[c] = "none"
  /\ thread[c] = "queued" => at[c] = "new"
  /\ thread[c] = "login" <=> at[c] = "login"
  /\ thread[c] \in {"tail", "done"} => at[c] \in {"out", "listed"}

ListedConns == {c \in Conns : at[c] = "listed"}
Uncounted   == {c \in Conns : thread[c] = "tail"}
InList      == {a \in Addresses : blocked[a] # "no"}

(* The four counts, apart from one another.                                *)
CountsNew     == newConnections = Cardinality(BeingServed)
CountsUsers   == nUser = Cardinality(ListedConns) - Cardinality(Uncounted)
CountsAt(a)   == ips[a] = IF Payment THEN 0 ELSE Cardinality(OfAddress(a))
CountsBlocked == entries = Cardinality(InList)

FourCounts ==
  CountsNew /\ CountsUsers /\ (\A a \in Addresses : CountsAt(a)) /\ CountsBlocked

AcceptInv == AcceptTypeOK /\ (\A c \in Conns : Placed(c)) /\ FourCounts

(* The four counts are what the counters have to be.                       *)
LEMMA FourAreExact == FourCounts => CountersExact
BY DEF CountersExact, UsersThere, FourCounts, CountsNew, CountsUsers, CountsAt, CountsBlocked,
       ListedConns, Uncounted, InList

(* All that is counted is finite.                                          *)
LEMMA AllFinite ==
  /\ IsFiniteSet(Conns) /\ IsFiniteSet(Addresses)
  /\ \A S : S \subseteq Conns \/ S \subseteq Addresses => IsFiniteSet(S) /\ Cardinality(S) \in Nat
<1>1. IsFiniteSet(Conns) BY AcceptAssumption
<1>2. IsFiniteSet(Addresses)
  <2> DEFINE f == [c \in Conns |-> From[c]]
  <2>1. f \in Surjection(Conns, Addresses) BY DEF Surjection, Addresses
  <2> QED BY <1>1, <2>1, FS_Surjection
<1> QED BY <1>1, <1>2, FS_Subset, FS_CardinalityType

(* Records of the accept thread.                                           *)
LEMMA Records ==
  /\ \A c, n, d, m : For(c, n) = For(d, m) <=> c = d /\ n = m
  /\ \A c, n : For(c, n) # Waits /\ For(c, n) # [next |-> "ended"]
  /\ \A c, n : For(c, n).next = n /\ For(c, n).conn = c
  /\ Waits.next = "select"
BY DEF For, Waits

(* The accept thread has connection c in its hands.                        *)
Held(c) == \E n \in Asks : acc = For(c, n)

Served == {c \in Conns : thread[c] # "none" \/ Held(c)}

(* The connections whose address is counted, place by place.               *)
LEMMA WhoIsServed == AcceptTypeOK => BeingServed = Served
<1> SUFFICES ASSUME AcceptTypeOK PROVE BeingServed = Served
  OBVIOUS
<1> USE DEF Served
<1>1. CASE \E d \in Conns : \E n \in Asks : acc = For(d, n)
  <2>1. PICK d \in Conns, n \in Asks : acc = For(d, n) BY <1>1
  <2>2. acc.next = n /\ acc.conn = d /\ n \notin {"select", "ended"} BY <2>1, Records DEF Asks
  <2>3. \A c : Held(c) <=> c = d BY <2>1, Records DEF Held
  <2> QED BY <2>2, <2>3 DEF BeingServed
<1>2. CASE acc = Waits \/ acc = [next |-> "ended"]
  <2>1. acc.next \in {"select", "ended"} BY <1>2, Records
  <2>2. \A c : ~Held(c) BY <1>2, Records DEF Held
  <2> QED BY <2>1, <2>2 DEF BeingServed
<1> QED BY <1>1, <1>2 DEF AcceptTypeOK

(* Nobody is connected at first.                                           *)
LEMMA AcceptInit == AInit => AcceptInv
<1> SUFFICES ASSUME AInit PROVE AcceptInv
  OBVIOUS
<1>1. AcceptTypeOK BY DEF AInit, AcceptTypeOK
<1>2. \A c \in Conns : Placed(c) BY DEF AInit, Placed, Waits, For
<1>3. FourCounts
  <2>1. /\ BeingServed = {} /\ {c \in Conns : at[c] = "listed"} = {} /\ {c \in Conns : thread[c] = "tail"} = {}
        /\ \A a \in Addresses : OfAddress(a) = {}
        /\ {a \in Addresses : blocked[a] # "no"} = {}
    BY DEF AInit, BeingServed, OfAddress, Is, Waits, For
  <2>2. /\ newConnections = 0 /\ nUser = 0 /\ entries = 0 /\ \A a \in Addresses : ips[a] = 0
    BY DEF AInit
  <2>3. Cardinality({}) = 0 BY FS_EmptySet
  <2>4. CountsNew BY ONLY <2>1, <2>2, <2>3 DEF CountsNew
  <2>5. CountsUsers
    <3>1. ListedConns = {} /\ Uncounted = {} BY ONLY <2>1 DEF ListedConns, Uncounted
    <3>2. Cardinality(ListedConns) = 0 /\ Cardinality(Uncounted) = 0 BY ONLY <2>3, <3>1
    <3> QED BY ONLY <2>2, <3>2 DEF CountsUsers
  <2>6. \A a \in Addresses : CountsAt(a)
    <3> SUFFICES ASSUME NEW a \in Addresses PROVE CountsAt(a)
      OBVIOUS
    <3>1. OfAddress(a) = {} /\ ips[a] = 0 BY ONLY <2>1, <2>2
    <3> QED BY ONLY <2>3, <3>1 DEF CountsAt
  <2>7. CountsBlocked BY ONLY <2>1, <2>2, <2>3 DEF CountsBlocked, InList
  <2> QED BY ONLY <2>4, <2>5, <2>6, <2>7 DEF FourCounts
<1> QED BY <1>1, <1>2, <1>3 DEF AcceptInv

(* An entry of the block list that is new is counted, one that is there    *)
(* already is not.                                                         *)
LEMMA BlockCounted ==
  ASSUME AcceptTypeOK, CountsBlocked, NEW a \in Addresses, BlockInserted(a)
  PROVE  /\ CountsBlocked' /\ entries' \in Int
         /\ blocked' \in [Addresses -> {"no", "valid", "over"}]
<1>1. blocked' \in [Addresses -> {"no", "valid", "over"}] BY DEF AcceptTypeOK, BlockInserted
<1>2. CASE blocked[a] = "no"
  <2>1. InList' = InList \cup {a} /\ a \notin InList
    BY <1>2 DEF AcceptTypeOK, BlockInserted, InList
  <2>2. IsFiniteSet(InList) BY AllFinite DEF InList
  <2> QED BY <1>1, <1>2, <2>1, <2>2, CountUp DEF CountsBlocked, BlockInserted, AcceptTypeOK
<1>3. CASE blocked[a] # "no"
  <2>1. InList' = InList BY <1>3 DEF AcceptTypeOK, BlockInserted, InList
  <2> QED BY <1>1, <1>3, <2>1 DEF CountsBlocked, BlockInserted, AcceptTypeOK
<1> QED BY <1>2, <1>3

(* What a connection that leaves takes off the count of its address.       *)
LEMMA AddressUncounted ==
  ASSUME AcceptTypeOK, \A a \in Addresses : CountsAt(a), NEW c \in Conns,
         c \in OfAddress(From[c]), ips' = RemovedIP(From[c]),
         \A a \in Addresses : OfAddress(a)' = OfAddress(a) \ {c}
  PROVE  ips' \in [Addresses -> Int] /\ \A a \in Addresses : CountsAt(a)'
<1>1. From[c] \in Addresses BY DEF Addresses
<1>2. ips' = [ips EXCEPT ![From[c]] = IF @ > 0 THEN @ - 1 ELSE 0] BY DEF RemovedIP
<1>3. ips' \in [Addresses -> Int] BY <1>1, <1>2 DEF AcceptTypeOK
<1>4. ASSUME NEW a \in Addresses PROVE CountsAt(a)'
  <2>1. CASE Payment BY <1>1, <1>2, <2>1 DEF CountsAt, AcceptTypeOK
  <2>2. CASE ~Payment /\ a # From[c]
    <3>1. OfAddress(a)' = OfAddress(a) BY <2>2 DEF OfAddress
    <3> QED BY <1>2, <2>2, <3>1 DEF CountsAt, AcceptTypeOK
  <2>3. CASE ~Payment /\ a = From[c]
    <3>1. IsFiniteSet(OfAddress(a)) BY AllFinite DEF OfAddress
    <3>2. Cardinality(OfAddress(a)') = Cardinality(OfAddress(a)) - 1 /\ Cardinality(OfAddress(a)) > 0
      BY <2>3, <3>1, CountDown
    <3> QED BY <1>1, <1>2, <2>3, <3>2 DEF CountsAt, AcceptTypeOK
  <2> QED BY <2>1, <2>2, <2>3
<1> QED BY <1>3, <1>4

(* A step that takes no entry of the block list in or out, and one that    *)
(* changes none of the sets behind a count.                                *)
LEMMA SameCounts ==
  /\ CountsNew /\ BeingServed' = BeingServed /\ newConnections' = newConnections => CountsNew'
  /\ CountsUsers /\ ListedConns' = ListedConns /\ Uncounted' = Uncounted /\ nUser' = nUser => CountsUsers'
  /\ \A a : CountsAt(a) /\ OfAddress(a)' = OfAddress(a) /\ ips' = ips => CountsAt(a)'
  /\ CountsBlocked /\ blocked' = blocked /\ entries' = entries => CountsBlocked'
BY DEF CountsNew, CountsUsers, CountsAt, CountsBlocked, InList

(* The thread that accepts moves a user on, or counts it out.              *)
LEMMA AccepterKeeps ==
  ASSUME AcceptInv, NEW c \in Conns,
         \/ AcceptConnection(c) \/ CheckUsers(c) \/ CheckNew(c) \/ CountAddress(c)
         \/ RequestLogin(c) \/ Refuse(c)
  PROVE  AcceptInv'
<1> USE DEF Is
<1>1. /\ AcceptTypeOK /\ (\A d \in Conns : Placed(d))
      /\ CountsNew /\ CountsUsers /\ (\A a \in Addresses : CountsAt(a)) /\ CountsBlocked
      /\ From[c] \in Addresses
  BY DEF AcceptInv, FourCounts, Addresses
<1>2. BeingServed = {d \in Conns : thread[d] # "none" \/ Held(d)} BY <1>1, WhoIsServed DEF Served
<1>3. AcceptTypeOK' => BeingServed' = {d \in Conns : thread'[d] # "none" \/ Held(d)'}
  <2>1. (AcceptTypeOK => BeingServed = Served)' BY WhoIsServed, PTL
  <2> QED BY <2>1 DEF Served
<1>4. IsFiniteSet(BeingServed) BY <1>2, AllFinite
<1>5. CASE AcceptConnection(c)
  <2> USE <1>5 DEF AcceptConnection
  <2>1. AcceptTypeOK' BY <1>1 DEF AcceptTypeOK, Asks
  <2>2. \A d \in Conns : ~Held(d) /\ (Held(d)' <=> d = c) BY Records DEF Held, Asks
  <2>3. \A d \in Conns : Placed(d)' BY <1>1, <2>2 DEF Placed, AcceptTypeOK, Held
  <2>4. BeingServed' = BeingServed \cup {c} /\ c \notin BeingServed BY <1>2, <1>3, <2>1, <2>2
  <2>5. CountsNew' BY <1>1, <1>4, <2>4, CountUp DEF CountsNew
  <2>6. ListedConns' = ListedConns /\ Uncounted' = Uncounted BY <1>1 DEF ListedConns, Uncounted, AcceptTypeOK
  <2>7. \A a : OfAddress(a)' = OfAddress(a) BY <1>1, Records DEF OfAddress, AcceptTypeOK
  <2> QED BY <1>1, <2>1, <2>3, <2>5, <2>6, <2>7, SameCounts DEF AcceptInv, FourCounts
<1>6. CASE CheckUsers(c) \/ CheckNew(c)
  <2> USE <1>6 DEF CheckUsers, CheckNew
  <2>1. \E n, m \in Asks : acc = For(c, n) /\ acc' = For(c, m) /\ n # "request" /\ m # "request"
    BY DEF Asks
  <2>2. AcceptTypeOK' BY <1>1, <2>1 DEF AcceptTypeOK
  <2>3. \A d \in Conns : Held(d)' <=> Held(d) BY <2>1, Records DEF Held
  <2>4. \A d \in Conns : Placed(d)' BY <1>1, <2>3 DEF Placed, Held
  <2>5. BeingServed' = BeingServed BY <1>2, <1>3, <2>2, <2>3
  <2>6. ListedConns' = ListedConns /\ Uncounted' = Uncounted BY DEF ListedConns, Uncounted
  <2>7. \A a : OfAddress(a)' = OfAddress(a) BY <2>1, Records DEF OfAddress
  <2> QED BY <1>1, <2>2, <2>4, <2>5, <2>6, <2>7, SameCounts DEF AcceptInv, FourCounts
<1>7. CASE CountAddress(c)
  <2> USE <1>7 DEF CountAddress
  <2>1. \E m \in {"refuse", "request"} : acc = For(c, "address") /\ acc' = For(c, m)
    OBVIOUS
  <2>2. UNCHANGED <<at, thread, newConnections, nUser>> OBVIOUS
  <2>3. \A d \in Conns : Held(d)' <=> Held(d) BY <2>1, Records DEF Held, Asks
  <2>4. \A d \in Conns : Placed(d)' BY <1>1, <2>2, <2>3 DEF Placed, Held
  <2>5. ListedConns' = ListedConns /\ Uncounted' = Uncounted BY <2>2 DEF ListedConns, Uncounted
  <2>6. ASSUME AcceptTypeOK' PROVE CountsNew' /\ CountsUsers'
    <3>1. BeingServed' = BeingServed BY <1>2, <1>3, <2>2, <2>3, <2>6
    <3> QED BY <1>1, <2>2, <2>5, <3>1, SameCounts
  <2>7. acc' \in {For(d, n) : d \in Conns, n \in Asks} BY <2>1 DEF Asks
  <2>8. CASE acc' = For(c, "refuse") /\ ips' = ips
    <3>1. CountsBlocked' /\ entries' \in Int /\ blocked' \in [Addresses -> {"no", "valid", "over"}]
      <4>1. CASE UNCHANGED <<blocked, entries>> BY <1>1, <4>1, SameCounts DEF AcceptTypeOK
      <4>2. CASE BlockInserted(From[c]) BY <1>1, <4>2, BlockCounted
      <4> QED BY <2>8, <4>1, <4>2, Records
    <3>2. AcceptTypeOK' BY <1>1, <2>2, <2>7, <2>8, <3>1 DEF AcceptTypeOK
    <3>3. \A a : OfAddress(a)' = OfAddress(a) BY <2>1, <2>2, <2>8, Records DEF OfAddress
    <3> QED BY <1>1, <2>4, <2>6, <2>8, <3>1, <3>2, <3>3, SameCounts DEF AcceptInv, FourCounts
  <2>9. CASE /\ acc' = For(c, "request") /\ UNCHANGED <<blocked, entries>>
             /\ ips' = IF Payment THEN ips ELSE [ips EXCEPT ![From[c]] = @ + 1]
    <3>1. AcceptTypeOK' BY <1>1, <2>2, <2>7, <2>9 DEF AcceptTypeOK
    <3>2. at[c] = "new" /\ thread[c] = "none" BY <1>1, <2>1 DEF Placed, Asks
    <3>3. /\ c \notin OfAddress(From[c]) /\ OfAddress(From[c])' = OfAddress(From[c]) \cup {c}
          /\ \A a : a # From[c] => OfAddress(a)' = OfAddress(a)
      BY <2>1, <2>2, <2>9, <3>2, Records DEF OfAddress
    <3>4. IsFiniteSet(OfAddress(From[c])) BY AllFinite DEF OfAddress
    <3>5. Cardinality(OfAddress(From[c])') = Cardinality(OfAddress(From[c])) + 1
      BY <3>3, <3>4, CountUp
    <3>6. ASSUME NEW a \in Addresses PROVE CountsAt(a)'
      <4>1. CASE Payment BY <1>1, <2>9, <4>1 DEF CountsAt
      <4>2. CASE ~Payment /\ a = From[c]
        BY <1>1, <2>9, <3>5, <4>2 DEF CountsAt, AcceptTypeOK
      <4>3. CASE ~Payment /\ a # From[c]
        <5>1. OfAddress(a)' = OfAddress(a) BY <3>3, <4>3
        <5> QED BY <1>1, <2>9, <4>3, <5>1 DEF CountsAt, AcceptTypeOK
      <4> QED BY <4>1, <4>2, <4>3
    <3> QED BY <1>1, <2>4, <2>6, <2>9, <3>1, <3>6, SameCounts DEF AcceptInv, FourCounts
  <2> QED BY <2>8, <2>9
<1>8. CASE RequestLogin(c)
  <2> USE <1>8 DEF RequestLogin
  <2>1. AcceptTypeOK' BY <1>1 DEF AcceptTypeOK
  <2>2. Held(c) /\ at[c] = "new" /\ thread[c] = "none" BY <1>1 DEF Placed, Held, Asks
  <2>3. \A d \in Conns : ~Held(d)' /\ (Held(d) <=> d = c) BY <2>2, Records DEF Held
  <2>4. \A d \in Conns : Placed(d)' BY <1>1, <2>2, <2>3 DEF Placed, Held, AcceptTypeOK
  <2>5. BeingServed' = BeingServed BY <1>1, <1>2, <1>3, <2>1, <2>2, <2>3 DEF AcceptTypeOK
  <2>6. ListedConns' = ListedConns /\ Uncounted' = Uncounted
    BY <1>1, <2>2 DEF ListedConns, Uncounted, AcceptTypeOK
  <2>7. \A a : OfAddress(a)' = OfAddress(a) BY <1>1, <2>2, Records DEF OfAddress, AcceptTypeOK
  <2> QED BY <1>1, <2>1, <2>4, <2>5, <2>6, <2>7, SameCounts DEF AcceptInv, FourCounts
<1>9. CASE Refuse(c)
  <2> USE <1>9 DEF Refuse
  <2>1. AcceptTypeOK' BY <1>1 DEF AcceptTypeOK
  <2>2. Held(c) /\ at[c] = "new" /\ thread[c] = "none" BY <1>1 DEF Placed, Held, Asks
  <2>3. \A d \in Conns : ~Held(d)' /\ (Held(d) <=> d = c) BY <2>2, Records DEF Held
  <2>4. \A d \in Conns : Placed(d)' BY <1>1, <2>2, <2>3 DEF Placed, Held, AcceptTypeOK
  <2>5. BeingServed' = BeingServed \ {c} /\ c \in BeingServed BY <1>2, <1>3, <2>1, <2>2, <2>3
  <2>6. CountsNew' BY <1>1, <1>4, <2>5, CountDown DEF CountsNew
  <2>7. ListedConns' = ListedConns /\ Uncounted' = Uncounted
    BY <1>1, <2>2 DEF ListedConns, Uncounted, AcceptTypeOK
  <2>8. \A a : OfAddress(a)' = OfAddress(a) BY <1>1, <2>2, Records DEF OfAddress, AcceptTypeOK
  <2> QED BY <1>1, <2>1, <2>4, <2>6, <2>7, <2>8, SameCounts DEF AcceptInv, FourCounts
<1> QED BY <1>5, <1>6, <1>7, <1>8, <1>9

(* A login thread hands a user on to the list, or counts it out.           *)
LEMMA LoginKeeps ==
  ASSUME AcceptInv, NEW c \in Conns,
         \/ StartLogin(c) \/ GiveUpLogin(c) \/ ListLogin(c) \/ EndLogin(c) \/ LoginOver(c)
         \/ CloseListed(c)
  PROVE  AcceptInv'
<1> USE DEF Is
<1>1. /\ AcceptTypeOK /\ (\A d \in Conns : Placed(d))
      /\ CountsNew /\ CountsUsers /\ (\A a \in Addresses : CountsAt(a)) /\ CountsBlocked
      /\ From[c] \in Addresses
  BY DEF AcceptInv, FourCounts, Addresses
<1>2. BeingServed = {d \in Conns : thread[d] # "none" \/ Held(d)} BY <1>1, WhoIsServed DEF Served
<1>3. AcceptTypeOK' => BeingServed' = {d \in Conns : thread'[d] # "none" \/ Held(d)'}
  <2>1. (AcceptTypeOK => BeingServed = Served)' BY WhoIsServed, PTL
  <2> QED BY <2>1 DEF Served
<1>4. IsFiniteSet(BeingServed) /\ IsFiniteSet(ListedConns) /\ IsFiniteSet(Uncounted)
  BY <1>2, AllFinite DEF ListedConns, Uncounted
<1>5. /\ Cardinality(ListedConns) \in Nat /\ Cardinality(Uncounted) \in Nat
  BY AllFinite DEF ListedConns, Uncounted
<1>6. acc' = acc /\ \A d : Held(d)' <=> Held(d)
  BY DEF StartLogin, GiveUpLogin, ListLogin, EndLogin, LoginOver, CloseListed, Held
<1>7. CASE StartLogin(c)
  <2> USE <1>7 DEF StartLogin
  <2>1. AcceptTypeOK' BY <1>1 DEF AcceptTypeOK
  <2>2. at[c] = "new" /\ ~Held(c) BY <1>1 DEF Placed, Held
  <2>3. \A d \in Conns : Placed(d)' BY <1>1, <1>6, <2>2 DEF Placed, Held, AcceptTypeOK
  <2>4. BeingServed' = BeingServed BY <1>1, <1>2, <1>3, <1>6, <2>1 DEF AcceptTypeOK
  <2>5. ListedConns' = ListedConns /\ Uncounted' = Uncounted
    BY <1>1, <2>2 DEF ListedConns, Uncounted, AcceptTypeOK
  <2>6. \A a : OfAddress(a)' = OfAddress(a) BY <1>1, <2>2 DEF OfAddress, AcceptTypeOK
  <2> QED BY <1>1, <2>1, <2>3, <2>4, <2>5, <2>6, SameCounts DEF AcceptInv, FourCounts
<1>8. CASE GiveUpLogin(c)
  <2> USE <1>8 DEF GiveUpLogin, AfterFailure
  <2>1. at[c] = "login" /\ ~Held(c) BY <1>1 DEF Placed, Held
  <2>2. /\ c \in OfAddress(From[c])
        /\ \A a : OfAddress(a)' = OfAddress(a) \ {c}
    BY <1>1, <1>6, <2>1 DEF OfAddress, AcceptTypeOK, Held, Asks
  <2>3. ips' \in [Addresses -> Int] /\ \A a \in Addresses : CountsAt(a)'
    BY <1>1, <2>2, AddressUncounted
  <2>4. CountsBlocked' /\ entries' \in Int /\ blocked' \in [Addresses -> {"no", "valid", "over"}]
    <3>1. CASE UNCHANGED <<blocked, entries>> BY <1>1, <3>1, SameCounts DEF AcceptTypeOK
    <3>2. CASE BlockInserted(From[c]) BY <1>1, <3>2, BlockCounted
    <3> QED BY <3>1, <3>2
  <2>5. AcceptTypeOK' BY <1>1, <2>3, <2>4 DEF AcceptTypeOK
  <2>6. \A d \in Conns : Placed(d)' BY <1>1, <1>6, <2>1 DEF Placed, Held, AcceptTypeOK
  <2>7. BeingServed' = BeingServed BY <1>1, <1>2, <1>3, <1>6, <2>5 DEF AcceptTypeOK
  <2>8. ListedConns' = ListedConns /\ Uncounted' = Uncounted
    BY <1>1, <2>1 DEF ListedConns, Uncounted, AcceptTypeOK
  <2> QED BY <1>1, <2>3, <2>4, <2>5, <2>6, <2>7, <2>8, SameCounts DEF AcceptInv, FourCounts
<1>9. CASE ListLogin(c)
  <2> USE <1>9 DEF ListLogin
  <2>1. AcceptTypeOK' BY <1>1 DEF AcceptTypeOK
  <2>2. at[c] = "login" /\ ~Held(c) BY <1>1 DEF Placed, Held
  <2>3. \A d \in Conns : Placed(d)' BY <1>1, <1>6, <2>2 DEF Placed, Held, AcceptTypeOK
  <2>4. BeingServed' = BeingServed BY <1>1, <1>2, <1>3, <1>6, <2>1 DEF AcceptTypeOK
  <2>5. /\ c \notin ListedConns /\ ListedConns' = ListedConns \cup {c}
        /\ c \notin Uncounted /\ Uncounted' = Uncounted \cup {c}
    BY <1>1, <2>2 DEF ListedConns, Uncounted, AcceptTypeOK
  <2>6. /\ Cardinality(ListedConns') = Cardinality(ListedConns) + 1
        /\ Cardinality(Uncounted') = Cardinality(Uncounted) + 1
    BY <1>4, <2>5, CountUp
  <2>7. CountsUsers' BY <1>1, <1>5, <2>6 DEF CountsUsers
  <2>8. \A a : OfAddress(a)' = OfAddress(a) BY <1>1, <2>2 DEF OfAddress, AcceptTypeOK
  <2> QED BY <1>1, <2>1, <2>3, <2>4, <2>7, <2>8, SameCounts DEF AcceptInv, FourCounts
<1>10. CASE EndLogin(c)
  <2> USE <1>10 DEF EndLogin
  <2>1. AcceptTypeOK' BY <1>1 DEF AcceptTypeOK
  <2>2. at[c] \in {"out", "listed"} /\ ~Held(c) BY <1>1 DEF Placed, Held
  <2>3. \A d \in Conns : Placed(d)' BY <1>1, <1>6, <2>2 DEF Placed, Held, AcceptTypeOK
  <2>4. BeingServed' = BeingServed BY <1>1, <1>2, <1>3, <1>6, <2>1 DEF AcceptTypeOK
  <2>5. c \in Uncounted /\ Uncounted' = Uncounted \ {c} /\ ListedConns' = ListedConns
    BY <1>1 DEF ListedConns, Uncounted, AcceptTypeOK
  <2>6. Cardinality(Uncounted') = Cardinality(Uncounted) - 1 BY <1>4, <2>5, CountDown
  <2>7. CountsUsers' BY <1>1, <1>5, <2>5, <2>6 DEF CountsUsers
  <2>8. \A a : OfAddress(a)' = OfAddress(a) BY <1>1 DEF OfAddress, AcceptTypeOK
  <2> QED BY <1>1, <2>1, <2>3, <2>4, <2>7, <2>8, SameCounts DEF AcceptInv, FourCounts
<1>11. CASE LoginOver(c)
  <2> USE <1>11 DEF LoginOver
  <2>1. AcceptTypeOK' BY <1>1 DEF AcceptTypeOK
  <2>2. at[c] \in {"out", "listed"} /\ ~Held(c) BY <1>1 DEF Placed, Held
  <2>3. \A d \in Conns : Placed(d)' BY <1>1, <1>6, <2>2 DEF Placed, Held, AcceptTypeOK
  <2>4. c \in BeingServed /\ BeingServed' = BeingServed \ {c}
    BY <1>1, <1>2, <1>3, <1>6, <2>1, <2>2 DEF AcceptTypeOK
  <2>5. CountsNew' BY <1>1, <1>4, <2>4, CountDown DEF CountsNew
  <2>6. ListedConns' = ListedConns /\ Uncounted' = Uncounted
    BY <1>1 DEF ListedConns, Uncounted, AcceptTypeOK
  <2>7. \A a : OfAddress(a)' = OfAddress(a) BY <1>1 DEF OfAddress, AcceptTypeOK
  <2> QED BY <1>1, <2>1, <2>3, <2>5, <2>6, <2>7, SameCounts DEF AcceptInv, FourCounts
<1>12. CASE CloseListed(c)
  <2> USE <1>12 DEF CloseListed
  <2>1. thread[c] \notin {"login", "queued"} /\ ~Held(c) BY <1>1 DEF Placed, Held
  <2>2. /\ c \in OfAddress(From[c])
        /\ \A a : OfAddress(a)' = OfAddress(a) \ {c}
    BY <1>1, <1>6, <2>1 DEF OfAddress, AcceptTypeOK, Held, Asks
  <2>3. ips' \in [Addresses -> Int] /\ \A a \in Addresses : CountsAt(a)'
    BY <1>1, <2>2, AddressUncounted
  <2>4. AcceptTypeOK' BY <1>1, <2>3 DEF AcceptTypeOK
  <2>5. \A d \in Conns : Placed(d)' BY <1>1, <1>6, <2>1 DEF Placed, Held, AcceptTypeOK
  <2>6. BeingServed' = BeingServed BY <1>1, <1>2, <1>3, <1>6, <2>4 DEF AcceptTypeOK
  <2>7. c \in ListedConns /\ ListedConns' = ListedConns \ {c} /\ Uncounted' = Uncounted
    BY <1>1 DEF ListedConns, Uncounted, AcceptTypeOK
  <2>8. Cardinality(ListedConns') = Cardinality(ListedConns) - 1 BY <1>4, <2>7, CountDown
  <2>9. CountsUsers' BY <1>1, <1>5, <2>7, <2>8 DEF CountsUsers
  <2> QED BY <1>1, <2>3, <2>4, <2>5, <2>6, <2>9, SameCounts DEF AcceptInv, FourCounts
<1> QED BY <1>7, <1>8, <1>9, <1>10, <1>11, <1>12

(* The time of a blocked address passes, its entry is removed, and the     *)
(* sockets are created anew: no user moves.                                *)
LEMMA BlockListKeeps ==
  AcceptInv /\ (RecreateSockets \/ BlockTimeOver \/ CleanBlockList \/ UNCHANGED avars) => AcceptInv'
<1> SUFFICES ASSUME AcceptInv, RecreateSockets \/ BlockTimeOver \/ CleanBlockList \/ UNCHANGED avars
             PROVE  AcceptInv'
  OBVIOUS
<1>1. /\ AcceptTypeOK /\ (\A d \in Conns : Placed(d))
      /\ CountsNew /\ CountsUsers /\ (\A a \in Addresses : CountsAt(a)) /\ CountsBlocked
  BY DEF AcceptInv, FourCounts
<1>2. /\ UNCHANGED <<at, thread, newConnections, nUser, ips>>
      /\ acc' = acc \/ (acc = Waits /\ acc' \in {Waits, [next |-> "ended"]})
  BY DEF RecreateSockets, BlockTimeOver, CleanBlockList, avars
<1>3. ListedConns' = ListedConns /\ Uncounted' = Uncounted BY <1>2 DEF ListedConns, Uncounted
<1>4. \A c, n : acc = For(c, n) <=> acc' = For(c, n) BY <1>2, Records
<1>5. \A d \in Conns : Placed(d)' BY <1>1, <1>2, <1>4 DEF Placed
<1>6. \A a : OfAddress(a)' = OfAddress(a) BY <1>2, <1>4 DEF OfAddress, Is
<1>7. CountsBlocked' /\ entries' \in Int /\ blocked' \in [Addresses -> {"no", "valid", "over"}]
  <2>1. CASE RecreateSockets \/ UNCHANGED avars
    BY <1>1, <2>1, SameCounts DEF RecreateSockets, avars, AcceptTypeOK
  <2>2. CASE BlockTimeOver
    <3>1. InList' = InList BY <1>1, <2>2 DEF BlockTimeOver, InList, AcceptTypeOK
    <3> QED BY <1>1, <2>2, <3>1 DEF BlockTimeOver, CountsBlocked, AcceptTypeOK
  <2>3. CASE CleanBlockList
    <3> DEFINE over == {a \in Addresses : blocked[a] = "over"}
    <3>1. InList' = InList \ over /\ InList \cap over = over
      BY <1>1, <2>3 DEF CleanBlockList, InList, AcceptTypeOK
    <3>2. IsFiniteSet(InList) /\ Cardinality(over) \in Nat BY AllFinite DEF InList
    <3>3. entries' = entries - Cardinality(over) BY <2>3 DEF CleanBlockList
    <3>4. blocked' \in [Addresses -> {"no", "valid", "over"}] BY <1>1, <2>3 DEF CleanBlockList, AcceptTypeOK
    <3> HIDE DEF over
    <3>5. Cardinality(InList \ over) = Cardinality(InList) - Cardinality(InList \cap over)
      BY <3>2, FS_Difference
    <3>6. entries \in Int /\ entries = Cardinality(InList) BY <1>1 DEF AcceptTypeOK, CountsBlocked
    <3>7. Cardinality(InList') = Cardinality(InList) - Cardinality(over) BY <3>1, <3>5
    <3>8. entries' \in Int /\ entries' = Cardinality(InList') BY <3>2, <3>3, <3>6, <3>7
    <3> QED BY <3>4, <3>8 DEF CountsBlocked
  <2> QED BY <2>1, <2>2, <2>3
<1>8. AcceptTypeOK' BY <1>1, <1>2, <1>7 DEF AcceptTypeOK
<1>9. BeingServed' = BeingServed
  <2>1. \A c : Held(c)' <=> Held(c) BY <1>4 DEF Held
  <2>2. (AcceptTypeOK => BeingServed = Served)' BY WhoIsServed, PTL
  <2> QED BY <1>1, <1>2, <1>8, <2>1, <2>2, WhoIsServed DEF Served
<1> QED BY <1>1, <1>2, <1>3, <1>5, <1>6, <1>7, <1>8, <1>9, SameCounts DEF AcceptInv, FourCounts

(* Whatever connections come and from wherever, and in every interleaving  *)
(* of the accept thread, the login threads, the main loop and the cleanup  *)
(* of the block list: the four counters are exact.                         *)
THEOREM CountersStayExact == ASpec => []CountersExact
<1>1. AcceptInv /\ [ANext]_avars => AcceptInv'
  BY AccepterKeeps, LoginKeeps, BlockListKeeps DEF ANext
<1>2. AcceptInv => CountersExact BY FourAreExact DEF AcceptInv
<1> QED BY AcceptInit, <1>1, <1>2, PTL DEF ASpec

-----------------------------------------------------------------------------
(* The packet loop: the channels of the first mix and of the next mix.     *)

(* The packets for the next mix.                                           *)
UpPackets == [kind : {"open", "data", "close"}, out : OutIds]

(* The places in queue s of what changes channel o.                        *)
About(s, o) == {k \in DOMAIN s : s[k].out = o /\ s[k].kind # "data"}

LastAbout(s, o, k) == k \in About(s, o) /\ \A j \in About(s, o) : j <= k

(* Channel o is open when all packets of queue s have been taken: without  *)
(* the choice that OpenAfterAll makes.                                     *)
WillOpen(s, open, o) ==
  \/ About(s, o) = {} /\ open[o] # None
  \/ \E k : LastAbout(s, o, k) /\ s[k].kind = "open"

(* A nonempty set of places has a last one.                                *)
LEMMA LastExists ==
  ASSUME NEW s \in Seq(UpPackets), NEW o, About(s, o) # {}
  PROVE  \E k : LastAbout(s, o, k)
<1> DEFINE R == OpToRel(<, Nat)
           T == {Len(s) - k : k \in About(s, o)}
<1>1. T \subseteq Nat /\ T # {} BY DEF About
<1>2. PICK n \in T : \A y \in T : ~(<<y, n>> \in R)
  <2> HIDE DEF T, R
  <2> QED BY <1>1, NatLessThanWellFounded, WFMin DEF R
<1>3. \A y \in T : ~(y < n) BY <1>1, <1>2 DEF OpToRel
<1>4. PICK k \in About(s, o) : n = Len(s) - k OBVIOUS
<1>5. \A j \in About(s, o) : Len(s) - j \in T OBVIOUS
<1>6. \A j \in About(s, o) : j \in Nat /\ ~(Len(s) - j < Len(s) - k)
  <2>1. \A j \in About(s, o) : j \in 1..Len(s) BY DEF About
  <2>2. Len(s) \in Nat OBVIOUS
  <2> HIDE DEF T
  <2> QED BY <1>3, <1>4, <1>5, <2>1, <2>2
<1>7. \A j \in About(s, o) : j <= k
  <2>1. k \in Nat /\ Len(s) \in Nat BY <1>6
  <2> QED BY <1>6, <2>1
<1> QED BY <1>4, <1>7 DEF LastAbout

(* The choice is one of the last place.                                    *)
LEMMA WillOpenIs ==
  ASSUME toMix \in Seq(UpPackets), NEW o
  PROVE  OpenAfterAll(o) <=> WillOpen(toMix, atMix, o)
<1>1. CASE About(toMix, o) = {}
  BY <1>1 DEF OpenAfterAll, WillOpen, LastAbout, About
<1>2. CASE About(toMix, o) # {}
  <2>1. PICK k : LastAbout(toMix, o, k) BY <1>2, LastExists
  <2> DEFINE last == CHOOSE j \in About(toMix, o) : \A i \in About(toMix, o) : i <= j
  <2>2. \A j \in About(toMix, o) : j \in Nat BY DEF About
  <2>3. last \in About(toMix, o) /\ \A i \in About(toMix, o) : i <= last
    BY <2>1 DEF LastAbout
  <2>4. \A j : LastAbout(toMix, o, j) => j = last
    BY <2>2, <2>3 DEF LastAbout
  <2>5. LastAbout(toMix, o, last) BY <2>3 DEF LastAbout
  <2>6. OpenAfterAll(o) <=> toMix[last].kind = "open"
    BY <1>2 DEF OpenAfterAll, About
  <2> HIDE DEF last
  <2> QED BY <1>2, <2>4, <2>5, <2>6 DEF WillOpen
<1> QED BY <1>1, <1>2

(* Packets at the end of the queue have the last word.                     *)
LEMMA WillOpenAppend ==
  ASSUME NEW s \in Seq(UpPackets), NEW p \in UpPackets, NEW open, NEW o
  PROVE  WillOpen(Append(s, p), open, o) <=>
           IF p.out = o /\ p.kind # "data" THEN p.kind = "open" ELSE WillOpen(s, open, o)
<1> DEFINE a == Append(s, p)
<1>1. About(a, o) = About(s, o) \cup (IF p.out = o /\ p.kind # "data" THEN {Len(s) + 1} ELSE {})
  BY DEF About
<1>2. \A k \in About(s, o) : k \in 1..Len(s) /\ a[k] = s[k] BY DEF About
<1>3. a[Len(s) + 1] = p OBVIOUS
<1> HIDE DEF a
<1>4. CASE p.out = o /\ p.kind # "data"
  <2>1. LastAbout(a, o, Len(s) + 1) BY <1>1, <1>2, <1>4 DEF LastAbout
  <2>3. Len(s) + 1 \in About(a, o) BY <1>1, <1>4
  <2>2. ASSUME NEW k, LastAbout(a, o, k) PROVE k = Len(s) + 1
    <3>1. Len(s) + 1 <= k /\ k \in About(a, o) BY <2>2, <2>3 DEF LastAbout
    <3>2. k \notin About(s, o) BY <1>2, <3>1
    <3> QED BY <1>1, <3>1, <3>2
  <2> QED BY <1>3, <1>4, <2>1, <2>2, <2>3 DEF WillOpen, a
<1>5. CASE ~(p.out = o /\ p.kind # "data")
  BY <1>1, <1>2, <1>5 DEF WillOpen, LastAbout, a
<1> QED BY <1>4, <1>5

(* A packet taken from the queue does what it says.                        *)
LEMMA WillOpenTail ==
  ASSUME NEW s \in Seq(UpPackets), s # <<>>, NEW open \in [OutIds -> {None} \cup Nat],
         NEW open2, NEW o \in OutIds,
         open2 = CASE Head(s).kind = "open"  -> [open EXCEPT ![Head(s).out] = 0]
                   [] Head(s).kind = "close" -> [open EXCEPT ![Head(s).out] = None]
                   [] OTHER                  -> open
  PROVE  WillOpen(Tail(s), open2, o) <=> WillOpen(s, open, o)
<1> DEFINE t == Tail(s)
           mine == s[1].out = o /\ s[1].kind # "data"
<1>1. /\ \A k \in DOMAIN t : k \in Nat /\ k + 1 \in DOMAIN s /\ k + 1 # 1 /\ t[k] = s[k + 1]
      /\ \A k \in DOMAIN s : k \in Nat /\ (k # 1 => k - 1 \in DOMAIN t /\ t[k - 1] = s[k])
      /\ s[1] \in UpPackets /\ 1 \in DOMAIN s /\ Head(s) = s[1]
  OBVIOUS
<1> HIDE DEF t
<1>2. /\ \A k \in About(t, o) : k \in Nat /\ k + 1 \in About(s, o) /\ k + 1 # 1 /\ t[k] = s[k + 1]
      /\ \A k \in About(s, o) : k \in Nat /\ (k # 1 => k - 1 \in About(t, o) /\ t[k - 1] = s[k])
      /\ 1 \in About(s, o) <=> mine
  BY <1>1 DEF About
<1>3. CASE About(t, o) # {}
  <2>1. \A k : LastAbout(t, o, k) => k \in Nat /\ LastAbout(s, o, k + 1) /\ t[k] = s[k + 1]
    <3> SUFFICES ASSUME NEW k, LastAbout(t, o, k)
                 PROVE  k \in Nat /\ LastAbout(s, o, k + 1) /\ t[k] = s[k + 1]
      OBVIOUS
    <3>1. k \in Nat /\ k + 1 \in About(s, o) /\ t[k] = s[k + 1] BY <1>2 DEF LastAbout
    <3>2. ASSUME NEW j \in About(s, o) PROVE j <= k + 1
      <4>1. CASE j = 1 BY <3>1, <4>1
      <4>2. CASE j # 1
        <5>1. j \in Nat /\ j - 1 <= k BY <1>2, <4>2 DEF LastAbout
        <5> QED BY <3>1, <5>1
      <4> QED BY <4>1, <4>2
    <3> QED BY <3>1, <3>2 DEF LastAbout
  <2>2. \A k : LastAbout(s, o, k) => k \in Nat /\ k # 1 /\ LastAbout(t, o, k - 1) /\ t[k - 1] = s[k]
    <3> SUFFICES ASSUME NEW k, LastAbout(s, o, k)
                 PROVE  k \in Nat /\ k # 1 /\ LastAbout(t, o, k - 1) /\ t[k - 1] = s[k]
      OBVIOUS
    <3>1. PICK i \in About(t, o) : i + 1 \in About(s, o) /\ i \in Nat /\ i + 1 # 1 BY <1>2, <1>3
    <3>2. k \in Nat /\ i + 1 <= k BY <1>2, <3>1 DEF LastAbout
    <3>3. i >= 1 BY <3>1
    <3>4. k # 1 BY <3>2, <3>1, <3>3
    <3>5. k - 1 \in About(t, o) /\ t[k - 1] = s[k] BY <1>2, <3>4 DEF LastAbout
    <3>6. ASSUME NEW j \in About(t, o) PROVE j <= k - 1
      <4>1. j \in Nat /\ j + 1 <= k BY <1>2 DEF LastAbout
      <4> QED BY <3>2, <4>1
    <3> QED BY <3>2, <3>4, <3>5, <3>6 DEF LastAbout
  <2>3. About(s, o) # {} BY <1>2, <1>3
  <2>4. (\E k : LastAbout(t, o, k) /\ t[k].kind = "open")
        <=> (\E k : LastAbout(s, o, k) /\ s[k].kind = "open")
    <3>1. ASSUME NEW k, LastAbout(t, o, k), t[k].kind = "open"
          PROVE  \E j : LastAbout(s, o, j) /\ s[j].kind = "open"
      BY ONLY <2>1, <3>1
    <3>2. ASSUME NEW k, LastAbout(s, o, k), s[k].kind = "open"
          PROVE  \E j : LastAbout(t, o, j) /\ t[j].kind = "open"
      BY ONLY <2>2, <3>2
    <3> QED BY ONLY <3>1, <3>2
  <2> QED BY ONLY <1>3, <2>3, <2>4 DEF WillOpen, t
<1>4. CASE About(t, o) = {}
  <2>1. About(s, o) = IF mine THEN {1} ELSE {} BY <1>2, <1>4
  <2>2. CASE mine
    <3>1. LastAbout(s, o, 1) /\ \A k : LastAbout(s, o, k) => k = 1 BY <2>1, <2>2 DEF LastAbout
    <3>2. WillOpen(s, open, o) <=> s[1].kind = "open" BY <2>1, <2>2, <3>1 DEF WillOpen
    <3>3. open2[o] = IF s[1].kind = "open" THEN 0 ELSE None BY <1>1, <2>2 DEF UpPackets
    <3>4. WillOpen(t, open2, o) <=> open2[o] # None BY <1>4 DEF WillOpen, LastAbout
    <3> QED BY <3>2, <3>3, <3>4 DEF None, t
  <2>3. CASE ~mine
    <3>1. open2[o] = open[o] BY <1>1, <2>3 DEF UpPackets
    <3> QED BY <1>4, <2>1, <2>3, <3>1 DEF WillOpen, LastAbout, t
  <2> QED BY <2>2, <2>3
<1> QED BY <1>3, <1>4

(* CLOSEs at the end of the queue close their channels.                    *)
LEMMA WillOpenCloses ==
  ASSUME NEW s \in Seq(UpPackets), NEW e \in Seq(UpPackets), NEW open, NEW o,
         \A k \in DOMAIN e : e[k].kind = "close"
  PROVE  WillOpen(s \o e, open, o) <=>
           WillOpen(s, open, o) /\ \A k \in DOMAIN e : e[k].out # o
<1> DEFINE a == s \o e
<1>1. /\ \A k \in DOMAIN s : k \in DOMAIN a /\ k \in Nat /\ k <= Len(s) /\ a[k] = s[k]
      /\ \A k \in DOMAIN e : k \in Nat /\ Len(s) + k \in DOMAIN a /\ a[Len(s) + k] = e[k] /\ k > 0
      /\ \A k \in DOMAIN a : k \in Nat /\ (k \in DOMAIN s \/ k - Len(s) \in DOMAIN e)
      /\ \A k \in DOMAIN a : k \notin DOMAIN s => a[k] = e[k - Len(s)]
      /\ Len(s) \in Nat
  OBVIOUS
<1> HIDE DEF a
<1>2. CASE \A k \in DOMAIN e : e[k].out # o
  <2>1. About(a, o) = About(s, o)
    <3>1. \A k \in DOMAIN s : k \in About(a, o) <=> k \in About(s, o) BY <1>1 DEF About
    <3>2. \A k \in DOMAIN a : k \notin DOMAIN s => k \notin About(a, o) BY <1>1, <1>2 DEF About
    <3> QED BY <1>1, <3>1, <3>2 DEF About
  <2>2. \A k \in About(s, o) : a[k] = s[k] BY <1>1 DEF About
  <2> QED BY <1>2, <2>1, <2>2 DEF WillOpen, LastAbout, a
<1>3. ASSUME NEW i \in DOMAIN e, e[i].out = o PROVE ~WillOpen(a, open, o)
  <2>1. Len(s) + i \in About(a, o) BY <1>1, <1>3 DEF About
  <2>2. ASSUME NEW k, LastAbout(a, o, k) PROVE a[k].kind = "close"
    <3>1. k \in DOMAIN a /\ Len(s) + i <= k BY <2>1, <2>2 DEF LastAbout, About
    <3>2. k \notin DOMAIN s BY <1>1, <3>1
    <3> QED BY <1>1, <3>1, <3>2
  <2> QED BY <2>1, <2>2 DEF WillOpen
<1> QED BY <1>2, <1>3 DEF a

(* closeConnection() leaves a CLOSE for each channel of the user.          *)
LEMMA ClosesAre ==
  ASSUME NEW u, IsFiniteSet(channels), \A c \in channels : c.out \in OutIds
  PROVE  /\ ClosesOf(u) \in Seq(UpPackets)
         /\ \A k \in DOMAIN ClosesOf(u) : ClosesOf(u)[k].kind = "close"
         /\ \A o : (\E c \in Of(u) : c.out = o) <=> (\E k \in DOMAIN ClosesOf(u) : ClosesOf(u)[k].out = o)
<1> DEFINE S == {UpPacket("close", c.out) : c \in Of(u)}
           f == [c \in Of(u) |-> UpPacket("close", c.out)]
           n == Cardinality(S)
           e == ClosesOf(u)
<1>1. IsFiniteSet(Of(u)) BY FS_Subset DEF Of
<1>2. f \in Surjection(Of(u), S) BY DEF Surjection
<1>3. IsFiniteSet(S)
  <2> HIDE DEF f, S
  <2> QED BY <1>1, <1>2, FS_Surjection
<1>4. /\ S \subseteq UpPackets /\ \A p \in S : p.kind = "close"
      /\ \A o : (\E c \in Of(u) : c.out = o) <=> \E p \in S : p.out = o
  <2>1. \A c \in Of(u) : UpPacket("close", c.out) \in UpPackets
    BY DEF UpPacket, UpPackets, Of
  <2>2. \A o : UpPacket("close", o).kind = "close" /\ UpPacket("close", o).out = o
    BY DEF UpPacket
  <2> QED BY <2>1, <2>2
<1>5. e = CHOOSE g \in [1..n -> S] : IsInjective(g) BY DEF ClosesOf, SetToSeq
<1> HIDE DEF S, e
<1>6. n \in Nat /\ ExistsBijection(1..n, S) BY <1>3, FS_CardinalityType
<1>7. \E g \in [1..n -> S] : IsInjective(g)
  BY <1>6 DEF ExistsBijection, Bijection, Injection, IsInjective
<1>8. e \in [1..n -> S] /\ IsInjective(e) BY <1>5, <1>7
<1>9. e \in Injection(1..n, S) BY <1>8 DEF Injection, IsInjective
<1>10. Cardinality(1..n) = n BY <1>6, FS_Interval
<1>11. e \in Surjection(1..n, S)
  <2> HIDE DEF n
  <2>1. Cardinality(1..n) = Cardinality(S) BY <1>10 DEF n
  <2> QED BY <1>3, <1>9, <2>1, FS_Injection
<1>12. \A p \in S : \E k \in 1..n : e[k] = p BY <1>11 DEF Surjection
<1>13. e \in Seq(UpPackets) /\ DOMAIN e = 1..n
  <2> HIDE DEF n
  <2> QED BY <1>4, <1>6, <1>8
<1> QED
  <2>1. \A k \in DOMAIN e : e[k] \in S BY <1>8, <1>13
  <2> HIDE DEF n
  <2> QED BY <1>4, <1>12, <1>13, <2>1 DEF e

(* The next mix's CLOSE of channel o is on its way back.                   *)
Returned(o) == \E k \in DOMAIN fromMix : fromMix[k].out = o /\ fromMix[k].kind = "close"

(* The ids of the table.                                                   *)
Outs == {c.out : c \in channels}

(* Both mixes agree: a channel of the table is or will be open at the next *)
(* mix unless its CLOSE is on its way back, and no other channel is.       *)
ChannelsAgree ==
  \A o \in OutIds : WillOpen(toMix, atMix, o) <=> o \in Outs /\ ~Returned(o)

(* An id is used for one channel at a time.                                *)
OutsUnique == \A c, d \in channels : c.out = d.out => c = d

(* A channel is opened once, and the next mix does not know it before.     *)
OpenedOnce ==
  \A k \in DOMAIN toMix : toMix[k].kind = "open" =>
    /\ atMix[toMix[k].out] = None
    /\ \A j \in DOMAIN toMix : toMix[j].kind = "open" /\ toMix[j].out = toMix[k].out => j = k

(* The packets of the next mix.                                            *)
DownPackets == [kind : {"data", "close"}, out : OutIds, nr : Nat]

PacketsTyped ==
  /\ toMix \in Seq(UpPackets) /\ fromMix \in Seq(DownPackets)
  /\ channels \subseteq [user : Users, in : InIds, out : OutIds] /\ IsFiniteSet(channels)
  /\ atMix \in [OutIds -> {None} \cup Nat]

PacketInv == PacketsTyped /\ OutsUnique /\ OpenedOnce /\ ChannelsAgree

tablevars == <<channels, toMix, fromMix, atMix>>

(* There is no channel at first.                                           *)
LEMMA PacketStart == PInit => PacketInv
<1> SUFFICES ASSUME PInit PROVE PacketInv
  OBVIOUS
<1>1. PacketsTyped BY FS_EmptySet DEF PInit, PacketsTyped
<1>2. \A o \in OutIds : ~WillOpen(toMix, atMix, o)
  BY DEF PInit, WillOpen, LastAbout, About
<1>3. OutsUnique /\ OpenedOnce /\ Outs = {} BY DEF PInit, OutsUnique, OpenedOnce, Outs
<1> QED BY <1>1, <1>2, <1>3 DEF PacketInv, ChannelsAgree

(* The equation is what the two mixes agree on.                            *)
LEMMA PacketAgrees == PacketInv => NextMixAgrees
<1> SUFFICES ASSUME PacketInv PROVE NextMixAgrees
  OBVIOUS
<1>1. \A o \in OutIds : OpenAfterAll(o) <=> WillOpen(toMix, atMix, o)
  BY WillOpenIs DEF PacketInv, PacketsTyped
<1>2. \A c \in channels : c.out \in OutIds /\ c.out \in Outs
  BY DEF PacketInv, PacketsTyped, Outs
<1>3. ASSUME NEW o \in OutIds, OpenAfterAll(o) PROVE \E c \in channels : c.out = o
  BY <1>1, <1>3 DEF PacketInv, ChannelsAgree, Outs
<1>4. ASSUME NEW c \in channels PROVE OpenAfterAll(c.out) \/ Returned(c.out)
  BY <1>1, <1>2 DEF PacketInv, ChannelsAgree
<1> QED BY <1>3, <1>4 DEF NextMixAgrees, Returned

(* Whatever happens to the queues of the users.                            *)
LEMMA PacketsStay == PacketInv /\ UNCHANGED tablevars => PacketInv'
<1> SUFFICES ASSUME PacketInv, UNCHANGED tablevars PROVE PacketInv'
  OBVIOUS
<1>1. UNCHANGED <<channels, toMix, fromMix, atMix>> BY DEF tablevars
<1>2. PacketsTyped' /\ OutsUnique' /\ OpenedOnce'
  BY <1>1 DEF PacketInv, PacketsTyped, OutsUnique, OpenedOnce
<1>3. ChannelsAgree' BY <1>1 DEF PacketInv, ChannelsAgree, Outs, Returned
<1> QED BY <1>2, <1>3 DEF PacketInv

(* A new channel gets an id that nobody knows.                             *)
LEMMA OpenAgrees == ASSUME PacketInv, NEW u \in Users, NEW i \in InIds, OpenPacket(u, i) PROVE PacketInv'
<1>1. CASE UNCHANGED <<channels, toMix>>
  BY <1>1, PacketsStay DEF OpenPacket, tablevars
<1>2. CASE ~UNCHANGED <<channels, toMix>>
  <2>1. UNCHANGED <<fromMix, atMix>> BY DEF OpenPacket
  <2>2. PICK o \in Unused : /\ channels' = channels \cup {[user |-> u, in |-> i, out |-> o]}
                            /\ toMix' = Append(toMix, UpPacket("open", o))
    BY <1>2 DEF OpenPacket
  <2> DEFINE p == UpPacket("open", o)
  <2>3. p \in UpPackets /\ p.out = o /\ p.kind = "open" BY DEF UpPackets, UpPacket, Unused
  <2>4. /\ o \in OutIds /\ \A c \in channels : c.out # o
        /\ atMix[o] = None /\ \A k \in DOMAIN toMix : toMix[k].out # o
        /\ ~Returned(o)
    BY DEF Unused, Returned
  <2>5. toMix \in Seq(UpPackets) BY DEF PacketInv, PacketsTyped
  <2> HIDE DEF p
  <2>6. toMix' = Append(toMix, p) BY <2>2 DEF p
  <2>7. toMix' \in Seq(UpPackets) BY <2>3, <2>5, <2>6
  <2>8. PacketsTyped'
    <3>1. IsFiniteSet(channels') BY <2>2, FS_AddElement DEF PacketInv, PacketsTyped
    <3>2. channels' \subseteq [user : Users, in : InIds, out : OutIds]
      BY <2>2, <2>4 DEF PacketInv, PacketsTyped
    <3> QED BY <2>1, <2>7, <3>1, <3>2 DEF PacketInv, PacketsTyped
  <2>9. OutsUnique'
    BY <2>2, <2>4 DEF PacketInv, OutsUnique
  <2>10. OpenedOnce'
    <3>1. \A k \in DOMAIN toMix' : \/ k \in DOMAIN toMix /\ toMix'[k] = toMix[k]
                                   \/ k = Len(toMix) + 1 /\ toMix'[k] = p
      BY <2>3, <2>5, <2>6
    <3> QED BY <2>1, <2>3, <2>4, <3>1 DEF PacketInv, OpenedOnce
  <2>11. ChannelsAgree'
    <3>1. \A q : q \in Outs' <=> q \in Outs \/ q = o
      <4>1. \A q : q \in Outs' <=> \E c \in channels' : c.out = q BY DEF Outs
      <4>2. \A q : q \in Outs <=> \E c \in channels : c.out = q BY DEF Outs
      <4>3. [user |-> u, in |-> i, out |-> o].out = o OBVIOUS
      <4> DEFINE new == [user |-> u, in |-> i, out |-> o]
      <4>4. channels' = channels \cup {new} /\ new.out = o BY <2>2, <4>3
      <4> HIDE DEF new
      <4> QED BY <4>1, <4>2, <4>4
    <3>2. \A q : Returned(q)' <=> Returned(q) BY <2>1 DEF Returned
    <3>3. \A q \in OutIds : WillOpen(toMix', atMix', q) <=> (q = o \/ WillOpen(toMix, atMix, q))
      BY <2>1, <2>3, <2>5, <2>6, WillOpenAppend
    <3> QED BY <2>4, <3>1, <3>2, <3>3 DEF PacketInv, ChannelsAgree
  <2> QED BY <2>8, <2>9, <2>10, <2>11 DEF PacketInv
<1> QED BY <1>1, <1>2

(* Packets that close channels, and take them from the table.              *)
LEMMA ClosesAgree ==
  ASSUME PacketInv, NEW e \in Seq(UpPackets), NEW gone \in SUBSET channels,
         \A k \in DOMAIN e : e[k].kind = "close",
         \A o : (\E c \in gone : c.out = o) <=> (\E k \in DOMAIN e : e[k].out = o),
         toMix' = toMix \o e, channels' = channels \ gone, UNCHANGED <<fromMix, atMix>>
  PROVE  PacketInv'
<1>1. toMix \in Seq(UpPackets) BY DEF PacketInv, PacketsTyped
<1>2. PacketsTyped'
  <2>1. IsFiniteSet(channels \ gone) BY FS_Subset DEF PacketInv, PacketsTyped
  <2>2. toMix \o e \in Seq(UpPackets) BY <1>1
  <2> QED BY <2>1, <2>2 DEF PacketInv, PacketsTyped
<1>3. OutsUnique' BY DEF PacketInv, OutsUnique
<1>4. OpenedOnce'
  <2>1. \A k \in DOMAIN (toMix \o e) :
          \/ k \in DOMAIN toMix /\ (toMix \o e)[k] = toMix[k]
          \/ (toMix \o e)[k].kind = "close"
    BY <1>1
  <2> QED BY <2>1 DEF PacketInv, OpenedOnce
<1>5. ChannelsAgree'
  <2>1. \A o : o \in Outs' <=> o \in Outs /\ ~(\E c \in gone : c.out = o)
    BY DEF PacketInv, OutsUnique, Outs
  <2>2. \A o : Returned(o)' <=> Returned(o) BY DEF Returned
  <2>3. \A o \in OutIds : WillOpen(toMix', atMix', o) <=>
          WillOpen(toMix, atMix, o) /\ ~(\E k \in DOMAIN e : e[k].out = o)
    <3>1. ASSUME NEW o \in OutIds
          PROVE  WillOpen(toMix \o e, atMix, o) <=>
                   WillOpen(toMix, atMix, o) /\ \A k \in DOMAIN e : e[k].out # o
      BY <1>1, WillOpenCloses
    <3> QED BY <3>1
  <2> QED BY <2>1, <2>2, <2>3 DEF PacketInv, ChannelsAgree
<1> QED BY <1>2, <1>3, <1>4, <1>5 DEF PacketInv

(* A CLOSE of the user.                                                    *)
LEMMA ClosePacketAgrees ==
  ASSUME PacketInv, NEW u \in Users, NEW i \in InIds, ClosePacket(u, i) PROVE PacketInv'
<1>1. CASE UNCHANGED <<channels, toMix>>
  BY <1>1, PacketsStay DEF ClosePacket, tablevars
<1>2. CASE ~UNCHANGED <<channels, toMix>>
  <2>1. UNCHANGED <<fromMix, atMix>> BY DEF ClosePacket
  <2>2. PICK c \in Known(u, i) : channels' = channels \ {c} /\ toMix' = Append(toMix, UpPacket("close", c.out))
    BY <1>2 DEF ClosePacket, PassOn
  <2> DEFINE e == <<UpPacket("close", c.out)>>
  <2>3. c \in channels /\ c.out \in OutIds /\ toMix \in Seq(UpPackets)
    BY DEF Known, PacketInv, PacketsTyped
  <2>4. UpPacket("close", c.out) \in UpPackets BY <2>3 DEF UpPacket, UpPackets
  <2>5. e \in Seq(UpPackets) /\ DOMAIN e = {1} /\ e[1].kind = "close" /\ e[1].out = c.out
    BY <2>4 DEF UpPacket
  <2>6. toMix' = toMix \o e BY <2>2, <2>3, <2>4
  <2> HIDE DEF e
  <2>7. \A o : (\E d \in {c} : d.out = o) <=> (\E k \in DOMAIN e : e[k].out = o) BY <2>5
  <2>8. {c} \in SUBSET channels /\ \A k \in DOMAIN e : e[k].kind = "close" BY <2>3, <2>5
  <2>9. channels' = channels \ {c} BY <2>2
  <2> QED BY <2>1, <2>5, <2>6, <2>7, <2>8, <2>9, ClosesAgree
<1> QED BY <1>1, <1>2

(* The end of a connection: all its channels are closed.                   *)
LEMMA ConnectionAgrees ==
  ASSUME PacketInv, NEW u \in Users, ConnectionCloses(u) PROVE PacketInv'
<1>1. /\ ClosesOf(u) \in Seq(UpPackets) /\ \A k \in DOMAIN ClosesOf(u) : ClosesOf(u)[k].kind = "close"
      /\ \A o : (\E c \in Of(u) : c.out = o) <=> (\E k \in DOMAIN ClosesOf(u) : ClosesOf(u)[k].out = o)
  BY ClosesAre DEF PacketInv, PacketsTyped
<1>2. /\ toMix' = toMix \o ClosesOf(u) /\ channels' = channels \ Of(u)
      /\ UNCHANGED <<fromMix, atMix>> /\ Of(u) \in SUBSET channels
  BY DEF ConnectionCloses, CloseConnection, Of
<1> QED BY <1>1, <1>2, ClosesAgree

(* Data of a user changes no channel.                                      *)
LEMMA DataAgrees ==
  ASSUME PacketInv, NEW u \in Users, NEW i \in InIds, DataPacket(u, i) PROVE PacketInv'
<1>1. UNCHANGED <<channels, fromMix, atMix>> BY DEF DataPacket
<1>2. PICK c \in channels : toMix' = Append(toMix, UpPacket("data", c.out)) BY DEF DataPacket, Known
<1> DEFINE p == UpPacket("data", c.out)
<1>3. toMix \in Seq(UpPackets) /\ p \in UpPackets /\ p.kind = "data"
  BY DEF PacketInv, PacketsTyped, UpPacket, UpPackets
<1> HIDE DEF p
<1>4. toMix' = Append(toMix, p) BY <1>2 DEF p
<1>5. PacketsTyped' BY <1>1, <1>3, <1>4 DEF PacketInv, PacketsTyped
<1>6. OutsUnique' BY <1>1 DEF PacketInv, OutsUnique
<1>7. OpenedOnce'
  <2>1. \A k \in DOMAIN toMix' : \/ k \in DOMAIN toMix /\ toMix'[k] = toMix[k]
                                \/ toMix'[k].kind = "data"
    BY <1>3, <1>4
  <2> QED BY <1>1, <2>1 DEF PacketInv, OpenedOnce
<1>8. ChannelsAgree'
  <2>1. \A o \in OutIds : WillOpen(toMix', atMix', o) <=> WillOpen(toMix, atMix, o)
    BY <1>1, <1>3, <1>4, WillOpenAppend
  <2> QED BY <1>1, <2>1 DEF PacketInv, ChannelsAgree, Outs, Returned
<1> QED BY <1>5, <1>6, <1>7, <1>8 DEF PacketInv

(* The next mix does what it is told.                                      *)
LEMMA MixTakesAgrees == ASSUME PacketInv, MixTakes PROVE PacketInv'
<1> DEFINE p == Head(toMix)
<1>1. /\ toMix \in Seq(UpPackets) /\ toMix # <<>> /\ atMix \in [OutIds -> {None} \cup Nat]
      /\ toMix' = Tail(toMix) /\ UNCHANGED <<channels, fromMix>>
  BY DEF PacketInv, PacketsTyped, MixTakes
<1>2. /\ p \in UpPackets /\ p = toMix[1] /\ 1 \in DOMAIN toMix /\ Tail(toMix) \in Seq(UpPackets)
      /\ \A k \in DOMAIN Tail(toMix) : /\ k \in Nat /\ k + 1 \in DOMAIN toMix /\ k + 1 # 1
                                      /\ Tail(toMix)[k] = toMix[k + 1]
  BY <1>1
<1>3. atMix' = CASE p.kind = "open"  -> [atMix EXCEPT ![p.out] = 0]
                 [] p.kind = "close" -> [atMix EXCEPT ![p.out] = None]
                 [] OTHER            -> atMix
  BY DEF MixTakes
<1>4. \A o \in OutIds : WillOpen(toMix', atMix', o) <=> WillOpen(toMix, atMix, o)
  BY <1>1, <1>3, WillOpenTail
<1> HIDE DEF p
<1>5. atMix' \in [OutIds -> {None} \cup Nat]
  BY <1>1, <1>2, <1>3 DEF UpPackets
<1>6. PacketsTyped' BY <1>1, <1>2, <1>5 DEF PacketInv, PacketsTyped
<1>7. OutsUnique' BY <1>1 DEF PacketInv, OutsUnique
<1>8. OpenedOnce'
  <2> SUFFICES ASSUME NEW k \in DOMAIN toMix', toMix'[k].kind = "open"
               PROVE  /\ atMix'[toMix'[k].out] = None
                      /\ \A j \in DOMAIN toMix' :
                           toMix'[j].kind = "open" /\ toMix'[j].out = toMix'[k].out => j = k
    BY DEF OpenedOnce
  <2>1. k + 1 \in DOMAIN toMix /\ k + 1 # 1 /\ toMix'[k] = toMix[k + 1] /\ k \in Nat BY <1>1, <1>2
  <2>2. atMix[toMix'[k].out] = None BY <2>1 DEF PacketInv, OpenedOnce
  <2>3. p.kind = "open" => p.out # toMix'[k].out BY <1>2, <2>1 DEF PacketInv, OpenedOnce
  <2>4. toMix'[k].out \in OutIds
    <3>1. toMix[k + 1] \in UpPackets BY <1>1, <2>1
    <3> QED BY <2>1, <3>1 DEF UpPackets
  <2>5. atMix'[toMix'[k].out] = None BY <1>1, <1>2, <1>3, <2>2, <2>3, <2>4 DEF UpPackets
  <2>6. ASSUME NEW j \in DOMAIN toMix', toMix'[j].kind = "open", toMix'[j].out = toMix'[k].out
        PROVE  j = k
    <3>1. j + 1 \in DOMAIN toMix /\ toMix'[j] = toMix[j + 1] /\ j \in Nat BY <1>1, <1>2
    <3>2. j + 1 = k + 1 BY <2>1, <2>6, <3>1 DEF PacketInv, OpenedOnce
    <3> QED BY <2>1, <3>1, <3>2
  <2> QED BY <2>5, <2>6
<1>9. ChannelsAgree' BY <1>1, <1>4 DEF PacketInv, ChannelsAgree, Outs, Returned
<1> QED BY <1>6, <1>7, <1>8, <1>9 DEF PacketInv

(* The next mix sends data or the CLOSE of a channel that it has open.     *)
LEMMA MixSendsAgrees == ASSUME PacketInv, NEW o \in OutIds, MixSends(o) PROVE PacketInv'
<1>1. /\ UNCHANGED <<channels, toMix>> /\ atMix[o] # None /\ atMix[o] \in Nat
      /\ atMix \in [OutIds -> {None} \cup Nat] /\ fromMix \in Seq(DownPackets)
  BY DEF MixSends, PacketInv, PacketsTyped
<1>2. PICK q \in DownPackets :
        /\ q.out = o /\ fromMix' = Append(fromMix, q)
        /\ \/ q.kind = "data" /\ atMix' = [atMix EXCEPT ![o] = atMix[o] + 1]
           \/ q.kind = "close" /\ atMix' = [atMix EXCEPT ![o] = None]
  <2>1. /\ [kind |-> "data", out |-> o, nr |-> atMix[o] + 1] \in DownPackets
        /\ [kind |-> "close", out |-> o, nr |-> atMix[o]] \in DownPackets
    BY <1>1 DEF DownPackets
  <2> QED BY <2>1 DEF MixSends
<1>3. /\ atMix' \in [OutIds -> {None} \cup Nat] /\ \A x \in OutIds : x # o => atMix'[x] = atMix[x]
      /\ atMix'[o] # None <=> q.kind = "data"
  BY <1>1, <1>2 DEF None
<1>4. /\ fromMix' \in Seq(DownPackets)
      /\ \A k \in DOMAIN fromMix : k \in DOMAIN fromMix' /\ fromMix'[k] = fromMix[k]
      /\ \A k \in DOMAIN fromMix' : k \in DOMAIN fromMix \/ fromMix'[k] = q
      /\ Len(fromMix) + 1 \in DOMAIN fromMix' /\ fromMix'[Len(fromMix) + 1] = q
  BY <1>1, <1>2
<1>5. PacketsTyped' BY <1>1, <1>3, <1>4 DEF PacketInv, PacketsTyped
<1>6. OutsUnique' BY <1>1 DEF PacketInv, OutsUnique
<1>7. \A k \in DOMAIN toMix : toMix[k].kind = "open" => toMix[k].out \in OutIds \ {o}
  <2>1. \A k \in DOMAIN toMix : toMix[k] \in UpPackets BY DEF PacketInv, PacketsTyped
  <2> QED BY <1>1, <2>1 DEF PacketInv, OpenedOnce, UpPackets
<1>8. OpenedOnce'
  BY <1>1, <1>3, <1>7 DEF PacketInv, OpenedOnce
<1>9. ChannelsAgree'
  <2> SUFFICES ASSUME NEW x \in OutIds
               PROVE  WillOpen(toMix, atMix', x) <=> x \in Outs /\ ~Returned(x)'
    BY <1>1 DEF ChannelsAgree, Outs
  <2>1. WillOpen(toMix, atMix, x) <=> x \in Outs /\ ~Returned(x) BY DEF PacketInv, ChannelsAgree
  <2>2. Returned(x)' <=> Returned(x) \/ (x = o /\ q.kind = "close")
    BY <1>2, <1>4 DEF Returned
  <2>3. CASE x # o \/ q.kind = "data"
    <3>1. atMix'[x] # None <=> atMix[x] # None BY <1>1, <1>3, <2>3
    <3>2. WillOpen(toMix, atMix', x) <=> WillOpen(toMix, atMix, x) BY <3>1 DEF WillOpen
    <3>3. Returned(x)' <=> Returned(x) BY <2>2, <2>3
    <3> QED BY <2>1, <3>2, <3>3
  <2>4. CASE x = o /\ q.kind = "close"
    <3>1. \A k : LastAbout(toMix, o, k) => k \in DOMAIN toMix /\ toMix[k].out = o
      BY DEF LastAbout, About
    <3>2. ~WillOpen(toMix, atMix', x) BY <1>3, <1>7, <2>4, <3>1 DEF WillOpen
    <3> QED BY <2>2, <2>4, <3>2
  <2> QED BY <1>2, <2>3, <2>4
<1> QED BY <1>5, <1>6, <1>8, <1>9 DEF PacketInv

(* A packet comes back: of a channel of the table, or of one that is gone. *)
LEMMA FromMixAgrees == ASSUME PacketInv, FromMix PROVE PacketInv'
<1> DEFINE p == Head(fromMix)
<1>1. /\ UNCHANGED <<toMix, atMix>> /\ fromMix \in Seq(DownPackets) /\ fromMix # <<>>
      /\ fromMix' = Tail(fromMix)
  BY DEF PacketInv, PacketsTyped, FromMix
<1>2. /\ p \in DownPackets /\ p = fromMix[1] /\ 1 \in DOMAIN fromMix /\ fromMix' \in Seq(DownPackets)
      /\ \A k \in DOMAIN fromMix' : k + 1 \in DOMAIN fromMix /\ fromMix'[k] = fromMix[k + 1]
      /\ \A k \in DOMAIN fromMix : k # 1 => k - 1 \in DOMAIN fromMix' /\ fromMix'[k - 1] = fromMix[k]
  BY <1>1
<1>3. \/ channels' = channels /\ p.out \notin Outs
      \/ \E c \in channels : c.out = p.out /\ channels' = AfterDown(p, c)
  BY DEF FromMix, Outs
<1> HIDE DEF p
<1>4. \A x : Returned(x) <=> Returned(x)' \/ (x = p.out /\ p.kind = "close")
  BY <1>2 DEF Returned
<1>5. channels' \subseteq channels /\ IsFiniteSet(channels')
  <2>1. channels' \subseteq channels BY <1>3 DEF AfterDown
  <2> QED BY <2>1, FS_Subset DEF PacketInv, PacketsTyped
<1>6. PacketsTyped' BY <1>1, <1>2, <1>5 DEF PacketInv, PacketsTyped
<1>7. OutsUnique' BY <1>5 DEF PacketInv, OutsUnique
<1>8. OpenedOnce' BY <1>1 DEF PacketInv, OpenedOnce
<1>9. ChannelsAgree'
  <2> SUFFICES ASSUME NEW x \in OutIds
               PROVE  WillOpen(toMix, atMix, x) <=> x \in Outs' /\ ~Returned(x)'
    BY <1>1 DEF ChannelsAgree
  <2>1. WillOpen(toMix, atMix, x) <=> x \in Outs /\ ~Returned(x) BY DEF PacketInv, ChannelsAgree
  <2>2. CASE channels' = channels /\ p.out \notin Outs
    <3>1. x \in Outs' <=> x \in Outs BY <2>2 DEF Outs
    <3> QED BY <1>4, <2>1, <2>2, <3>1
  <2>3. ASSUME NEW c \in channels, c.out = p.out, channels' = AfterDown(p, c)
        PROVE  WillOpen(toMix, atMix, x) <=> x \in Outs' /\ ~Returned(x)'
    <3>1. CASE p.kind = "close"
      <4>1. x \in Outs' <=> x \in Outs /\ x # p.out
        BY <2>3, <3>1 DEF AfterDown, Outs, PacketInv, OutsUnique
      <4> QED BY <1>4, <2>1, <3>1, <4>1
    <3>2. CASE p.kind # "close"
      <4>1. x \in Outs' <=> x \in Outs BY <2>3, <3>2 DEF AfterDown, Outs
      <4> QED BY <1>4, <2>1, <3>2, <4>1
    <3> QED BY <3>1, <3>2
  <2> QED BY <1>3, <2>2, <2>3
<1> QED BY <1>6, <1>7, <1>8, <1>9 DEF PacketInv

LEMMA PacketsKeepAgreeing == PacketInv /\ [PNext]_fmvars => PacketInv'
<1> SUFFICES ASSUME PacketInv, [PNext]_fmvars PROVE PacketInv'
  OBVIOUS
<1>1. ASSUME NEW u \in Users,
             \/ UserEnters(u) \/ ForcedOut(u) \/ Kickout(u) \/ ControlPacket(u)
             \/ RefusedByAccounting(u) \/ DummyPacket(u) \/ SendToUser(u)
      PROVE  PacketInv'
  <2>1. UNCHANGED tablevars
    BY <1>1 DEF UserEnters, ForcedOut, Kickout, ControlPacket, RefusedByAccounting, DummyPacket,
                SendToUser, tablevars
  <2> QED BY <2>1, PacketsStay
<1>2. ASSUME NEW u \in Users, ConnectionCloses(u) PROVE PacketInv'
  BY <1>2, ConnectionAgrees
<1>3. ASSUME NEW u \in Users, NEW i \in InIds,
             OpenPacket(u, i) \/ DataPacket(u, i) \/ ClosePacket(u, i)
      PROVE  PacketInv'
  BY <1>3, OpenAgrees, DataAgrees, ClosePacketAgrees
<1>4. CASE MixTakes BY <1>4, MixTakesAgrees
<1>5. CASE FromMix BY <1>5, FromMixAgrees
<1>6. ASSUME NEW o \in OutIds, MixSends(o) PROVE PacketInv' BY <1>6, MixSendsAgrees
<1>7. CASE UNCHANGED fmvars
  <2>1. UNCHANGED tablevars BY <1>7 DEF fmvars, tablevars
  <2> QED BY <2>1, PacketsStay
<1> QED BY <1>1, <1>2, <1>3, <1>4, <1>5, <1>6, <1>7 DEF PNext

(* The first mix and the next mix agree on the channels, for any number of *)
(* users, ids and packets: whichever of them or of the users closes one,   *)
(* and however a connection ends, no channel is left open at one of them   *)
(* that the other does not know.                                           *)
THEOREM MixesAgreeOnChannels == PSpec => []NextMixAgrees
<1>1. PInit => PacketInv BY PacketStart
<1>2. PacketInv /\ [PNext]_fmvars => PacketInv' BY PacketsKeepAgreeing
<1> QED BY <1>1, <1>2, PacketAgrees, PTL DEF PSpec

-----------------------------------------------------------------------------
(* The packet loop: what a user has yet to get of a channel.               *)

(* The packets for a user; those of no channel have an id of their own.    *)
UserPackets == {p \in [kind : {"data", "close", "dummy", "control", "nothing"},
                       in : InIds \cup {-1}, nr : Nat] :
                  p.kind \in {"data", "close"} <=> p.in \in InIds}

Mine(s, i) == {k \in DOMAIN s : s[k].in = i}

QueuesTyped ==
  /\ sendQ \in [Users -> Seq(UserPackets)] /\ part \in [Users -> UserPackets]
  /\ view \in [Users -> [InIds -> {None, Refused} \cup Nat]]

(* Who is not there has no channel open.                                   *)
AbsentAreClosed == \A u \in Users \ here, i \in InIds : view[u][i] \notin Nat

KnownOnce == \A c, d \in channels : c.user = d.user /\ c.in = d.in => c = d

(* No CLOSE is under way to the next mix for a channel of the table.       *)
TableNotClosed ==
  \A c \in channels, k \in DOMAIN toMix : toMix[k].out = c.out => toMix[k].kind # "close"

(* The user's queues bring the packets up to m, and the queue from the     *)
(* next mix those up to e; behind the CLOSE of the user's queues nothing   *)
(* comes, since the channel is not in the table any more.                  *)
Fits(u, i, m, e, y, z) ==
  /\ m \in Nat /\ e \in Nat /\ y \in BOOLEAN /\ z \in BOOLEAN
  /\ InOrder(Unsent(u), InUnsent(u, i), view[u][i], m, y)
  /\ InOrder(fromMix, InFromMix(u, i), m, e, z)
  /\ y => Known(u, i) = {}
  /\ ~y /\ ~z => \E c \in Known(u, i) : SentIn(c) = e

WayFits(u, i) == \E m, e, y, z : Fits(u, i, m, e, y, z)

UserInv ==
  /\ PacketInv /\ QueuesTyped /\ AbsentAreClosed /\ KnownOnce /\ TableNotClosed
  /\ \A u \in (here \cap Users) \ forced, i \in InIds : view[u][i] \in Nat => WayFits(u, i)

(* Queues that hold the same packets of a channel, at other places.        *)
LEMMA OrderMoves ==
  ASSUME NEW s, NEW D \in SUBSET Int, NEW lo, NEW hi, NEW ended,
         InOrder(s, D, lo, hi, ended),
         NEW t, NEW E \in SUBSET Int, NEW d \in Int,
         \A k \in E : k + d \in D /\ t[k] = s[k + d],
         \A k \in D : k - d \in E
  PROVE  InOrder(t, E, lo, hi, ended)
<1>1. lo <= hi BY DEF InOrder
<1>2. \A k \in E : IF t[k].kind = "data" THEN lo < t[k].nr /\ t[k].nr <= hi
                   ELSE ended /\ t[k].kind = "close" /\ t[k].nr = hi
  BY DEF InOrder
<1>3. ASSUME NEW j \in E, NEW k \in E, j < k
      PROVE  t[j].kind = "data" /\ (t[k].kind = "data" => t[j].nr < t[k].nr)
  <2> PICK a, b : a = j + d /\ b = k + d OBVIOUS
  <2>1. a \in D /\ b \in D /\ t[j] = s[a] /\ t[k] = s[b] BY <1>3
  <2>2. j \in Int /\ k \in Int OBVIOUS
  <2>3. a < b BY ONLY <1>3, <2>2, d \in Int, a = j + d /\ b = k + d
  <2>4. \A x, y \in D : x < y => s[x].kind = "data" /\ (s[y].kind = "data" => s[x].nr < s[y].nr)
    BY ONLY InOrder(s, D, lo, hi, ended) DEF InOrder
  <2>5. s[a].kind = "data" /\ (s[b].kind = "data" => s[a].nr < s[b].nr)
    BY ONLY <2>1, <2>3, <2>4
  <2> QED BY ONLY <2>1, <2>5
<1>4. \A k \in D : k - d \in E /\ t[k - d] = s[k]
  <2> SUFFICES ASSUME NEW k \in D PROVE k - d \in E /\ t[k - d] = s[k]
    OBVIOUS
  <2>1. k \in Int OBVIOUS
  <2>2. (k - d) + d = k BY ONLY <2>1, d \in Int
  <2>3. k - d \in E OBVIOUS
  <2> PICK a : a = k - d OBVIOUS
  <2>4. t[a] = s[a + d] BY <2>3
  <2> QED BY <2>2, <2>3, <2>4
<1>5. \A n \in (lo + 1)..hi : \E k \in E : t[k].kind = "data" /\ t[k].nr = n
  BY <1>4 DEF InOrder
<1>6. ended => \E k \in E : t[k].kind = "close"
  BY <1>4 DEF InOrder
<1> QED BY <1>1, <1>2, <1>3, <1>5, <1>6 DEF InOrder

(* A packet behind all others.                                             *)
LEMMA OrderGrows ==
  ASSUME NEW s, NEW D \in SUBSET Int, NEW lo \in Nat, NEW hi \in Nat,
         InOrder(s, D, lo, hi, FALSE), \A k \in D : s[k].nr \in Nat,
         NEW t, NEW n \in Int, \A k \in D : k < n /\ t[k] = s[k]
  PROVE  /\ t[n].kind = "data" /\ t[n].nr = hi + 1 => InOrder(t, D \cup {n}, lo, hi + 1, FALSE)
         /\ t[n].kind = "close" /\ t[n].nr = hi => InOrder(t, D \cup {n}, lo, hi, TRUE)
<1>1. /\ lo <= hi
      /\ \A k \in D : t[k].kind = "data" /\ lo < t[k].nr /\ t[k].nr <= hi /\ t[k].nr \in Nat
      /\ \A j, k \in D : j < k => t[j].nr < t[k].nr
      /\ \A x \in (lo + 1)..hi : \E k \in D : t[k].kind = "data" /\ t[k].nr = x
  BY DEF InOrder
<1>2. ASSUME NEW j \in D \cup {n}, NEW k \in D \cup {n}, j < k
      PROVE  j \in D /\ (k \in D \/ k = n)
  <2>1. j # n
    <3>1. k \in Int /\ (k = n \/ k < n) OBVIOUS
    <3> QED BY ONLY <1>2, <3>1, n \in Int
  <2> QED BY <2>1
<1>3. ASSUME t[n].kind = "data", t[n].nr = hi + 1
      PROVE  InOrder(t, D \cup {n}, lo, hi + 1, FALSE)
  <2>1. ASSUME NEW k \in D \cup {n}
        PROVE  t[k].kind = "data" /\ lo < t[k].nr /\ t[k].nr <= hi + 1
    <3>1. CASE k = n BY <1>1, <1>3, <3>1
    <3>2. CASE k # n
      <4>1. k \in D BY <3>2
      <4>2. t[k].kind = "data" /\ lo < t[k].nr /\ t[k].nr <= hi /\ t[k].nr \in Nat BY ONLY <1>1, <4>1
      <4> QED BY ONLY <4>2, hi \in Nat
    <3> QED BY <3>1, <3>2
  <2>2. ASSUME NEW j \in D \cup {n}, NEW k \in D \cup {n}, j < k
        PROVE  t[j].kind = "data" /\ (t[k].kind = "data" => t[j].nr < t[k].nr)
    <3>1. j \in D /\ (k \in D \/ k = n) BY ONLY <1>2, <2>2
    <3>2. t[j].kind = "data" /\ t[j].nr <= hi /\ t[j].nr \in Nat BY ONLY <1>1, <3>1
    <3>3. k \in D => t[j].nr < t[k].nr BY ONLY <1>1, <2>2, <3>1
    <3>4. k = n => t[j].nr < t[k].nr BY ONLY <1>3, <3>2, hi \in Nat
    <3> QED BY ONLY <3>1, <3>2, <3>3, <3>4
  <2>3. \A x \in (lo + 1)..(hi + 1) : \E k \in D \cup {n} : t[k].kind = "data" /\ t[k].nr = x
    <3> SUFFICES ASSUME NEW x \in (lo + 1)..(hi + 1)
                 PROVE  \E k \in D \cup {n} : t[k].kind = "data" /\ t[k].nr = x
      OBVIOUS
    <3>1. CASE x = hi + 1 BY <1>3, <3>1
    <3>2. CASE x # hi + 1
      <4>1. x \in (lo + 1)..hi BY <3>2
      <4> QED BY <1>1, <4>1
    <3> QED BY <3>1, <3>2
  <2>4. lo <= hi + 1 BY <1>1
  <2> QED BY <2>1, <2>2, <2>3, <2>4 DEF InOrder
<1>4. ASSUME t[n].kind = "close", t[n].nr = hi
      PROVE  InOrder(t, D \cup {n}, lo, hi, TRUE)
  <2>1. \A k \in D \cup {n} : IF t[k].kind = "data" THEN lo < t[k].nr /\ t[k].nr <= hi
                             ELSE t[k].kind = "close" /\ t[k].nr = hi
    BY <1>1, <1>4
  <2>2. ASSUME NEW j \in D \cup {n}, NEW k \in D \cup {n}, j < k
        PROVE  t[j].kind = "data" /\ (t[k].kind = "data" => t[j].nr < t[k].nr)
    <3>1. j \in D /\ (k \in D \/ k = n) BY ONLY <1>2, <2>2
    <3>2. t[j].kind = "data" BY ONLY <1>1, <3>1
    <3>3. k \in D => t[j].nr < t[k].nr BY ONLY <1>1, <2>2, <3>1
    <3>4. k = n => t[k].kind # "data" BY ONLY <1>4
    <3> QED BY ONLY <3>1, <3>2, <3>3, <3>4
  <2> QED BY <1>1, <1>4, <2>1, <2>2 DEF InOrder
<1> QED BY <1>3, <1>4

(* The packet at the first place f is the next one, or the CLOSE, which is *)
(* the last.                                                               *)
NextTaken(s, D, f, lo, hi, ended) ==
  /\ s[f].kind = "data" => /\ s[f].nr = lo + 1 /\ lo + 1 <= hi
                           /\ InOrder(s, D \ {f}, lo + 1, hi, ended)
  /\ s[f].kind # "data" => /\ s[f].kind = "close" /\ ended /\ D = {f}
                           /\ s[f].nr = hi /\ lo = hi

(* The first packet is taken.                                              *)
LEMMA OrderTaken ==
  ASSUME NEW s, NEW D \in SUBSET Int, NEW lo \in Nat, NEW hi \in Nat, NEW ended \in BOOLEAN,
         InOrder(s, D, lo, hi, ended), \A k \in D : s[k].nr \in Nat,
         NEW f \in D, \A k \in D : f <= k
  PROVE  NextTaken(s, D, f, lo, hi, ended)
<1>1. /\ lo <= hi
      /\ \A k \in D : IF s[k].kind = "data" THEN lo < s[k].nr /\ s[k].nr <= hi
                      ELSE ended /\ s[k].kind = "close" /\ s[k].nr = hi
      /\ \A j, k \in D : j < k => s[j].kind = "data" /\ (s[k].kind = "data" => s[j].nr < s[k].nr)
      /\ \A n \in (lo + 1)..hi : \E k \in D : s[k].kind = "data" /\ s[k].nr = n
      /\ ended => \E k \in D : s[k].kind = "close"
  BY DEF InOrder
<1>2. \A k \in D : k # f => f < k
  OBVIOUS
<1>3. ASSUME s[f].kind = "data"
      PROVE  s[f].nr = lo + 1 /\ lo + 1 <= hi /\ InOrder(s, D \ {f}, lo + 1, hi, ended)
  <2>1. lo < s[f].nr /\ s[f].nr <= hi BY <1>1, <1>3
  <2>2. lo + 1 \in (lo + 1)..hi
    <3>1. s[f].nr \in Nat OBVIOUS
    <3> PICK x : x = s[f].nr OBVIOUS
    <3> QED BY ONLY <2>1, <3>1, x = s[f].nr, lo \in Nat, hi \in Nat
  <2>3. PICK k \in D : s[k].kind = "data" /\ s[k].nr = lo + 1 BY <1>1, <2>2
  <2>4. s[f].nr = lo + 1
    <3>1. CASE k = f BY <2>3, <3>1
    <3>2. CASE k # f
      <4>1. s[f].nr < lo + 1 BY <1>1, <1>2, <2>3, <3>2
      <4> QED BY <2>1, <4>1
    <3> QED BY <3>1, <3>2
  <2>5. \A j \in D \ {f} : IF s[j].kind = "data" THEN lo + 1 < s[j].nr /\ s[j].nr <= hi
                           ELSE ended /\ s[j].kind = "close" /\ s[j].nr = hi
    BY <1>1, <1>2, <2>4
  <2>6. \A n \in ((lo + 1) + 1)..hi : \E j \in D \ {f} : s[j].kind = "data" /\ s[j].nr = n
    <3> SUFFICES ASSUME NEW n \in ((lo + 1) + 1)..hi
                 PROVE  \E j \in D \ {f} : s[j].kind = "data" /\ s[j].nr = n
      OBVIOUS
    <3>1. n \in (lo + 1)..hi /\ n # lo + 1 OBVIOUS
    <3> QED BY <1>1, <2>4, <3>1
  <2>7. ended => \E j \in D \ {f} : s[j].kind = "close" BY <1>1, <1>3
  <2>8. lo + 1 <= hi BY <2>1, <2>4
  <2> QED BY <1>1, <2>4, <2>5, <2>6, <2>7, <2>8 DEF InOrder
<1>4. ASSUME s[f].kind # "data"
      PROVE  s[f].kind = "close" /\ ended /\ D = {f} /\ s[f].nr = hi /\ lo = hi
  <2>1. s[f].kind = "close" /\ ended /\ s[f].nr = hi BY <1>1, <1>4
  <2>2. D = {f} BY <1>1, <1>2, <1>4
  <2>3. ~(lo < hi)
    <3>1. lo < hi => hi \in (lo + 1)..hi OBVIOUS
    <3> QED BY <1>1, <1>4, <2>2, <3>1
  <2> QED BY <1>1, <2>1, <2>2, <2>3
<1> QED BY <1>3, <1>4 DEF NextTaken

(* Queue w is queue t behind queue s, which is n long: with the places E   *)
(* of the one and D of the other there.                                    *)
JoinedTo(w, mine, s, D, t, E, n) ==
  /\ mine = D \cup {n + k : k \in E}
  /\ \A k \in D : k <= n /\ w[k] = s[k]
  /\ \A k \in E : k >= 1 /\ w[n + k] = t[k]

(* Two queues, one behind the other.                                       *)
LEMMA OrderJoins ==
  ASSUME NEW s, NEW D \in SUBSET Int, NEW lo \in Nat, NEW m \in Nat, NEW y \in BOOLEAN,
         NEW t, NEW E \in SUBSET Int, NEW hi \in Nat, NEW z \in BOOLEAN,
         InOrder(s, D, lo, m, y), InOrder(t, E, m, hi, z), y => E = {},
         \A k \in D : s[k].nr \in Nat, \A k \in E : t[k].nr \in Nat,
         NEW w, NEW mine, NEW n \in Nat, JoinedTo(w, mine, s, D, t, E, n)
  PROVE  InOrder(w, mine, lo, hi, y \/ z)
<1> PICK F : F = {n + k : k \in E} OBVIOUS
<1> PICK G : G = D \cup F OBVIOUS
<1>0. /\ mine = G
      /\ \A k \in D : k <= n /\ w[k] = s[k]
      /\ \A k \in E : k >= 1 /\ w[n + k] = t[k]
  BY DEF JoinedTo
<1> USE <1>0
<1>1. /\ lo <= m
      /\ \A k \in D : IF w[k].kind = "data" THEN lo < w[k].nr /\ w[k].nr <= m
                      ELSE y /\ w[k].kind = "close" /\ w[k].nr = m
      /\ \A j, k \in D : j < k => w[j].kind = "data" /\ (w[k].kind = "data" => w[j].nr < w[k].nr)
      /\ \A x \in (lo + 1)..m : \E k \in D : w[k].kind = "data" /\ w[k].nr = x
      /\ y => \E k \in D : w[k].kind = "close"
      /\ \A k \in D : k <= n /\ w[k].nr \in Nat
  BY DEF InOrder
<1>2. InOrder(w, F, m, hi, z)
  <2>1. \A k \in F : k - n \in E /\ k \in Int BY F = {n + k : k \in E}
  <2>2. \A k \in E : k - (-n) \in F BY F = {n + k : k \in E}
  <2>3. \A k \in F : k + (-n) \in E /\ w[k] = t[k + (-n)]
    <3> SUFFICES ASSUME NEW k \in F PROVE k + (-n) \in E /\ w[k] = t[k + (-n)]
      OBVIOUS
    <3>1. PICK j \in E : k = n + j BY F = {n + j : j \in E}
    <3> QED BY <3>1
  <2>4. F \in SUBSET Int /\ -n \in Int BY <2>1
  <2> QED BY <2>2, <2>3, <2>4, OrderMoves
<1>3. /\ m <= hi
      /\ \A k \in F : IF w[k].kind = "data" THEN m < w[k].nr /\ w[k].nr <= hi
                      ELSE z /\ w[k].kind = "close" /\ w[k].nr = hi
      /\ \A j, k \in F : j < k => w[j].kind = "data" /\ (w[k].kind = "data" => w[j].nr < w[k].nr)
      /\ \A x \in (m + 1)..hi : \E k \in F : w[k].kind = "data" /\ w[k].nr = x
      /\ z => \E k \in F : w[k].kind = "close"
  BY <1>2 DEF InOrder
<1>4. \A k \in F : k \in Int /\ k > n /\ w[k].nr \in Nat
  <2> SUFFICES ASSUME NEW k \in F PROVE k \in Int /\ k > n /\ w[k].nr \in Nat
    OBVIOUS
  <2>1. PICK j \in E : k = n + j BY F = {n + j : j \in E}
  <2> QED BY <2>1
<1>5. y => F = {} /\ m = hi
  <2> SUFFICES ASSUME y PROVE F = {} /\ m = hi OBVIOUS
  <2>1. F = {} BY F = {n + j : j \in E}
  <2>2. m < hi => hi \in (m + 1)..hi OBVIOUS
  <2> QED BY <1>3, <2>1, <2>2
<1>6. \A k \in G : IF w[k].kind = "data" THEN lo < w[k].nr /\ w[k].nr <= hi
                   ELSE (y \/ z) /\ w[k].kind = "close" /\ w[k].nr = hi
  <2> SUFFICES ASSUME NEW k \in G
               PROVE  IF w[k].kind = "data" THEN lo < w[k].nr /\ w[k].nr <= hi
                      ELSE (y \/ z) /\ w[k].kind = "close" /\ w[k].nr = hi
    OBVIOUS
  <2>1. CASE k \in D BY <1>1, <1>3, <1>5, <2>1
  <2>2. CASE k \in F BY <1>1, <1>3, <1>4, <2>2
  <2> QED BY <2>1, <2>2
<1>7. ASSUME NEW j \in G, NEW k \in G, j < k
      PROVE  w[j].kind = "data" /\ (w[k].kind = "data" => w[j].nr < w[k].nr)
  <2>1. CASE j \in D /\ k \in D BY <1>1, <1>7, <2>1
  <2>2. CASE j \in D /\ k \in F BY <1>1, <1>3, <1>4, <1>5, <2>2
  <2>3. CASE j \in F /\ k \in F BY <1>3, <1>7, <2>3
  <2>4. ~(j \in F /\ k \in D) BY <1>1, <1>4, <1>7
  <2> QED BY <2>1, <2>2, <2>3, <2>4
<1>8. \A x \in (lo + 1)..hi : \E k \in G : w[k].kind = "data" /\ w[k].nr = x
  <2> SUFFICES ASSUME NEW x \in (lo + 1)..hi
               PROVE  \E k \in G : w[k].kind = "data" /\ w[k].nr = x
    OBVIOUS
  <2>1. x \in (lo + 1)..m \/ x \in (m + 1)..hi BY <1>1, <1>3
  <2> QED BY <1>1, <1>3, <2>1
<1>9. (y \/ z) => \E k \in G : w[k].kind = "close" BY <1>1, <1>3
<1>10. lo <= hi BY <1>1, <1>3
<1>11. InOrder(w, G, lo, hi, y \/ z) BY <1>6, <1>7, <1>8, <1>9, <1>10 DEF InOrder
<1> QED BY <1>11

LEMMA KindsOfPackets ==
  /\ Nothing \in UserPackets /\ Control \in UserPackets
  /\ Nothing.in \notin InIds /\ Control.in \notin InIds
  /\ Nothing.kind = "nothing" /\ Control.kind = "control"
  /\ DownPacket("dummy", -1, 0) \in UserPackets /\ DownPacket("dummy", -1, 0).in \notin InIds
  /\ \A p \in UserPackets : p.nr \in Nat /\ (p.in \in InIds <=> p.kind \in {"data", "close"})
<1>1. -1 \notin InIds BY PacketAssumption DEF PacketAssumption
<1> QED BY <1>1 DEF Nothing, Control, DownPacket, UserPackets

(* One packet in front of a queue.                                         *)
LEMMA PacketInFront ==
  ASSUME NEW p \in UserPackets, NEW q \in Seq(UserPackets)
  PROVE  LET s == <<p>> \o q
         IN  /\ s \in Seq(UserPackets) /\ Len(s) = Len(q) + 1 /\ Len(s) \in Nat
             /\ DOMAIN s = 1..(Len(q) + 1) /\ s[1] = p
             /\ \A k \in 1..Len(q) : s[k + 1] = q[k]
OBVIOUS

LEMMA UnsentTyped ==
  ASSUME QueuesTyped, NEW u \in Users
  PROVE  /\ Unsent(u) \in Seq(UserPackets) /\ Len(Unsent(u)) \in Nat
         /\ Len(Unsent(u)) = Len(sendQ[u]) + 1 /\ Unsent(u)[1] = part[u]
BY PacketInFront DEF QueuesTyped, Unsent

(* The places of a channel are numbers, with numbered packets.             *)
LEMMA MineTyped ==
  ASSUME NEW s \in Seq(UserPackets), NEW i
  PROVE  Mine(s, i) \in SUBSET Int /\ \A k \in Mine(s, i) : s[k].nr \in Nat /\ k >= 1 /\ k <= Len(s)
<1>1. ASSUME NEW k \in Mine(s, i) PROVE k \in 1..Len(s) /\ s[k] \in UserPackets
  BY DEF Mine
<1> QED BY <1>1, KindsOfPackets

LEMMA UnsentIsMine == \A u, i : InUnsent(u, i) = Mine(Unsent(u), i)
BY DEF InUnsent, Mine

LEMMA FromMixTyped ==
  ASSUME PacketInv, NEW u, NEW i
  PROVE  /\ InFromMix(u, i) \in SUBSET Int
         /\ \A k \in InFromMix(u, i) : /\ fromMix[k].nr \in Nat /\ k >= 1
                                       /\ fromMix[k] \in DownPackets
<1>1. fromMix \in Seq(DownPackets) BY DEF PacketInv, PacketsTyped
<1>2. ASSUME NEW k \in InFromMix(u, i) PROVE k \in 1..Len(fromMix) /\ fromMix[k] \in DownPackets
  BY <1>1 DEF InFromMix
<1>3. \A p \in DownPackets : p.nr \in Nat BY DEF DownPackets
<1> QED BY <1>2, <1>3

(* Whose packets nobody touches.                                           *)
LEMMA SameWay ==
  ASSUME NEW u, NEW i, WayFits(u, i),
         part'[u] = part[u], sendQ'[u] = sendQ[u], view'[u][i] = view[u][i],
         fromMix' = fromMix, Known(u, i)' = Known(u, i),
         \A c \in Known(u, i) : SentIn(c)' = SentIn(c)
  PROVE  WayFits(u, i)'
<1> PICK m, e, y, z : Fits(u, i, m, e, y, z) BY DEF WayFits
<1>1. Unsent(u)' = Unsent(u) BY DEF Unsent
<1>2. InUnsent(u, i)' = InUnsent(u, i) BY <1>1 DEF InUnsent
<1>3. InFromMix(u, i)' = InFromMix(u, i) BY DEF InFromMix
<1>4. Fits(u, i, m, e, y, z)' BY <1>1, <1>2, <1>3 DEF Fits
<1> QED BY <1>4 DEF WayFits

LEMMA KnownStays == UNCHANGED channels => \A u, i : Known(u, i)' = Known(u, i)
BY DEF Known

LEMMA SentStays == UNCHANGED atMix => \A c : SentIn(c)' = SentIn(c)
BY DEF SentIn

(* A packet of another channel, or of none, joins the user's queue.        *)
LEMMA OthersJoin ==
  ASSUME NEW s \in Seq(UserPackets), NEW p \in UserPackets, NEW i, p.in # i,
         NEW lo, NEW hi, NEW ended, InOrder(s, Mine(s, i), lo, hi, ended)
  PROVE  InOrder(Append(s, p), Mine(Append(s, p), i), lo, hi, ended)
<1> PICK t : t = Append(s, p) OBVIOUS
<1>1. /\ t \in Seq(UserPackets) /\ Len(t) = Len(s) + 1 /\ Len(s) \in Nat
      /\ t[Len(s) + 1] = p /\ \A k \in 1..Len(s) : t[k] = s[k]
  OBVIOUS
<1>2. Mine(t, i) = Mine(s, i)
  <2>1. ASSUME NEW k \in 1..(Len(s) + 1) PROVE t[k].in = i <=> k \in 1..Len(s) /\ s[k].in = i
    <3>1. CASE k = Len(s) + 1 BY <1>1, <3>1
    <3>2. CASE k # Len(s) + 1
      <4>1. k \in 1..Len(s) BY <1>1, <3>2
      <4> QED BY <1>1, <4>1
    <3> QED BY <3>1, <3>2
  <2>2. DOMAIN t = 1..(Len(s) + 1) /\ DOMAIN s = 1..Len(s) BY <1>1
  <2>3. 1..Len(s) \subseteq 1..(Len(s) + 1) BY <1>1
  <2> QED BY <2>1, <2>2, <2>3 DEF Mine
<1>3. Mine(s, i) \in SUBSET Int /\ \A k \in Mine(s, i) : k \in 1..Len(s)
  BY MineTyped
<1>4. \A k \in Mine(t, i) : k + 0 \in Mine(s, i) /\ t[k] = s[k + 0]
  BY <1>1, <1>2, <1>3
<1>5. \A k \in Mine(s, i) : k - 0 \in Mine(t, i)
  BY <1>2, <1>3
<1>6. InOrder(s, Mine(s, i), lo, hi, ended) /\ Mine(t, i) \in SUBSET Int BY <1>2, <1>3
<1>7. InOrder(t, Mine(t, i), lo, hi, ended)
  BY ONLY <1>3, <1>4, <1>5, <1>6, OrderMoves, 0 \in Int
<1> QED BY <1>7

(* The first packet of the user's queue is one of no channel, or of        *)
(* another, and another such takes its place.                              *)
LEMMA FrontReplaced ==
  ASSUME NEW p \in UserPackets, NEW r \in UserPackets, NEW q \in Seq(UserPackets), NEW i,
         p.in # i, r.in # i, NEW lo, NEW hi, NEW ended,
         InOrder(<<p>> \o q, Mine(<<p>> \o q, i), lo, hi, ended)
  PROVE  InOrder(<<r>> \o q, Mine(<<r>> \o q, i), lo, hi, ended)
<1> PICK s, t : s = <<p>> \o q /\ t = <<r>> \o q OBVIOUS
<1>1. /\ DOMAIN s = 1..(Len(q) + 1) /\ s[1] = p /\ \A k \in 1..Len(q) : s[k + 1] = q[k]
      /\ DOMAIN t = 1..(Len(q) + 1) /\ t[1] = r /\ \A k \in 1..Len(q) : t[k + 1] = q[k]
      /\ Len(q) \in Nat /\ s \in Seq(UserPackets)
  BY PacketInFront
<1>2. ASSUME NEW k \in 1..(Len(q) + 1), k # 1 PROVE s[k] = t[k]
  <2>1. k - 1 \in 1..Len(q) /\ (k - 1) + 1 = k BY <1>1, <1>2
  <2> QED BY <1>1, <2>1
<1>3. Mine(t, i) = Mine(s, i) /\ \A k \in Mine(s, i) : k # 1 /\ k \in 1..(Len(q) + 1)
  BY <1>1, <1>2 DEF Mine
<1>4. \A k \in Mine(t, i) : k + 0 \in Mine(s, i) /\ t[k] = s[k + 0]
  BY <1>2, <1>3
<1>5. \A k \in Mine(s, i) : k - 0 \in Mine(t, i)
  BY <1>3
<1>6. Mine(s, i) \in SUBSET Int BY <1>3
<1>7. InOrder(t, Mine(t, i), lo, hi, ended)
  BY <1>3, <1>4, <1>5, <1>6, OrderMoves
<1> QED BY <1>7

(* A packet of no channel leaves the front of the queue.                   *)
LEMMA FrontGone ==
  ASSUME NEW p \in UserPackets, NEW q \in Seq(UserPackets), NEW i, p.in # i,
         NEW lo, NEW hi, NEW ended,
         InOrder(<<p>> \o q, Mine(<<p>> \o q, i), lo, hi, ended)
  PROVE  InOrder(q, Mine(q, i), lo, hi, ended)
<1> PICK s : s = <<p>> \o q OBVIOUS
<1>1. /\ DOMAIN s = 1..(Len(q) + 1) /\ s[1] = p /\ \A k \in 1..Len(q) : s[k + 1] = q[k]
      /\ Len(q) \in Nat /\ DOMAIN q = 1..Len(q)
  BY PacketInFront
<1>2. \A k \in Mine(q, i) : k + 1 \in Mine(s, i) /\ q[k] = s[k + 1]
  BY <1>1 DEF Mine
<1>3. \A k \in Mine(s, i) : k - 1 \in Mine(q, i)
  <2> SUFFICES ASSUME NEW k \in Mine(s, i) PROVE k - 1 \in Mine(q, i)
    OBVIOUS
  <2>1. k \in 1..(Len(q) + 1) /\ k # 1 /\ s[k].in = i BY <1>1 DEF Mine
  <2>2. k - 1 \in 1..Len(q) /\ (k - 1) + 1 = k BY <1>1, <2>1
  <2>3. s[k] = q[k - 1] BY <1>1, <2>2
  <2> QED BY <1>1, <2>1, <2>2, <2>3 DEF Mine
<1>4. Mine(s, i) \in SUBSET Int /\ Mine(q, i) \in SUBSET Int BY <1>1 DEF Mine
<1>5. InOrder(s, Mine(s, i), lo, hi, ended) OBVIOUS
<1>6. InOrder(q, Mine(q, i), lo, hi, ended)
  BY ONLY <1>2, <1>3, <1>4, <1>5, OrderMoves, 1 \in Int
<1> QED BY <1>6

(* The user gets the first packet: the next of the channel, or the last.   *)
LEMMA FrontTaken ==
  ASSUME NEW p \in UserPackets, NEW r \in UserPackets, NEW q \in Seq(UserPackets), NEW i,
         p.in = i, r.in # i, NEW lo \in Nat, NEW hi \in Nat, NEW ended \in BOOLEAN,
         InOrder(<<p>> \o q, Mine(<<p>> \o q, i), lo, hi, ended), p.kind = "data"
  PROVE  InOrder(<<r>> \o q, Mine(<<r>> \o q, i), lo + 1, hi, ended)
<1> PICK s, t : s = <<p>> \o q /\ t = <<r>> \o q OBVIOUS
<1>1. /\ DOMAIN s = 1..(Len(q) + 1) /\ s[1] = p /\ \A k \in 1..Len(q) : s[k + 1] = q[k]
      /\ DOMAIN t = 1..(Len(q) + 1) /\ t[1] = r /\ \A k \in 1..Len(q) : t[k + 1] = q[k]
      /\ Len(q) \in Nat /\ s \in Seq(UserPackets)
  BY PacketInFront
<1> PICK D : D = Mine(s, i) OBVIOUS
<1>2. /\ D \in SUBSET Int /\ \A k \in D : s[k].nr \in Nat /\ 1 <= k
      /\ InOrder(s, D, lo, hi, ended)
  BY <1>1, MineTyped
<1>3. 1 \in D
  <2>1. 1 \in 1..(Len(q) + 1) BY <1>1
  <2> QED BY <1>1, <2>1, D = Mine(s, i) DEF Mine
<1>4. InOrder(s, D \ {1}, lo + 1, hi, ended)
  <2>1. s[1].kind = "data" BY <1>1
  <2>2. NextTaken(s, D, 1, lo, hi, ended)
    BY ONLY <1>2, <1>3, OrderTaken, lo \in Nat, hi \in Nat, ended \in BOOLEAN
  <2> QED BY <2>1, <2>2 DEF NextTaken
<1>5. ASSUME NEW k \in 1..(Len(q) + 1), k # 1 PROVE s[k] = t[k]
  <2>1. k - 1 \in 1..Len(q) /\ (k - 1) + 1 = k BY <1>1, <1>5
  <2> QED BY <1>1, <2>1
<1>6. Mine(t, i) = D \ {1} /\ \A k \in D : k \in 1..(Len(q) + 1)
  BY <1>1, <1>5, D = Mine(s, i) DEF Mine
<1>0. \A k \in Int : k + 0 = k /\ k - 0 = k BY ONLY SMT
<1>7. \A k \in Mine(t, i) : k + 0 \in D \ {1} /\ t[k] = s[k + 0]
  <2> SUFFICES ASSUME NEW k \in Mine(t, i) PROVE k + 0 \in D \ {1} /\ t[k] = s[k + 0]
    OBVIOUS
  <2>1. k \in D \ {1} /\ k \in 1..(Len(q) + 1) BY ONLY <1>6
  <2>2. s[k] = t[k] BY ONLY <1>5, <2>1
  <2>3. k + 0 = k BY ONLY <1>0, <2>1, Len(q) \in Nat
  <2> QED BY ONLY <2>1, <2>2, <2>3
<1>8. \A k \in D \ {1} : k - 0 \in Mine(t, i)
  <2> SUFFICES ASSUME NEW k \in D \ {1} PROVE k - 0 \in Mine(t, i)
    OBVIOUS
  <2>1. k \in 1..(Len(q) + 1) BY ONLY <1>6
  <2>2. k - 0 = k BY ONLY <1>0, <2>1, Len(q) \in Nat
  <2> QED BY ONLY <1>6, <2>2
<1>9. D \ {1} \in SUBSET Int /\ Mine(t, i) \in SUBSET Int BY <1>2, <1>6
<1>10. InOrder(t, Mine(t, i), lo + 1, hi, ended)
  BY ONLY <1>4, <1>7, <1>8, <1>9, OrderMoves, 0 \in Int
<1> QED BY <1>10

(* What UserInv says, for the steps.                                       *)
LEMMA UserFacts ==
  ASSUME UserInv
  PROVE  /\ PacketInv /\ QueuesTyped /\ AbsentAreClosed /\ KnownOnce /\ TableNotClosed
         /\ channels \subseteq [user : Users, in : InIds, out : OutIds]
         /\ atMix \in [OutIds -> {None} \cup Nat]
         /\ toMix \in Seq(UpPackets) /\ fromMix \in Seq(DownPackets)
         /\ None \notin Nat /\ Refused \notin Nat /\ None \in Int /\ Refused \in Int
BY DEF UserInv, PacketInv, PacketsTyped, None, Refused

(* Who is there, is not being kicked out and has channel i open.           *)
Concerned(u, i) == u \in (here \cap Users) \ forced /\ i \in InIds /\ view[u][i] \in Nat

LEMMA ConcernedFit == ASSUME UserInv, NEW u, NEW i, Concerned(u, i) PROVE WayFits(u, i)
BY DEF UserInv, Concerned

LEMMA AllFit ==
  ASSUME PacketInv', QueuesTyped', AbsentAreClosed', KnownOnce', TableNotClosed',
         \A u, i : Concerned(u, i)' => WayFits(u, i)'
  PROVE  UserInv'
<1>1. \A u \in ((here \cap Users) \ forced)', i \in InIds : view'[u][i] \in Nat => WayFits(u, i)'
  BY DEF Concerned
<1> QED BY <1>1 DEF UserInv

(* A queue that gets shorter, or longer by what closes no channel of the   *)
(* table.                                                                  *)
LEMMA TableStaysOpen ==
  ASSUME TableNotClosed, channels' \subseteq channels,
         \A k \in DOMAIN toMix' : \/ \E j \in DOMAIN toMix : toMix'[k] = toMix[j]
                                 \/ toMix'[k].kind # "close"
                                 \/ \A c \in channels' : c.out # toMix'[k].out
  PROVE  TableNotClosed'
BY DEF TableNotClosed

LEMMA UserStart == PInit => UserInv
<1> SUFFICES ASSUME PInit PROVE UserInv
  OBVIOUS
<1>1. PacketInv BY PacketStart
<1>2. QueuesTyped BY KindsOfPackets DEF PInit, QueuesTyped
<1>3. KnownOnce /\ TableNotClosed /\ here = {} BY DEF PInit, KnownOnce, TableNotClosed
<1>4. AbsentAreClosed BY DEF PInit, AbsentAreClosed, None
<1> QED BY <1>1, <1>2, <1>3, <1>4 DEF UserInv

(* Steps that leave what a user has yet to get alone.                      *)
LEMMA QuietSteps ==
  ASSUME UserInv, PacketInv', NEW u \in Users,
         \/ UserEnters(u) \/ ForcedOut(u) \/ ControlPacket(u) \/ RefusedByAccounting(u)
         \/ \E i \in InIds : DataPacket(u, i)
  PROVE  UserInv'
<1>1. UNCHANGED <<channels, fromMix, sendQ, part, view, atMix>>
  BY DEF UserEnters, ForcedOut, ControlPacket, RefusedByAccounting, DataPacket
<1>2. here \subseteq here' /\ here' \subseteq here \cup {u} /\ forced \subseteq forced'
  BY DEF UserEnters, ForcedOut, ControlPacket, RefusedByAccounting, DataPacket
<1>3. QueuesTyped' /\ KnownOnce' /\ AbsentAreClosed'
  BY <1>1, <1>2, UserFacts DEF QueuesTyped, KnownOnce, AbsentAreClosed
<1>4. TableNotClosed'
  <2>1. CASE UNCHANGED toMix
    BY <1>1, <2>1, UserFacts DEF TableNotClosed
  <2>2. CASE \E i \in InIds : DataPacket(u, i)
    <3>1. PICK o : toMix' = Append(toMix, UpPacket("data", o)) BY <2>2 DEF DataPacket
    <3>2. UpPacket("data", o).kind # "close" BY DEF UpPacket
    <3>3. \A k \in DOMAIN toMix' : \/ \E j \in DOMAIN toMix : toMix'[k] = toMix[j]
                                  \/ toMix'[k].kind # "close"
      BY <3>1, <3>2, UserFacts
    <3> QED BY <1>1, <3>3, UserFacts, TableStaysOpen
  <2> QED BY <2>1, <2>2 DEF UserEnters, ForcedOut, ControlPacket, RefusedByAccounting
<1>5. ASSUME NEW w, NEW j, Concerned(w, j)' PROVE WayFits(w, j)'
  <2>1. w \in here
    <3>1. view[w][j] \in Nat /\ w \in Users /\ j \in InIds BY <1>1, <1>5 DEF Concerned
    <3> QED BY <3>1, UserFacts DEF AbsentAreClosed
  <2>2. Concerned(w, j) BY <1>1, <1>2, <1>5, <2>1 DEF Concerned
  <2> QED BY <1>1, <2>2, ConcernedFit, SameWay, KnownStays, SentStays
<1> QED BY <1>3, <1>4, <1>5, AllFit

(* A kickout drops what waits for a user: who is kicked out gets no more.  *)
LEMMA KickoutSteps ==
  ASSUME UserInv, PacketInv', NEW u \in Users, Kickout(u)
  PROVE  UserInv'
<1>1. /\ UNCHANGED <<here, forced, channels, toMix, fromMix, part, view, atMix>>
      /\ sendQ' = [sendQ EXCEPT ![u] = <<>>] /\ u \in forced
  BY DEF Kickout
<1>2. QueuesTyped' /\ KnownOnce' /\ AbsentAreClosed' /\ TableNotClosed'
  BY <1>1, UserFacts DEF QueuesTyped, KnownOnce, AbsentAreClosed, TableNotClosed
<1>3. ASSUME NEW w, NEW j, Concerned(w, j)' PROVE WayFits(w, j)'
  <2>1. Concerned(w, j) /\ w # u /\ w \in Users BY <1>1, <1>3 DEF Concerned
  <2>2. sendQ'[w] = sendQ[w] BY <1>1, <2>1, UserFacts DEF QueuesTyped
  <2> QED BY <1>1, <2>1, <2>2, ConcernedFit, SameWay, KnownStays, SentStays
<1> QED BY <1>2, <1>3, AllFit

(* The end of a connection: nothing of the user is left.                   *)
LEMMA ConnectionEnds ==
  ASSUME UserInv, PacketInv', NEW u \in Users, ConnectionCloses(u)
  PROVE  UserInv'
<1>1. /\ toMix' = toMix \o ClosesOf(u) /\ channels' = channels \ Of(u)
      /\ here' = here \ {u} /\ forced' = forced \ {u} /\ UNCHANGED <<fromMix, atMix>>
      /\ sendQ' = [sendQ EXCEPT ![u] = <<>>] /\ part' = [part EXCEPT ![u] = Nothing]
      /\ view' = [view EXCEPT ![u] = [i \in InIds |-> None]]
  BY DEF ConnectionCloses, CloseConnection, Forget
<1>2. QueuesTyped' BY <1>1, UserFacts, KindsOfPackets DEF QueuesTyped
<1>3. KnownOnce' BY <1>1, UserFacts DEF KnownOnce
<1>4. AbsentAreClosed'
  <2>1. \A w \in Users : w # u => view'[w] = view[w] BY <1>1, UserFacts DEF QueuesTyped
  <2>2. \A i \in InIds : view'[u][i] \notin Nat BY <1>1, UserFacts DEF QueuesTyped
  <2> QED BY <1>1, <2>1, <2>2, UserFacts DEF AbsentAreClosed
<1>5. TableNotClosed'
  <2>1. /\ ClosesOf(u) \in Seq(UpPackets)
        /\ \A o : (\E c \in Of(u) : c.out = o) <=> (\E k \in DOMAIN ClosesOf(u) : ClosesOf(u)[k].out = o)
    BY UserFacts, ClosesAre DEF PacketInv, PacketsTyped
  <2> PICK e : e = ClosesOf(u) OBVIOUS
  <2>2. \A k \in DOMAIN toMix' : \/ \E j \in DOMAIN toMix : toMix'[k] = toMix[j]
                                \/ \E j \in DOMAIN e : toMix'[k] = e[j]
    <3>1. e \in Seq(UpPackets) /\ toMix \in Seq(UpPackets) /\ toMix' = toMix \o e
      BY <1>1, <2>1, UserFacts
    <3>2. ASSUME NEW k \in DOMAIN (toMix \o e)
          PROVE  \/ \E j \in DOMAIN toMix : (toMix \o e)[k] = toMix[j]
                 \/ \E j \in DOMAIN e : (toMix \o e)[k] = e[j]
      <4>1. /\ k \in 1..(Len(toMix) + Len(e)) /\ Len(toMix) \in Nat /\ Len(e) \in Nat
            /\ DOMAIN toMix = 1..Len(toMix) /\ DOMAIN e = 1..Len(e)
        BY <3>1
      <4>2. CASE k <= Len(toMix)
        <5>1. k \in DOMAIN toMix BY ONLY <4>1, <4>2
        <5>2. (toMix \o e)[k] = toMix[k] BY <3>1, <5>1
        <5> QED BY <5>1, <5>2
      <4>3. CASE k > Len(toMix)
        <5>1. k - Len(toMix) \in DOMAIN e BY ONLY <4>1, <4>3
        <5>2. (toMix \o e)[k] = e[k - Len(toMix)] BY <3>1, <4>1, <4>3
        <5> QED BY <5>1, <5>2
      <4> QED BY ONLY <4>1, <4>2, <4>3
    <3> QED BY <3>1, <3>2
  <2>3. \A j \in DOMAIN e, c \in channels' : c.out # e[j].out
    <3>1. \A c, d \in channels : c.out = d.out => c = d BY UserFacts DEF PacketInv, OutsUnique
    <3>2. Of(u) \subseteq channels BY DEF Of
    <3>3. ASSUME NEW j \in DOMAIN e, NEW c \in channels \ Of(u) PROVE c.out # e[j].out
      <4>1. \E k \in DOMAIN e : e[k].out = e[j].out OBVIOUS
      <4>2. PICK d \in Of(u) : d.out = e[j].out BY <2>1, <4>1
      <4>3. c \in channels /\ d \in channels /\ c # d BY <3>2
      <4> QED BY <3>1, <4>2, <4>3
    <3> QED BY <1>1, <3>3
  <2> QED BY <1>1, <2>2, <2>3, UserFacts, TableStaysOpen
<1>6. ASSUME NEW w, NEW j, Concerned(w, j)' PROVE WayFits(w, j)'
  <2>1. w # u /\ w \in Users /\ w \in here \ forced /\ j \in InIds BY <1>1, <1>6 DEF Concerned
  <2>2. sendQ'[w] = sendQ[w] /\ part'[w] = part[w] /\ view'[w] = view[w]
    BY <1>1, <2>1, UserFacts DEF QueuesTyped
  <2>3. Concerned(w, j) BY <1>6, <2>1, <2>2 DEF Concerned
  <2>4. Known(w, j)' = Known(w, j) BY <1>1, <2>1 DEF Known, Of
  <2> QED BY <1>1, <2>2, <2>3, <2>4, ConcernedFit, SameWay, SentStays
<1> QED BY <1>2, <1>3, <1>4, <1>5, <1>6, AllFit

(* A channel a user opens: nothing of one with its ids is left.            *)
LEMMA OpenSteps ==
  ASSUME UserInv, PacketInv', NEW u \in Users, NEW i \in InIds, OpenPacket(u, i)
  PROVE  UserInv'
<1>1. /\ UNCHANGED <<here, forced, fromMix, sendQ, part, atMix>> /\ u \in here
      /\ view[u][i] = None /\ Known(u, i) = {}
      /\ \A k \in DOMAIN sendQ[u] : sendQ[u][k].in # i
      /\ part[u].in # i
  BY DEF OpenPacket, NewId, Receives
<1>2. CASE view' = [view EXCEPT ![u][i] = Refused] /\ UNCHANGED <<channels, toMix>>
  <2>1. QueuesTyped' /\ KnownOnce' /\ TableNotClosed'
    BY <1>1, <1>2, UserFacts DEF QueuesTyped, KnownOnce, TableNotClosed
  <2>2. \A w \in Users, j \in InIds : view'[w][j] = IF w = u /\ j = i THEN Refused ELSE view[w][j]
    BY <1>2, UserFacts DEF QueuesTyped
  <2>3. AbsentAreClosed'
    <3>1. AbsentAreClosed /\ u \in here /\ here' = here BY <1>1, UserFacts
    <3> QED BY ONLY <2>2, <3>1 DEF AbsentAreClosed
  <2>4. ASSUME NEW w, NEW j, Concerned(w, j)' PROVE WayFits(w, j)'
    <3>1. Concerned(w, j) /\ view'[w][j] = view[w][j]
      BY <1>1, <2>2, <2>4, UserFacts DEF Concerned
    <3> QED BY <1>1, <1>2, <3>1, ConcernedFit, SameWay, KnownStays, SentStays
  <2> QED BY <2>1, <2>3, <2>4, AllFit
<1>3. CASE /\ view' = [view EXCEPT ![u][i] = 0]
           /\ \E o \in Unused : /\ channels' = channels \cup {[user |-> u, in |-> i, out |-> o]}
                                /\ toMix' = Append(toMix, UpPacket("open", o))
  <2> PICK o \in Unused : /\ channels' = channels \cup {[user |-> u, in |-> i, out |-> o]}
                          /\ toMix' = Append(toMix, UpPacket("open", o))
    BY <1>3
  <2> PICK new : new = [user |-> u, in |-> i, out |-> o] OBVIOUS
  <2>1. /\ new.user = u /\ new.in = i /\ new.out = o /\ channels' = channels \cup {new}
        /\ o \in OutIds /\ atMix[o] = None /\ (\A c \in channels : c.out # o)
        /\ (\A k \in DOMAIN toMix : toMix[k].out # o) /\ (\A k \in DOMAIN fromMix : fromMix[k].out # o)
    BY DEF Unused
  <2>2. \A w \in Users, j \in InIds : view'[w][j] = IF w = u /\ j = i THEN 0 ELSE view[w][j]
    BY <1>3, UserFacts DEF QueuesTyped
  <2>3. QueuesTyped' BY <1>1, <1>3, UserFacts DEF QueuesTyped
  <2>4. AbsentAreClosed'
    <3>1. AbsentAreClosed /\ u \in here /\ here' = here BY <1>1, UserFacts
    <3> QED BY ONLY <2>2, <3>1 DEF AbsentAreClosed
  <2>5. KnownOnce'
    <3>1. \A c \in channels : ~(c.user = u /\ c.in = i) BY <1>1 DEF Known
    <3> QED BY <2>1, <3>1, UserFacts DEF KnownOnce
  <2>6. TableNotClosed'
    <3>1. \A k \in DOMAIN toMix' : \/ k \in DOMAIN toMix /\ toMix'[k] = toMix[k]
                                  \/ toMix'[k].kind = "open"
      <4>1. UpPacket("open", o).kind = "open" BY DEF UpPacket
      <4> PICK p : p = UpPacket("open", o) OBVIOUS
      <4>2. toMix' = Append(toMix, p) /\ toMix \in Seq(UpPackets) BY UserFacts
      <4> QED BY <4>1, <4>2
    <3>2. \A c \in channels, k \in DOMAIN toMix : toMix[k].out = c.out => toMix[k].kind # "close"
      BY UserFacts DEF TableNotClosed
    <3>3. ASSUME NEW c \in channels', NEW k \in DOMAIN toMix', toMix'[k].out = c.out
          PROVE  toMix'[k].kind # "close"
      <4>1. CASE toMix'[k].kind = "open" BY <4>1
      <4>2. CASE k \in DOMAIN toMix /\ toMix'[k] = toMix[k]
        <5>1. CASE c = new BY <2>1, <3>3, <4>2, <5>1
        <5>2. CASE c \in channels BY <3>2, <3>3, <4>2, <5>2
        <5> QED BY <2>1, <5>1, <5>2
      <4> QED BY <3>1, <4>1, <4>2
    <3> QED BY <3>3 DEF TableNotClosed
  <2>7. ASSUME NEW w, NEW j, Concerned(w, j)' PROVE WayFits(w, j)'
    <3>1. w \in Users /\ j \in InIds BY <2>7 DEF Concerned
    <3>2. CASE w = u /\ j = i
      <4>1. InUnsent(u, i)' = {} /\ Unsent(u)' = Unsent(u)
        <5>1. Unsent(u)' = Unsent(u) BY <1>1 DEF Unsent
        <5>2. part[u] \in UserPackets /\ sendQ[u] \in Seq(UserPackets) BY UserFacts DEF QueuesTyped
        <5> PICK s : s = Unsent(u) OBVIOUS
        <5>3. /\ DOMAIN s = 1..(Len(sendQ[u]) + 1) /\ s[1] = part[u] /\ Len(sendQ[u]) \in Nat
              /\ \A k \in 1..Len(sendQ[u]) : s[k + 1] = sendQ[u][k]
          BY <5>2, PacketInFront DEF Unsent
        <5>4. ASSUME NEW k \in DOMAIN s PROVE s[k].in # i
          <6>1. CASE k = 1 BY <1>1, <5>3, <6>1
          <6>2. CASE k # 1
            <7>1. k - 1 \in 1..Len(sendQ[u]) /\ (k - 1) + 1 = k BY ONLY <5>3, <6>2, k \in DOMAIN s
            <7>2. s[k] = sendQ[u][k - 1] BY ONLY <5>3, <7>1
            <7>3. k - 1 \in DOMAIN sendQ[u] BY <5>2, <7>1
            <7> QED BY <1>1, <7>2, <7>3
          <6> QED BY <6>1, <6>2
        <5> QED BY <5>1, <5>4 DEF InUnsent
      <4>2. Known(u, i)' = {new} BY <1>1, <2>1 DEF Known
      <4>3. InFromMix(u, i)' = {} BY <1>1, <2>1, <4>2 DEF InFromMix
      <4>4. SentIn(new)' = 0 BY <1>1, <2>1 DEF SentIn
      <4>5. view'[u][i] = 0 BY <2>2
      <4>6. InOrder(Unsent(u)', InUnsent(u, i)', view'[u][i], 0, FALSE)
        BY <4>1, <4>5 DEF InOrder
      <4>7. InOrder(fromMix', InFromMix(u, i)', 0, 0, FALSE) BY <4>3 DEF InOrder
      <4>8. \E c \in Known(u, i)' : SentIn(c)' = 0 BY <4>2, <4>4
      <4>9. Fits(u, i, 0, 0, FALSE, FALSE)' BY <4>6, <4>7, <4>8 DEF Fits
      <4> QED BY <3>2, <4>9 DEF WayFits
    <3>3. CASE ~(w = u /\ j = i)
      <4>1. Concerned(w, j) /\ view'[w][j] = view[w][j] BY <1>1, <2>2, <2>7, <3>1, <3>3 DEF Concerned
      <4>2. Known(w, j)' = Known(w, j) BY <2>1, <3>3 DEF Known
      <4> QED BY <1>1, <4>1, <4>2, ConcernedFit, SameWay, SentStays
    <3> QED BY <3>2, <3>3
  <2> QED BY <2>3, <2>4, <2>5, <2>6, <2>7, AllFit
<1> QED BY <1>2, <1>3 DEF OpenPacket

(* A CLOSE of the user.                                                    *)
LEMMA CloseSteps ==
  ASSUME UserInv, PacketInv', NEW u \in Users, NEW i \in InIds, ClosePacket(u, i)
  PROVE  UserInv'
<1>1. /\ UNCHANGED <<here, forced, fromMix, sendQ, part, atMix>>
      /\ view' = [view EXCEPT ![u][i] = None]
  BY DEF ClosePacket
<1>2. \A w \in Users, j \in InIds : view'[w][j] = IF w = u /\ j = i THEN None ELSE view[w][j]
  BY <1>1, UserFacts DEF QueuesTyped
<1>3. channels' \subseteq channels /\ \A c \in channels : c \notin channels' => c \in Known(u, i)
  BY DEF ClosePacket
<1>4. QueuesTyped' BY <1>1, UserFacts DEF QueuesTyped
<1>5. AbsentAreClosed' BY <1>1, <1>2, UserFacts DEF AbsentAreClosed
<1>6. KnownOnce' BY <1>3, UserFacts DEF KnownOnce
<1>7. TableNotClosed'
  <2>1. CASE UNCHANGED <<channels, toMix>> BY <2>1, UserFacts DEF TableNotClosed
  <2>2. CASE \E c \in Known(u, i) : channels' = channels \ {c} /\ toMix' = PassOn(c)
    <3> PICK c \in Known(u, i) : channels' = channels \ {c} /\ toMix' = PassOn(c) BY <2>2
    <3> PICK p : p = UpPacket("close", c.out) OBVIOUS
    <3>1. p.out = c.out /\ toMix' = Append(toMix, p) BY DEF UpPacket, PassOn
    <3>2. \A d \in channels' : d.out # c.out
      <4>1. c \in channels BY DEF Known
      <4> QED BY <4>1, UserFacts DEF PacketInv, OutsUnique
    <3>3. \A k \in DOMAIN toMix' : \/ k \in DOMAIN toMix /\ toMix'[k] = toMix[k]
                                  \/ toMix'[k] = p
      BY <3>1, UserFacts
    <3> QED BY <1>3, <3>1, <3>2, <3>3, UserFacts, TableStaysOpen
  <2> QED BY <2>1, <2>2 DEF ClosePacket
<1>8. ASSUME NEW w, NEW j, Concerned(w, j)' PROVE WayFits(w, j)'
  <2>1. Concerned(w, j) /\ view'[w][j] = view[w][j] /\ ~(w = u /\ j = i)
    BY <1>1, <1>2, <1>8, UserFacts DEF Concerned
  <2>2. Known(w, j)' = Known(w, j) BY <1>3, <2>1 DEF Known
  <2> QED BY <1>1, <2>1, <2>2, ConcernedFit, SameWay, SentStays
<1> QED BY <1>4, <1>5, <1>6, <1>7, <1>8, AllFit

(* What one user's queue gets behind what it holds.                        *)
LEMMA JoinedQueue ==
  ASSUME QueuesTyped, NEW u \in Users, NEW p,
         sendQ' = [sendQ EXCEPT ![u] = Append(@, p)], UNCHANGED part
  PROVE  /\ Unsent(u)' = Append(Unsent(u), p)
         /\ \A w \in Users : w # u => sendQ'[w] = sendQ[w]
<1>1. sendQ'[u] = Append(sendQ[u], p) /\ \A w \in Users : w # u => sendQ'[w] = sendQ[w]
  BY DEF QueuesTyped
<1>2. sendQ[u] \in Seq(UserPackets) BY DEF QueuesTyped
<1> PICK q, f : q = sendQ[u] /\ f = part[u] OBVIOUS
<1>3. <<f>> \o Append(q, p) = Append(<<f>> \o q, p) BY <1>2
<1>4. Unsent(u)' = <<f>> \o Append(q, p) /\ Unsent(u) = <<f>> \o q BY <1>1 DEF Unsent
<1> QED BY <1>1, <1>3, <1>4

(* A dummy comes back; it belongs to no channel.                           *)
LEMMA DummySteps ==
  ASSUME UserInv, PacketInv', NEW u \in Users, DummyPacket(u)
  PROVE  UserInv'
<1> PICK p : p = DownPacket("dummy", -1, 0) OBVIOUS
<1>1. /\ UNCHANGED <<here, forced, channels, toMix, fromMix, part, view, atMix>>
      /\ sendQ' = [sendQ EXCEPT ![u] = Append(@, p)]
      /\ p \in UserPackets /\ p.in \notin InIds
  BY KindsOfPackets DEF DummyPacket
<1>2. QueuesTyped' /\ KnownOnce' /\ AbsentAreClosed' /\ TableNotClosed'
  BY <1>1, UserFacts DEF QueuesTyped, KnownOnce, AbsentAreClosed, TableNotClosed
<1>3. Unsent(u)' = Append(Unsent(u), p) /\ \A w \in Users : w # u => sendQ'[w] = sendQ[w]
  BY <1>1, UserFacts, JoinedQueue
<1>4. ASSUME NEW w, NEW j, Concerned(w, j)' PROVE WayFits(w, j)'
  <2>1. Concerned(w, j) /\ w \in Users /\ j \in InIds BY <1>1, <1>4 DEF Concerned
  <2>2. CASE w # u
    BY <1>1, <1>3, <2>1, <2>2, ConcernedFit, SameWay, KnownStays, SentStays
  <2>3. CASE w = u
    <3> PICK m, e, y, z : Fits(u, j, m, e, y, z) BY <2>1, <2>3, ConcernedFit DEF WayFits
    <3>1. Unsent(u) \in Seq(UserPackets) BY UserFacts, UnsentTyped
    <3>2. InOrder(Unsent(u), Mine(Unsent(u), j), view[u][j], m, y)
      BY UnsentIsMine DEF Fits
    <3>3. p.in # j BY <1>1, <2>1
    <3>4. InOrder(Append(Unsent(u), p), Mine(Append(Unsent(u), p), j), view[u][j], m, y)
      BY <1>1, <3>1, <3>2, <3>3, OthersJoin
    <3>5. InUnsent(u, j)' = Mine(Append(Unsent(u), p), j)
      BY <1>3 DEF InUnsent, Mine
    <3>6. InOrder(Unsent(u)', InUnsent(u, j)', view'[u][j], m, y)
      BY <1>1, <1>3, <3>4, <3>5
    <3>7. Known(u, j)' = Known(u, j) /\ \A c : SentIn(c)' = SentIn(c)
      BY <1>1, KnownStays, SentStays
    <3>8. InFromMix(u, j)' = InFromMix(u, j) BY <1>1, <3>7 DEF InFromMix
    <3>9. Fits(u, j, m, e, y, z)' BY <1>1, <3>6, <3>7, <3>8 DEF Fits
    <3> QED BY <2>3, <3>9 DEF WayFits
  <2> QED BY <2>2, <2>3
<1> QED BY <1>2, <1>4, AllFit

(* The next mix takes a packet: it opens a channel it does not know, and   *)
(* closes none of the table.                                               *)
LEMMA MixTakesSteps ==
  ASSUME UserInv, PacketInv', MixTakes
  PROVE  UserInv'
<1> PICK p : p = Head(toMix) OBVIOUS
<1>1. /\ UNCHANGED <<here, forced, channels, fromMix, sendQ, part, view>>
      /\ toMix' = Tail(toMix) /\ toMix # <<>>
      /\ atMix' = CASE p.kind = "open"  -> [atMix EXCEPT ![p.out] = 0]
                    [] p.kind = "close" -> [atMix EXCEPT ![p.out] = None]
                    [] OTHER            -> atMix
  BY DEF MixTakes
<1>2. /\ p = toMix[1] /\ 1 \in DOMAIN toMix /\ p \in UpPackets
      /\ \A k \in DOMAIN toMix' : k + 1 \in DOMAIN toMix /\ toMix'[k] = toMix[k + 1]
  BY <1>1, UserFacts
<1>3. QueuesTyped' /\ KnownOnce' /\ AbsentAreClosed'
  BY <1>1, UserFacts DEF QueuesTyped, KnownOnce, AbsentAreClosed
<1>4. TableNotClosed'
  BY <1>1, <1>2, UserFacts, TableStaysOpen
<1>5. ASSUME NEW c \in channels PROVE SentIn(c)' = SentIn(c)
  <2>1. c.out \in OutIds /\ p.out \in OutIds BY <1>2, UserFacts DEF UpPackets
  <2>2. CASE p.out # c.out
    <3>1. atMix'[c.out] = atMix[c.out] BY <1>1, <2>1, <2>2, UserFacts
    <3> QED BY <3>1 DEF SentIn
  <2>3. CASE p.out = c.out /\ p.kind = "open"
    <3>1. atMix[c.out] = None BY <1>2, <2>3, UserFacts DEF PacketInv, OpenedOnce
    <3>2. atMix'[c.out] = 0 BY <1>1, <2>1, <2>3, UserFacts
    <3> QED BY <3>1, <3>2 DEF SentIn
  <2>4. CASE p.out = c.out /\ p.kind # "open"
    <3>1. p.kind # "close" BY <1>2, <2>4, UserFacts DEF TableNotClosed
    <3>2. atMix' = atMix BY <1>1, <2>4, <3>1
    <3> QED BY <3>2 DEF SentIn
  <2> QED BY <2>2, <2>3, <2>4
<1>6. ASSUME NEW w, NEW j, Concerned(w, j)' PROVE WayFits(w, j)'
  <2>1. Concerned(w, j) BY <1>1, <1>6 DEF Concerned
  <2>2. \A c \in Known(w, j) : SentIn(c)' = SentIn(c) BY <1>5 DEF Known
  <2> QED BY <1>1, <2>1, <2>2, ConcernedFit, SameWay, KnownStays
<1> QED BY <1>3, <1>4, <1>6, AllFit

(* A channel of the table whose CLOSE is on its way back is not open at    *)
(* the next mix.                                                           *)
LEMMA ReturnedIsClosed ==
  ASSUME UserInv, NEW c \in channels, Returned(c.out)
  PROVE  atMix[c.out] = None
<1>1. c.out \in OutIds BY UserFacts
<1>2. ~WillOpen(toMix, atMix, c.out) BY <1>1, UserFacts DEF PacketInv, ChannelsAgree
<1>3. About(toMix, c.out) = {}
  <2> SUFFICES ASSUME About(toMix, c.out) # {} PROVE FALSE OBVIOUS
  <2>1. PICK k : LastAbout(toMix, c.out, k) BY UserFacts, LastExists
  <2>2. k \in DOMAIN toMix /\ toMix[k].out = c.out /\ toMix[k].kind # "data"
    BY <2>1 DEF LastAbout, About
  <2>3. toMix[k].kind # "close" BY <2>2, UserFacts DEF TableNotClosed
  <2>4. toMix[k].kind \in {"open", "data", "close"}
    <3>1. toMix[k] \in UpPackets BY <2>2, UserFacts
    <3> QED BY <3>1 DEF UpPackets
  <2> QED BY <1>2, <2>1, <2>2, <2>3, <2>4 DEF WillOpen
<1> QED BY <1>2, <1>3 DEF WillOpen

(* The places of packets of the channels K.                                *)
PlacesIn(t, K) == {k \in DOMAIN t : \E c \in K : t[k].out = c.out}

LEMMA FromMixPlaces == \A u, i : InFromMix(u, i) = PlacesIn(fromMix, Known(u, i))
BY DEF InFromMix, PlacesIn

(* Queue t is queue s with packet q behind it.                             *)
GrownBy(s, t, q, n, K) ==
  /\ n \in Int /\ t[n] = q
  /\ \A k \in PlacesIn(s, K) : k < n /\ t[k] = s[k]
  /\ (\E c \in K : q.out = c.out) => PlacesIn(t, K) = PlacesIn(s, K) \cup {n}
  /\ (\A c \in K : q.out # c.out) => PlacesIn(t, K) = PlacesIn(s, K)

(* The queue from the next mix gets a packet.                              *)
LEMMA FromMixGrows ==
  ASSUME NEW s \in Seq(DownPackets), NEW q, NEW t, t = Append(s, q),
         NEW n, n = Len(s) + 1, NEW K
  PROVE  GrownBy(s, t, q, n, K)
<1>1. /\ n \in Int /\ t[n] = q /\ DOMAIN s = 1..(n - 1) /\ DOMAIN t = 1..n /\ n \in 1..n
      /\ \A k \in 1..(n - 1) : t[k] = s[k]
  OBVIOUS
<1>2. \A k \in 1..n : k = n \/ k \in 1..(n - 1) BY <1>1
<1>3. \A k \in 1..(n - 1) : k \in 1..n /\ k < n BY <1>1
<1>4. \A k \in PlacesIn(s, K) : k < n /\ t[k] = s[k]
  BY <1>1, <1>3 DEF PlacesIn
<1>5. ASSUME NEW k
      PROVE  k \in PlacesIn(t, K) <=>
               k \in PlacesIn(s, K) \/ (k = n /\ \E c \in K : q.out = c.out)
  <2>1. CASE k \in 1..(n - 1) BY <1>1, <1>3, <2>1 DEF PlacesIn
  <2>2. CASE k = n
    <3>1. n \notin 1..(n - 1) BY <1>1
    <3> QED BY <1>1, <2>2, <3>1 DEF PlacesIn
  <2>3. CASE k \notin 1..n
    <3>1. k \notin 1..(n - 1) /\ k # n BY <1>1, <1>3, <2>3
    <3> QED BY <1>1, <2>3, <3>1 DEF PlacesIn
  <2> QED BY <1>2, <2>1, <2>2, <2>3
<1>6. (\E c \in K : q.out = c.out) => PlacesIn(t, K) = PlacesIn(s, K) \cup {n}
  BY <1>5
<1>7. (\A c \in K : q.out # c.out) => PlacesIn(t, K) = PlacesIn(s, K)
  BY <1>5
<1> QED BY <1>1, <1>4, <1>6, <1>7 DEF GrownBy

(* The next mix sends: data, or the CLOSE, after all it has sent in the    *)
(* channel.                                                                *)
LEMMA MixSendsSteps ==
  ASSUME UserInv, PacketInv', NEW o \in OutIds, MixSends(o)
  PROVE  UserInv'
<1>1. /\ UNCHANGED <<here, forced, channels, toMix, sendQ, part, view>>
      /\ atMix[o] # None
  BY DEF MixSends
<1> PICK h : h = atMix[o] OBVIOUS
<1>2. h \in Nat BY <1>1, UserFacts
<1> PICK q : /\ fromMix' = Append(fromMix, q) /\ q.out = o
             /\ \/ q.kind = "data" /\ q.nr = h + 1 /\ atMix' = [atMix EXCEPT ![o] = h + 1]
                \/ q.kind = "close" /\ q.nr = h /\ atMix' = [atMix EXCEPT ![o] = None]
  <2>1. CASE /\ atMix' = [atMix EXCEPT ![o] = @ + 1]
             /\ fromMix' = Append(fromMix, [kind |-> "data", out |-> o, nr |-> atMix[o] + 1])
    <3> WITNESS [kind |-> "data", out |-> o, nr |-> h + 1]
    <3>1. atMix' = [atMix EXCEPT ![o] = h + 1] BY <2>1, UserFacts
    <3> QED BY <2>1, <3>1
  <2>2. CASE /\ atMix' = [atMix EXCEPT ![o] = None]
             /\ fromMix' = Append(fromMix, [kind |-> "close", out |-> o, nr |-> atMix[o]])
    <3> WITNESS [kind |-> "close", out |-> o, nr |-> h]
    <3> QED BY <2>2
  <2> QED BY <2>1, <2>2 DEF MixSends
<1>3. QueuesTyped' /\ KnownOnce' /\ AbsentAreClosed' /\ TableNotClosed'
  BY <1>1, UserFacts DEF QueuesTyped, KnownOnce, AbsentAreClosed, TableNotClosed
<1>4. /\ \A c \in channels : c.out # o => SentIn(c)' = SentIn(c)
      /\ q.kind = "data" => \A c \in channels : c.out = o => SentIn(c)' = h + 1
      /\ \A c \in channels : c.out = o => SentIn(c) = h
  <2>1. \A x \in OutIds : x # o => atMix'[x] = atMix[x] BY UserFacts
  <2>2. q.kind = "data" => atMix'[o] = h + 1 BY UserFacts
  <2>3. h + 1 # None BY <1>2, UserFacts
  <2> QED BY <1>1, <2>1, <2>2, <2>3, UserFacts DEF SentIn
<1>5. ASSUME NEW w, NEW j, Concerned(w, j)' PROVE WayFits(w, j)'
  <2>1. Concerned(w, j) BY <1>1, <1>5 DEF Concerned
  <2> PICK m, e, y, z : Fits(w, j, m, e, y, z) BY <2>1, ConcernedFit DEF WayFits
  <2>2. /\ m \in Nat /\ e \in Nat /\ y \in BOOLEAN /\ z \in BOOLEAN
        /\ InOrder(Unsent(w), InUnsent(w, j), view[w][j], m, y)
        /\ InOrder(fromMix, InFromMix(w, j), m, e, z)
        /\ y => Known(w, j) = {}
        /\ ~y /\ ~z => \E c \in Known(w, j) : SentIn(c) = e
    BY DEF Fits
  <2>3. Known(w, j)' = Known(w, j) /\ Known(w, j) \subseteq channels BY <1>1, KnownStays DEF Known
  <2>4. Unsent(w)' = Unsent(w) /\ InUnsent(w, j)' = InUnsent(w, j)
    BY <1>1 DEF Unsent, InUnsent
  <2>5. InOrder(Unsent(w)', InUnsent(w, j)', view'[w][j], m, y)
    BY <1>1, <2>2, <2>4
  <2> PICK n : n = Len(fromMix) + 1 OBVIOUS
  <2>6. /\ \A k \in InFromMix(w, j) : k < n /\ fromMix'[k] = fromMix[k]
        /\ fromMix'[n] = q /\ n \in Int
        /\ (\E c \in Known(w, j) : q.out = c.out) => InFromMix(w, j)' = InFromMix(w, j) \cup {n}
        /\ (\A c \in Known(w, j) : q.out # c.out) => InFromMix(w, j)' = InFromMix(w, j)
    <3> PICK s, t, K : s = fromMix /\ t = fromMix' /\ K = Known(w, j) OBVIOUS
    <3>1. s \in Seq(DownPackets) /\ t = Append(s, q) /\ n = Len(s) + 1 BY UserFacts
    <3>2. GrownBy(s, t, q, n, K)
      BY ONLY <3>1, FromMixGrows
    <3>3. InFromMix(w, j) = PlacesIn(s, K) BY FromMixPlaces
    <3>4. InFromMix(w, j)' = PlacesIn(t, K) BY <2>3 DEF InFromMix, PlacesIn
    <3> QED BY <3>2, <3>3, <3>4 DEF GrownBy
  <2>7. /\ InFromMix(w, j) \in SUBSET Int /\ Len(fromMix) \in Nat
        /\ \A k \in InFromMix(w, j) : fromMix[k].nr \in Nat
    BY UserFacts, FromMixTyped
  <2>8. CASE \A c \in Known(w, j) : c.out # o
    <3>1. InFromMix(w, j)' = InFromMix(w, j) BY <2>6, <2>8
    <3>2. /\ \A k \in InFromMix(w, j) : k + 0 \in InFromMix(w, j) /\ fromMix'[k] = fromMix[k + 0]
          /\ \A k \in InFromMix(w, j) : k - 0 \in InFromMix(w, j)
      <4>1. \A k \in InFromMix(w, j) : k \in Int /\ k + 0 = k /\ k - 0 = k BY ONLY <2>7
      <4> QED BY ONLY <2>6, <4>1
    <3>3. InOrder(fromMix', InFromMix(w, j), m, e, z)
      BY ONLY <2>2, <2>7, <3>2, OrderMoves, 0 \in Int
    <3>4. \A c \in Known(w, j) : SentIn(c)' = SentIn(c) BY <1>4, <2>3, <2>8
    <3>5. Fits(w, j, m, e, y, z)' BY <2>2, <2>3, <2>5, <3>1, <3>3, <3>4 DEF Fits
    <3> QED BY <3>5 DEF WayFits
  <2>9. ASSUME NEW c \in Known(w, j), c.out = o PROVE WayFits(w, j)'
    <3>1. c \in channels /\ Known(w, j) = {c} BY UserFacts DEF Known, KnownOnce
    <3>2. ~y BY <2>2, <3>1
    <3>3. ~z
      <4> SUFFICES ASSUME z PROVE FALSE OBVIOUS
      <4>1. PICK k \in InFromMix(w, j) : fromMix[k].kind = "close" BY <2>2 DEF InOrder
      <4>2. fromMix[k].out = c.out /\ k \in DOMAIN fromMix BY <3>1, <4>1 DEF InFromMix
      <4>3. Returned(c.out) BY <4>1, <4>2 DEF Returned
      <4> QED BY <1>1, <2>9, <3>1, <4>3, ReturnedIsClosed
    <3>4. e = h BY <1>4, <2>2, <2>9, <3>1, <3>2, <3>3
    <3>5. InFromMix(w, j)' = InFromMix(w, j) \cup {n} BY <2>6, <2>9, <3>1
    <3>6. /\ InOrder(fromMix, InFromMix(w, j), m, e, FALSE) /\ n \in Int
          /\ \A k \in InFromMix(w, j) : k < n /\ fromMix'[k] = fromMix[k]
          /\ fromMix'[n] = q
      <4>1. InOrder(fromMix, InFromMix(w, j), m, e, FALSE)
        <5>1. z = FALSE BY ONLY <2>2, <3>3
        <5> QED BY <2>2, <5>1
      <4> QED BY ONLY <2>6, <4>1
    <3>7. /\ q.kind = "data" /\ q.nr = e + 1 =>
               InOrder(fromMix', InFromMix(w, j) \cup {n}, m, e + 1, FALSE)
          /\ q.kind = "close" /\ q.nr = e =>
               InOrder(fromMix', InFromMix(w, j) \cup {n}, m, e, TRUE)
      BY ONLY <2>2, <2>7, <3>6, OrderGrows
    <3>8. CASE q.kind = "data"
      <4>1. q.nr = e + 1 /\ SentIn(c)' = e + 1 BY <1>4, <2>9, <3>1, <3>4, <3>8
      <4>2. InOrder(fromMix', InFromMix(w, j)', m, e + 1, FALSE) BY <3>5, <3>7, <3>8, <4>1
      <4>3. e + 1 \in Nat BY <2>2
      <4>4. Fits(w, j, m, e + 1, FALSE, FALSE)'
        BY <2>2, <2>3, <2>5, <3>2, <3>1, <4>1, <4>2, <4>3 DEF Fits
      <4> QED BY <4>4 DEF WayFits
    <3>9. CASE q.kind = "close"
      <4>1. q.nr = e BY <3>4, <3>9
      <4>2. InOrder(fromMix', InFromMix(w, j)', m, e, TRUE) BY <3>5, <3>7, <3>9, <4>1
      <4>3. Fits(w, j, m, e, FALSE, TRUE)'
        BY <2>2, <2>3, <2>5, <3>2, <4>2 DEF Fits
      <4> QED BY <4>3 DEF WayFits
    <3> QED BY <3>8, <3>9
  <2> QED BY <2>8, <2>9
<1> QED BY <1>3, <1>5, AllFit

(* Queue t is what packet p leaves, the next of the channel or of another. *)
ShrunkTo(p, t, K, m, e, z) ==
  /\ (\E c \in K : p.out = c.out) =>
       /\ p.kind = "data" => p.nr = m + 1 /\ InOrder(t, PlacesIn(t, K), m + 1, e, z)
       /\ p.kind # "data" => p.kind = "close" /\ p.nr = m /\ z /\ m = e
  /\ (\A c \in K : p.out # c.out) => InOrder(t, PlacesIn(t, K), m, e, z)

(* The queue from the next mix loses its first packet: one of the channel, *)
(* the next in order, or one of another.                                   *)
LEMMA FromMixShrinks ==
  ASSUME NEW s \in Seq(DownPackets), s # <<>>, NEW K,
         NEW p, p = Head(s), NEW t, t = Tail(s),
         NEW m \in Nat, NEW e \in Nat, NEW z \in BOOLEAN,
         InOrder(s, PlacesIn(s, K), m, e, z)
  PROVE  ShrunkTo(p, t, K, m, e, z)
<1> PICK D : D = PlacesIn(s, K) OBVIOUS
<1> PICK E : E = PlacesIn(t, K) OBVIOUS
<1>1. /\ p = s[1] /\ 1 \in DOMAIN s
      /\ \A k \in DOMAIN t : k \in Nat /\ k + 1 \in DOMAIN s /\ k + 1 # 1 /\ t[k] = s[k + 1]
      /\ \A k \in DOMAIN s : k \in Nat /\ 1 <= k /\ s[k] \in DownPackets
                             /\ (k # 1 => k - 1 \in DOMAIN t /\ t[k - 1] = s[k])
  OBVIOUS
<1>2. /\ D \in SUBSET Int
      /\ \A k \in D : s[k].nr \in Nat /\ 1 <= k
  <2>1. \A q \in DownPackets : q.nr \in Nat BY DEF DownPackets
  <2>2. \A k \in D : k \in DOMAIN s BY DEF PlacesIn
  <2> QED BY ONLY <1>1, <2>1, <2>2
<1>3. 1 \in D <=> \E c \in K : p.out = c.out
  BY <1>1, D = PlacesIn(s, K) DEF PlacesIn
<1>4. /\ \A k \in E : k \in Int /\ k + 1 \in D \ {1} /\ t[k] = s[k + 1]
      /\ \A k \in D \ {1} : k - 1 \in E
  BY <1>1, D = PlacesIn(s, K), E = PlacesIn(t, K) DEF PlacesIn
<1>5. E \in SUBSET Int /\ D \ {1} \in SUBSET Int BY <1>2, <1>4
<1>6. ASSUME NEW lo, InOrder(s, D \ {1}, lo, e, z) PROVE InOrder(t, E, lo, e, z)
  BY ONLY <1>4, <1>5, <1>6, OrderMoves, 1 \in Int
<1>7. InOrder(s, D, m, e, z) OBVIOUS
<1>8. CASE 1 \in D
  <2>1. NextTaken(s, D, 1, m, e, z)
    BY ONLY <1>2, <1>7, <1>8, OrderTaken, m \in Nat, e \in Nat, z \in BOOLEAN
  <2>2. s[1].kind = "data" => s[1].nr = m + 1 /\ InOrder(t, E, m + 1, e, z)
    BY <1>6, <2>1 DEF NextTaken
  <2> QED BY <1>1, <1>3, <1>8, <2>1, <2>2 DEF NextTaken, ShrunkTo
<1>9. CASE 1 \notin D
  <2>1. D \ {1} = D BY <1>9
  <2>2. InOrder(t, E, m, e, z) BY <1>6, <1>7, <2>1
  <2> QED BY <1>3, <1>9, <2>2 DEF ShrunkTo
<1> QED BY <1>8, <1>9

(* A packet for a channel goes behind the others of its user.              *)
LEMMA ChannelJoins ==
  ASSUME NEW s \in Seq(UserPackets), NEW p \in UserPackets, NEW i, p.in = i,
         NEW lo \in Nat, NEW hi \in Nat, InOrder(s, Mine(s, i), lo, hi, FALSE)
  PROVE  LET t == Append(s, p) IN
         /\ p.kind = "data" /\ p.nr = hi + 1 => InOrder(t, Mine(t, i), lo, hi + 1, FALSE)
         /\ p.kind = "close" /\ p.nr = hi => InOrder(t, Mine(t, i), lo, hi, TRUE)
<1> PICK t : t = Append(s, p) OBVIOUS
<1> PICK n : n = Len(s) + 1 OBVIOUS
<1>1. /\ t \in Seq(UserPackets) /\ DOMAIN t = 1..n /\ n \in Nat /\ Len(s) = n - 1
      /\ t[n] = p /\ \A k \in 1..(n - 1) : t[k] = s[k]
  OBVIOUS
<1>2. /\ Mine(s, i) \in SUBSET Int
      /\ \A k \in Mine(s, i) : s[k].nr \in Nat /\ k \in 1..(n - 1) /\ k < n /\ t[k] = s[k]
  <2>1. \A k \in Mine(s, i) : k \in Int /\ s[k].nr \in Nat /\ k >= 1 /\ k <= Len(s) BY MineTyped
  <2>2. \A k \in Mine(s, i) : k \in 1..(n - 1) /\ k < n BY ONLY <1>1, <2>1
  <2> QED BY <1>1, <2>1, <2>2
<1>3. Mine(t, i) = Mine(s, i) \cup {n}
  <2>1. ASSUME NEW k \in 1..n PROVE t[k].in = i <=> k = n \/ k \in Mine(s, i)
    <3>1. CASE k = n BY <1>1, <3>1
    <3>2. CASE k # n
      <4>1. k \in 1..(n - 1) BY ONLY <1>1, <3>2, k \in 1..n
      <4>2. DOMAIN s = 1..(n - 1) BY <1>1
      <4> QED BY <1>1, <3>2, <4>1, <4>2 DEF Mine
    <3> QED BY <3>1, <3>2
  <2>2. n \in 1..n /\ 1..(n - 1) \subseteq 1..n BY ONLY <1>1
  <2> QED BY <1>1, <1>2, <2>1, <2>2 DEF Mine
<1>4. InOrder(s, Mine(s, i), lo, hi, FALSE) /\ n \in Int
  <2>1. n \in Int BY ONLY <1>1
  <2> QED BY ONLY <2>1, InOrder(s, Mine(s, i), lo, hi, FALSE)
<1>5. /\ t[n].kind = "data" /\ t[n].nr = hi + 1 => InOrder(t, Mine(s, i) \cup {n}, lo, hi + 1, FALSE)
      /\ t[n].kind = "close" /\ t[n].nr = hi => InOrder(t, Mine(s, i) \cup {n}, lo, hi, TRUE)
  BY ONLY <1>2, <1>4, OrderGrows, lo \in Nat, hi \in Nat
<1> QED BY <1>1, <1>3, <1>5

(* The first mix takes a packet of the next mix: it goes to the user the   *)
(* channel belongs to, or nowhere.                                         *)
LEMMA FromMixSteps ==
  ASSUME UserInv, PacketInv', FromMix
  PROVE  UserInv'
<1> PICK p : p = Head(fromMix) OBVIOUS
<1>1. /\ UNCHANGED <<here, forced, toMix, part, view, atMix>>
      /\ fromMix # <<>> /\ fromMix' = Tail(fromMix)
  BY DEF FromMix
<1>2. p \in DownPackets /\ p = fromMix[1] /\ p.kind \in {"data", "close"} /\ p.nr \in Nat
  <2>1. p \in DownPackets /\ p = fromMix[1] BY <1>1, UserFacts
  <2> QED BY <2>1 DEF DownPackets
<1>3. \/ (\A c \in channels : c.out # p.out) /\ UNCHANGED <<channels, sendQ>>
      \/ \E c \in channels :
           /\ c.out = p.out /\ channels' = AfterDown(p, c)
           /\ sendQ' = [sendQ EXCEPT ![c.user] = Append(@, DownPacket(p.kind, c.in, p.nr))]
  BY DEF FromMix
<1>4. channels' \subseteq channels BY <1>3 DEF AfterDown
<1>5. KnownOnce' /\ AbsentAreClosed' /\ TableNotClosed'
  BY <1>1, <1>4, UserFacts DEF KnownOnce, AbsentAreClosed, TableNotClosed
<1>6. \A c : SentIn(c)' = SentIn(c) BY <1>1, SentStays
<1> PICK t : t = fromMix' OBVIOUS
<1>7. ASSUME NEW w, NEW j, NEW m, NEW e, NEW y, NEW z, Fits(w, j, m, e, y, z)
      PROVE  /\ (\E c \in Known(w, j) : p.out = c.out) =>
                  /\ p.kind = "data" => p.nr = m + 1 /\ InOrder(t, PlacesIn(t, Known(w, j)), m + 1, e, z)
                  /\ p.kind # "data" => p.kind = "close" /\ p.nr = m /\ z /\ m = e
             /\ (\A c \in Known(w, j) : p.out # c.out) => InOrder(t, PlacesIn(t, Known(w, j)), m, e, z)
  <2> PICK s, K : s = fromMix /\ K = Known(w, j) OBVIOUS
  <2>1. /\ m \in Nat /\ e \in Nat /\ z \in BOOLEAN /\ InOrder(s, PlacesIn(s, K), m, e, z)
        /\ s \in Seq(DownPackets) /\ s # <<>> /\ t = Tail(s) /\ p = Head(s)
    BY <1>1, <1>7, UserFacts, FromMixPlaces DEF Fits
  <2>2. ShrunkTo(p, t, K, m, e, z)
    BY ONLY <2>1, FromMixShrinks
  <2> QED BY <2>2 DEF ShrunkTo
(* Those who get nothing.                                                  *)
<1>8. ASSUME NEW w, NEW j, Concerned(w, j), Unsent(w)' = Unsent(w) \/
               (\E s \in UserPackets : s.in # j /\ Unsent(w)' = Append(Unsent(w), s)),
             Known(w, j)' = Known(w, j), \A c \in Known(w, j) : p.out # c.out
      PROVE  WayFits(w, j)'
  <2> PICK m, e, y, z : Fits(w, j, m, e, y, z) BY <1>8, ConcernedFit DEF WayFits
  <2>1. /\ m \in Nat /\ e \in Nat /\ y \in BOOLEAN /\ z \in BOOLEAN
        /\ InOrder(Unsent(w), Mine(Unsent(w), j), view[w][j], m, y)
        /\ y => Known(w, j) = {}
        /\ ~y /\ ~z => \E c \in Known(w, j) : SentIn(c) = e
    BY UnsentIsMine DEF Fits
  <2>2. InFromMix(w, j)' = PlacesIn(t, Known(w, j)) BY <1>8 DEF InFromMix, PlacesIn
  <2>3. InOrder(t, PlacesIn(t, Known(w, j)), m, e, z) BY <1>7, <1>8
  <2>4. InUnsent(w, j)' = Mine(Unsent(w)', j) BY DEF InUnsent, Mine
  <2>5. InOrder(Unsent(w)', Mine(Unsent(w)', j), view[w][j], m, y)
    <3>1. CASE Unsent(w)' = Unsent(w) BY <2>1, <3>1
    <3>2. ASSUME NEW s \in UserPackets, s.in # j, Unsent(w)' = Append(Unsent(w), s)
          PROVE  InOrder(Unsent(w)', Mine(Unsent(w)', j), view[w][j], m, y)
      <4>1. Unsent(w) \in Seq(UserPackets) BY <1>8, UserFacts, UnsentTyped DEF Concerned
      <4>2. InOrder(Append(Unsent(w), s), Mine(Append(Unsent(w), s), j), view[w][j], m, y)
        BY <2>1, <3>2, <4>1, OthersJoin
      <4> QED BY <3>2, <4>2
    <3> QED BY <1>8, <3>1, <3>2
  <2>6. InOrder(Unsent(w)', InUnsent(w, j)', view'[w][j], m, y) BY <1>1, <2>4, <2>5
  <2>7. Fits(w, j, m, e, y, z)' BY <1>6, <1>8, <2>1, <2>2, <2>3, <2>6 DEF Fits
  <2> QED BY <2>7 DEF WayFits
<1>9. CASE (\A c \in channels : c.out # p.out) /\ UNCHANGED <<channels, sendQ>>
  <2>1. QueuesTyped' BY <1>1, <1>9, UserFacts DEF QueuesTyped
  <2>2. ASSUME NEW w, NEW j, Concerned(w, j)' PROVE WayFits(w, j)'
    <3>1. Concerned(w, j) BY <1>1, <2>2 DEF Concerned
    <3>2. Known(w, j)' = Known(w, j) /\ \A c \in Known(w, j) : p.out # c.out
      BY <1>9, KnownStays DEF Known
    <3>3. Unsent(w)' = Unsent(w) BY <1>1, <1>9 DEF Unsent
    <3> QED BY <1>8, <3>1, <3>2, <3>3
  <2> QED BY <1>5, <2>1, <2>2, AllFit
<1>10. ASSUME NEW c \in channels, c.out = p.out, channels' = AfterDown(p, c),
              sendQ' = [sendQ EXCEPT ![c.user] = Append(@, DownPacket(p.kind, c.in, p.nr))]
       PROVE  UserInv'
  <2> PICK s : s = DownPacket(p.kind, c.in, p.nr) OBVIOUS
  <2> PICK u, i : u = c.user /\ i = c.in OBVIOUS
  <2>1. u \in Users /\ i \in InIds /\ c.user = u /\ c.in = i BY UserFacts
  <2>2. s \in UserPackets /\ s.in = i /\ s.kind = p.kind /\ s.nr = p.nr
    BY <1>2, <2>1, PacketAssumption DEF DownPacket, UserPackets, PacketAssumption
  <2>3. sendQ' = [sendQ EXCEPT ![u] = Append(@, s)] BY <1>10
  <2>4. QueuesTyped'
    <3>1. sendQ' \in [Users -> Seq(UserPackets)] BY <2>1, <2>2, <2>3, UserFacts DEF QueuesTyped
    <3> QED BY <1>1, <3>1, UserFacts DEF QueuesTyped
  <2>5. /\ Unsent(u)' = Append(Unsent(u), s)
        /\ \A w \in Users : w # u => sendQ'[w] = sendQ[w]
    BY <1>1, <2>1, <2>3, UserFacts, JoinedQueue
  <2>6. \A d \in channels : d.out = p.out => d = c
    BY <1>10, UserFacts DEF PacketInv, OutsUnique
  <2>7. ASSUME NEW w, NEW j, Concerned(w, j)' PROVE WayFits(w, j)'
    <3>1. Concerned(w, j) /\ w \in Users /\ j \in InIds BY <1>1, <2>7 DEF Concerned
    <3>2. CASE ~(w = u /\ j = i)
      <4>1. c \notin Known(w, j) BY <2>1, <3>2 DEF Known
      <4>2. Known(w, j)' = Known(w, j) BY <1>10, <4>1 DEF Known, AfterDown
      <4>3. \A d \in Known(w, j) : p.out # d.out BY <2>6, <4>1 DEF Known
      <4>4. CASE w # u
        <5>1. Unsent(w)' = Unsent(w) BY <1>1, <2>5, <3>1, <4>4 DEF Unsent
        <5> QED BY <1>8, <3>1, <4>2, <4>3, <5>1
      <4>5. CASE w = u
        <5>1. s.in # j /\ Unsent(w)' = Append(Unsent(w), s) BY <2>2, <2>5, <3>2, <4>5
        <5> QED BY <1>8, <2>2, <3>1, <4>2, <4>3, <5>1
      <4> QED BY <4>4, <4>5
    <3>3. CASE w = u /\ j = i
      <4> PICK m, e, y, z : Fits(w, j, m, e, y, z) BY <3>1, ConcernedFit DEF WayFits
      <4>1. Known(w, j) = {c}
        BY <2>1, <3>3, UserFacts DEF Known, KnownOnce
      <4>2. /\ m \in Nat /\ e \in Nat /\ y \in BOOLEAN /\ z \in BOOLEAN
            /\ InOrder(Unsent(w), Mine(Unsent(w), j), view[w][j], m, y)
            /\ ~y
            /\ ~y /\ ~z => \E d \in Known(w, j) : SentIn(d) = e
        BY <4>1, UnsentIsMine DEF Fits
      <4>3. InOrder(Unsent(w), Mine(Unsent(w), j), view[w][j], m, FALSE)
        <5>1. y = FALSE BY <4>2
        <5> QED BY <4>2, <5>1
      <4>4. /\ Unsent(w) \in Seq(UserPackets) /\ view[w][j] \in Nat
        BY <3>1, UserFacts, UnsentTyped DEF Concerned
      <4>5. /\ s.kind = "data" /\ s.nr = m + 1 =>
                 InOrder(Append(Unsent(w), s), Mine(Append(Unsent(w), s), j), view[w][j], m + 1, FALSE)
            /\ s.kind = "close" /\ s.nr = m =>
                 InOrder(Append(Unsent(w), s), Mine(Append(Unsent(w), s), j), view[w][j], m, TRUE)
        BY <2>2, <3>3, <4>2, <4>3, <4>4, ChannelJoins
      <4>6. InUnsent(w, j)' = Mine(Append(Unsent(w), s), j) /\ Unsent(w)' = Append(Unsent(w), s)
        BY <2>5, <3>3 DEF InUnsent, Mine
      <4>7. \E d \in Known(w, j) : p.out = d.out BY <1>10, <4>1
      <4>8. CASE p.kind = "data"
        <5>1. Known(w, j)' = Known(w, j) BY <1>10, <4>8 DEF Known, AfterDown
        <5>2. InFromMix(w, j)' = PlacesIn(t, Known(w, j)) BY <5>1 DEF InFromMix, PlacesIn
        <5>3. p.nr = m + 1 /\ InOrder(fromMix', InFromMix(w, j)', m + 1, e, z)
          <6>1. p.nr = m + 1 /\ InOrder(t, PlacesIn(t, Known(w, j)), m + 1, e, z)
            BY <1>7, <4>7, <4>8
          <6> QED BY <5>2, <6>1
        <5>4. InOrder(Unsent(w)', InUnsent(w, j)', view'[w][j], m + 1, FALSE)
          BY <1>1, <2>2, <4>5, <4>6, <4>8, <5>3
        <5>5. m + 1 \in Nat BY <4>2
        <5>6. Fits(w, j, m + 1, e, FALSE, z)'
          BY <1>6, <4>2, <5>1, <5>3, <5>4, <5>5 DEF Fits
        <5> QED BY <5>6 DEF WayFits
      <4>9. CASE p.kind # "data"
        <5>1. p.kind = "close" /\ p.nr = m BY <1>7, <4>7, <4>9
        <5>2. Known(w, j)' = {} BY <1>10, <4>1, <5>1 DEF Known, AfterDown
        <5>3. InFromMix(w, j)' = {} BY <5>2 DEF InFromMix
        <5>4. InOrder(fromMix', InFromMix(w, j)', m, m, FALSE) BY <4>2, <5>3 DEF InOrder
        <5>5. InOrder(Unsent(w)', InUnsent(w, j)', view'[w][j], m, TRUE)
          BY <1>1, <2>2, <4>5, <4>6, <5>1
        <5>6. Fits(w, j, m, m, TRUE, FALSE)' BY <4>2, <5>2, <5>4, <5>5 DEF Fits
        <5> QED BY <5>6 DEF WayFits
      <4> QED BY <4>8, <4>9
    <3> QED BY <3>2, <3>3
  <2> QED BY <1>5, <2>4, <2>7, AllFit
<1> QED BY <1>3, <1>9, <1>10

(* sendToUsers() takes the packet it is to send out of its queue, or goes  *)
(* on with the one it has begun: of a channel the user has yet to get the  *)
(* same packets.                                                           *)
LEMMA PacketChosen ==
  ASSUME QueuesTyped, NEW u \in Users, NEW p, p = PacketOf(u),
         NEW q, q = IF Takes(u) /\ Chosen(u) = "data" THEN Tail(sendQ[u]) ELSE sendQ[u]
  PROVE  /\ p \in UserPackets /\ q \in Seq(UserPackets)
         /\ \A i \in InIds : \A lo, hi, ended :
              InOrder(Unsent(u), Mine(Unsent(u), i), lo, hi, ended)
                => InOrder(<<p>> \o q, Mine(<<p>> \o q, i), lo, hi, ended)
<1>1. part[u] \in UserPackets /\ sendQ[u] \in Seq(UserPackets) BY DEF QueuesTyped
<1>2. CASE ~Takes(u)
  <2>1. p = part[u] /\ q = sendQ[u] BY <1>2 DEF PacketOf
  <2>2. Unsent(u) = <<p>> \o q BY <2>1 DEF Unsent
  <2> QED BY <1>1, <2>1, <2>2
<1>3. CASE Takes(u) /\ Chosen(u) = "control"
  <2>1. p = Control /\ q = sendQ[u] /\ part[u] = Nothing BY <1>3 DEF PacketOf, Takes
  <2>2. Unsent(u) = <<Nothing>> \o q BY <2>1 DEF Unsent
  <2>3. \A i \in InIds : Nothing.in # i /\ p.in # i BY <2>1, KindsOfPackets
  <2>4. p \in UserPackets /\ Nothing \in UserPackets /\ q \in Seq(UserPackets)
    BY <1>1, <2>1, KindsOfPackets
  <2>5. ASSUME NEW i \in InIds, NEW lo, NEW hi, NEW ended,
               InOrder(<<Nothing>> \o q, Mine(<<Nothing>> \o q, i), lo, hi, ended)
        PROVE  InOrder(<<p>> \o q, Mine(<<p>> \o q, i), lo, hi, ended)
    BY <2>3, <2>4, <2>5, FrontReplaced
  <2> QED BY <2>2, <2>4, <2>5
<1>4. CASE Takes(u) /\ Chosen(u) = "data"
  <2>1. p = Head(sendQ[u]) /\ q = Tail(sendQ[u]) /\ part[u] = Nothing /\ sendQ[u] # <<>>
    BY <1>4 DEF PacketOf, Takes, Chosen
  <2> PICK s : s = sendQ[u] OBVIOUS
  <2>2. p \in UserPackets /\ q \in Seq(UserPackets) /\ s \in Seq(UserPackets) BY <1>1, <2>1
  <2>3. <<p>> \o q = s BY <2>1, <2>2
  <2>4. Unsent(u) = <<Nothing>> \o s BY <2>1 DEF Unsent
  <2>5. Nothing \in UserPackets /\ \A i \in InIds : Nothing.in # i BY KindsOfPackets
  <2>6. ASSUME NEW i \in InIds, NEW lo, NEW hi, NEW ended,
               InOrder(<<Nothing>> \o s, Mine(<<Nothing>> \o s, i), lo, hi, ended)
        PROVE  InOrder(s, Mine(s, i), lo, hi, ended)
    BY <2>2, <2>5, <2>6, FrontGone
  <2> QED BY <2>2, <2>3, <2>4, <2>6
<1> QED BY <1>2, <1>3, <1>4 DEF Takes, Chosen

(* What the user makes of a packet.                                        *)
LEMMA PacketSeen ==
  ASSUME QueuesTyped, NEW u \in Users, NEW p \in UserPackets, view' = Seen(u, p)
  PROVE  /\ view' \in [Users -> [InIds -> {None, Refused} \cup Nat]]
         /\ \A w \in Users, j \in InIds : ~(w = u /\ p.in = j) => view'[w][j] = view[w][j]
         /\ \A j \in InIds : p.in = j /\ view'[u][j] \in Nat =>
              p.kind = "data" /\ view[u][j] \in Nat /\ view'[u][j] = view[u][j] + 1
<1>1. view \in [Users -> [InIds -> {None, Refused} \cup Nat]] BY DEF QueuesTyped
<1>2. CASE p.kind = "data"
  <2> PICK i : i = p.in OBVIOUS
  <2>1. i \in InIds BY <1>2, KindsOfPackets
  <2> PICK v : v = view[u][i] OBVIOUS
  <2> PICK x : x = IF v = None THEN v ELSE v + 1 OBVIOUS
  <2>2. view' = [view EXCEPT ![u][i] = x] BY <1>2 DEF Seen
  <2>3. v \in {None, Refused} \cup Nat BY <1>1, <2>1
  <2>4. x \in {None, Refused} \cup Nat /\ (x \in Nat => v \in Nat /\ x = v + 1)
    <3>1. CASE v = None BY <3>1 DEF None
    <3>2. CASE v = Refused
      <4>1. x = -1 BY <3>2 DEF None, Refused
      <4> QED BY <4>1 DEF None
    <3>3. CASE v \in Nat
      <4>1. v # None BY <3>3 DEF None
      <4> QED BY <3>3, <4>1
    <3> QED BY <2>3, <3>1, <3>2, <3>3
  <2>5. \A w \in Users, j \in InIds :
          view'[w][j] = IF w = u /\ j = i THEN x ELSE view[w][j]
    BY <1>1, <2>1, <2>2
  <2>6. view' \in [Users -> [InIds -> {None, Refused} \cup Nat]]
    <3> PICK S : S = {None, Refused} \cup Nat OBVIOUS
    <3>1. view \in [Users -> [InIds -> S]] /\ x \in S BY <1>1, <2>4
    <3>2. [view EXCEPT ![u][i] = x] \in [Users -> [InIds -> S]] BY ONLY <2>1, <3>1
    <3> QED BY <2>2, <3>2
  <2> QED BY <1>2, <2>4, <2>5, <2>6
<1>3. CASE p.kind = "close"
  <2> PICK i : i = p.in OBVIOUS
  <2>1. i \in InIds BY <1>3, KindsOfPackets
  <2>2. view' = [view EXCEPT ![u][i] = None] BY <1>3 DEF Seen
  <2>3. \A w \in Users, j \in InIds :
          view'[w][j] = IF w = u /\ j = i THEN None ELSE view[w][j]
    BY <1>1, <2>1, <2>2
  <2>4. view' \in [Users -> [InIds -> {None, Refused} \cup Nat]]
    <3> PICK S, x : S = {None, Refused} \cup Nat /\ x = None OBVIOUS
    <3>1. view \in [Users -> [InIds -> S]] /\ x \in S BY <1>1
    <3>2. [view EXCEPT ![u][i] = x] \in [Users -> [InIds -> S]] BY ONLY <2>1, <3>1
    <3> QED BY <2>2, <3>2
  <2>5. None \notin Nat BY DEF None
  <2> QED BY <2>3, <2>4, <2>5
<1>4. CASE p.kind \notin {"data", "close"}
  <2>1. view' = view BY <1>4 DEF Seen
  <2>2. p.in \notin InIds BY <1>4, KindsOfPackets
  <2> QED BY <1>1, <2>1, <2>2
<1> QED BY <1>2, <1>3, <1>4

LEMMA SendSteps ==
  ASSUME UserInv, PacketInv', NEW u \in Users, SendToUser(u)
  PROVE  UserInv'
<1> PICK p : p = PacketOf(u) OBVIOUS
<1> PICK q : q = IF Takes(u) /\ Chosen(u) = "data" THEN Tail(sendQ[u]) ELSE sendQ[u] OBVIOUS
<1>1. /\ UNCHANGED <<here, channels, toMix, fromMix, atMix>>
      /\ sendQ' = [sendQ EXCEPT ![u] = q] /\ forced \subseteq forced' /\ u \in here
      /\ \/ part' = [part EXCEPT ![u] = p] /\ UNCHANGED view
         \/ part' = [part EXCEPT ![u] = Nothing] /\ view' = Seen(u, p)
  BY DEF SendToUser
<1>2. /\ p \in UserPackets /\ q \in Seq(UserPackets)
      /\ \A i \in InIds : \A lo, hi, ended :
           InOrder(Unsent(u), Mine(Unsent(u), i), lo, hi, ended)
             => InOrder(<<p>> \o q, Mine(<<p>> \o q, i), lo, hi, ended)
  BY UserFacts, PacketChosen
<1> PICK f : f = part'[u] OBVIOUS
<1>3. /\ f \in UserPackets /\ Unsent(u)' = <<f>> \o q
      /\ part' \in [Users -> UserPackets] /\ sendQ' \in [Users -> Seq(UserPackets)]
      /\ \A w \in Users : w # u => part'[w] = part[w] /\ sendQ'[w] = sendQ[w]
      /\ f = p \/ f = Nothing
  BY <1>1, <1>2, UserFacts, KindsOfPackets DEF QueuesTyped, Unsent
<1>4. /\ view' \in [Users -> [InIds -> {None, Refused} \cup Nat]]
      /\ \A w \in Users, j \in InIds : w # u => view'[w][j] = view[w][j]
  BY <1>1, <1>2, UserFacts, PacketSeen DEF QueuesTyped
<1>5. QueuesTyped' BY <1>3, <1>4 DEF QueuesTyped
<1>6. KnownOnce' /\ TableNotClosed' BY <1>1, UserFacts DEF KnownOnce, TableNotClosed
<1>7. AbsentAreClosed' BY <1>1, <1>4, UserFacts DEF AbsentAreClosed
<1>8. ASSUME NEW j \in InIds, u \notin forced, view'[u][j] \in Nat PROVE WayFits(u, j)'
  <2>1. /\ view[u][j] \in Nat
        /\ \A hi \in Nat, ended \in BOOLEAN :
             InOrder(Unsent(u), Mine(Unsent(u), j), view[u][j], hi, ended)
               => InOrder(<<f>> \o q, Mine(<<f>> \o q, j), view'[u][j], hi, ended)
    <3>1. CASE part' = [part EXCEPT ![u] = p] /\ UNCHANGED view
      <4>1. f = p BY <3>1, UserFacts DEF QueuesTyped
      <4> QED BY <1>2, <1>8, <3>1, <4>1
    <3>2. CASE part' = [part EXCEPT ![u] = Nothing] /\ view' = Seen(u, p)
      <4>1. f = Nothing /\ f.in # j /\ f \in UserPackets
        BY <1>3, <3>2, UserFacts, KindsOfPackets DEF QueuesTyped
      <4>2. CASE p.in # j
        <5>1. view'[u][j] = view[u][j] BY <1>2, <3>2, <4>2, UserFacts, PacketSeen
        <5>2. ASSUME NEW hi \in Nat, NEW ended \in BOOLEAN,
                     InOrder(Unsent(u), Mine(Unsent(u), j), view[u][j], hi, ended)
              PROVE  InOrder(<<f>> \o q, Mine(<<f>> \o q, j), view[u][j], hi, ended)
          <6>1. InOrder(<<p>> \o q, Mine(<<p>> \o q, j), view[u][j], hi, ended)
            BY <1>2, <5>2
          <6> QED BY <1>2, <4>1, <4>2, <6>1, FrontReplaced
        <5> QED BY <1>8, <5>1, <5>2
      <4>3. CASE p.in = j
        <5> PICK v : v = view[u][j] OBVIOUS
        <5>1. p.kind = "data" /\ v \in Nat /\ view'[u][j] = v + 1
          BY <1>2, <1>8, <3>2, <4>3, UserFacts, PacketSeen
        <5>2. ASSUME NEW hi \in Nat, NEW ended \in BOOLEAN,
                     InOrder(Unsent(u), Mine(Unsent(u), j), v, hi, ended)
              PROVE  InOrder(<<f>> \o q, Mine(<<f>> \o q, j), v + 1, hi, ended)
          <6>1. InOrder(<<p>> \o q, Mine(<<p>> \o q, j), v, hi, ended)
            BY <1>2, <5>2
          <6>2. /\ p \in UserPackets /\ f \in UserPackets /\ q \in Seq(UserPackets)
                /\ p.in = j /\ f.in # j /\ v \in Nat /\ p.kind = "data"
                /\ hi \in Nat /\ ended \in BOOLEAN
            BY <1>2, <4>1, <4>3, <5>1
          <6> QED BY ONLY <6>1, <6>2, FrontTaken
        <5> QED BY <5>1, <5>2
      <4> QED BY <4>2, <4>3
    <3> QED BY <1>1, <3>1, <3>2
  <2>2. Concerned(u, j) BY <1>1, <1>8, <2>1 DEF Concerned
  <2> PICK m, e, y, z : Fits(u, j, m, e, y, z) BY <2>2, ConcernedFit DEF WayFits
  <2>3. /\ m \in Nat /\ y \in BOOLEAN
        /\ InOrder(Unsent(u), Mine(Unsent(u), j), view[u][j], m, y)
    BY UnsentIsMine DEF Fits
  <2>4. InUnsent(u, j)' = Mine(<<f>> \o q, j) BY <1>3 DEF InUnsent, Mine
  <2>5. InOrder(Unsent(u)', InUnsent(u, j)', view'[u][j], m, y)
    BY <1>3, <2>1, <2>3, <2>4
  <2>6. Known(u, j)' = Known(u, j) /\ \A c : SentIn(c)' = SentIn(c)
    BY <1>1, KnownStays, SentStays
  <2>7. InFromMix(u, j)' = InFromMix(u, j) BY <1>1, <2>6 DEF InFromMix
  <2>8. Fits(u, j, m, e, y, z)' BY <1>1, <2>5, <2>6, <2>7 DEF Fits
  <2> QED BY <2>8 DEF WayFits
<1>9. ASSUME NEW w, NEW j, Concerned(w, j)' PROVE WayFits(w, j)'
  <2>1. w \in Users /\ j \in InIds /\ w \notin forced /\ w \in here /\ view'[w][j] \in Nat
    BY <1>1, <1>9 DEF Concerned
  <2>2. CASE w = u BY <1>8, <2>1, <2>2
  <2>3. CASE w # u
    <3>1. Concerned(w, j) /\ view'[w][j] = view[w][j] BY <1>4, <2>1, <2>3 DEF Concerned
    <3> QED BY <1>1, <1>3, <2>1, <2>3, <3>1, ConcernedFit, SameWay, KnownStays, SentStays
  <2> QED BY <2>2, <2>3
<1> QED BY <1>5, <1>6, <1>7, <1>9, AllFit

LEMMA UserStepsKeepFitting == UserInv /\ [PNext]_fmvars => UserInv'
<1> SUFFICES ASSUME UserInv, [PNext]_fmvars PROVE UserInv'
  OBVIOUS
<1>1. PacketInv' BY UserFacts, PacketsKeepAgreeing
<1>2. ASSUME NEW u \in Users,
             \/ UserEnters(u) \/ ForcedOut(u) \/ ControlPacket(u) \/ RefusedByAccounting(u)
             \/ \E i \in InIds : DataPacket(u, i)
      PROVE  UserInv'
  BY <1>1, <1>2, QuietSteps
<1>3. ASSUME NEW u \in Users, Kickout(u) PROVE UserInv'
  BY <1>1, <1>3, KickoutSteps
<1>4. ASSUME NEW u \in Users, ConnectionCloses(u) PROVE UserInv'
  BY <1>1, <1>4, ConnectionEnds
<1>5. ASSUME NEW u \in Users, DummyPacket(u) PROVE UserInv'
  BY <1>1, <1>5, DummySteps
<1>6. ASSUME NEW u \in Users, NEW i \in InIds, OpenPacket(u, i) PROVE UserInv'
  BY <1>1, <1>6, OpenSteps
<1>7. ASSUME NEW u \in Users, NEW i \in InIds, ClosePacket(u, i) PROVE UserInv'
  BY <1>1, <1>7, CloseSteps
<1>8. ASSUME NEW u \in Users, SendToUser(u) PROVE UserInv'
  BY <1>1, <1>8, SendSteps
<1>9. CASE MixTakes BY <1>1, <1>9, MixTakesSteps
<1>10. CASE FromMix BY <1>1, <1>10, FromMixSteps
<1>11. ASSUME NEW o \in OutIds, MixSends(o) PROVE UserInv'
  BY <1>1, <1>11, MixSendsSteps
<1>12. CASE UNCHANGED fmvars
  <2>1. UNCHANGED <<here, forced, channels, toMix, fromMix, sendQ, part, view, atMix>>
    BY <1>12 DEF fmvars
  <2>2. QueuesTyped' /\ AbsentAreClosed' /\ KnownOnce' /\ TableNotClosed'
    BY <2>1, UserFacts DEF QueuesTyped, AbsentAreClosed, KnownOnce, TableNotClosed
  <2>3. ASSUME NEW w, NEW j, Concerned(w, j)' PROVE WayFits(w, j)'
    <3>1. Concerned(w, j) BY <2>1, <2>3 DEF Concerned
    <3> QED BY <2>1, <3>1, ConcernedFit, SameWay, KnownStays, SentStays
  <2> QED BY <1>1, <2>2, <2>3, AllFit
<1> QED
  BY <1>2, <1>3, <1>4, <1>5, <1>6, <1>7, <1>8, <1>9, <1>10, <1>11, <1>12 DEF PNext

OnlyUsersAreHere == here \subseteq Users

(* Behind the user's queues, the packets of all users from the next mix.   *)
LEMMA UserWaysFit ==
  ASSUME UserInv, OnlyUsersAreHere
  PROVE  UserAgrees
<1> SUFFICES ASSUME NEW u \in here \ forced, NEW i \in InIds, view[u][i] \notin {None, Refused}
             PROVE  LET way == OnTheWay(u)
                        mine == PlacesOf(u, i)
                    IN \/ \E k \in mine : /\ way[k].kind = "close"
                                          /\ InOrder(way, mine, view[u][i], way[k].nr, TRUE)
                       \/ \E c \in Known(u, i) : InOrder(way, mine, view[u][i], SentIn(c), FALSE)
  BY DEF UserAgrees
<1> PICK lo : lo = view[u][i] OBVIOUS
<1>1. u \in Users /\ lo \in Nat BY UserFacts DEF QueuesTyped, OnlyUsersAreHere
<1> PICK m, e, y, z : Fits(u, i, m, e, y, z)
  <2>1. Concerned(u, i) BY <1>1 DEF Concerned
  <2> QED BY <2>1, ConcernedFit DEF WayFits
<1> PICK s, D : s = Unsent(u) /\ D = InUnsent(u, i) OBVIOUS
<1> PICK t, E : t = fromMix /\ E = InFromMix(u, i) OBVIOUS
<1> PICK way, mine, n : way = OnTheWay(u) /\ mine = PlacesOf(u, i) /\ n = Len(s) OBVIOUS
<1>2. /\ m \in Nat /\ e \in Nat /\ y \in BOOLEAN /\ z \in BOOLEAN
      /\ InOrder(s, D, lo, m, y) /\ InOrder(t, E, m, e, z)
      /\ y => E = {}
      /\ ~y /\ ~z => \E c \in Known(u, i) : SentIn(c) = e
  BY DEF Fits, InFromMix
<1>3. /\ D \in SUBSET Int /\ \A k \in D : s[k].nr \in Nat /\ k >= 1 /\ k <= n
      /\ s \in Seq(UserPackets) /\ n \in Nat
  BY <1>1, UserFacts, UnsentTyped, UnsentIsMine, MineTyped
<1>4. /\ E \in SUBSET Int /\ \A k \in E : t[k].nr \in Nat /\ k >= 1
      /\ t \in Seq(DownPackets) /\ \A k \in E : k \in DOMAIN t
  BY UserFacts, FromMixTyped DEF InFromMix
<1>5. way = s \o t /\ mine = D \cup {n + k : k \in E}
  BY DEF OnTheWay, PlacesOf
<1>6. /\ \A k \in 1..n : way[k] = s[k]
      /\ \A k \in DOMAIN t : way[n + k] = t[k]
  BY <1>3, <1>4, <1>5
<1>7. /\ \A k \in D : k <= n /\ way[k] = s[k]
      /\ \A k \in E : k >= 1 /\ way[n + k] = t[k]
  BY <1>3, <1>4, <1>6
<1> PICK ended : ended = (y \/ z) OBVIOUS
<1>8. InOrder(way, mine, lo, e, ended)
  <2>1. JoinedTo(way, mine, s, D, t, E, n) BY <1>5, <1>7 DEF JoinedTo
  <2>2. InOrder(way, mine, lo, e, y \/ z)
    BY ONLY <1>1, <1>2, <1>3, <1>4, <2>1, OrderJoins
  <2> QED BY <2>2
<1>9. CASE y \/ z
  <2>1. ended = TRUE BY <1>2, <1>9
  <2>2. InOrder(way, mine, lo, e, TRUE) BY <1>8, <2>1
  <2>3. PICK k \in mine : way[k].kind = "close" BY <2>2 DEF InOrder
  <2>4. way[k].nr = e BY <2>2, <2>3 DEF InOrder
  <2> QED BY <2>2, <2>3, <2>4
<1>10. CASE ~y /\ ~z
  <2>1. ended = FALSE BY <1>2, <1>10
  <2>2. PICK c \in Known(u, i) : SentIn(c) = e BY <1>2, <1>10
  <2>3. InOrder(way, mine, lo, SentIn(c), FALSE) BY <1>8, <2>1, <2>2
  <2> QED BY <2>3
<1> QED BY <1>9, <1>10

(* A user who is not being kicked out gets every packet of its channels,   *)
(* once, in the order of the next mix and the CLOSE last, for any number   *)
(* of users, channels and packets: in loop() and sendToUsers() no order of *)
(* sending in parts, of control messages that overtake data, of closes     *)
(* from either side and of connections that end loses or repeats one.      *)
THEOREM UsersGetAllInOrder == PSpec => []UserAgrees
<1>1. PInit => UserInv /\ OnlyUsersAreHere
  <2>1. PInit => OnlyUsersAreHere BY DEF PInit, OnlyUsersAreHere
  <2> QED BY <2>1, UserStart
<1>2. UserInv /\ OnlyUsersAreHere /\ [PNext]_fmvars => UserInv' /\ OnlyUsersAreHere'
  <2>1. [PNext]_fmvars => here' \subseteq here \cup Users
    BY DEF PNext, fmvars, UserEnters, ForcedOut, Kickout, ConnectionCloses, CloseConnection,
           ControlPacket, RefusedByAccounting, DummyPacket, OpenPacket, DataPacket, ClosePacket,
           SendToUser, MixTakes, FromMix, MixSends
  <2> QED BY <2>1, UserStepsKeepFitting DEF OnlyUsersAreHere
<1>3. UserInv /\ OnlyUsersAreHere => UserAgrees BY UserWaysFit
<1> QED BY <1>1, <1>2, <1>3, PTL DEF PSpec

-----------------------------------------------------------------------------
(* The control channel.                                                    *)

Messages == [nr : Nat, len : Lengths, alone : BOOLEAN]
Total(m) == Header + m.len + Tag

MessagePieces == {p \in [message : Messages, from : Nat, to : Nat] :
                    p.from < p.to /\ p.to <= Total(p.message)}

Final(p) == p.to = Total(p.message)

ChannelTypes ==
  /\ encCounter \in Nat /\ decCounter \in Nat /\ msgLeft \in Nat
  /\ ready \in [Threads -> Messages \cup {NoMessage}]
  /\ packets \in Seq(MessagePieces) /\ msgBuff \in Seq(MessagePieces)
  /\ IsFiniteSet(Waiting)

(* Behind the last piece of a message comes the first of another, behind   *)
(* any other the next of the same message; the last packet is a last piece.*)
PiecesInOrder ==
  /\ \A i \in 1..(Len(packets) - 1) :
       IF Final(packets[i]) THEN packets[i + 1].from = 0
       ELSE /\ packets[i + 1].message = packets[i].message
            /\ packets[i + 1].from = packets[i].to
  /\ packets # <<>> => Final(packets[Len(packets)])

(* The buffer holds the beginning of a message, the rest comes next.       *)
Begins(buff) ==
  /\ Len(buff) >= 1 /\ buff[1].from = 0
  /\ \A k \in 1..(Len(buff) - 1) :
       buff[k + 1].message = buff[1].message /\ buff[k + 1].from = buff[k].to

BufferFits ==
  IF msgLeft = 0 THEN packets # <<>> => packets[1].from = 0
  ELSE /\ Begins(msgBuff) /\ packets # <<>>
       /\ packets[1].message = msgBuff[1].message
       /\ packets[1].from = msgBuff[Len(msgBuff)].to
       /\ msgBuff[Len(msgBuff)].to + msgLeft = Total(msgBuff[1].message)

(* The messages in the queue are counted from what the receiver counts     *)
(* next: n says for every packet with which number it will be decrypted.   *)
(* All that were encrypted are completed, in the queue or with a thread.   *)
Numbers(n) ==
  /\ n \in [1..Len(packets) -> Nat]
  /\ packets # <<>> => n[1] = decCounter
  /\ \A i \in 1..(Len(packets) - 1) :
       n[i + 1] = IF Final(packets[i]) THEN n[i] + 1 ELSE n[i]
  /\ \A i \in 1..Len(packets) : packets[i].message.alone => n[i] = packets[i].message.nr
  /\ encCounter = (IF packets = <<>> THEN decCounter ELSE n[Len(packets)] + 1)
                    + Cardinality(Waiting)

(* Who is alone between its two steps has the latest number.               *)
AloneIsLatest ==
  \A t \in Waiting : ready[t].alone => Waiting = {t} /\ ready[t].nr = encCounter - 1

ChannelInv ==
  /\ ChannelTypes /\ PiecesInOrder /\ BufferFits
  /\ (\E n : Numbers(n)) /\ AloneIsLatest /\ DecryptedInStep

LEMMA PieceCount ==
  ASSUME NEW b \in Nat \ {0}, NEW d \in Nat \ {0}
  PROVE  LET n == (b + d - 1) \div d
         IN  n \in Nat /\ n >= 1 /\ (n - 1) * d < b /\ b <= n * d
OBVIOUS

LEMMA Multiples ==
  ASSUME NEW a \in Nat, NEW b \in Nat, a <= b, NEW d \in Nat
  PROVE  a * d <= b * d /\ a * d \in Nat
OBVIOUS

(* What sendMessages() makes of a message.                                 *)
LEMMA PiecesOfMessage ==
  ASSUME NEW m \in Messages
  PROVE  LET s == Pieces(m, Total(m)) IN
         /\ s \in Seq(MessagePieces) /\ Len(s) >= 1
         /\ s[1].from = 0 /\ Final(s[Len(s)])
         /\ \A k \in 1..Len(s) : s[k].message = m
         /\ \A k \in 1..(Len(s) - 1) : ~Final(s[k]) /\ s[k + 1].from = s[k].to
<1> PICK b : b = Total(m) OBVIOUS
<1> PICK d : d = DataSize OBVIOUS
<1>1. b \in Nat \ {0} /\ d \in Nat \ {0} /\ Total(m) = b
  <2>1. m.len \in Nat /\ Header \in Nat \ {0} /\ Tag \in Nat /\ DataSize \in Nat \ {0}
    <3>1. Header \in Nat /\ Header # 0 /\ Tag \in Nat /\ DataSize \in Nat /\ DataSize >= Header
      BY ControlAssumption DEF ControlAssumption
    <3>2. m.len \in Nat BY ControlAssumption DEF ControlAssumption, Messages
    <3> QED BY ONLY <3>1, <3>2
  <2> QED BY <2>1, b = Total(m), d = DataSize DEF Total
<1> PICK n : n = (b + d - 1) \div d OBVIOUS
<1>2. n \in Nat /\ n >= 1 /\ (n - 1) * d < b /\ b <= n * d
  <2>1. LET k == (b + d - 1) \div d
        IN  k \in Nat /\ k >= 1 /\ (k - 1) * d < b /\ b <= k * d
    BY ONLY <1>1, PieceCount
  <2> QED BY ONLY <2>1, n = (b + d - 1) \div d, Zenon
<1> PICK s : s = Pieces(m, b) OBVIOUS
<1>3. s = [k \in 1..n |-> Piece(m, (k - 1) * d, IF k * d < b THEN k * d ELSE b)]
  BY DEF Pieces
<1>4. ASSUME NEW k \in 1..n
      PROVE  /\ s[k].message = m /\ s[k].from = (k - 1) * d
             /\ s[k].to = IF k * d < b THEN k * d ELSE b
  BY ONLY <1>3, k \in 1..n DEF Piece
<1>5. ASSUME NEW k \in 1..n
      PROVE  /\ (k - 1) * d \in Nat /\ k * d \in Nat /\ (k - 1) * d < b
             /\ (k - 1) * d < k * d
             /\ k < n => k * d < b
  <2>1. k \in Nat /\ k - 1 \in Nat /\ k - 1 <= n - 1 /\ n - 1 \in Nat /\ d \in Nat
    BY ONLY <1>1, <1>2, k \in 1..n
  <2>2. (k - 1) * d <= (n - 1) * d /\ (k - 1) * d \in Nat BY ONLY <2>1, Multiples
  <2>3. k * d \in Nat BY ONLY <2>1, Multiples, k <= k
  <2>4. k * d = (k - 1) * d + d BY ONLY <1>1, <2>1
  <2>5. ASSUME k < n PROVE k * d < b
    <3>1. k <= n - 1 BY ONLY <1>2, <2>1, <2>5
    <3>2. k * d <= (n - 1) * d /\ (n - 1) * d \in Nat
      BY ONLY <2>1, <3>1, Multiples, n - 1 <= n - 1
    <3> QED BY ONLY <1>1, <1>2, <2>3, <3>2
  <2>6. (n - 1) * d \in Nat BY ONLY <2>1, Multiples, n - 1 <= n - 1
  <2> QED BY ONLY <1>1, <1>2, <2>2, <2>3, <2>4, <2>5, <2>6
<1>6. Len(s) = n /\ \A k \in 1..n : s[k] \in MessagePieces
  <2>1. ASSUME NEW k \in 1..n PROVE s[k] \in MessagePieces
    <3>1. s[k] = Piece(m, (k - 1) * d, IF k * d < b THEN k * d ELSE b)
      BY ONLY <1>3, k \in 1..n
    <3>2. /\ (IF k * d < b THEN k * d ELSE b) \in Nat
          /\ (k - 1) * d < (IF k * d < b THEN k * d ELSE b)
          /\ (IF k * d < b THEN k * d ELSE b) <= b
      BY ONLY <1>1, <1>5
    <3> PICK f, t : f = (k - 1) * d /\ t = IF k * d < b THEN k * d ELSE b OBVIOUS
    <3>3. f \in Nat /\ t \in Nat /\ f < t /\ t <= b BY ONLY <1>5, <3>2, f = (k - 1) * d /\ t = IF k * d < b THEN k * d ELSE b
    <3>4. s[k] = [message |-> m, from |-> f, to |-> t] BY <3>1 DEF Piece
    <3> QED BY ONLY <3>3, <3>4, <1>1, m \in Messages DEF MessagePieces
  <2>2. Len(s) = n BY ONLY <1>2, <1>3
  <2> QED BY ONLY <2>1, <2>2
<1>7. s \in Seq(MessagePieces) BY ONLY <1>2, <1>3, <1>6
<1>8. Final(s[n]) /\ \A k \in 1..(n - 1) : ~Final(s[k]) /\ s[k + 1].from = s[k].to
  <2>1. Final(s[n])
    <3>1. n \in 1..n BY ONLY <1>2
    <3>2. s[n].to = b /\ s[n].message = m BY ONLY <1>1, <1>2, <1>4, <1>5, <3>1
    <3> QED BY ONLY <1>1, <3>2 DEF Final
  <2>2. ASSUME NEW k \in 1..(n - 1) PROVE ~Final(s[k]) /\ s[k + 1].from = s[k].to
    <3>1. k \in 1..n /\ k + 1 \in 1..n /\ k < n /\ (k + 1) - 1 = k BY ONLY <1>2, k \in 1..(n - 1)
    <3>2. k * d < b BY ONLY <1>5, <3>1
    <3>3. s[k].to = k * d /\ s[k].message = m BY ONLY <1>4, <3>1, <3>2
    <3>4. s[k + 1].from = k * d BY ONLY <1>4, <3>1
    <3>5. k * d # b BY ONLY <1>1, <1>5, <3>1, <3>2
    <3> QED BY ONLY <1>1, <3>3, <3>4, <3>5 DEF Final
  <2> QED BY <2>1, <2>2
<1>9. s[1].from = 0 /\ \A k \in 1..n : s[k].message = m
  <2>1. 1 \in 1..n /\ (1 - 1) * d = 0 BY ONLY <1>1, <1>2
  <2> QED BY ONLY <1>4, <2>1
<1> QED BY <1>1, <1>2, <1>6, <1>7, <1>8, <1>9

LEMMA ChannelInit == CInit => ChannelInv
<1> SUFFICES ASSUME CInit PROVE ChannelInv
  OBVIOUS
<1>1. Waiting = {} /\ Cardinality({}) = 0 /\ IsFiniteSet({})
  BY FS_EmptySet DEF CInit, Waiting
<1>2. ChannelTypes BY <1>1 DEF CInit, ChannelTypes
<1>3. Numbers([i \in 1..0 |-> 0]) BY <1>1 DEF CInit, Numbers
<1> QED BY <1>1, <1>2, <1>3
        DEF CInit, ChannelInv, PiecesInOrder, BufferFits, AloneIsLatest, DecryptedInStep, NoMessage

LEMMA NoMessageIsNone == NoMessage \notin Messages
BY DEF NoMessage, Messages

LEMMA NotAlone ==
  ASSUME NEW m \in Messages
  PROVE  LET x == [m EXCEPT !.alone = FALSE] IN x \in Messages /\ ~x.alone
BY DEF Messages

LEMMA WaitingHaveMessages ==
  ASSUME ChannelTypes, NEW t \in Threads
  PROVE  /\ t \in Waiting => ready[t] \in Messages
         /\ t \notin Waiting => ready[t] = NoMessage
BY DEF ChannelTypes, Waiting

(* encryptMessage(): one thread more is between its two steps, and no      *)
(* other is alone.                                                         *)
LEMMA ChannelEncrypt ==
  ASSUME ChannelInv, NEW t \in Threads, Encrypt(t)
  PROVE  ChannelInv'
<1>1. ChannelTypes /\ PiecesInOrder /\ BufferFits /\ AloneIsLatest /\ DecryptedInStep
  BY DEF ChannelInv
<1>2. /\ UNCHANGED <<packets, msgLeft, msgBuff, decCounter, completed>>
      /\ encCounter' = encCounter + 1 /\ encCounter \in Nat
  BY <1>1 DEF Encrypt, CounterAfter, ChannelTypes
<1>3. t \notin Waiting /\ IsFiniteSet(Waiting)
  BY <1>1 DEF Encrypt, Waiting, ChannelTypes
<1> PICK l \in Lengths :
      ready' = [s \in Threads |->
                  IF s = t THEN [nr |-> encCounter, len |-> l, alone |-> Waiting = {}]
                  ELSE IF s \in Waiting THEN [ready[s] EXCEPT !.alone = FALSE]
                  ELSE ready[s]]
  BY DEF Encrypt
<1>4. /\ ready'[t] \in Messages
      /\ ready'[t].alone => Waiting = {}
      /\ ready'[t].nr = encCounter
  <2>1. ready'[t] = [nr |-> encCounter, len |-> l, alone |-> Waiting = {}]
    OBVIOUS
  <2> PICK a \in BOOLEAN : a = (Waiting = {}) OBVIOUS
  <2>2. ready'[t] = [nr |-> encCounter, len |-> l, alone |-> a] BY <2>1
  <2> QED BY <1>2, <2>2 DEF Messages
<1>5. ASSUME NEW s \in Threads, s # t
      PROVE  /\ s \in Waiting => ready'[s] \in Messages /\ ~ready'[s].alone
             /\ s \notin Waiting => ready'[s] = NoMessage
  <2>1. CASE s \in Waiting
    <3>1. ready'[s] = [ready[s] EXCEPT !.alone = FALSE] BY <1>5, <2>1
    <3>2. ready[s] \in Messages BY <1>1, <2>1, WaitingHaveMessages
    <3> QED BY <2>1, <3>1, <3>2, NotAlone
  <2>2. CASE s \notin Waiting
    <3>1. ready'[s] = ready[s] BY <1>5, <2>2
    <3> QED BY <1>1, <2>2, <3>1, WaitingHaveMessages
  <2> QED BY <2>1, <2>2
<1>6. /\ Waiting' = Waiting \cup {t}
      /\ ready' \in [Threads -> Messages \cup {NoMessage}]
  <2>1. \A s \in Threads : ready'[s] # NoMessage <=> s \in Waiting \cup {t}
    BY <1>4, <1>5, NoMessageIsNone
  <2>2. Waiting \subseteq Threads BY DEF Waiting
  <2>3. \A s \in Threads : ready'[s] \in Messages \cup {NoMessage} BY <1>4, <1>5
  <2> QED BY <2>1, <2>2, <2>3 DEF Waiting
<1>7. /\ IsFiniteSet(Waiting)' /\ Cardinality(Waiting)' = Cardinality(Waiting) + 1
      /\ Cardinality(Waiting) \in Nat
  BY <1>3, <1>6, FS_AddElement, FS_CardinalityType
<1>8. ChannelTypes'
  BY <1>1, <1>2, <1>6, <1>7 DEF ChannelTypes
<1>9. PiecesInOrder' /\ BufferFits' /\ DecryptedInStep'
  BY <1>1, <1>2 DEF PiecesInOrder, BufferFits, DecryptedInStep
<1>10. \E n : Numbers(n)'
  <2> PICK n : Numbers(n) BY DEF ChannelInv
  <2> PICK c : c = IF packets = <<>> THEN decCounter ELSE n[Len(packets)] + 1 OBVIOUS
  <2>1. encCounter = c + Cardinality(Waiting) BY DEF Numbers
  <2>2. c \in Nat
    <3>1. packets # <<>> => n[Len(packets)] \in Nat
      BY <1>1 DEF Numbers, ChannelTypes
    <3> QED BY <1>1, <3>1 DEF ChannelTypes
  <2>3. encCounter' = c + Cardinality(Waiting)' BY <1>2, <1>7, <2>1, <2>2
  <2>4. Numbers(n)' BY <1>2, <2>3 DEF Numbers
  <2> QED BY <2>4
<1>11. AloneIsLatest'
  <2> SUFFICES ASSUME NEW u \in Waiting', ready'[u].alone
               PROVE  Waiting' = {u} /\ ready'[u].nr = encCounter' - 1
    BY DEF AloneIsLatest
  <2>1. u = t BY <1>5, <1>6 DEF Waiting
  <2> QED BY <1>2, <1>4, <1>6, <2>1
<1> QED BY <1>8, <1>9, <1>10, <1>11 DEF ChannelInv

(* sendMessages(): the pieces of a message join the queue behind whole     *)
(* messages.                                                               *)
LEMMA ChannelQueue ==
  ASSUME ChannelInv, NEW t \in Threads, Queue(t)
  PROVE  ChannelInv'
<1>1. ChannelTypes /\ PiecesInOrder /\ BufferFits /\ AloneIsLatest /\ DecryptedInStep
  BY DEF ChannelInv
<1>2. UNCHANGED <<encCounter, msgLeft, msgBuff, decCounter, completed>> /\ t \in Waiting
  BY DEF Queue
<1> PICK m : m = ready[t] OBVIOUS
<1>3. m \in Messages BY <1>1, <1>2, WaitingHaveMessages
<1> PICK s : s = Pieces(m, Total(m)) OBVIOUS
<1>4. /\ s \in Seq(MessagePieces) /\ Len(s) >= 1
      /\ s[1].from = 0 /\ Final(s[Len(s)])
      /\ \A k \in 1..Len(s) : s[k].message = m
      /\ \A k \in 1..(Len(s) - 1) : ~Final(s[k]) /\ s[k + 1].from = s[k].to
  BY <1>3, PiecesOfMessage
<1>5. packets' = packets \o s
  BY DEF Queue, Total
<1> PICK pk : pk = packets OBVIOUS
<1> PICK L, K : L = Len(pk) /\ K = Len(s) OBVIOUS
<1>6. /\ pk \in Seq(MessagePieces) /\ L \in Nat /\ K \in Nat /\ K >= 1
      /\ decCounter \in Nat /\ encCounter \in Nat /\ (pk = <<>> <=> L = 0)
  BY <1>1, <1>4 DEF ChannelTypes
<1> PICK q : q = pk \o s OBVIOUS
<1>7. /\ packets' = q /\ q \in Seq(MessagePieces) /\ Len(q) = L + K
      /\ \A i \in 1..L : q[i] = pk[i]
      /\ \A i \in 1..(L + K) : i > L => q[i] = s[i - L]
  BY <1>4, <1>5, <1>6
<1>8. \A i \in 1..(L + K) : i > L => i - L \in 1..K
  BY ONLY <1>6
<1>9. /\ Waiting' = Waiting \ {t} /\ ready' \in [Threads -> Messages \cup {NoMessage}]
      /\ \A u \in Waiting' : ready'[u] = ready[u]
  <2>1. ready' = [ready EXCEPT ![t] = NoMessage] BY DEF Queue
  <2> QED BY <1>1, <2>1 DEF ChannelTypes, Waiting
<1>10. /\ IsFiniteSet(Waiting)' /\ Cardinality(Waiting)' = Cardinality(Waiting) - 1
       /\ Cardinality(Waiting) \in Nat
  <2>1. IsFiniteSet(Waiting) BY <1>1 DEF ChannelTypes
  <2> QED BY <1>2, <1>9, <2>1, FS_RemoveElement, FS_CardinalityType
<1>11. ChannelTypes' BY <1>1, <1>2, <1>7, <1>9, <1>10 DEF ChannelTypes
<1>12. PiecesInOrder'
  <2>1. ASSUME NEW i \in 1..(L + K - 1)
        PROVE  IF Final(q[i]) THEN q[i + 1].from = 0
               ELSE /\ q[i + 1].message = q[i].message
                    /\ q[i + 1].from = q[i].to
    <3>1. CASE i < L
      <4>1. i \in 1..(L - 1) /\ i \in 1..L /\ i + 1 \in 1..L BY ONLY <1>6, <3>1, i \in 1..(L + K - 1)
      <4>2. IF Final(pk[i]) THEN pk[i + 1].from = 0
            ELSE /\ pk[i + 1].message = pk[i].message
                 /\ pk[i + 1].from = pk[i].to
        BY <1>1, <4>1 DEF PiecesInOrder
      <4> QED BY ONLY <1>7, <4>1, <4>2
    <3>2. CASE i = L
      <4>1. L \in 1..L /\ L + 1 \in 1..(L + K) /\ L + 1 > L /\ (L + 1) - L = 1 /\ L # 0
        BY ONLY <1>6, <3>2, i \in 1..(L + K - 1)
      <4>2. Final(pk[L]) BY <1>1, <1>6, <4>1 DEF PiecesInOrder
      <4>3. q[i] = pk[L] /\ q[i + 1] = s[1] BY ONLY <1>7, <3>2, <4>1
      <4> QED BY <1>4, <4>2, <4>3
    <3>3. CASE i > L
      <4>1. /\ i \in 1..(L + K) /\ i + 1 \in 1..(L + K) /\ i + 1 > L
            /\ i - L \in 1..(K - 1) /\ (i + 1) - L = (i - L) + 1
            /\ i - L \in 1..K /\ (i - L) + 1 \in 1..K
        BY ONLY <1>6, <3>3, i \in 1..(L + K - 1)
      <4>2. q[i] = s[i - L] /\ q[i + 1] = s[(i - L) + 1] BY ONLY <1>7, <3>3, <4>1
      <4> PICK j : j = i - L OBVIOUS
      <4>3. j \in 1..(Len(s) - 1) /\ j \in 1..Len(s) /\ j + 1 \in 1..Len(s)
        BY ONLY <4>1, j = i - L, L = Len(pk) /\ K = Len(s)
      <4>4. ~Final(s[j]) /\ s[j + 1].from = s[j].to /\ s[j].message = m /\ s[j + 1].message = m
        BY ONLY <1>4, <4>3
      <4>5. q[i] = s[j] /\ q[i + 1] = s[j + 1] BY ONLY <4>2, j = i - L
      <4> QED BY ONLY <4>4, <4>5
    <3> QED BY ONLY <1>6, <3>1, <3>2, <3>3, i \in 1..(L + K - 1)
  <2>2. Final(q[L + K])
    <3>1. L + K \in 1..(L + K) /\ L + K > L /\ (L + K) - L = K BY ONLY <1>6
    <3>2. q[L + K] = s[K] BY ONLY <1>7, <3>1
    <3> QED BY <1>4, <3>2
  <2>3. /\ \A i \in 1..(Len(q) - 1) :
             IF Final(q[i]) THEN q[i + 1].from = 0
             ELSE /\ q[i + 1].message = q[i].message
                  /\ q[i + 1].from = q[i].to
        /\ Final(q[Len(q)])
    <3>1. Len(q) = L + K BY ONLY <1>7
    <3> QED BY ONLY <1>6, <2>1, <2>2, <3>1
  <2> QED BY ONLY <1>7, <2>3 DEF PiecesInOrder
<1>13. BufferFits'
  <2>1. q # <<>> BY ONLY <1>6, <1>7
  <2>2. CASE L = 0
    <3>1. 1 \in 1..(L + K) /\ 1 > L /\ 1 - L = 1 BY ONLY <1>6, <2>2
    <3>2. q[1] = s[1] BY ONLY <1>7, <3>1
    <3>3. msgLeft = 0 BY <1>1, <1>6, <2>2 DEF BufferFits
    <3> QED BY <1>2, <1>4, <1>7, <3>2, <3>3 DEF BufferFits
  <2>3. CASE L # 0
    <3>1. 1 \in 1..L BY ONLY <1>6, <2>3
    <3>2. q[1] = pk[1] /\ pk # <<>> BY ONLY <1>6, <1>7, <2>3, <3>1
    <3> QED BY <1>1, <1>2, <1>7, <2>1, <3>2 DEF BufferFits
  <2> QED BY <2>2, <2>3
<1>14. \E n : Numbers(n)'
  <2> PICK n : Numbers(n) BY DEF ChannelInv
  <2> PICK c : c = IF pk = <<>> THEN decCounter ELSE n[L] + 1 OBVIOUS
  <2>1. /\ n \in [1..L -> Nat] /\ (L # 0 => n[1] = decCounter)
        /\ \A i \in 1..(L - 1) : n[i + 1] = IF Final(pk[i]) THEN n[i] + 1 ELSE n[i]
        /\ \A i \in 1..L : pk[i].message.alone => n[i] = pk[i].message.nr
        /\ encCounter = c + Cardinality(Waiting)
    BY <1>6 DEF Numbers
  <2>2. c \in Nat /\ (L = 0 => c = decCounter) /\ (L # 0 => c = n[L] + 1)
    <3>1. L # 0 => L \in 1..L BY ONLY <1>6
    <3> QED BY <1>6, <2>1, <3>1
  <2>3. m.alone => c = m.nr
    <3> SUFFICES ASSUME m.alone PROVE c = m.nr OBVIOUS
    <3>1. Waiting = {t} /\ m.nr = encCounter - 1 BY <1>1, <1>2 DEF AloneIsLatest
    <3>2. Cardinality(Waiting) = 1 BY <3>1, FS_Singleton
    <3>3. encCounter = c + 1 BY ONLY <2>1, <3>2
    <3> QED BY ONLY <2>2, <3>1, <3>3
  <2> PICK k : k = [i \in 1..(L + K) |-> IF i <= L THEN n[i] ELSE c] OBVIOUS
  <2>4. /\ \A i \in 1..(L + K) : i <= L => k[i] = n[i] /\ i \in 1..L
        /\ \A i \in 1..(L + K) : i > L => k[i] = c
    BY ONLY <1>6, k = [i \in 1..(L + K) |-> IF i <= L THEN n[i] ELSE c]
  <2>5. k \in [1..(L + K) -> Nat]
    <3>1. \A i \in 1..(L + K) : k[i] \in Nat BY ONLY <1>6, <2>1, <2>2, <2>4
    <3> QED BY ONLY <3>1, k = [i \in 1..(L + K) |-> IF i <= L THEN n[i] ELSE c]
  <2>6. k[1] = decCounter
    <3>1. 1 \in 1..(L + K) BY ONLY <1>6
    <3> QED BY ONLY <1>6, <2>1, <2>2, <2>4, <3>1
  <2>7. ASSUME NEW i \in 1..(L + K - 1)
        PROVE  k[i + 1] = IF Final(q[i]) THEN k[i] + 1 ELSE k[i]
    <3>1. CASE i < L
      <4>1. /\ i \in 1..(L - 1) /\ i \in 1..L /\ i + 1 \in 1..(L + K) /\ i \in 1..(L + K)
            /\ i <= L /\ i + 1 <= L
        BY ONLY <1>6, <3>1, i \in 1..(L + K - 1)
      <4>2. k[i + 1] = n[i + 1] /\ k[i] = n[i] /\ q[i] = pk[i] BY ONLY <1>7, <2>4, <4>1
      <4> QED BY ONLY <2>1, <4>1, <4>2
    <3>2. CASE i = L
      <4>1. /\ i \in 1..L /\ i + 1 \in 1..(L + K) /\ i \in 1..(L + K)
            /\ i <= L /\ i + 1 > L /\ L # 0
        BY ONLY <1>6, <3>2, i \in 1..(L + K - 1)
      <4>2. Final(pk[L]) BY <1>1, <1>6, <4>1 DEF PiecesInOrder
      <4>3. k[i + 1] = c /\ k[i] = n[i] /\ q[i] = pk[i] BY ONLY <1>7, <2>4, <4>1
      <4> QED BY ONLY <2>2, <3>2, <4>1, <4>2, <4>3
    <3>3. CASE i > L
      <4>1. /\ i + 1 \in 1..(L + K) /\ i \in 1..(L + K) /\ i + 1 > L
            /\ i - L \in 1..(K - 1)
        BY ONLY <1>6, <3>3, i \in 1..(L + K - 1)
      <4>2. k[i + 1] = c /\ k[i] = c /\ q[i] = s[i - L] BY ONLY <1>7, <2>4, <3>3, <4>1
      <4>3. ~Final(q[i]) BY <1>4, <4>1, <4>2
      <4> QED BY ONLY <4>2, <4>3
    <3> QED BY ONLY <1>6, <3>1, <3>2, <3>3, i \in 1..(L + K - 1)
  <2>8. ASSUME NEW i \in 1..(L + K), q[i].message.alone
        PROVE  k[i] = q[i].message.nr
    <3>1. CASE i <= L
      <4>1. i \in 1..L BY ONLY <1>6, <3>1, i \in 1..(L + K)
      <4> QED BY ONLY <1>7, <2>1, <2>4, <2>8, <3>1, <4>1
    <3>2. CASE i > L
      <4>1. i - L \in 1..K /\ q[i] = s[i - L] /\ k[i] = c BY ONLY <1>7, <1>8, <2>4, <3>2
      <4>2. q[i].message = m BY <1>4, <4>1
      <4> QED BY ONLY <2>3, <2>8, <4>1, <4>2
    <3> QED BY ONLY <1>6, <3>1, <3>2, i \in 1..(L + K)
  <2>9. k[L + K] = c /\ q # <<>>
    <3>1. L + K \in 1..(L + K) /\ L + K > L BY ONLY <1>6
    <3> QED BY ONLY <1>6, <1>7, <2>4, <3>1
  <2>10. encCounter' = (k[Len(q)] + 1) + Cardinality(Waiting)'
    <3> PICK w, v : w = Cardinality(Waiting) /\ v = Cardinality(Waiting)' OBVIOUS
    <3>1. w \in Nat /\ v = w - 1 /\ encCounter = c + w
      BY ONLY <1>10, <2>1, w = Cardinality(Waiting) /\ v = Cardinality(Waiting)'
    <3>2. k[Len(q)] = c BY ONLY <1>7, <2>9
    <3>3. encCounter' = c + w BY <1>2, <3>1
    <3>4. encCounter' = (c + 1) + v BY ONLY <2>2, <3>1, <3>3
    <3> QED BY ONLY <3>2, <3>4, w = Cardinality(Waiting) /\ v = Cardinality(Waiting)'
  <2>11. Numbers(k)'
    <3>1. Len(q) = L + K BY ONLY <1>7
    <3>2. /\ k \in [1..Len(q) -> Nat] /\ k[1] = decCounter /\ q # <<>>
          /\ \A i \in 1..(Len(q) - 1) : k[i + 1] = IF Final(q[i]) THEN k[i] + 1 ELSE k[i]
          /\ \A i \in 1..Len(q) : q[i].message.alone => k[i] = q[i].message.nr
      <4>1. k \in [1..Len(q) -> Nat] /\ k[1] = decCounter /\ q # <<>>
        BY ONLY <2>5, <2>6, <2>9, <3>1
      <4>2. \A i \in 1..(Len(q) - 1) : k[i + 1] = IF Final(q[i]) THEN k[i] + 1 ELSE k[i]
        BY ONLY <1>6, <2>7, <3>1
      <4>3. \A i \in 1..Len(q) : q[i].message.alone => k[i] = q[i].message.nr
        BY ONLY <2>8, <3>1
      <4> QED BY ONLY <4>1, <4>2, <4>3
    <3>3. packets' = q /\ decCounter' = decCounter BY <1>2, <1>7
    <3> QED BY ONLY <2>10, <3>2, <3>3 DEF Numbers
  <2> QED BY <2>11
<1>15. AloneIsLatest'
  <2> SUFFICES ASSUME NEW u \in Waiting', ready'[u].alone PROVE FALSE
    BY DEF AloneIsLatest
  <2>1. u \in Waiting /\ u # t /\ ready[u].alone BY <1>9
  <2> QED BY <1>1, <1>2, <2>1 DEF AloneIsLatest
<1>16. DecryptedInStep' BY <1>1, <1>2 DEF DecryptedInStep
<1> QED BY <1>11, <1>12, <1>13, <1>14, <1>15, <1>16 DEF ChannelInv

(* What is completed with a last piece is a whole message.                 *)
LEMMA BegunAndEnded ==
  ASSUME NEW buff, Len(buff) \in Nat, Begins(buff), Final(buff[Len(buff)]),
         buff[Len(buff)].message = buff[1].message
  PROVE  WholeMessage(buff)
BY DEF Begins, Final, WholeMessage, Total

(* proccessMessage(): what it makes of a packet fits what it has of the    *)
(* message, and never has to be cut.                                       *)
LEMMA ReceiveFills ==
  ASSUME ChannelTypes, BufferFits, packets # <<>>
  PROVE  LET p == Head(packets)
             buff == IF msgLeft = 0 THEN <<p>> ELSE Append(msgBuff, Taken(p))
         IN  /\ LeftAfter(p) = Total(p.message) - p.to
             /\ buff \in Seq(MessagePieces) /\ Len(buff) \in Nat /\ Begins(buff)
             /\ buff[1].message = p.message /\ buff[Len(buff)] = p
<1> PICK p : p = Head(packets) OBVIOUS
<1>1. /\ p = packets[1] /\ p \in MessagePieces
      /\ msgBuff \in Seq(MessagePieces) /\ msgLeft \in Nat
  BY DEF ChannelTypes
<1>2. /\ p.message \in Messages /\ p.from \in Nat /\ p.to \in Nat
      /\ p.from < p.to /\ p.to <= Total(p.message)
  BY <1>1 DEF MessagePieces
<1>3. /\ p.message.len \in Nat /\ Header \in Nat /\ Tag \in Nat
      /\ Total(p.message) = Header + p.message.len + Tag
  BY <1>2, ControlAssumption DEF ControlAssumption, Messages, Total
<1>4. CASE msgLeft = 0
  <2>1. p.from = 0 BY <1>1, <1>4 DEF BufferFits
  <2>2. LeftAfter(p) = Total(p.message) - p.to
    <3>1. LeftAfter(p) = p.message.len + Tag - ((p.to - p.from) - Header)
      BY <1>4 DEF LeftAfter, LeftOfNew, Size
    <3> QED BY ONLY <1>2, <1>3, <2>1, <3>1
  <2> PICK b : b = <<p>> OBVIOUS
  <2>3. b \in Seq(MessagePieces) /\ Len(b) = 1 /\ b[1] = p BY <1>1
  <2>4. Begins(b) BY <2>1, <2>3 DEF Begins
  <2> QED BY <1>4, <2>2, <2>3, <2>4
<1>5. CASE msgLeft # 0
  <2> PICK last : last = Len(msgBuff) OBVIOUS
  <2>1. /\ Begins(msgBuff) /\ p.message = msgBuff[1].message
        /\ p.from = msgBuff[last].to
        /\ msgBuff[last].to + msgLeft = Total(msgBuff[1].message)
        /\ last \in Nat /\ last >= 1
    BY <1>1, <1>5 DEF BufferFits, Begins
  <2>2. p.from + msgLeft = Total(p.message) BY <2>1
  <2>3. ~(Size(p) > msgLeft) BY <1>1, <1>2, <1>3, <2>2 DEF Size
  <2>4. Taken(p) = p BY <2>3 DEF Taken
  <2>5. LeftAfter(p) = Total(p.message) - p.to
    <3>1. LeftAfter(p) = msgLeft - (p.to - p.from) BY <1>5, <2>4 DEF LeftAfter, Size
    <3> QED BY ONLY <1>1, <1>2, <1>3, <2>2, <3>1
  <2> PICK b : b = Append(msgBuff, p) OBVIOUS
  <2>6. /\ b \in Seq(MessagePieces) /\ Len(b) = last + 1
        /\ b[last + 1] = p /\ \A k \in 1..last : b[k] = msgBuff[k]
    BY <1>1
  <2>7. Begins(b)
    <3>1. 1 \in 1..last BY <2>1
    <3>2. ASSUME NEW k \in 1..(Len(b) - 1)
          PROVE  b[k + 1].message = b[1].message /\ b[k + 1].from = b[k].to
      <4>1. CASE k = last
        BY <2>1, <2>6, <3>1, <4>1
      <4>2. CASE k # last
        <5>1. k \in 1..(last - 1) /\ k \in 1..last /\ k + 1 \in 1..last
          BY ONLY <2>1, <2>6, <4>2, k \in 1..(Len(b) - 1)
        <5>2. msgBuff[k + 1].message = msgBuff[1].message /\ msgBuff[k + 1].from = msgBuff[k].to
          BY <2>1, <5>1 DEF Begins
        <5> QED BY ONLY <2>6, <3>1, <5>1, <5>2
      <4> QED BY <4>1, <4>2
    <3>3. Len(b) >= 1 /\ b[1].from = 0 BY <2>1, <2>6, <3>1 DEF Begins
    <3> QED BY ONLY <3>2, <3>3 DEF Begins
  <2>8. b[1].message = p.message BY <2>1, <2>6
  <2> QED BY <1>5, <2>1, <2>4, <2>5, <2>6, <2>7, <2>8
<1> QED BY <1>4, <1>5

(* The queue without its first packet.                                     *)
LEMMA QueueShrinks ==
  ASSUME ChannelTypes, PiecesInOrder, packets # <<>>
  PROVE  LET q == Tail(packets) IN
         /\ q \in Seq(MessagePieces) /\ Len(q) = Len(packets) - 1 /\ Len(q) \in Nat
         /\ \A i \in 1..Len(q) : q[i] = packets[i + 1]
         /\ q = <<>> <=> Len(q) = 0
         /\ q = <<>> => Final(Head(packets))
         /\ q # <<>> => IF Final(Head(packets)) THEN q[1].from = 0
                        ELSE q[1].message = Head(packets).message /\ q[1].from = Head(packets).to
<1> PICK q : q = Tail(packets) OBVIOUS
<1> PICK L : L = Len(packets) OBVIOUS
<1>1. packets \in Seq(MessagePieces) /\ L \in Nat /\ L >= 1 /\ Head(packets) = packets[1]
  BY DEF ChannelTypes
<1>2. /\ q \in Seq(MessagePieces) /\ Len(q) = L - 1 /\ Len(q) \in Nat
      /\ \A i \in 1..Len(q) : q[i] = packets[i + 1]
      /\ q = <<>> <=> Len(q) = 0
  <2>1. /\ q \in Seq(MessagePieces) /\ Len(q) = L - 1
        /\ \A i \in 1..(L - 1) : q[i] = packets[i + 1]
    BY <1>1
  <2>2. Len(q) \in Nat BY ONLY <2>1
  <2>3. q = <<>> <=> Len(q) = 0
    <3>1. q \in Seq(MessagePieces) BY ONLY <2>1
    <3> QED BY ONLY <3>1
  <2> QED BY ONLY <2>1, <2>2, <2>3
<1>3. Len(q) = 0 => Final(packets[1])
  BY <1>1, <1>2 DEF PiecesInOrder
<1>4. ASSUME Len(q) # 0
      PROVE  IF Final(packets[1]) THEN q[1].from = 0
             ELSE q[1].message = packets[1].message /\ q[1].from = packets[1].to
  <2>1. 1 \in 1..(L - 1) /\ 1 \in 1..Len(q) /\ q[1] = packets[2] BY <1>1, <1>2, <1>4
  <2> QED BY <2>1 DEF PiecesInOrder
<1> QED BY <1>1, <1>2, <1>3, <1>4

(* The order and the numbers of the packets that stay.                     *)
LEMMA QueueKeepsOrder ==
  ASSUME ChannelTypes, PiecesInOrder, packets # <<>>, packets' = Tail(packets)
  PROVE  PiecesInOrder'
<1> PICK q : q = Tail(packets) OBVIOUS
<1> PICK L : L = Len(packets) OBVIOUS
<1>1. packets \in Seq(MessagePieces) /\ L \in Nat /\ L >= 1
  BY DEF ChannelTypes
<1>2. /\ q \in Seq(MessagePieces) /\ Len(q) = L - 1
      /\ \A i \in 1..(L - 1) : q[i] = packets[i + 1]
  BY <1>1
<1>3. ASSUME NEW i \in 1..(Len(q) - 1)
      PROVE  IF Final(q[i]) THEN q[i + 1].from = 0
             ELSE q[i + 1].message = q[i].message /\ q[i + 1].from = q[i].to
  <2>1. i + 1 \in 1..(L - 1) /\ i \in 1..(L - 1) BY ONLY <1>1, <1>2, i \in 1..(Len(q) - 1)
  <2>2. q[i] = packets[i + 1] /\ q[i + 1] = packets[(i + 1) + 1] BY ONLY <1>2, <2>1
  <2> PICK j : j = i + 1 OBVIOUS
  <2>3. IF Final(packets[j]) THEN packets[j + 1].from = 0
        ELSE packets[j + 1].message = packets[j].message /\ packets[j + 1].from = packets[j].to
    BY <2>1 DEF PiecesInOrder
  <2> QED BY ONLY <2>2, <2>3, j = i + 1
<1>4. q # <<>> => Final(q[Len(q)])
  <2> SUFFICES ASSUME q # <<>> PROVE Final(q[Len(q)]) OBVIOUS
  <2>1. Len(q) \in 1..(L - 1) /\ Len(q) + 1 = L BY <1>1, <1>2
  <2>2. q[Len(q)] = packets[L] BY <1>2, <2>1
  <2> QED BY <2>2 DEF PiecesInOrder
<1>5. packets' = q OBVIOUS
<1> QED BY ONLY <1>3, <1>4, <1>5 DEF PiecesInOrder

LEMMA QueueKeepsNumbers ==
  ASSUME ChannelTypes, PiecesInOrder, packets # <<>>, packets' = Tail(packets),
         NEW n, Numbers(n),
         decCounter' = IF Final(Head(packets)) THEN decCounter + 1 ELSE decCounter,
         UNCHANGED <<encCounter, ready>>
  PROVE  \E k : Numbers(k)'
<1> PICK q : q = Tail(packets) OBVIOUS
<1> PICK L : L = Len(packets) OBVIOUS
<1> PICK d : d = decCounter' OBVIOUS
<1>1. packets \in Seq(MessagePieces) /\ L \in Nat /\ L >= 1 /\ Head(packets) = packets[1]
  BY DEF ChannelTypes
<1>2. /\ q \in Seq(MessagePieces) /\ Len(q) = L - 1 /\ (q = <<>> <=> Len(q) = 0)
      /\ \A i \in 1..(L - 1) : q[i] = packets[i + 1]
      /\ q = <<>> => Final(packets[1])
  BY <1>1, QueueShrinks
<1>3. /\ n \in [1..L -> Nat] /\ n[1] = decCounter
      /\ \A i \in 1..(L - 1) : n[i + 1] = IF Final(packets[i]) THEN n[i] + 1 ELSE n[i]
      /\ \A i \in 1..L : packets[i].message.alone => n[i] = packets[i].message.nr
      /\ encCounter = (n[L] + 1) + Cardinality(Waiting)
  BY DEF Numbers
<1> PICK k : k = [i \in 1..(L - 1) |-> n[i + 1]] OBVIOUS
<1>4. \A i \in 1..(L - 1) : i + 1 \in 1..L /\ k[i] = n[i + 1]
  BY ONLY <1>1, k = [i \in 1..(L - 1) |-> n[i + 1]]
<1>5. k \in [1..(L - 1) -> Nat]
  BY ONLY <1>3, <1>4, k = [i \in 1..(L - 1) |-> n[i + 1]]
<1>6. d = IF Final(packets[1]) THEN n[1] + 1 ELSE n[1]
  BY <1>1, <1>3
<1>7. L # 1 => k[1] = d
  <2> SUFFICES ASSUME L # 1 PROVE k[1] = d OBVIOUS
  <2>1. 1 \in 1..(L - 1) BY <1>1
  <2>2. k[1] = n[1 + 1] BY ONLY <1>4, <2>1
  <2> QED BY ONLY <1>3, <1>6, <2>1, <2>2
<1>8. ASSUME NEW i \in 1..((L - 1) - 1)
      PROVE  k[i + 1] = IF Final(q[i]) THEN k[i] + 1 ELSE k[i]
  <2>1. i \in 1..(L - 1) /\ i + 1 \in 1..(L - 1) BY ONLY <1>1, i \in 1..((L - 1) - 1)
  <2>2. q[i] = packets[i + 1] /\ k[i] = n[i + 1] /\ k[i + 1] = n[(i + 1) + 1]
    BY ONLY <1>2, <1>4, <2>1
  <2> PICK j : j = i + 1 OBVIOUS
  <2>3. n[j + 1] = IF Final(packets[j]) THEN n[j] + 1 ELSE n[j] BY ONLY <1>3, <2>1, j = i + 1
  <2> QED BY ONLY <2>2, <2>3, j = i + 1
<1>9. ASSUME NEW i \in 1..(L - 1), q[i].message.alone
      PROVE  k[i] = q[i].message.nr
  BY ONLY <1>2, <1>3, <1>4, <1>9
<1>10. encCounter = (IF L = 1 THEN d ELSE k[L - 1] + 1) + Cardinality(Waiting)
  <2>1. CASE L = 1
    <3>1. d = n[L] + 1 BY <1>2, <1>6, <2>1
    <3> QED BY ONLY <1>3, <2>1, <3>1
  <2>2. CASE L # 1
    <3>1. L - 1 \in 1..(L - 1) /\ (L - 1) + 1 = L BY ONLY <1>1, <2>2
    <3>2. k[L - 1] = n[L] BY ONLY <1>4, <3>1
    <3> QED BY ONLY <1>3, <2>2, <3>2
  <2> QED BY <2>1, <2>2
<1>11. Waiting' = Waiting BY DEF Waiting
<1>12. packets' = q /\ decCounter' = d /\ encCounter' = encCounter OBVIOUS
<1>13. (q = <<>> <=> L = 1) /\ Len(q) = L - 1 BY ONLY <1>1, <1>2
<1>14. /\ k \in [1..Len(q) -> Nat] /\ (q # <<>> => k[1] = d)
       /\ \A i \in 1..(Len(q) - 1) : k[i + 1] = IF Final(q[i]) THEN k[i] + 1 ELSE k[i]
       /\ \A i \in 1..Len(q) : q[i].message.alone => k[i] = q[i].message.nr
  BY ONLY <1>5, <1>7, <1>8, <1>9, <1>13
<1>15. encCounter' = (IF q = <<>> THEN d ELSE k[Len(q)] + 1) + Cardinality(Waiting)'
  BY ONLY <1>10, <1>11, <1>12, <1>13
<1>16. Numbers(k)' BY ONLY <1>12, <1>14, <1>15 DEF Numbers
<1> QED BY <1>16

LEMMA ChannelReceive ==
  ASSUME ChannelInv, Receive
  PROVE  ChannelInv'
<1>1. ChannelTypes /\ PiecesInOrder /\ BufferFits /\ AloneIsLatest /\ DecryptedInStep
  BY DEF ChannelInv
<1>2. packets # <<>> /\ packets' = Tail(packets) /\ UNCHANGED <<encCounter, ready>>
  BY DEF Receive
<1> PICK p : p = Head(packets) OBVIOUS
<1> PICK buff : buff = IF msgLeft = 0 THEN <<p>> ELSE Append(msgBuff, Taken(p)) OBVIOUS
<1> PICK q : q = Tail(packets) OBVIOUS
<1>3. /\ msgLeft' = LeftAfter(p)
      /\ msgLeft' = 0 => /\ completed' = [whole |-> WholeMessage(buff), message |-> buff[1].message,
                                          counter |-> decCounter]
                         /\ decCounter' = decCounter + 1
                         /\ msgBuff' = <<>>
      /\ msgLeft' # 0 => msgBuff' = buff /\ UNCHANGED <<completed, decCounter>>
  BY DEF Receive
<1>4. /\ LeftAfter(p) = Total(p.message) - p.to
      /\ buff \in Seq(MessagePieces) /\ Len(buff) \in Nat /\ Begins(buff)
      /\ buff[1].message = p.message /\ buff[Len(buff)] = p
  BY <1>1, <1>2, ReceiveFills
<1>5. /\ q \in Seq(MessagePieces) /\ Len(q) \in Nat
      /\ q = <<>> => Final(p)
      /\ q # <<>> => IF Final(p) THEN q[1].from = 0
                     ELSE q[1].message = p.message /\ q[1].from = p.to
  BY <1>1, <1>2, QueueShrinks
<1>6. /\ p = packets[1] /\ p \in MessagePieces /\ decCounter \in Nat
  BY <1>1, <1>2 DEF ChannelTypes
<1>7. /\ p.message \in Messages /\ p.to \in Nat /\ p.to <= Total(p.message)
      /\ Total(p.message) \in Nat
  <2>1. p.message \in Messages /\ p.to \in Nat /\ p.to <= Total(p.message)
    BY <1>6 DEF MessagePieces
  <2>2. p.message.len \in Nat /\ Header \in Nat /\ Tag \in Nat
    BY <2>1, ControlAssumption DEF ControlAssumption, Messages
  <2> QED BY <2>1, <2>2 DEF Total
<1>8. msgLeft' \in Nat /\ (msgLeft' = 0 <=> Final(p)) /\ p.to + msgLeft' = Total(p.message)
  BY <1>3, <1>4, <1>7 DEF Final
<1>9. decCounter' = IF Final(p) THEN decCounter + 1 ELSE decCounter
  BY <1>3, <1>8
<1>10. Waiting' = Waiting BY <1>2 DEF Waiting
<1>11. msgBuff' \in Seq(MessagePieces) /\ decCounter' \in Nat
  <2>1. decCounter' \in Nat BY ONLY <1>6, <1>9
  <2>2. <<>> \in Seq(MessagePieces) OBVIOUS
  <2>3. msgBuff' \in Seq(MessagePieces) BY ONLY <1>3, <1>4, <2>2
  <2> QED BY ONLY <2>1, <2>3
<1>12. ChannelTypes'
  BY <1>1, <1>2, <1>5, <1>8, <1>10, <1>11 DEF ChannelTypes
<1>13. PiecesInOrder' BY <1>1, <1>2, QueueKeepsOrder
<1>14. BufferFits'
  <2>1. CASE msgLeft' = 0
    BY <1>2, <1>5, <1>8, <2>1 DEF BufferFits
  <2>2. CASE msgLeft' # 0
    BY <1>2, <1>3, <1>4, <1>5, <1>8, <2>2 DEF BufferFits
  <2> QED BY <2>1, <2>2
<1> PICK n : Numbers(n) BY DEF ChannelInv
<1>15. \E k : Numbers(k)'
  BY <1>1, <1>2, <1>9, QueueKeepsNumbers
<1>16. AloneIsLatest' BY <1>1, <1>2, <1>10 DEF AloneIsLatest
<1>17. DecryptedInStep'
  <2>1. CASE msgLeft' # 0
    BY <1>1, <1>3, <2>1 DEF DecryptedInStep
  <2>2. CASE msgLeft' = 0
    <3>1. WholeMessage(buff) BY <1>4, <1>8, <2>2, BegunAndEnded
    <3>2. p.message.alone => decCounter = p.message.nr
      <4>1. 1 \in 1..Len(packets) /\ n[1] = decCounter
        BY <1>1, <1>2 DEF Numbers, ChannelTypes
      <4> QED BY <1>6, <4>1 DEF Numbers
    <3>3. /\ completed'.whole = WholeMessage(buff)
          /\ completed'.message = p.message /\ completed'.counter = decCounter
      BY <1>3, <1>4, <2>2
    <3> QED BY <3>1, <3>2, <3>3 DEF DecryptedInStep
  <2> QED BY <2>1, <2>2
<1> QED BY <1>12, <1>13, <1>14, <1>15, <1>16, <1>17 DEF ChannelInv

(* What the receiver hands on is one whole message, decrypted with the     *)
(* counter it was encrypted with unless another thread was between its     *)
(* encryptMessage() and its sendMessages() at the same time: for messages  *)
(* of every length, any number of threads, and every size of a packet that *)
(* holds the length.                                                       *)
THEOREM MessagesDecryptInStep == CSpec => []DecryptedInStep
<1>1. ASSUME ChannelInv, [CNext]_ccvars PROVE ChannelInv'
  <2>1. ASSUME NEW t \in Threads, Encrypt(t) PROVE ChannelInv'
    BY <1>1, <2>1, ChannelEncrypt
  <2>2. ASSUME NEW t \in Threads, Queue(t) PROVE ChannelInv'
    BY <1>1, <2>2, ChannelQueue
  <2>3. CASE Receive BY <1>1, <2>3, ChannelReceive
  <2>4. CASE UNCHANGED ccvars
    <3> USE <2>4 DEF ccvars
    <3>1. ChannelTypes' BY <1>1 DEF ChannelInv, ChannelTypes, Waiting
    <3>2. PiecesInOrder' /\ BufferFits' /\ DecryptedInStep'
      BY <1>1 DEF ChannelInv, PiecesInOrder, BufferFits, DecryptedInStep
    <3>3. Waiting' = Waiting BY DEF Waiting
    <3>4. AloneIsLatest' BY <1>1, <3>3 DEF ChannelInv, AloneIsLatest
    <3> PICK n : Numbers(n) BY <1>1 DEF ChannelInv
    <3>5. Numbers(n)' BY <3>3 DEF Numbers
    <3> QED BY <3>1, <3>2, <3>4, <3>5 DEF ChannelInv
  <2> QED BY <1>1, <2>1, <2>2, <2>3, <2>4 DEF CNext
<1>2. ChannelInv => DecryptedInStep BY DEF ChannelInv
<1> QED BY ChannelInit, <1>1, <1>2, PTL DEF CSpec
=============================================================================

-------------------------- MODULE ContainersProofs --------------------------
(***************************************************************************)
(* Proofs about what the threads of a mix share: CAQueue, CADatabase and   *)
(* CAThreadPool, for any number of threads and packets.                    *)
(*                                                                         *)
(* CAQueue implements ByteFifo for any number of producers and consumers:  *)
(* what get() and remove() leave of the list holds the bytes behind those  *)
(* they took (AfterDropsFront), by induction over the chunks. It needs     *)
(* that no chunk is empty (GoodChunks): then n bytes use up exactly the    *)
(* first UsedUp chunks. Induction is with a set (SetInduction).            *)
(*                                                                         *)
(* It is safe for any number of producers as long as one thread consumes:  *)
(* what its unlocked test of m_Queue found is still there when it has the  *)
(* mutex, because producers only append. The mixes use it in this way.     *)
(*                                                                         *)
(* CADatabase: for every choice of the intervals with Sleep + Slack +      *)
(* Tolerance <= Interval. NotBehind bounds how far the rotation is behind  *)
(* the clock. With it a timestamp that is accepted is at most one interval *)
(* ahead of the current one, so no rotation can move the packet out of the *)
(* tables while its timestamp is still valid: that is Remembered.          *)
(*                                                                         *)
(* CAThreadPool: for any length of the queue and both kinds of pool, no    *)
(* wake-up is lost, and destroy(true) returns only when every accepted     *)
(* request has been run.  That a sleeper is told rests on what the others  *)
(* do between a broadcast and the next lock (FlagsFollowOwner), that none  *)
(* is forgotten on where every accepted request is (Conserved).            *)
(***************************************************************************)
EXTENDS CAQueue, CADatabase, CAThreadPool, FiniteSetTheorems,
        SequenceTheorems, TLAPS

-----------------------------------------------------------------------------
(* CAQueue.                                                                *)

(* Induction, with a set in the place of a predicate.                      *)
LEMMA SetInduction ==
  ASSUME NEW T, 0 \in T, \A n \in Nat : n \in T => n + 1 \in T
  PROVE  \A n \in Nat : n \in T
<1> DEFINE Bad == {n \in Nat : n \notin T}
           R == OpToRel(<, Nat)
<1> SUFFICES ASSUME Bad # {} PROVE FALSE
  OBVIOUS
<1>1. PICK n \in Bad : \A m \in Bad : ~(<<m, n>> \in R)
  <2>1. Bad \subseteq Nat OBVIOUS
  <2> HIDE DEF Bad, R
  <2> QED BY <2>1, NatLessThanWellFounded, WFMin DEF R
<1>2. \A m \in Bad : ~(m < n) BY <1>1 DEF OpToRel
<1>3. n \in Nat /\ n # 0 OBVIOUS
<1>4. n - 1 \in Nat /\ n - 1 < n /\ (n - 1) + 1 = n BY <1>3
<1>5. n - 1 \in T BY <1>2, <1>4
<1> QED BY <1>4, <1>5

(* What is left of a string of bytes without the first n.                  *)
Drop(s, n) == SubSeq(s, n + 1, Len(s))

(* Chunks as the list holds them: with bytes that have not been read.      *)
GoodChunks ==
  {c \in [buff : Seq(Byte), index : Nat, size : Nat] :
     c.size >= 1 /\ c.index + c.size = Len(c.buff)}

LEMMA RestTyped ==
  ASSUME NEW c \in GoodChunks
  PROVE  /\ Rest(c) \in Seq(Byte) /\ Len(Rest(c)) = c.size
         /\ \A i \in 1..c.size : Rest(c)[i] = c.buff[c.index + i]
<1> PICK b, x, z : b = c.buff /\ x = c.index /\ z = c.size OBVIOUS
<1>1. b \in Seq(Byte) /\ x \in Nat /\ z \in Nat /\ z >= 1 /\ x + z = Len(b) BY DEF GoodChunks
<1>2. \A i \in (x + 1)..(x + z) : b[i] \in Byte BY <1>1
<1>3. x + 1 \in Int /\ x + z \in Int BY <1>1
<1> PICK r : r = SubSeq(b, x + 1, x + z) OBVIOUS
<1>4. /\ r \in Seq(Byte)
      /\ Len(r) = IF x + 1 <= x + z THEN (x + z) - (x + 1) + 1 ELSE 0
      /\ \A i \in 1..((x + z) - (x + 1) + 1) : r[i] = b[(x + 1) + i - 1]
  BY ONLY <1>2, <1>3, SubSeqProperties, r = SubSeq(b, x + 1, x + z)
<1>5. (x + z) - (x + 1) + 1 = z /\ x + 1 <= x + z BY <1>1
<1>6. \A i \in 1..z : (x + 1) + i - 1 = x + i BY <1>1
<1>7. Rest(c) = r BY DEF Rest
<1> QED BY <1>4, <1>5, <1>6, <1>7

LEMMA DropTyped ==
  ASSUME NEW s \in Seq(Byte), NEW n \in 0..Len(s)
  PROVE  /\ Drop(s, n) \in Seq(Byte) /\ Len(Drop(s, n)) = Len(s) - n
         /\ \A i \in 1..(Len(s) - n) : Drop(s, n)[i] = s[n + i]
<1> PICK l : l = Len(s) OBVIOUS
<1>1. l \in Nat /\ n \in Nat /\ n <= l /\ n + 1 \in Int /\ l \in Int OBVIOUS
<1>2. \A i \in (n + 1)..l : s[i] \in Byte BY <1>1
<1> PICK r : r = SubSeq(s, n + 1, l) OBVIOUS
<1>3. /\ r \in Seq(Byte)
      /\ Len(r) = IF n + 1 <= l THEN l - (n + 1) + 1 ELSE 0
      /\ \A i \in 1..(l - (n + 1) + 1) : r[i] = s[(n + 1) + i - 1]
  BY ONLY <1>1, <1>2, SubSeqProperties, r = SubSeq(s, n + 1, l)
<1>4. l - (n + 1) + 1 = l - n /\ (~(n + 1 <= l) => l - n = 0) BY <1>1
<1>5. \A i \in 1..(l - n) : (n + 1) + i - 1 = n + i BY <1>1
<1>6. Drop(s, n) = r BY DEF Drop
<1> QED BY <1>3, <1>4, <1>5, <1>6

(* The first n bytes of two strings: some of the first, or all of it and   *)
(* some of the second.                                                     *)
LEMMA DropFromFirst ==
  ASSUME NEW s \in Seq(Byte), NEW t \in Seq(Byte), NEW n \in 0..Len(s)
  PROVE  Drop(s \o t, n) = Drop(s, n) \o t
<1> PICK w : w = s \o t OBVIOUS
<1> PICK l, m : l = Len(s) /\ m = Len(t) OBVIOUS
<1>1. l \in Nat /\ m \in Nat /\ n \in Nat /\ n <= l OBVIOUS
<1>2. /\ w \in Seq(Byte) /\ Len(w) = l + m
      /\ \A i \in 1..(l + m) : w[i] = IF i <= l THEN s[i] ELSE t[i - l]
  BY ONLY ConcatProperties, s \in Seq(Byte), t \in Seq(Byte), w = s \o t,
     l = Len(s) /\ m = Len(t)
<1>3. n \in 0..Len(w) BY <1>1, <1>2
<1> PICK a, b : a = Drop(w, n) /\ b = Drop(s, n) OBVIOUS
<1>4. /\ a \in Seq(Byte) /\ Len(a) = (l + m) - n
      /\ \A i \in 1..((l + m) - n) : a[i] = w[n + i]
  BY <1>2, <1>3, DropTyped
<1>5. /\ b \in Seq(Byte) /\ Len(b) = l - n
      /\ \A i \in 1..(l - n) : b[i] = s[n + i]
  BY DropTyped
<1>a. b \in Seq(Byte) /\ t \in Seq(Byte) BY ONLY <1>5, t \in Seq(Byte)
<1>b. /\ b \o t \in Seq(Byte) /\ Len(b \o t) = Len(b) + Len(t)
      /\ \A i \in 1..(Len(b) + Len(t)) :
           (b \o t)[i] = IF i <= Len(b) THEN b[i] ELSE t[i - Len(b)]
  BY ONLY <1>a, ConcatProperties
<1>6. /\ b \o t \in Seq(Byte) /\ Len(b \o t) = (l - n) + m
      /\ \A i \in 1..((l - n) + m) : (b \o t)[i] = IF i <= l - n THEN b[i] ELSE t[i - (l - n)]
  BY ONLY <1>5, <1>b, l = Len(s) /\ m = Len(t)
<1>7. ASSUME NEW i \in 1..((l + m) - n) PROVE a[i] = (b \o t)[i]
  <2>1. i \in 1..((l - n) + m) /\ n + i \in 1..(l + m) /\ i \in Nat BY <1>1
  <2>2. CASE i <= l - n
    <3>1. n + i <= l /\ i \in 1..(l - n) BY ONLY <1>1, <1>7, <2>1, <2>2
    <3>2. a[i] = s[n + i] BY <1>2, <1>4, <2>1, <3>1
    <3>3. (b \o t)[i] = s[n + i] BY <1>5, <1>6, <2>1, <2>2, <3>1
    <3> QED BY <3>2, <3>3
  <2>3. CASE ~(i <= l - n)
    <3>1. ~(n + i <= l) /\ (n + i) - l = i - (l - n) BY ONLY <1>1, <2>1, <2>3
    <3>2. a[i] = t[(n + i) - l] BY <1>2, <1>4, <2>1, <3>1
    <3>3. (b \o t)[i] = t[i - (l - n)] BY <1>6, <2>1, <2>3
    <3> QED BY <3>1, <3>2, <3>3
  <2> QED BY <2>2, <2>3
<1>8. (l - n) + m = (l + m) - n BY <1>1
<1>9. /\ a \in Seq(Byte) /\ b \o t \in Seq(Byte) /\ Len(a) = Len(b \o t)
      /\ \A i \in 1..Len(a) : a[i] = (b \o t)[i]
  BY ONLY <1>4, <1>6, <1>7, <1>8
<1>10. a = b \o t BY ONLY <1>9, SeqEqual
<1> QED BY ONLY <1>10, w = s \o t, a = Drop(w, n) /\ b = Drop(s, n)

LEMMA DropFromSecond ==
  ASSUME NEW s \in Seq(Byte), NEW t \in Seq(Byte), NEW n \in 0..Len(t)
  PROVE  Drop(s \o t, Len(s) + n) = Drop(t, n)
<1> PICK w : w = s \o t OBVIOUS
<1> PICK l, m : l = Len(s) /\ m = Len(t) OBVIOUS
<1>1. l \in Nat /\ m \in Nat /\ n \in Nat /\ n <= m OBVIOUS
<1>2. /\ w \in Seq(Byte) /\ Len(w) = l + m
      /\ \A i \in 1..(l + m) : w[i] = IF i <= l THEN s[i] ELSE t[i - l]
  BY ONLY ConcatProperties, s \in Seq(Byte), t \in Seq(Byte), w = s \o t,
     l = Len(s) /\ m = Len(t)
<1>3. l + n \in 0..Len(w) BY <1>1, <1>2
<1> PICK k : k = l + n OBVIOUS
<1> PICK a, b : a = Drop(w, k) /\ b = Drop(t, n) OBVIOUS
<1>a. w \in Seq(Byte) /\ k \in 0..Len(w) BY ONLY <1>2, <1>3, k = l + n
<1>b. /\ Drop(w, k) \in Seq(Byte) /\ Len(Drop(w, k)) = Len(w) - k
      /\ \A i \in 1..(Len(w) - k) : Drop(w, k)[i] = w[k + i]
  BY ONLY <1>a, DropTyped
<1>4. /\ a \in Seq(Byte) /\ Len(a) = (l + m) - (l + n)
      /\ \A i \in 1..((l + m) - (l + n)) : a[i] = w[(l + n) + i]
  BY ONLY <1>2, <1>b, k = l + n, a = Drop(w, k) /\ b = Drop(t, n)
<1>5. /\ b \in Seq(Byte) /\ Len(b) = m - n
      /\ \A i \in 1..(m - n) : b[i] = t[n + i]
  BY DropTyped
<1>6. (l + m) - (l + n) = m - n BY <1>1
<1>7. ASSUME NEW i \in 1..(m - n) PROVE a[i] = b[i]
  <2>1. (l + n) + i \in 1..(l + m) /\ ~((l + n) + i <= l) /\ ((l + n) + i) - l = n + i BY <1>1
  <2>2. w[(l + n) + i] = t[n + i] BY ONLY <1>2, <2>1
  <2>3. i \in 1..((l + m) - (l + n)) BY <1>6
  <2>4. a[i] = w[(l + n) + i] BY ONLY <1>4, <2>3
  <2>5. b[i] = t[n + i] BY ONLY <1>5, i \in 1..(m - n)
  <2> QED BY ONLY <2>2, <2>4, <2>5
<1>8. /\ a \in Seq(Byte) /\ b \in Seq(Byte) /\ Len(a) = Len(b)
      /\ \A i \in 1..Len(a) : a[i] = b[i]
  BY ONLY <1>4, <1>5, <1>6, <1>7
<1>9. a = b BY ONLY <1>8, SeqEqual
<1> QED BY ONLY <1>9, w = s \o t, k = l + n, l = Len(s) /\ m = Len(t),
                a = Drop(w, k) /\ b = Drop(t, n)

(* The bytes of the first chunks, as the recursive function has them.      *)
Builds(cs, n, f) == f = [k \in 0..n |-> IF k = 0 THEN <<>> ELSE f[k - 1] \o Rest(cs[k])]

LEMMA ContentsBuilt ==
  ASSUME NEW cs, Len(cs) \in Nat
  PROVE  Builds(cs, Len(cs), Contents(cs))
<1> DEFINE T == {n \in Nat : \E f : Builds(cs, n, f)}
<1>1. 0 \in T
  <2> PICK f : f = [k \in 0..0 |-> <<>>] OBVIOUS
  <2>1. \A k \in 0..0 : k = 0 OBVIOUS
  <2>2. Builds(cs, 0, f) BY <2>1 DEF Builds
  <2> QED BY <2>2
<1>2. ASSUME NEW n \in Nat, n \in T PROVE n + 1 \in T
  <2> PICK f : Builds(cs, n, f) BY <1>2
  <2> PICK g : g = [k \in 0..(n + 1) |-> IF k = 0 THEN <<>> ELSE f[k - 1] \o Rest(cs[k])]
    OBVIOUS
  <2>1. \A k \in 0..n : g[k] = f[k] BY DEF Builds
  <2>2. \A k \in 0..(n + 1) : k # 0 => k - 1 \in 0..n OBVIOUS
  <2>3. g = [k \in 0..(n + 1) |-> IF k = 0 THEN <<>> ELSE g[k - 1] \o Rest(cs[k])]
    BY ONLY <2>1, <2>2,
            g = [k \in 0..(n + 1) |-> IF k = 0 THEN <<>> ELSE f[k - 1] \o Rest(cs[k])]
  <2>4. Builds(cs, n + 1, g) BY ONLY <2>3 DEF Builds
  <2> QED BY <2>4
<1>3. Len(cs) \in T
  <2> HIDE DEF T
  <2>1. \A n \in Nat : n \in T => n + 1 \in T BY <1>2
  <2>2. \A n \in Nat : n \in T BY ONLY <1>1, <2>1, SetInduction
  <2> QED BY <2>2
<1>4. \E f : Builds(cs, Len(cs), f) BY <1>3
<1>5. Contents(cs) = CHOOSE f : Builds(cs, Len(cs), f) BY ONLY DEF Contents, Builds
<1> QED BY ONLY <1>4, <1>5

(* The chunks of a list and what they hold.                                *)
Grows(cs) ==
  /\ Contents(cs)[0] = <<>>
  /\ \A k \in 0..Len(cs) : Contents(cs)[k] \in Seq(Byte)
  /\ \A k \in 1..Len(cs) : Contents(cs)[k] = Contents(cs)[k - 1] \o Rest(cs[k])
  /\ \A k \in 1..Len(cs) : Len(Contents(cs)[k]) = Len(Contents(cs)[k - 1]) + cs[k].size

LEMMA ContentsGrow ==
  ASSUME NEW cs \in Seq(GoodChunks)
  PROVE  Grows(cs)
<1> PICK n, f : n = Len(cs) /\ f = Contents(cs) OBVIOUS
<1>1. n \in Nat /\ \A k \in 1..n : cs[k] \in GoodChunks OBVIOUS
<1>2. /\ f[0] = <<>>
      /\ \A k \in 1..n : f[k] = f[k - 1] \o Rest(cs[k])
  <2>1. f = [k \in 0..n |-> IF k = 0 THEN <<>> ELSE f[k - 1] \o Rest(cs[k])]
    BY <1>1, ContentsBuilt DEF Builds
  <2>2. 0 \in 0..n /\ \A k \in 1..n : k \in 0..n /\ k # 0 BY <1>1
  <2> QED BY ONLY <2>1, <2>2
<1>3. \A k \in 1..n : Rest(cs[k]) \in Seq(Byte) /\ Len(Rest(cs[k])) = cs[k].size
  BY ONLY <1>1, RestTyped
<1> DEFINE T == {k \in Nat : k <= n => f[k] \in Seq(Byte)}
<1>4. 0 \in T
  <2>1. <<>> \in Seq(Byte) OBVIOUS
  <2>2. f[0] \in Seq(Byte) BY ONLY <1>2, <2>1
  <2> QED BY <2>2
<1>5. ASSUME NEW k \in Nat, k \in T PROVE k + 1 \in T
  <2> SUFFICES ASSUME k + 1 <= n PROVE f[k + 1] \in Seq(Byte)
    OBVIOUS
  <2>1. k + 1 \in 1..n /\ (k + 1) - 1 = k /\ k <= n BY <1>1
  <2>2. f[k] \in Seq(Byte) BY <1>5, <2>1
  <2>3. f[k + 1] = f[k] \o Rest(cs[k + 1]) BY <1>2, <2>1
  <2>4. Rest(cs[k + 1]) \in Seq(Byte) BY ONLY <1>3, <2>1
  <2> QED BY ONLY <2>2, <2>3, <2>4, ConcatProperties
<1>6. \A k \in 0..n : f[k] \in Seq(Byte)
  <2>1. \A k \in Nat : k \in T => k + 1 \in T BY ONLY <1>5
  <2> HIDE DEF T
  <2>2. \A k \in Nat : k \in T BY ONLY <1>4, <2>1, SetInduction
  <2> SUFFICES ASSUME NEW k \in 0..n PROVE f[k] \in Seq(Byte)
    OBVIOUS
  <2>3. k \in T /\ k <= n BY ONLY <1>1, <2>2, k \in 0..n
  <2> QED BY ONLY <2>3 DEF T
<1>7. ASSUME NEW k \in 1..n PROVE Len(f[k]) = Len(f[k - 1]) + cs[k].size
  <2>1. k - 1 \in 0..n BY <1>1
  <2>2. f[k - 1] \in Seq(Byte) BY <1>6, <2>1
  <2>3. Len(f[k - 1] \o Rest(cs[k])) = Len(f[k - 1]) + Len(Rest(cs[k]))
    BY ONLY <1>3, <2>2, ConcatProperties
  <2> QED BY ONLY <1>2, <1>3, <2>3
<1> QED BY ONLY <1>2, <1>6, <1>7, n = Len(cs) /\ f = Contents(cs) DEF Grows

(* The longer the list, the more bytes.                                    *)
LengthsGrow(cs) ==
  /\ \A k \in 0..Len(cs) : Len(Contents(cs)[k]) \in Nat
  /\ \A j, k \in 0..Len(cs) : j < k => Len(Contents(cs)[j]) < Len(Contents(cs)[k])

LEMMA MoreChunksMoreBytes ==
  ASSUME NEW cs \in Seq(GoodChunks)
  PROVE  LengthsGrow(cs)
<1> PICK n, L : n = Len(cs) /\ L = [k \in 0..Len(cs) |-> Len(Contents(cs)[k])] OBVIOUS
<1>1. n \in Nat /\ \A k \in 1..n : cs[k].size \in Nat /\ cs[k].size >= 1
  BY DEF GoodChunks
<1>2. Grows(cs) BY ContentsGrow
<1>3. \A k \in 0..n : L[k] \in Nat
  <2>1. \A k \in 0..n : Contents(cs)[k] \in Seq(Byte) BY <1>2 DEF Grows
  <2> QED BY <2>1
<1>4. \A k \in 1..n : L[k] = L[k - 1] + cs[k].size
  <2>1. \A k \in 1..n : k \in 0..n /\ k - 1 \in 0..n BY <1>1
  <2> QED BY <1>2, <2>1 DEF Grows
<1>5. \A k \in 1..n : L[k - 1] < L[k]
  <2> SUFFICES ASSUME NEW k \in 1..n PROVE L[k - 1] < L[k]
    OBVIOUS
  <2>1. k - 1 \in 0..n BY <1>1
  <2>2. L[k - 1] \in Nat BY ONLY <1>3, <2>1
  <2>3. L[k] = L[k - 1] + cs[k].size /\ cs[k].size \in Nat /\ cs[k].size >= 1
    BY ONLY <1>1, <1>4, k \in 1..n
  <2> PICK a, b : a = L[k - 1] /\ b = cs[k].size OBVIOUS
  <2>4. a < a + b BY ONLY <2>2, <2>3, a = L[k - 1] /\ b = cs[k].size
  <2> QED BY ONLY <2>3, <2>4, a = L[k - 1] /\ b = cs[k].size
<1> DEFINE T == {k \in Nat : k <= n => \A j \in 0..n : j < k => L[j] < L[k]}
<1>6. 0 \in T OBVIOUS
<1>7. ASSUME NEW k \in Nat, k \in T PROVE k + 1 \in T
  <2> SUFFICES ASSUME k + 1 <= n, NEW j \in 0..n, j < k + 1 PROVE L[j] < L[k + 1]
    OBVIOUS
  <2>1. k + 1 \in 1..n /\ (k + 1) - 1 = k /\ k \in 0..n /\ k + 1 \in 0..n BY <1>1
  <2>2. L[k] < L[k + 1] BY ONLY <1>5, <2>1
  <2>3. L[k] \in Nat /\ L[k + 1] \in Nat /\ L[j] \in Nat BY ONLY <1>3, <2>1, j \in 0..n
  <2>4. j = k \/ j < k BY <2>1
  <2>5. CASE j = k BY <2>2, <2>5
  <2>6. CASE j < k
    <3>1. L[j] < L[k] BY <1>7, <2>1, <2>6
    <3> QED BY ONLY <2>2, <2>3, <3>1
  <2> QED BY <2>4, <2>5, <2>6
<1>8. \A j, k \in 0..n : j < k => L[j] < L[k]
  <2>1. \A k \in Nat : k \in T => k + 1 \in T BY ONLY <1>7
  <2> HIDE DEF T
  <2>2. \A k \in Nat : k \in T BY ONLY <1>6, <2>1, SetInduction
  <2> SUFFICES ASSUME NEW j \in 0..n, NEW k \in 0..n, j < k PROVE L[j] < L[k]
    OBVIOUS
  <2>3. k \in T /\ k <= n BY ONLY <1>1, <2>2, k \in 0..n
  <2> QED BY ONLY <2>3, j \in 0..n, j < k DEF T
<1>9. \A k \in 0..Len(cs) : L[k] = Len(Contents(cs)[k])
  BY ONLY L = [k \in 0..Len(cs) |-> Len(Contents(cs)[k])]
<1> QED BY ONLY <1>3, <1>8, <1>9, n = Len(cs) DEF LengthsGrow

(* n bytes use up the first m chunks, and not the next one.                *)
UsesUp(cs, n, m) ==
  /\ m \in 0..Len(cs) /\ Len(Contents(cs)[m]) <= n
  /\ m < Len(cs) => n < Len(Contents(cs)[m + 1])

LEMMA UsedUpExactly ==
  ASSUME NEW cs \in Seq(GoodChunks), NEW n \in Nat
  PROVE  UsesUp(cs, n, UsedUp(cs, n))
<1> PICK l, L : l = Len(cs) /\ L = [k \in 0..Len(cs) |-> Len(Contents(cs)[k])] OBVIOUS
<1>1. l \in Nat OBVIOUS
<1>2. /\ \A k \in 0..l : L[k] \in Nat /\ L[k] = Len(Contents(cs)[k])
      /\ \A j, k \in 0..l : j < k => L[j] < L[k]
      /\ L[0] = 0
  <2>1. Contents(cs)[0] = <<>> BY ContentsGrow DEF Grows
  <2>2. LengthsGrow(cs) BY MoreChunksMoreBytes
  <2>3. \A k \in 0..l : L[k] = Len(Contents(cs)[k]) OBVIOUS
  <2>4. 0 \in 0..l /\ Len(<<>>) = 0 BY <1>1
  <2> QED BY ONLY <2>1, <2>2, <2>3, <2>4, l = Len(cs) DEF LengthsGrow
<1> DEFINE Fits(N, m) == /\ m \in 0..N /\ {k \in 1..N : L[k] <= n} = 1..m
                         /\ L[m] <= n /\ (m < N => n < L[m + 1])
           T == {N \in Nat : N <= l => \E m \in 0..N : Fits(N, m)}
<1>3. 0 \in T
  <2>1. Fits(0, 0)
    <3>1. {k \in 1..0 : L[k] <= n} = 1..0 OBVIOUS
    <3>2. 0 \in 0..0 /\ 0 <= n /\ ~(0 < 0) OBVIOUS
    <3> QED BY ONLY <1>2, <3>1, <3>2
  <2> QED BY <2>1
<1>4. ASSUME NEW N \in Nat, N \in T PROVE N + 1 \in T
  <2> HIDE DEF Fits
  <2> SUFFICES ASSUME N + 1 <= l PROVE \E m \in 0..(N + 1) : Fits(N + 1, m)
    OBVIOUS
  <2>0. N <= l BY ONLY <1>1, N \in Nat, N + 1 <= l
  <2>1. PICK m \in 0..N : Fits(N, m) BY ONLY <1>4, <2>0
  <2>2. N + 1 \in 0..l /\ \A k \in 1..(N + 1) : k \in 0..l /\ (k = N + 1 \/ k < N + 1) BY <1>1
  <2>3. CASE L[N + 1] <= n
    <3>1. \A k \in 1..(N + 1) : L[k] <= n
      <4> SUFFICES ASSUME NEW k \in 1..(N + 1) PROVE L[k] <= n
        OBVIOUS
      <4>1. k = N + 1 \/ L[k] < L[N + 1] BY ONLY <1>2, <2>2
      <4>2. L[k] \in Nat /\ L[N + 1] \in Nat BY ONLY <1>2, <2>2
      <4> QED BY ONLY <2>3, <4>1, <4>2, n \in Nat
    <3>2. {k \in 1..(N + 1) : L[k] <= n} = 1..(N + 1) BY ONLY <3>1
    <3>3. N + 1 \in 0..(N + 1) /\ ~(N + 1 < N + 1) OBVIOUS
    <3>4. Fits(N + 1, N + 1) BY ONLY <2>3, <3>2, <3>3 DEF Fits
    <3> QED BY ONLY <3>3, <3>4
  <2>4. CASE ~(L[N + 1] <= n)
    <3>1. n < L[N + 1]
      <4>1. L[N + 1] \in Nat BY ONLY <1>2, <2>2
      <4> QED BY ONLY <2>4, <4>1, n \in Nat
    <3>2. 1..(N + 1) = (1..N) \cup {N + 1} OBVIOUS
    <3>3. {k \in 1..(N + 1) : L[k] <= n} = {k \in 1..N : L[k] <= n} BY ONLY <2>4, <3>2
    <3>4. m \in 0..(N + 1) /\ (m < N + 1 => m < N \/ m = N) OBVIOUS
    <3>5. /\ {k \in 1..N : L[k] <= n} = 1..m /\ L[m] <= n /\ (m < N => n < L[m + 1])
      BY ONLY <2>1 DEF Fits
    <3>6. Fits(N + 1, m) BY ONLY <3>1, <3>3, <3>4, <3>5 DEF Fits
    <3> QED BY ONLY <3>4, <3>6
  <2> QED BY ONLY <2>3, <2>4
<1>5. \E m \in 0..l : Fits(l, m)
  <2>1. \A N \in Nat : N \in T => N + 1 \in T BY ONLY <1>4
  <2> HIDE DEF T
  <2>2. \A N \in Nat : N \in T BY ONLY <1>3, <2>1, SetInduction
  <2>3. l \in T BY ONLY <1>1, <2>2
  <2> QED BY ONLY <1>1, <2>3 DEF T
<1>6. PICK m \in 0..l : Fits(l, m) BY <1>5
<1>7. UsedUp(cs, n) = m
  <2>1. {k \in 1..Len(cs) : Len(Contents(cs)[k]) <= n} = {k \in 1..l : L[k] <= n}
    <3>1. \A k \in 1..l : L[k] = Len(Contents(cs)[k]) BY <1>1, <1>2
    <3> QED BY ONLY <3>1, l = Len(cs)
  <2>2. Cardinality(1..m) = m
    <3>1. m \in Int /\ 1 \in Int /\ m >= 0 BY <1>1
    <3>2. Cardinality(1..m) = IF 1 > m THEN 0 ELSE m - 1 + 1 BY ONLY <3>1, FS_Interval
    <3> QED BY <3>1, <3>2
  <2>3. {k \in 1..l : L[k] <= n} = 1..m BY ONLY <1>6
  <2> QED BY ONLY <2>1, <2>2, <2>3 DEF UsedUp
<1>8. m \in 0..Len(cs) /\ m + 1 \in Int /\ (m < l => m + 1 \in 0..l) BY <1>1
<1>9. L[m] <= n /\ (m < l => n < L[m + 1]) BY ONLY <1>6
<1> QED BY ONLY <1>2, <1>7, <1>8, <1>9, l = Len(cs) DEF UsesUp

(* A chunk whose first p bytes have been read.                             *)
ReadPart(c, p) == [c EXCEPT !.index = @ + p, !.size = @ - p]

LEMMA ReadPartTyped ==
  ASSUME NEW c \in GoodChunks, NEW p \in Nat, p < c.size
  PROVE  ReadPart(c, p) \in GoodChunks /\ Rest(ReadPart(c, p)) = Drop(Rest(c), p)
<1> PICK b, x, z, d : b = c.buff /\ x = c.index /\ z = c.size /\ d = ReadPart(c, p) OBVIOUS
<1>1. b \in Seq(Byte) /\ x \in Nat /\ z \in Nat /\ x + z = Len(b) /\ p \in Nat /\ p < z
  BY DEF GoodChunks
<1>2. d \in [buff : Seq(Byte), index : Nat, size : Nat] /\ d.buff = b /\ d.index = x + p /\ d.size = z - p
  <2>1. x + p \in Nat /\ z - p \in Nat BY ONLY <1>1
  <2>2. c \in [buff : Seq(Byte), index : Nat, size : Nat] BY DEF GoodChunks
  <2>3. d = [c EXCEPT !.index = x + p, !.size = z - p] BY DEF ReadPart
  <2> QED BY ONLY <2>1, <2>2, <2>3, b = c.buff /\ x = c.index /\ z = c.size
<1>3. d.size >= 1 /\ d.index + d.size = Len(d.buff) BY ONLY <1>1, <1>2
<1>4. d \in GoodChunks BY ONLY <1>2, <1>3 DEF GoodChunks
<1> PICK r, q, w : r = Rest(c) /\ q = Rest(d) /\ w = Drop(r, p) OBVIOUS
<1>5. r \in Seq(Byte) /\ Len(r) = z /\ \A i \in 1..z : r[i] = b[x + i] BY RestTyped
<1>6. q \in Seq(Byte) /\ Len(q) = z - p /\ \A i \in 1..(z - p) : q[i] = b[(x + p) + i]
  BY <1>2, <1>4, RestTyped
<1>7. w \in Seq(Byte) /\ Len(w) = z - p /\ \A i \in 1..(z - p) : w[i] = r[p + i]
  <2>1. p \in 0..Len(r) BY <1>1, <1>5
  <2> QED BY ONLY <1>5, <2>1, DropTyped, w = Drop(r, p)
<1>8. \A i \in 1..(z - p) : q[i] = w[i]
  <2> SUFFICES ASSUME NEW i \in 1..(z - p) PROVE q[i] = w[i]
    OBVIOUS
  <2>1. p + i \in 1..z /\ (x + p) + i = x + (p + i) BY <1>1
  <2>2. w[i] = r[p + i] /\ q[i] = b[(x + p) + i] BY ONLY <1>6, <1>7, i \in 1..(z - p)
  <2>3. r[p + i] = b[x + (p + i)] BY ONLY <1>5, <2>1
  <2> QED BY ONLY <2>1, <2>2, <2>3
<1>9. q = w BY ONLY <1>6, <1>7, <1>8, SeqEqual
<1> QED BY <1>4, <1>9

(* What After() leaves: the chunks from the m-th on, p bytes of the first  *)
(* of them being read already.                                             *)
Leaves(cs, m, p, new) ==
  /\ new \in Seq(GoodChunks) /\ Len(new) = Len(cs) - m
  /\ new[1] = ReadPart(cs[m + 1], p)
  /\ \A j \in 2..(Len(cs) - m) : new[j] = cs[m + j]

LEMMA AfterLeaves ==
  ASSUME NEW cs \in Seq(GoodChunks), NEW n \in Nat, UsedUp(cs, n) < Len(cs)
  PROVE  /\ UsedOfNext(cs, n) \in Nat
         /\ UsedOfNext(cs, n) < cs[UsedUp(cs, n) + 1].size
         /\ UsedOfNext(cs, n) = n - Len(Contents(cs)[UsedUp(cs, n)])
         /\ Leaves(cs, UsedUp(cs, n), UsedOfNext(cs, n), After(cs, n))
<1> PICK l, m, p : l = Len(cs) /\ m = UsedUp(cs, n) /\ p = UsedOfNext(cs, n) OBVIOUS
<1>1. l \in Nat /\ m \in 0..l /\ m < l /\ m + 1 \in 1..l /\ (m + 1) - 1 = m /\ m \in Nat
  <2>1. m \in 0..l BY UsedUpExactly DEF UsesUp
  <2> QED BY <2>1
<1>2. \A k \in 1..l : cs[k] \in GoodChunks BY <1>1
<1> PICK h, e : h = Len(Contents(cs)[m]) /\ e = Len(Contents(cs)[m + 1]) OBVIOUS
<1>3. h <= n /\ n < e BY <1>1, UsedUpExactly DEF UsesUp
<1>4. e = h + cs[m + 1].size BY <1>1, ContentsGrow DEF Grows
<1>5. h \in Nat /\ cs[m + 1].size \in Nat
  <2>1. h \in Nat BY <1>1, MoreChunksMoreBytes DEF LengthsGrow
  <2>2. cs[m + 1] \in GoodChunks BY <1>1, <1>2
  <2> QED BY <2>1, <2>2 DEF GoodChunks
<1>6. p = n - h BY DEF UsedOfNext
<1>7. p \in Nat /\ p < cs[m + 1].size BY ONLY <1>3, <1>4, <1>5, <1>6, n \in Nat
<1> PICK rest, new : rest = SubSeq(cs, m + 1, l) /\ new = After(cs, n) OBVIOUS
<1>8. /\ rest \in Seq(GoodChunks) /\ Len(rest) = l - m
      /\ \A j \in 1..(l - m) : rest[j] = cs[m + j]
  <2>1. \A i \in (m + 1)..l : cs[i] \in GoodChunks BY <1>1, <1>2
  <2>2. m + 1 \in Int /\ l \in Int BY <1>1
  <2>3. /\ rest \in Seq(GoodChunks)
        /\ Len(rest) = IF m + 1 <= l THEN l - (m + 1) + 1 ELSE 0
        /\ \A i \in 1..(l - (m + 1) + 1) : rest[i] = cs[(m + 1) + i - 1]
    BY ONLY <2>1, <2>2, SubSeqProperties, rest = SubSeq(cs, m + 1, l) /\ new = After(cs, n)
  <2>4. l - (m + 1) + 1 = l - m /\ m + 1 <= l BY <1>1
  <2>5. \A i \in 1..(l - m) : (m + 1) + i - 1 = m + i BY <1>1
  <2> QED BY ONLY <2>3, <2>4, <2>5
<1>9. rest # <<>> /\ 1 \in 1..(l - m) /\ DOMAIN rest = 1..(l - m) /\ l - m \in Nat
  <2>1. l - m \in Nat /\ 1 \in 1..(l - m) BY ONLY <1>1
  <2>2. DOMAIN rest = 1..(l - m) BY ONLY <1>8, <2>1
  <2> QED BY ONLY <1>8, <2>1, <2>2
<1>10. rest[1] = cs[m + 1] BY ONLY <1>8, <1>9
<1>11. new = [rest EXCEPT ![1] = ReadPart(rest[1], p)]
  <2>1. new = [rest EXCEPT ![1].index = @ + p, ![1].size = @ - p]
    BY ONLY <1>9, l = Len(cs) /\ m = UsedUp(cs, n) /\ p = UsedOfNext(cs, n),
            rest = SubSeq(cs, m + 1, l) /\ new = After(cs, n) DEF After
  <2>2. [rest EXCEPT ![1].index = @ + p, ![1].size = @ - p] = [rest EXCEPT ![1] = ReadPart(rest[1], p)]
    BY ONLY <1>9 DEF ReadPart
  <2> QED BY ONLY <2>1, <2>2
<1> PICK c : c = ReadPart(rest[1], p) OBVIOUS
<1>12. c \in GoodChunks /\ c = ReadPart(cs[m + 1], p)
  <2>1. cs[m + 1] \in GoodChunks BY <1>1, <1>2
  <2> QED BY ONLY <1>7, <1>10, <2>1, ReadPartTyped, c = ReadPart(rest[1], p)
<1>13. new = [rest EXCEPT ![1] = c] BY ONLY <1>11, c = ReadPart(rest[1], p)
<1>14. /\ new \in Seq(GoodChunks) /\ Len(new) = l - m /\ new[1] = c
       /\ \A j \in 2..(l - m) : new[j] = rest[j]
  BY ONLY <1>8, <1>9, <1>12, <1>13
<1>15. \A j \in 2..(l - m) : j \in 1..(l - m) BY <1>1
<1>16. Leaves(cs, m, p, new) BY ONLY <1>8, <1>12, <1>14, <1>15, l = Len(cs) /\ m = UsedUp(cs, n) /\ p = UsedOfNext(cs, n) DEF Leaves
<1> QED BY <1>6, <1>7, <1>16

(* The content of a list is a string of bytes.                             *)
LEMMA ContentTyped ==
  ASSUME NEW cs \in Seq(GoodChunks)
  PROVE  Content(cs) \in Seq(Byte) /\ Total(cs) = Len(Content(cs)) /\ Total(cs) \in Nat
<1>1. Len(cs) \in 0..Len(cs) OBVIOUS
<1>2. Content(cs) \in Seq(Byte) BY <1>1, ContentsGrow DEF Grows, Content
<1>3. Len(Content(cs)) \in Nat BY ONLY <1>2
<1> QED BY <1>2, <1>3 DEF Total

(* Every chunk that is left brings the bytes it has brought before.        *)
LeftAsBefore(cs, n, m, new) ==
  \A j \in 1..(Len(cs) - m) : Contents(new)[j] = Drop(Contents(cs)[m + j], n)

LEMMA ContentsLeft ==
  ASSUME NEW cs \in Seq(GoodChunks), NEW n \in Nat, NEW m, NEW p, NEW new,
         UsesUp(cs, n, m), m < Len(cs), p = n - Len(Contents(cs)[m]),
         p \in Nat, p < cs[m + 1].size, Leaves(cs, m, p, new)
  PROVE  LeftAsBefore(cs, n, m, new)
<1> PICK l, f, g : l = Len(cs) /\ f = Contents(cs) /\ g = Contents(new) OBVIOUS
<1>1. l \in Nat /\ m \in 0..l /\ m < l /\ m + 1 \in 1..l /\ (m + 1) - 1 = m /\ m \in Nat /\ l - m \in Nat
  <2>1. m \in 0..l BY DEF UsesUp
  <2> QED BY <2>1
<1>2. /\ \A k \in 0..l : f[k] \in Seq(Byte)
      /\ \A k \in 1..l : f[k] = f[k - 1] \o Rest(cs[k])
  BY ContentsGrow DEF Grows
<1>3. /\ new \in Seq(GoodChunks) /\ Len(new) = l - m /\ new[1] = ReadPart(cs[m + 1], p)
      /\ \A j \in 2..(l - m) : new[j] = cs[m + j]
  BY DEF Leaves
<1>4. /\ g[0] = <<>> /\ \A k \in 1..(l - m) : g[k] = g[k - 1] \o Rest(new[k])
  BY <1>3, ContentsGrow DEF Grows
<1>5. \A k \in 1..l : cs[k] \in GoodChunks /\ Rest(cs[k]) \in Seq(Byte) /\ Len(Rest(cs[k])) = cs[k].size
  <2>1. \A k \in 1..l : cs[k] \in GoodChunks BY <1>1
  <2> QED BY ONLY <2>1, RestTyped
<1>6. \A j \in 1..(l - m) : n \in 0..Len(f[m + j])
  <2> SUFFICES ASSUME NEW j \in 1..(l - m) PROVE n \in 0..Len(f[m + j])
    OBVIOUS
  <2>1. m + j \in 0..l /\ m + 1 \in 0..l /\ (m + 1 = m + j \/ m + 1 < m + j) BY <1>1
  <2>2. Len(f[m + 1]) \in Nat /\ Len(f[m + j]) \in Nat
    BY <2>1, MoreChunksMoreBytes DEF LengthsGrow
  <2>3. n < Len(f[m + 1]) BY <1>1 DEF UsesUp
  <2>4. m + 1 = m + j \/ Len(f[m + 1]) < Len(f[m + j])
    BY <2>1, MoreChunksMoreBytes DEF LengthsGrow
  <2>5. n <= Len(f[m + j]) BY ONLY <2>2, <2>3, <2>4, n \in Nat
  <2> QED BY ONLY <2>2, <2>5, n \in Nat
<1> DEFINE T == {i \in Nat : i + 1 <= l - m => g[i + 1] = Drop(f[m + (i + 1)], n)}
<1>7. 0 \in T
  <2> PICK r : r = Rest(cs[m + 1]) OBVIOUS
  <2>1. cs[m + 1] \in GoodChunks /\ r \in Seq(Byte) /\ Len(r) = cs[m + 1].size BY ONLY <1>1, <1>5, r = Rest(cs[m + 1])
  <2>2. Rest(new[1]) = Drop(r, p) BY ONLY <1>3, <2>1, ReadPartTyped, p \in Nat, p < cs[m + 1].size, r = Rest(cs[m + 1])
  <2>3. 1 \in 1..(l - m) /\ 1 - 1 = 0 BY <1>1
  <2>4. g[1] = <<>> \o Rest(new[1]) BY ONLY <1>4, <2>3
  <2>5. p \in 0..Len(r)
    <3>1. cs[m + 1].size \in Nat BY <2>1
    <3> QED BY ONLY <2>1, <3>1, p \in Nat, p < cs[m + 1].size
  <2>6. Drop(r, p) \in Seq(Byte) BY ONLY <2>1, <2>5, DropTyped
  <2>7. g[1] = Drop(r, p) BY ONLY <2>2, <2>4, <2>6
  <2>8. f[m + 1] = f[m] \o r BY ONLY <1>1, <1>2, r = Rest(cs[m + 1])
  <2>9. f[m] \in Seq(Byte) BY ONLY <1>1, <1>2
  <2>10. Drop(f[m] \o r, Len(f[m]) + p) = Drop(r, p) BY ONLY <2>1, <2>5, <2>9, DropFromSecond
  <2>11. Len(f[m]) + p = n
    <3>1. Len(f[m]) \in Nat BY ONLY <2>9
    <3>2. p = n - Len(f[m]) OBVIOUS
    <3> QED BY ONLY <3>1, <3>2, n \in Nat
  <2>12. g[1] = Drop(f[m + 1], n) BY ONLY <2>7, <2>8, <2>10, <2>11
  <2>13. 0 + 1 = 1 OBVIOUS
  <2> QED BY ONLY <2>12, <2>13
<1>8. ASSUME NEW i \in Nat, i \in T PROVE i + 1 \in T
  <2> PICK j : j = i + 1 OBVIOUS
  <2> SUFFICES ASSUME j + 1 <= l - m PROVE g[j + 1] = Drop(f[m + (j + 1)], n)
    OBVIOUS
  <2>1. /\ j \in 1..(l - m) /\ j + 1 \in 2..(l - m) /\ j + 1 \in 1..(l - m) /\ (j + 1) - 1 = j
        /\ m + (j + 1) \in 1..l /\ (m + (j + 1)) - 1 = m + j /\ m + j \in 0..l
    BY ONLY <1>1, i \in Nat, j = i + 1, j + 1 <= l - m
  <2>2. g[j] = Drop(f[m + j], n)
    <3>1. i + 1 <= l - m BY ONLY <2>1, j = i + 1
    <3> QED BY ONLY <1>8, <3>1, j = i + 1
  <2> PICK r : r = Rest(cs[m + (j + 1)]) OBVIOUS
  <2>3. g[j + 1] = g[j] \o r BY ONLY <1>3, <1>4, <2>1, r = Rest(cs[m + (j + 1)])
  <2>4. f[m + (j + 1)] = f[m + j] \o r BY ONLY <1>2, <2>1, r = Rest(cs[m + (j + 1)])
  <2>5. r \in Seq(Byte) /\ f[m + j] \in Seq(Byte) /\ n \in 0..Len(f[m + j])
    BY ONLY <1>2, <1>5, <1>6, <2>1, r = Rest(cs[m + (j + 1)])
  <2>6. Drop(f[m + j] \o r, n) = Drop(f[m + j], n) \o r BY ONLY <2>5, DropFromFirst
  <2> QED BY ONLY <2>2, <2>3, <2>4, <2>6
<1>9. \A j \in 1..(l - m) : g[j] = Drop(f[m + j], n)
  <2>1. \A i \in Nat : i \in T => i + 1 \in T BY ONLY <1>8
  <2> HIDE DEF T
  <2>2. \A i \in Nat : i \in T BY ONLY <1>7, <2>1, SetInduction
  <2> SUFFICES ASSUME NEW j \in 1..(l - m) PROVE g[j] = Drop(f[m + j], n)
    OBVIOUS
  <2> PICK i : i = j - 1 OBVIOUS
  <2>3. i \in Nat /\ i + 1 = j /\ i + 1 <= l - m BY ONLY <1>1, i = j - 1, j \in 1..(l - m)
  <2>4. i \in T BY ONLY <2>2, <2>3
  <2> QED BY ONLY <2>3, <2>4 DEF T
<1> QED BY ONLY <1>9, l = Len(cs) /\ f = Contents(cs) /\ g = Contents(new) DEF LeftAsBefore

(* get() and remove() take n bytes from the front, or all there are.       *)
DropsFront(cs, n, new) ==
  /\ new \in Seq(GoodChunks)
  /\ Least(n, Total(cs)) \in 0..Total(cs)
  /\ Content(new) = Drop(Content(cs), Least(n, Total(cs)))
  /\ Total(new) = Total(cs) - Least(n, Total(cs))

LEMMA AfterDropsFront ==
  ASSUME NEW cs \in Seq(GoodChunks), NEW n \in Nat
  PROVE  DropsFront(cs, n, After(cs, n))
<1> PICK l, m, k : l = Len(cs) /\ m = UsedUp(cs, n) /\ k = Least(n, Total(cs)) OBVIOUS
<1> PICK new : new = After(cs, n) OBVIOUS
<1>1. UsesUp(cs, n, m) BY UsedUpExactly
<1>2. l \in Nat /\ m \in 0..l BY <1>1 DEF UsesUp
<1>3. Content(cs) \in Seq(Byte) /\ Total(cs) = Len(Content(cs)) /\ Total(cs) \in Nat
  BY ContentTyped
<1>4. k \in 0..Total(cs) BY <1>3 DEF Least
<1>5. new \in Seq(GoodChunks) /\ Content(new) = Drop(Content(cs), k)
  <2>1. CASE m = l
    <3>1. Len(Contents(cs)[l]) <= n BY <1>1, <2>1 DEF UsesUp
    <3>2. Total(cs) <= n BY <3>1 DEF Total, Content
    <3>3. k = Total(cs) BY <1>3, <3>2 DEF Least
    <3>4. SubSeq(cs, m + 1, l) = <<>> BY <1>2, <2>1
    <3>5. new = <<>> BY <3>4 DEF After
    <3>6. new \in Seq(GoodChunks) BY <3>5
    <3>7. Content(new) = <<>>
      <4>1. Len(new) = 0 BY <3>5
      <4>2. Contents(new)[0] = <<>> BY <3>6, ContentsGrow DEF Grows
      <4> QED BY ONLY <4>1, <4>2 DEF Content
    <3>8. Drop(Content(cs), k) = <<>>
      <4>1. /\ Drop(Content(cs), k) \in Seq(Byte)
            /\ Len(Drop(Content(cs), k)) = Len(Content(cs)) - k
        BY ONLY <1>3, <1>4, DropTyped
      <4>2. Len(Drop(Content(cs), k)) = 0 BY ONLY <1>3, <3>3, <4>1
      <4> QED BY ONLY <4>1, <4>2
    <3> QED BY ONLY <3>6, <3>7, <3>8
  <2>2. CASE m # l
    <3>1. m < l BY <1>2, <2>2
    <3> PICK p : p = UsedOfNext(cs, n) OBVIOUS
    <3>2. /\ p \in Nat /\ p < cs[m + 1].size /\ p = n - Len(Contents(cs)[m])
          /\ Leaves(cs, m, p, new)
      BY <3>1, AfterLeaves
    <3>3. \A j \in 1..(l - m) : Contents(new)[j] = Drop(Contents(cs)[m + j], n)
      <4>1. m < Len(cs) BY ONLY <3>1, l = Len(cs) /\ m = UsedUp(cs, n) /\ k = Least(n, Total(cs))
      <4>2. LeftAsBefore(cs, n, m, new)
        BY ONLY <1>1, <3>2, <4>1, ContentsLeft, cs \in Seq(GoodChunks), n \in Nat
      <4> QED BY ONLY <4>2, l = Len(cs) /\ m = UsedUp(cs, n) /\ k = Least(n, Total(cs)) DEF LeftAsBefore
    <3>4. l - m \in 1..(l - m) /\ m + (l - m) = l BY ONLY <1>2, <3>1
    <3>5. new \in Seq(GoodChunks) /\ Len(new) = l - m BY <3>2 DEF Leaves
    <3>6. Content(new) = Drop(Content(cs), n)
      BY ONLY <3>3, <3>4, <3>5, l = Len(cs) /\ m = UsedUp(cs, n) /\ k = Least(n, Total(cs)) DEF Content
    <3>7. k = n
      <4>1. m + 1 \in 0..l /\ l \in 0..l /\ (m + 1 = l \/ m + 1 < l) BY ONLY <1>2, <3>1
      <4>2. n < Len(Contents(cs)[m + 1]) BY <1>1, <3>1 DEF UsesUp
      <4>3. LengthsGrow(cs) BY MoreChunksMoreBytes
      <4>4. Len(Contents(cs)[m + 1]) \in Nat /\ Len(Contents(cs)[l]) \in Nat
        BY ONLY <4>1, <4>3, l = Len(cs) /\ m = UsedUp(cs, n) /\ k = Least(n, Total(cs)) DEF LengthsGrow
      <4>5. m + 1 = l \/ Len(Contents(cs)[m + 1]) < Len(Contents(cs)[l])
        BY ONLY <4>1, <4>3, l = Len(cs) /\ m = UsedUp(cs, n) /\ k = Least(n, Total(cs)) DEF LengthsGrow
      <4>6. n < Len(Contents(cs)[l]) BY ONLY <4>2, <4>4, <4>5, n \in Nat
      <4>7. n < Total(cs) BY <4>6 DEF Total, Content
      <4> QED BY ONLY <4>7, l = Len(cs) /\ m = UsedUp(cs, n) /\ k = Least(n, Total(cs)) DEF Least
    <3> QED BY ONLY <3>5, <3>6, <3>7
  <2> QED BY ONLY <2>1, <2>2
<1>6. Total(new) = Total(cs) - k
  <2>1. Len(Drop(Content(cs), k)) = Len(Content(cs)) - k BY ONLY <1>3, <1>4, DropTyped
  <2> QED BY ONLY <1>3, <1>5, <2>1 DEF Total
<1> QED BY <1>4, <1>5, <1>6 DEF DropsFront

(* A chunk at the end of the list adds its bytes to the end.               *)
LEMMA AppendAddsBytes ==
  ASSUME NEW cs \in Seq(GoodChunks), NEW c \in GoodChunks
  PROVE  /\ Append(cs, c) \in Seq(GoodChunks)
         /\ Content(Append(cs, c)) = Content(cs) \o Rest(c)
         /\ Total(Append(cs, c)) = Total(cs) + c.size
<1> PICK l, a : l = Len(cs) /\ a = Append(cs, c) OBVIOUS
<1>1. /\ l \in Nat /\ a \in Seq(GoodChunks) /\ Len(a) = l + 1 /\ a[l + 1] = c
      /\ \A k \in 1..l : a[k] = cs[k]
  OBVIOUS
<1> PICK f, g : f = Contents(cs) /\ g = Contents(a) OBVIOUS
<1>2. f[0] = <<>> /\ \A k \in 1..l : f[k] = f[k - 1] \o Rest(cs[k])
  BY ContentsGrow DEF Grows
<1>3. g[0] = <<>> /\ \A k \in 1..(l + 1) : g[k] = g[k - 1] \o Rest(a[k])
  BY <1>1, ContentsGrow DEF Grows
<1> DEFINE T == {k \in Nat : k <= l => g[k] = f[k]}
<1>4. 0 \in T
  <2>1. g[0] = f[0] BY ONLY <1>2, <1>3
  <2> QED BY ONLY <2>1
<1>5. ASSUME NEW k \in Nat, k \in T PROVE k + 1 \in T
  <2> SUFFICES ASSUME k + 1 <= l PROVE g[k + 1] = f[k + 1]
    OBVIOUS
  <2>1. k + 1 \in 1..l /\ k + 1 \in 1..(l + 1) /\ (k + 1) - 1 = k /\ k <= l BY ONLY <1>1, k \in Nat, k + 1 <= l
  <2>2. g[k] = f[k] BY ONLY <1>5, <2>1
  <2>3. a[k + 1] = cs[k + 1] BY ONLY <1>1, <2>1
  <2>4. g[k + 1] = g[k] \o Rest(a[k + 1]) BY ONLY <1>3, <2>1
  <2>5. f[k + 1] = f[k] \o Rest(cs[k + 1]) BY ONLY <1>2, <2>1
  <2> QED BY ONLY <2>2, <2>3, <2>4, <2>5
<1>6. g[l] = f[l]
  <2>1. \A k \in Nat : k \in T => k + 1 \in T BY ONLY <1>5
  <2> HIDE DEF T
  <2>2. \A k \in Nat : k \in T BY ONLY <1>4, <2>1, SetInduction
  <2>3. l \in T /\ l <= l BY ONLY <1>1, <2>2
  <2> QED BY ONLY <2>3 DEF T
<1>7. g[l + 1] = g[l] \o Rest(c)
  <2>1. l + 1 \in 1..(l + 1) /\ (l + 1) - 1 = l BY ONLY <1>1
  <2> QED BY ONLY <1>1, <1>3, <2>1
<1>8. Content(a) = Content(cs) \o Rest(c)
  BY ONLY <1>1, <1>6, <1>7, l = Len(cs) /\ a = Append(cs, c), f = Contents(cs) /\ g = Contents(a) DEF Content
<1>9. Rest(c) \in Seq(Byte) /\ Len(Rest(c)) = c.size BY RestTyped
<1>10. Content(cs) \in Seq(Byte) /\ Total(cs) = Len(Content(cs)) BY ContentTyped
<1>11. Len(Content(cs) \o Rest(c)) = Len(Content(cs)) + Len(Rest(c))
  BY ONLY <1>9, <1>10, ConcatProperties
<1>12. Total(a) = Total(cs) + c.size BY ONLY <1>8, <1>9, <1>10, <1>11 DEF Total
<1> QED BY <1>1, <1>8, <1>12

(* The content of the empty list.                                          *)
LEMMA NothingInEmpty == <<>> \in Seq(GoodChunks) /\ Content(<<>>) = <<>> /\ Total(<<>>) = 0
<1>1. <<>> \in Seq(GoodChunks) /\ Len(<<>>) = 0 OBVIOUS
<1>2. Contents(<<>>)[0] = <<>> BY ONLY <1>1, ContentsGrow DEF Grows
<1>3. Content(<<>>) = <<>> BY ONLY <1>1, <1>2 DEF Content
<1> QED BY ONLY <1>1, <1>3 DEF Total

(* The data of an add(): a piece of its producer's stream.                 *)
LEMMA PieceIsChunk ==
  ASSUME NEW p \in Producers, NEW n \in Nat, n >= 1, sent[p] \in Nat, sent[p] + n <= MaxBytes
  PROVE  Chunk(Bytes(p, n)) \in GoodChunks /\ Rest(Chunk(Bytes(p, n))) = Bytes(p, n)
<1> PICK b, k : b = Bytes(p, n) /\ k = sent[p] OBVIOUS
<1>1. k \in Nat /\ k + n <= MaxBytes /\ MaxBytes \in Nat BY QueueAssumption DEF QueueAssumption
<1>2. b = [i \in 1..n |-> <<p, k + i>>] BY DEF Bytes
<1>3. \A i \in 1..n : k + i \in 1..MaxBytes BY ONLY <1>1, n \in Nat
<1>4. \A i \in 1..n : <<p, k + i>> \in Byte BY ONLY <1>3, p \in Producers DEF Byte
<1>5. b \in Seq(Byte) /\ Len(b) = n BY ONLY <1>2, <1>4, n \in Nat
<1> PICK c : c = Chunk(b) OBVIOUS
<1>6. c = [buff |-> b, index |-> 0, size |-> n] BY ONLY <1>5, c = Chunk(b) DEF Chunk
<1>7. c \in GoodChunks BY ONLY <1>5, <1>6, n \in Nat, n >= 1 DEF GoodChunks
<1>8. Rest(c) = SubSeq(b, 1, n) BY ONLY <1>6, n \in Nat DEF Rest
<1>9. SubSeq(b, 1, n) = b
  BY ONLY <1>5, n \in Nat
<1> QED BY ONLY <1>7, <1>8, <1>9, c = Chunk(b), b = Bytes(p, n) /\ k = sent[p]

-----------------------------------------------------------------------------
(* What is true of the queue for any number of producers and consumers:    *)
(* every chunk of the list has bytes left, m_nQueueSize is exact, and the  *)
(* data of an add() that is under way is the next piece of its stream.     *)
AddsNext == \A p \in Producers : pc[p] = "append" => want[p] \in Sizes /\ sent[p] + want[p] <= MaxBytes

PlacesTyped ==
  /\ pc \in [Thread -> ProducerPC \cup ConsumerPC]
  /\ \A p \in Producers : pc[p] \in ProducerPC
  /\ \A c \in Consumers : pc[c] \in ConsumerPC
  /\ want \in [Thread -> Nat] /\ sent \in [Producers -> Nat]
  /\ closed \in BOOLEAN /\ crashed \in BOOLEAN /\ cv \in Consumers \cup {NoThread}

StreamInv ==
  /\ PlacesTyped /\ AddsNext
  /\ chunks \in Seq(GoodChunks) /\ out \in Seq(Byte)
  /\ size = Total(chunks)

(* What a step means to the abstract queue.                                *)
StepOfFifo == [Fifo!Next]_<<Content(chunks), out>>

LEMMA StreamInit == Init => StreamInv /\ Fifo!Init
<1> SUFFICES ASSUME Init PROVE StreamInv /\ Fifo!Init
  OBVIOUS
<1>1. PlacesTyped /\ AddsNext
  BY QueueAssumption
  DEF QueueAssumption, Init, PlacesTyped, AddsNext, Thread, ProducerPC, ConsumerPC
<1>2. chunks = <<>> /\ size = 0 /\ out = <<>> BY DEF Init
<1>3. <<>> \in Seq(Byte) OBVIOUS
<1>4. StreamInv BY ONLY <1>1, <1>2, <1>3, NothingInEmpty DEF StreamInv
<1>5. Fifo!Init BY ONLY <1>2, NothingInEmpty DEF Fifo!Init
<1> QED BY <1>4, <1>5

(* A step that leaves the bytes alone.                                     *)
LEMMA QuietStep ==
  ASSUME StreamInv, PlacesTyped', AddsNext', UNCHANGED <<chunks, size, out>>
  PROVE  StreamInv' /\ StepOfFifo
<1>1. chunks' = chunks /\ size' = size /\ out' = out OBVIOUS
<1>2. Content(chunks)' = Content(chunks) /\ Total(chunks') = Total(chunks)
  BY ONLY <1>1 DEF Content, Total
<1> QED BY <1>1, <1>2 DEF StreamInv, StepOfFifo

(* add() puts a piece of the producer's stream behind the others.          *)
LEMMA AppendIsAdd ==
  ASSUME StreamInv, NEW p \in Producers, AppendChunk(p)
  PROVE  StreamInv' /\ StepOfFifo
<1>1. p \in Thread /\ pc[p] = "append" BY DEF AppendChunk, Thread
<1>2. PlacesTyped /\ AddsNext /\ chunks \in Seq(GoodChunks) /\ size = Total(chunks) /\ out \in Seq(Byte)
  BY DEF StreamInv
<1> PICK n, k : n = want[p] /\ k = sent[p] OBVIOUS
<1>3. n \in Sizes /\ k + n <= MaxBytes BY <1>1, <1>2 DEF AddsNext
<1>4. n \in Nat /\ n >= 1 /\ k \in Nat
  <2>1. n \in Nat \ {0} BY <1>3, QueueAssumption DEF QueueAssumption
  <2>2. k \in Nat BY <1>2 DEF PlacesTyped
  <2> QED BY ONLY <2>1, <2>2
<1> PICK b, c : b = Bytes(p, n) /\ c = Chunk(b) OBVIOUS
<1>5. c \in GoodChunks /\ Rest(c) = b BY <1>3, <1>4, PieceIsChunk
<1>6. c.size = n
  <2>1. Len(Rest(c)) = c.size BY <1>5, RestTyped
  <2>2. b = [i \in 1..n |-> <<p, k + i>>] BY DEF Bytes
  <2>3. Len(b) = n BY ONLY <1>4, <2>2
  <2> QED BY <1>5, <2>1, <2>3
<1>7. chunks' = Append(chunks, c) /\ size' = size + n /\ out' = out
  BY DEF AppendChunk
<1>8. /\ chunks' \in Seq(GoodChunks) /\ Content(chunks') = Content(chunks) \o b
      /\ Total(chunks') = size'
  BY ONLY <1>2, <1>5, <1>6, <1>7, AppendAddsBytes
<1>9. PlacesTyped'
  <2>1. pc' = [pc EXCEPT ![p] = "signal"] /\ sent' = [sent EXCEPT ![p] = @ + want[p]]
        /\ UNCHANGED <<want, closed, crashed, cv>>
    BY DEF AppendChunk, Go
  <2>2. sent[p] + want[p] \in Nat BY <1>4
  <2> QED BY <1>1, <1>2, <2>1, <2>2, QueueAssumption
          DEF PlacesTyped, QueueAssumption, ProducerPC
<1>10. AddsNext'
  <2>1. \A q \in Producers : pc'[q] = "append" => pc[q] = "append" /\ sent'[q] = sent[q] /\ want' = want
    <3>1. pc' = [pc EXCEPT ![p] = "signal"] /\ sent' = [sent EXCEPT ![p] = @ + want[p]] /\ want' = want
      BY DEF AppendChunk, Go
    <3>2. pc'[p] = "signal" /\ \A q \in Producers \ {p} : pc'[q] = pc[q] /\ sent'[q] = sent[q]
      BY ONLY <1>1, <1>2, <3>1, p \in Producers DEF PlacesTyped, Thread
    <3> QED BY ONLY <3>1, <3>2
  <2> QED BY ONLY <1>2, <2>1 DEF AddsNext
<1>11. StreamInv' BY ONLY <1>2, <1>7, <1>8, <1>9, <1>10 DEF StreamInv
<1>12. b \in Pieces
  <2>1. k \in 0..MaxBytes BY <1>3, <1>4, QueueAssumption DEF QueueAssumption
  <2>2. b = [i \in 1..n |-> <<p, k + i>>] BY DEF Bytes
  <2> QED BY ONLY <1>3, <2>1, <2>2, p \in Producers DEF Pieces
<1>13. Content(chunks)' = Content(chunks) \o b BY ONLY <1>8 DEF Content
<1>14. Fifo!Add(b) BY ONLY <1>7, <1>13 DEF Fifo!Add
<1>15. Fifo!Next BY ONLY <1>12, <1>14 DEF Fifo!Next
<1> QED BY <1>11, <1>15 DEF StepOfFifo

(* Bytes that leave the queue are the first ones.                          *)
LEMMA TakingIsTake ==
  ASSUME StreamInv, PlacesTyped', AddsNext', NEW n \in Nat, NEW new,
         DropsFront(chunks, n, new),
         chunks' = new, size' = size - Least(n, Total(chunks)),
         out' = out \o SubSeq(Content(chunks), 1, Least(n, Total(chunks)))
  PROVE  StreamInv' /\ StepOfFifo
<1> PICK k, s : k = Least(n, Total(chunks)) /\ s = Content(chunks) OBVIOUS
<1>1. chunks \in Seq(GoodChunks) /\ size = Total(chunks) /\ out \in Seq(Byte) BY DEF StreamInv
<1>2. s \in Seq(Byte) /\ Total(chunks) = Len(s) BY <1>1, ContentTyped
<1>3. /\ new \in Seq(GoodChunks) /\ k \in 0..Len(s)
      /\ Content(new) = SubSeq(s, k + 1, Len(s)) /\ Total(new) = Len(s) - k
  BY <1>2 DEF DropsFront, Drop
<1>4. SubSeq(s, 1, k) \in Seq(Byte) BY ONLY <1>2, <1>3
<1>5. out' \in Seq(Byte)
  <2>1. out' = out \o SubSeq(s, 1, k) OBVIOUS
  <2> QED BY ONLY <1>1, <1>4, <2>1, ConcatProperties
<1>6. StreamInv' BY <1>1, <1>2, <1>3, <1>5 DEF StreamInv
<1>7. Content(chunks)' = SubSeq(s, k + 1, Len(s)) /\ out' = out \o SubSeq(s, 1, k)
  <2>1. Content(chunks)' = Content(chunks') BY DEF Content
  <2> QED BY <1>3, <2>1
<1>8. CASE k # 0
  <2>1. k \in 1..Len(s) BY ONLY <1>2, <1>3, <1>8
  <2>2. Fifo!Take(k) BY <1>7, <2>1 DEF Fifo!Take
  <2>3. Fifo!Next BY <2>1, <2>2 DEF Fifo!Next
  <2> QED BY <1>6, <2>3 DEF StepOfFifo
<1>9. CASE k = 0
  <2>1. SubSeq(s, 0 + 1, Len(s)) = s BY ONLY <1>2
  <2>2. SubSeq(s, 1, 0) = <<>> BY ONLY <1>2
  <2>3. out \o <<>> = out BY ONLY <1>1
  <2>4. Content(chunks)' = Content(chunks) /\ out' = out BY <1>7, <1>9, <2>1, <2>2, <2>3
  <2> QED BY <1>6, <2>4 DEF StepOfFifo
<1> QED BY <1>8, <1>9

(* The calls of a consumer and the steps of a producer that do not touch   *)
(* the list.                                                               *)
LEMMA ProducerStream ==
  ASSUME StreamInv, NEW p \in Producers, ProducerStep(p)
  PROVE  StreamInv' /\ StepOfFifo
<1>1. PlacesTyped /\ AddsNext BY DEF StreamInv
<1>2. p \in Thread /\ p \notin Consumers BY QueueAssumption DEF QueueAssumption, Thread
<1>3. CASE AppendChunk(p) BY <1>3, AppendIsAdd
<1>4. CASE \E n \in Sizes : AddCheck(p, n)
  <2> PICK n \in Sizes : AddCheck(p, n) BY <1>4
  <2>1. /\ pc' = [pc EXCEPT ![p] = "append"] /\ want' = [want EXCEPT ![p] = n]
        /\ sent[p] + n <= MaxBytes
        /\ UNCHANGED <<chunks, size, out, sent, closed, crashed, cv>>
    BY DEF AddCheck, Go, data
  <2>2. n \in Nat BY QueueAssumption DEF QueueAssumption
  <2>3. PlacesTyped' BY ONLY <1>1, <1>2, <2>1, <2>2 DEF PlacesTyped, ProducerPC, ConsumerPC
  <2>4. \A q \in Producers \ {p} : pc'[q] = pc[q] /\ want'[q] = want[q]
    BY ONLY <1>1, <2>1 DEF PlacesTyped, Thread
  <2>5. want'[p] = n BY ONLY <1>1, <1>2, <2>1 DEF PlacesTyped
  <2>6. AddsNext' BY ONLY <1>1, <2>1, <2>4, <2>5, n \in Sizes DEF AddsNext
  <2> QED BY <2>1, <2>3, <2>6, QuietStep
<1>5. CASE AddSignal(p) \/ CloseFlag(p) \/ CloseCheck(p) \/ CloseSignal(p)
  <2>1. UNCHANGED <<chunks, size, out, sent, want, crashed, cv>> /\ closed' \in BOOLEAN
    BY <1>1, <1>5 DEF AddSignal, CloseFlag, CloseCheck, CloseSignal, data, PlacesTyped
  <2>2. \/ \E to \in ProducerPC \ {"append"} : pc' = [pc EXCEPT ![p] = to]
        \/ \E c \in Consumers : pc' = [pc EXCEPT ![p] = "idle", ![c] = "relock"]
    BY <1>5 DEF AddSignal, CloseFlag, CloseCheck, CloseSignal, Go, Signalled, ProducerPC
  <2>3. /\ pc' \in [Thread -> ProducerPC \cup ConsumerPC]
        /\ \A q \in Producers : pc'[q] \in ProducerPC /\ (pc'[q] = "append" => pc[q] = "append")
        /\ \A c \in Consumers : pc'[c] \in ConsumerPC
    BY <1>1, <1>2, <2>2, QueueAssumption
       DEF PlacesTyped, Thread, QueueAssumption, ProducerPC, ConsumerPC
  <2>4. PlacesTyped' BY ONLY <1>1, <2>1, <2>3 DEF PlacesTyped
  <2>5. AddsNext' BY ONLY <1>1, <2>1, <2>3 DEF AddsNext
  <2> QED BY <2>1, <2>4, <2>5, QuietStep
<1> QED BY <1>3, <1>4, <1>5 DEF ProducerStep

(* A consumer changes only what is its own, besides the bytes.             *)
OwnStep(c) ==
  /\ \E to \in ConsumerPC : pc' = [pc EXCEPT ![c] = to]
  /\ \E n \in Nat : want' = [want EXCEPT ![c] = n]
  /\ crashed' \in BOOLEAN /\ cv' \in Consumers \cup {NoThread}
  /\ UNCHANGED <<sent, closed>>

LEMMA OwnStepKeeps ==
  ASSUME PlacesTyped, AddsNext, NEW c \in Consumers, OwnStep(c)
  PROVE  PlacesTyped' /\ AddsNext'
<1>1. c \in Thread /\ c \notin Producers BY QueueAssumption DEF QueueAssumption, Thread
<1> PICK to \in ConsumerPC, n \in Nat : /\ pc' = [pc EXCEPT ![c] = to]
                                        /\ want' = [want EXCEPT ![c] = n]
  BY DEF OwnStep
<1>2. crashed' \in BOOLEAN /\ cv' \in Consumers \cup {NoThread} /\ sent' = sent /\ closed' = closed
  BY DEF OwnStep
<1>3. /\ pc' \in [Thread -> ProducerPC \cup ConsumerPC] /\ want' \in [Thread -> Nat]
      /\ \A d \in Thread : pc'[d] = IF d = c THEN to ELSE pc[d]
      /\ \A d \in Thread \ {c} : want'[d] = want[d]
  BY <1>1 DEF PlacesTyped
<1>4. \A q \in Producers : q \in Thread \ {c} BY <1>1 DEF Thread
<1>5. \A q \in Producers : pc'[q] = pc[q] /\ want'[q] = want[q] BY ONLY <1>3, <1>4
<1>6. \A d \in Consumers : pc'[d] \in ConsumerPC
  <2>1. \A d \in Consumers : d \in Thread /\ pc[d] \in ConsumerPC BY DEF PlacesTyped, Thread
  <2> QED BY ONLY <1>3, <2>1, to \in ConsumerPC
<1>7. PlacesTyped' BY <1>2, <1>3, <1>5, <1>6 DEF PlacesTyped
<1>8. AddsNext' BY <1>2, <1>5 DEF AddsNext
<1> QED BY <1>7, <1>8

(* What a consumer does not assign is assigned the old value.              *)
LEMMA OwnUnchanged ==
  ASSUME PlacesTyped, NEW c \in Consumers
  PROVE  /\ pc[c] \in ConsumerPC /\ want[c] \in Nat
         /\ pc = [pc EXCEPT ![c] = pc[c]] /\ want = [want EXCEPT ![c] = want[c]]
         /\ crashed \in BOOLEAN /\ cv \in Consumers \cup {NoThread}
         /\ (IF cv = c THEN NoThread ELSE cv) \in Consumers \cup {NoThread}
BY DEF PlacesTyped, Thread

LEMMA ConsumerQuiet ==
  ASSUME PlacesTyped, NEW c \in Consumers,
         \/ \E n \in Sizes : \/ CallGet(c, n) \/ Peek(c, n) \/ CallRemove(c, n)
                             \/ \E b \in BOOLEAN : CallGetOrWait(c, n, b)
         \/ \E from, to \in ConsumerPC : Checked(c, from, to)
         \/ \E from \in ConsumerPC : ReturnEmpty(c, from)
         \/ Lock(c) \/ Test(c) \/ Wait(c) \/ SpuriousWakeup(c) \/ Timeout(c)
  PROVE  OwnStep(c) /\ UNCHANGED <<chunks, size, out>>
<1>1. /\ pc[c] \in ConsumerPC /\ want[c] \in Nat
      /\ pc = [pc EXCEPT ![c] = pc[c]] /\ want = [want EXCEPT ![c] = want[c]]
      /\ crashed \in BOOLEAN /\ cv \in Consumers \cup {NoThread}
      /\ (IF cv = c THEN NoThread ELSE cv) \in Consumers \cup {NoThread}
  BY OwnUnchanged
<1>2. \A n \in Sizes : n \in Nat BY QueueAssumption DEF QueueAssumption
<1>3. CASE \E n \in Sizes : \/ CallGet(c, n) \/ CallRemove(c, n)
                            \/ \E b \in BOOLEAN : CallGetOrWait(c, n, b)
  <2>1. /\ UNCHANGED <<chunks, size, out, sent, closed, crashed, cv>>
        /\ \E n \in Sizes : want' = [want EXCEPT ![c] = n]
        /\ \E to \in {"check", "lock", "removeCheck"} : pc' = [pc EXCEPT ![c] = to]
    BY <1>3 DEF CallGet, CallGetOrWait, Called, CallRemove, Go, data
  <2> QED BY ONLY <1>1, <1>2, <2>1 DEF OwnStep, ConsumerPC
<1>4. CASE \E n \in Sizes : Peek(c, n)
  <2>1. UNCHANGED <<chunks, size, out, sent, closed, crashed, cv, pc, want>>
    BY <1>4 DEF Peek, data
  <2> QED BY ONLY <1>1, <2>1 DEF OwnStep
<1>5. CASE \/ \E from, to \in ConsumerPC : Checked(c, from, to)
           \/ \E from \in ConsumerPC : ReturnEmpty(c, from)
  <2>1. /\ UNCHANGED <<chunks, size, out, sent, closed, crashed, want>>
        /\ cv' = cv \/ cv' = IF cv = c THEN NoThread ELSE cv
        /\ \E to \in ConsumerPC : pc' = [pc EXCEPT ![c] = to]
    BY <1>5 DEF Checked, ReturnEmpty, Go, data, ConsumerPC
  <2> QED BY ONLY <1>1, <2>1 DEF OwnStep
<1>6. CASE Lock(c) \/ Test(c) \/ Wait(c) \/ SpuriousWakeup(c) \/ Timeout(c)
  <2>1. /\ UNCHANGED <<chunks, size, out, sent, closed, crashed, want>>
        /\ cv' \in {cv, c, NoThread}
        /\ \E to \in ConsumerPC : pc' = [pc EXCEPT ![c] = to]
    BY <1>6 DEF Lock, Test, Wait, SpuriousWakeup, Timeout, Go, data, ConsumerPC
  <2> QED BY ONLY <1>1, <2>1, c \in Consumers DEF OwnStep
<1> QED BY <1>3, <1>4, <1>5, <1>6

LEMMA ConsumerStream ==
  ASSUME StreamInv, NEW c \in Consumers,
         ConsumerCalls(c) \/ ConsumerGoesOn(c) \/ SpuriousWakeup(c) \/ Timeout(c)
  PROVE  StreamInv' /\ StepOfFifo
<1>1. /\ PlacesTyped /\ AddsNext /\ chunks \in Seq(GoodChunks) /\ size = Total(chunks)
      /\ out \in Seq(Byte)
  BY DEF StreamInv
<1>2. /\ pc[c] \in ConsumerPC /\ want[c] \in Nat
      /\ pc = [pc EXCEPT ![c] = pc[c]] /\ want = [want EXCEPT ![c] = want[c]]
      /\ crashed \in BOOLEAN /\ cv \in Consumers \cup {NoThread}
      /\ (IF cv = c THEN NoThread ELSE cv) \in Consumers \cup {NoThread}
  BY <1>1, OwnUnchanged
<1>3. CASE Clean(c)
  <2>1. /\ out' = out \o Content(chunks) /\ chunks' = <<>> /\ size' = 0
        /\ UNCHANGED <<closed, cv, pc, want, sent, crashed>>
    BY <1>3 DEF Clean
  <2>2. PlacesTyped' /\ AddsNext' BY ONLY <1>1, <2>1 DEF PlacesTyped, AddsNext
  <2> PICK s, n : s = Content(chunks) /\ n = Total(chunks) OBVIOUS
  <2>3. s \in Seq(Byte) /\ n = Len(s) /\ n \in Nat BY <1>1, ContentTyped
  <2>4. Least(n, n) = n BY ONLY DEF Least
  <2>5. Drop(s, n) = <<>> BY ONLY <2>3 DEF Drop
  <2>6. SubSeq(s, 1, n) = s BY ONLY <2>3
  <2>7. DropsFront(chunks, n, <<>>)
    BY ONLY <2>3, <2>4, <2>5, NothingInEmpty, s = Content(chunks) /\ n = Total(chunks) DEF DropsFront
  <2>8. /\ size' = size - Least(n, Total(chunks))
        /\ out' = out \o SubSeq(Content(chunks), 1, Least(n, Total(chunks)))
    BY ONLY <1>1, <2>1, <2>3, <2>4, <2>6, s = Content(chunks) /\ n = Total(chunks)
  <2> QED BY <2>1, <2>2, <2>3, <2>7, <2>8, TakingIsTake
<1>4. CASE \E from \in {"take", "lockedTake", "remove"} : FollowHead(c, from)
  <2>1. CASE NullDereference
    <3>1. UNCHANGED <<chunks, size, out, closed, cv, pc, want, sent>> /\ crashed' = TRUE
      BY <2>1 DEF NullDereference, data
    <3>2. PlacesTyped' /\ AddsNext' BY ONLY <1>1, <3>1 DEF PlacesTyped, AddsNext
    <3> QED BY <3>1, <3>2, QuietStep
  <2>2. CASE Finish(c)
    <3> PICK n, new : n = want[c] /\ new = After(chunks, n) OBVIOUS
    <3>1. /\ out' = out \o SubSeq(Content(chunks), 1, Least(n, Total(chunks)))
          /\ size' = size - Least(n, Total(chunks)) /\ chunks' = new
          /\ cv' = IF cv = c THEN NoThread ELSE cv
          /\ pc' = [pc EXCEPT ![c] = "idle"]
          /\ UNCHANGED <<closed, want, sent, crashed>>
      BY <2>2 DEF Finish, TakeBytes, SizeAfter, Go
    <3>2. OwnStep(c) BY ONLY <1>2, <3>1 DEF OwnStep, ConsumerPC
    <3>3. PlacesTyped' /\ AddsNext' BY ONLY <1>1, <3>2, OwnStepKeeps, c \in Consumers
    <3>4. n \in Nat BY <1>2
    <3>5. DropsFront(chunks, n, new)
      BY ONLY <1>1, <3>4, AfterDropsFront, n = want[c] /\ new = After(chunks, n)
    <3> QED BY <3>1, <3>3, <3>4, <3>5, TakingIsTake
  <2> QED BY <1>4, <2>1, <2>2 DEF FollowHead
<1>5. CASE /\ ~Clean(c)
           /\ ~\E from \in {"take", "lockedTake", "remove"} : FollowHead(c, from)
  <2>1. \/ \E n \in Sizes : \/ CallGet(c, n) \/ Peek(c, n) \/ CallRemove(c, n)
                            \/ \E b \in BOOLEAN : CallGetOrWait(c, n, b)
        \/ \E from, to \in ConsumerPC : Checked(c, from, to)
        \/ \E from \in ConsumerPC : ReturnEmpty(c, from)
        \/ Lock(c) \/ Test(c) \/ Wait(c) \/ SpuriousWakeup(c) \/ Timeout(c)
    BY <1>5 DEF ConsumerCalls, ConsumerGoesOn, ConsumerPC
  <2>2. OwnStep(c) /\ UNCHANGED <<chunks, size, out>> BY <1>1, <2>1, ConsumerQuiet
  <2>3. PlacesTyped' /\ AddsNext' BY ONLY <1>1, <2>2, OwnStepKeeps, c \in Consumers
  <2> QED BY <2>2, <2>3, QuietStep
<1> QED BY <1>3, <1>4, <1>5

LEMMA StreamStep == StreamInv /\ [Next]_vars => StreamInv' /\ StepOfFifo
<1> SUFFICES ASSUME StreamInv, [Next]_vars PROVE StreamInv' /\ StepOfFifo
  OBVIOUS
<1>1. CASE \E p \in Producers : ProducerStep(p) BY <1>1, ProducerStream
<1>2. CASE \E c \in Consumers : \/ ConsumerCalls(c) \/ ConsumerGoesOn(c)
                                \/ SpuriousWakeup(c) \/ Timeout(c)
  BY <1>2, ConsumerStream
<1>3. CASE UNCHANGED vars
  <2>1. UNCHANGED <<chunks, size, out, pc, want, sent, closed, crashed, cv>>
    BY <1>3 DEF vars, data
  <2>2. PlacesTyped /\ AddsNext BY DEF StreamInv
  <2>3. PlacesTyped' /\ AddsNext' BY ONLY <2>1, <2>2 DEF PlacesTyped, AddsNext
  <2> QED BY <2>1, <2>3, QuietStep
<1> QED BY <1>1, <1>2, <1>3 DEF Next, Step

LEMMA AlwaysStream == Spec => []StreamInv
BY StreamInit, StreamStep, PTL DEF Spec

(* For any number of producers and consumers and any sizes of the calls    *)
(* the list of chunks, of which get() and remove() unlink whole ones and   *)
(* change index and size of the next one, is a first-in first-out queue of *)
(* bytes.                                                                  *)
THEOREM QueueIsFifo == Spec => ImplementsFifo
<1>1. Init => Fifo!Init BY StreamInit
<1>2. StreamInv /\ [Next]_vars => [Fifo!Next]_<<Content(chunks), out>>
  BY StreamStep DEF StepOfFifo
<1> QED BY AlwaysStream, <1>1, <1>2, PTL DEF Spec, ImplementsFifo, Fifo!Spec

(* The types of the queue, for any number of producers and consumers.      *)
THEOREM QueueTypeCorrect == Spec => []TypeOK
<1>1. StreamInv => TypeOK
  <2> SUFFICES ASSUME StreamInv PROVE TypeOK
    OBVIOUS
  <2>1. \A i \in 1..Len(chunks) : /\ chunks[i].buff \in Seq(Byte)
                                  /\ chunks[i].size \in 1..Len(chunks[i].buff)
                                  /\ chunks[i].index + chunks[i].size = Len(chunks[i].buff)
    <3> SUFFICES ASSUME NEW i \in 1..Len(chunks)
                 PROVE  /\ chunks[i].buff \in Seq(Byte)
                        /\ chunks[i].size \in 1..Len(chunks[i].buff)
                        /\ chunks[i].index + chunks[i].size = Len(chunks[i].buff)
      OBVIOUS
    <3> PICK c : c = chunks[i] OBVIOUS
    <3>1. c \in GoodChunks BY DEF StreamInv
    <3> QED BY <3>1 DEF GoodChunks
  <2>2. size \in Nat BY ContentTyped DEF StreamInv
  <2> QED BY <2>1, <2>2 DEF StreamInv, PlacesTyped, TypeOK
<1> QED BY AlwaysStream, <1>1, PTL

-----------------------------------------------------------------------------
(* A single consumer.                                                      *)

(* Between the test of m_Queue and the use of it.                          *)
Taking == {"take", "lockedTake", "remove"}

(* The list is not empty where it is followed.                             *)
FollowsChunks == (\A c \in Consumers : pc[c] \in Taking => chunks # <<>>) /\ ~crashed

(* Every step of a producer keeps what the consumer has tested.            *)
LEMMA ProducerKeepsChunks ==
  ASSUME StreamInv, FollowsChunks, NEW p \in Producers, ProducerStep(p)
  PROVE  FollowsChunks'
<1> USE QueueAssumption DEF StreamInv, PlacesTyped, FollowsChunks, Go, data, Thread, Taking
<1>1. CASE \E n \in Sizes : AddCheck(p, n)
  BY <1>1 DEF AddCheck
<1>2. CASE AppendChunk(p)
  <2>1. chunks' # <<>>
    <3> PICK e : chunks' = Append(chunks, e) BY <1>2 DEF AppendChunk
    <3>1. chunks \in Seq(GoodChunks) OBVIOUS
    <3> QED BY ONLY <3>1, chunks' = Append(chunks, e)
  <2> QED BY <1>2, <2>1 DEF AppendChunk
<1>3. CASE AddSignal(p)
  BY <1>3 DEF AddSignal, Signalled
<1>4. CASE CloseFlag(p)
  BY <1>4 DEF CloseFlag
<1>5. CASE CloseCheck(p)
  BY <1>5 DEF CloseCheck
<1>6. CASE CloseSignal(p)
  BY <1>6 DEF CloseSignal, Signalled
<1> QED BY <1>1, <1>2, <1>3, <1>4, <1>5, <1>6 DEF ProducerStep

(* So does every step of the only consumer.                                *)
LEMMA ConsumerKeepsChunks ==
  ASSUME NEW k, Consumers = {k}, StreamInv, FollowsChunks,
         ConsumerCalls(k) \/ ConsumerGoesOn(k) \/ SpuriousWakeup(k) \/ Timeout(k)
  PROVE  FollowsChunks'
<1> USE DEF StreamInv, PlacesTyped, FollowsChunks, Go, data, Thread, Taking
<1>1. CASE \E n \in Sizes : CallGet(k, n) \/ Peek(k, n) \/ CallRemove(k, n)
  BY <1>1 DEF CallGet, Called, Peek, CallRemove
<1>2. CASE \E n \in Sizes : \E b \in BOOLEAN : CallGetOrWait(k, n, b)
  BY <1>2 DEF CallGetOrWait, Called
<1>3. CASE Clean(k)
  BY <1>3 DEF Clean
<1>4. CASE \/ Checked(k, "check", "take") \/ Checked(k, "lockedCheck", "lockedTake")
           \/ Checked(k, "removeCheck", "remove")
  BY <1>4 DEF Checked
<1>5. CASE \E from \in {"check", "lockedCheck", "removeCheck"} : ReturnEmpty(k, from)
  BY <1>5 DEF ReturnEmpty
<1>6. CASE \E from \in Taking : FollowHead(k, from)
  <2>1. Finish(k) BY <1>6 DEF FollowHead
  <2> QED BY <2>1 DEF Finish
<1>7. CASE Lock(k) \/ Test(k) \/ Wait(k)
  BY <1>7 DEF Lock, Test, Wait
<1>8. CASE SpuriousWakeup(k) \/ Timeout(k)
  BY <1>8 DEF SpuriousWakeup, Timeout
<1> QED
  BY <1>1, <1>2, <1>3, <1>4, <1>5, <1>6, <1>7, <1>8 DEF ConsumerCalls, ConsumerGoesOn

(* With a single consumer the pointer of an empty list is never followed,  *)
(* for any number of producers and any sizes of the calls.                 *)
THEOREM SoleConsumerSafe ==
  ASSUME NEW k, Consumers = {k} PROVE Spec => []NeverNull
<1>1. Init => FollowsChunks
  BY DEF Init, FollowsChunks, Thread, Taking
<1>2. StreamInv /\ FollowsChunks /\ [Next]_vars => FollowsChunks'
  <2> SUFFICES ASSUME StreamInv, FollowsChunks, [Next]_vars PROVE FollowsChunks'
    OBVIOUS
  <2>1. CASE \E p \in Producers : ProducerStep(p)
    BY <2>1, ProducerKeepsChunks
  <2>2. CASE \E c \in Consumers : \/ ConsumerCalls(c) \/ ConsumerGoesOn(c)
                                  \/ SpuriousWakeup(c) \/ Timeout(c)
    BY <2>2, ConsumerKeepsChunks
  <2>3. CASE UNCHANGED vars
    BY <2>3 DEF FollowsChunks, vars, data
  <2> QED BY <2>1, <2>2, <2>3 DEF Next, Step
<1>3. FollowsChunks => NeverNull
  BY DEF FollowsChunks, NeverNull
<1> QED BY AlwaysStream, <1>1, <1>2, <1>3, PTL DEF Spec

-----------------------------------------------------------------------------
(* CADatabase.                                                             *)

(* What is known of the clock, without what has been accepted when.        *)
Timed == DbTypeOK /\ NotBehind /\ OnlyAcceptedStored

(* The initial state satisfies everything.                                 *)
LEMMA InitTimed == DbInit => Timed
BY TimingAssumption DEF DbInit, Timed, DbTypeOK, NotBehind, OnlyAcceptedStored

(* Every step preserves the types, the pace of the rotation, and that only *)
(* accepted packets are stored.     *)
LEMMA NextTimed == Timed /\ [DbNext]_dbvars => Timed'
<1> SUFFICES ASSUME Timed, [DbNext]_dbvars PROVE Timed'
  OBVIOUS
<1> USE TimingAssumption
<1>1. ASSUME NEW p \in Packets, insert(p) PROVE Timed'
  <2> DEFINE t == stamp[p]
  <2>1. DbTypeOK'
    BY <1>1 DEF insert, Enter, Accept, Timed, DbTypeOK
  <2>2. NotBehind'
    BY <1>1 DEF insert, Timed, NotBehind
  <2>3. OnlyAcceptedStored'
    <3>1. CASE Duplicate(p, t)
      <4>1. p \in accepted
        BY <3>1 DEF Duplicate, Timed, OnlyAcceptedStored
      <4>2. QED
        BY <1>1, <3>1, <4>1
           DEF insert, Enter, Accept, Timed, OnlyAcceptedStored
    <3>2. CASE ~ Duplicate(p, t)
      BY <1>1, <3>2 DEF insert, Enter, Accept, Timed, OnlyAcceptedStored
    <3>3. QED
      BY <3>1, <3>2
  <2>4. QED
    BY <2>1, <2>2, <2>3 DEF Timed
<1>2. CASE Check
  BY <1>2
     DEF Check, SleepAgain, tables, Timed, DbTypeOK, NotBehind, OnlyAcceptedStored
<1>3. CASE nextClock
  <2>1. DbTypeOK'
    BY <1>3 DEF nextClock, Rotate, SleepAgain, Timed, DbTypeOK
  <2>2. NotBehind'
    BY <1>3 DEF nextClock, SleepAgain, Timed, DbTypeOK, NotBehind
  <2>3. OnlyAcceptedStored'
    BY <1>3 DEF nextClock, Rotate, Timed, OnlyAcceptedStored
  <2>4. QED
    BY <2>1, <2>2, <2>3 DEF Timed
<1>4. CASE Tick
  BY <1>4 DEF Tick, tables, Timed, DbTypeOK, NotBehind, OnlyAcceptedStored
<1>5. CASE UNCHANGED dbvars
  BY <1>5 DEF dbvars, tables, Timed, DbTypeOK, NotBehind, OnlyAcceptedStored
<1>6. QED
  BY <1>1, <1>2, <1>3, <1>4, <1>5 DEF DbNext

(* Every reachable state is Timed.                                         *)
LEMMA AlwaysTimed == DbSpec => []Timed
BY InitTimed, NextTimed, PTL DEF DbSpec

(* Types, for every value of the constants.                                *)
THEOREM DbTypeCorrect == DbSpec => []DbTypeOK
<1>1. Timed => DbTypeOK
  BY DEF Timed
<1>2. QED
  BY <1>1, AlwaysTimed, PTL

(* Whatever a rejected insert() leaves behind, only keys of accepted       *)
(* packets are in the tables.                                              *)
THEOREM StoresOnlyAccepted == DbSpec => []OnlyAcceptedStored
<1>1. Timed => OnlyAcceptedStored
  BY DEF Timed
<1>2. QED
  BY <1>1, AlwaysTimed, PTL

(* The window of valid timestamps always holds the last interval.          *)
THEOREM WindowHoldsRecent == DbSpec => []RecentIsValid
<1>1. Timed => RecentIsValid
  BY TimingAssumption DEF Timed, DbTypeOK, NotBehind, RecentIsValid, Valid
<1>2. QED
  BY <1>1, AlwaysTimed, PTL

-----------------------------------------------------------------------------
(* Every accepted packet is remembered, and none was accepted again.       *)
Safe == Remembered /\ AcceptedOnce

(* A packet that is accepted is new, and is remembered from then on.       *)
LEMMA InsertKeepsSafe ==
  ASSUME Timed, Safe, NEW p \in Packets, insert(p)
  PROVE  Safe'
<1> USE TimingAssumption
<1> DEFINE t == stamp[p]
<1>1. /\ Valid(t) /\ Enter(p, t) /\ Accept(p, t)
      /\ UNCHANGED <<stamp, now, lastSwitch, keeper, wake>>
  BY DEF insert
<1>2. t \in Nat /\ lastSwitch \in Nat /\ now \in Nat /\ wake \in Nat
  BY DEF Timed, DbTypeOK
<1>3. t < lastSwitch + 2 * Interval
  BY <1>1, <1>2 DEF Valid, Timed, NotBehind
<1>4. p \in accepted => Duplicate(p, t)
  BY <1>1, <1>2 DEF Valid, Safe, Remembered, Duplicate, UsesPrev, UsesNext
<1>5. AcceptedOnce'
  BY <1>1, <1>4 DEF Accept, Safe, AcceptedOnce
<1>6. ASSUME NEW q \in accepted
      PROVE  /\ stamp[q] < lastSwitch + 2 * Interval
             /\ lastSwitch <= stamp[q] + Interval =>
                  \/ stamp[q] < lastSwitch /\ q \in prev'
                  \/ UsesPrev(stamp[q]) /\ UsesNext(stamp[q]) /\ q \in curr'
                  \/ ~ UsesPrev(stamp[q]) /\ q \in next'
  BY <1>1, <1>6 DEF Enter, Safe, Remembered
<1>7. ~ Duplicate(p, t) =>
        \/ t < lastSwitch /\ p \in prev'
        \/ UsesPrev(t) /\ UsesNext(t) /\ p \in curr'
        \/ ~ UsesPrev(t) /\ p \in next'
  BY <1>1, <1>2
     DEF Enter, Duplicate, EntersPrev, EntersCurr, EntersNext, UsesPrev, UsesNext
<1>8. Remembered'
  <2>1. accepted' = accepted \/ (~ Duplicate(p, t) /\ accepted' = accepted \cup {p})
    BY <1>1 DEF Accept
  <2>2. QED
    BY <1>1, <1>3, <1>6, <1>7, <2>1 DEF Remembered, UsesPrev, UsesNext
<1>9. QED
  BY <1>5, <1>8 DEF Safe

(* The rotation keeps every packet whose timestamp stays valid.            *)
LEMMA RotationKeepsSafe ==
  ASSUME Timed, Safe, nextClock PROVE Safe'
<1> USE TimingAssumption
<1>1. AcceptedOnce'
  BY DEF nextClock, Safe, AcceptedOnce
<1>2. ASSUME NEW q \in accepted
      PROVE  /\ stamp[q] < lastSwitch + Interval + 2 * Interval
             /\ lastSwitch + Interval <= stamp[q] + Interval =>
                  \/ stamp[q] < lastSwitch + Interval /\ q \in curr
                  \/ lastSwitch + Interval <= stamp[q] /\ q \in next
             /\ stamp[q] < lastSwitch + Interval + Interval
  <2>1. stamp[q] \in Nat /\ lastSwitch \in Nat
    BY DEF Timed, DbTypeOK
  <2>2. QED
    BY <2>1 DEF Safe, Remembered, UsesPrev, UsesNext
<1>3. Remembered'
  <2>1. \A q \in accepted : stamp[q] \in Nat
    BY DEF Timed, DbTypeOK
  <2>2. QED
    BY <1>2, <2>1 DEF nextClock, Rotate, Timed, DbTypeOK, Remembered, UsesPrev, UsesNext
<1>4. QED
  BY <1>1, <1>3 DEF Safe

(* The data base does what it is for: no packet is accepted twice.         *)
THEOREM NoReplayAccepted == DbSpec => []AcceptedOnce
<1>1. DbInit => Safe
  BY DEF DbInit, Safe, Remembered, AcceptedOnce
<1>2. Timed /\ Safe /\ [DbNext]_dbvars => Safe'
  <2> SUFFICES ASSUME Timed, Safe, [DbNext]_dbvars PROVE Safe'
    OBVIOUS
  <2>1. CASE \E p \in Packets : insert(p)
    BY <2>1, InsertKeepsSafe
  <2>2. CASE nextClock
    BY <2>2, RotationKeepsSafe
  <2>3. CASE Check \/ Tick \/ UNCHANGED dbvars
    BY <2>3 DEF Check, Tick, dbvars, tables, Safe, Remembered, AcceptedOnce,
                UsesPrev, UsesNext
  <2>4. QED
    BY <2>1, <2>2, <2>3 DEF DbNext
<1>3. Safe => AcceptedOnce
  BY DEF Safe
<1>4. QED
  BY <1>1, <1>2, <1>3, AlwaysTimed, PTL DEF DbSpec

-----------------------------------------------------------------------------
(* CAThreadPool.                                                           *)

(* The flags follow the progress of destroy(), and what was left waiting   *)
(* before the broadcasts is awake after them.                              *)
FlagsFollowOwner ==
  /\ queueClosed <=> owner # "working"
  /\ shutdown <=> owner \in {"wakeWorkers", "wakeAdders", "join", "done"}
  /\ freed <=> owner = "done"
  /\ owner \in {"join", "done"} => \A a \in Adders : adder[a] # "notFull"
  /\ \A a \in Adders : adder[a] # "idle" => calls[a] > 0
  /\ use.doNotBlock => \A a \in Adders : adder[a] \notin {"notFull", "woken"}

(* Requests are conserved: an accepted one is in the queue, is being run,  *)
(* or has been run.                                                        *)
Conserved ==
  /\ \A w \in Workers : worker[w] # "running" => running[w] = {}
  /\ shutdown /\ use.waits => queue = <<>>
  /\ ~ freed \/ use.waits => admitted \subseteq InQueue \cup BeingRun \cup finished
  /\ InQueue \cup BeingRun \cup finished \subseteq admitted
  /\ freed => \A w \in Workers : worker[w] = "exited"

(* The inductive invariant.                                                *)
PoolInv == /\ PoolTypeOK /\ FlagsFollowOwner /\ NoSleepOnWork /\ NoSleepOnSpace
        /\ Conserved

(* What Append and Tail do to the set of requests in the queue.            *)
LEMMA QueueSets ==
  ASSUME NEW S, NEW q \in Seq(S)
  PROVE  /\ \A e \in S : {Append(q, e)[i] : i \in DOMAIN Append(q, e)}
                           = {q[i] : i \in DOMAIN q} \cup {e}
         /\ q # <<>> => /\ Head(q) \in S /\ Tail(q) \in Seq(S)
                        /\ Len(Tail(q)) = Len(q) - 1
                        /\ {Tail(q)[i] : i \in DOMAIN Tail(q)} \cup {Head(q)}
                             = {q[i] : i \in DOMAIN q}
<1>1. \A e \in S : {Append(q, e)[i] : i \in DOMAIN Append(q, e)}
                     = {q[i] : i \in DOMAIN q} \cup {e}
  <2> TAKE e \in S
  <2>1. DOMAIN q = 1..Len(q) /\ Len(q) \in Nat
    OBVIOUS
  <2>2. DOMAIN Append(q, e) = 1..(Len(q) + 1)
    OBVIOUS
  <2>3. \A i \in 1..Len(q) : Append(q, e)[i] = q[i]
    OBVIOUS
  <2>4. Append(q, e)[Len(q) + 1] = e
    OBVIOUS
  <2>5. 1..(Len(q) + 1) = (1..Len(q)) \cup {Len(q) + 1}
    BY <2>1
  <2>6. QED
    BY <2>1, <2>2, <2>3, <2>4, <2>5
<1>2. ASSUME q # <<>>
      PROVE  /\ Head(q) \in S /\ Tail(q) \in Seq(S)
             /\ Len(Tail(q)) = Len(q) - 1
             /\ {Tail(q)[i] : i \in DOMAIN Tail(q)} \cup {Head(q)}
                  = {q[i] : i \in DOMAIN q}
  <2>1. Len(q) \in Nat \ {0} /\ DOMAIN q = 1..Len(q)
    BY <1>2
  <2>2. Tail(q) \in Seq(S) /\ Len(Tail(q)) = Len(q) - 1 /\ Head(q) = q[1]
    BY <1>2
  <2>3. DOMAIN Tail(q) = 1..(Len(q) - 1)
    BY <2>2
  <2>4. \A i \in 1..(Len(q) - 1) : Tail(q)[i] = q[i + 1]
    BY <1>2, <2>1
  <2>5. \A j \in 2..Len(q) : j - 1 \in 1..(Len(q) - 1) /\ q[j] = Tail(q)[j - 1]
    BY <2>1, <2>4
  <2>6. 1..Len(q) = {1} \cup (2..Len(q))
    BY <2>1
  <2>7. \A i \in 1..(Len(q) - 1) : i + 1 \in 1..Len(q)
    BY <2>1
  <2> DEFINE T == {Tail(q)[i] : i \in 1..(Len(q) - 1)}
             Q == {q[i] : i \in 1..Len(q)}
  <2>8. T \cup {Head(q)} \subseteq Q
    BY <2>1, <2>2, <2>4, <2>7
  <2>9. ASSUME NEW x \in Q PROVE x \in T \cup {Head(q)}
    <3>1. PICK j \in 1..Len(q) : x = q[j]
      OBVIOUS
    <3>2. CASE j = 1
      BY <3>1, <3>2, <2>2
    <3>3. CASE j \in 2..Len(q)
      BY <3>1, <3>3, <2>5
    <3>4. QED
      BY <3>2, <3>3, <2>6
  <2>10. T \cup {Head(q)} = Q
    BY <2>8, <2>9
  <2>11. {Tail(q)[i] : i \in DOMAIN Tail(q)} \cup {Head(q)}
           = {q[i] : i \in DOMAIN q}
    BY <2>1, <2>3, <2>10, Zenon
  <2>12. QED
    BY <2>2, <2>11
<1>3. QED
  BY <1>1, <1>2

(* The requests in the queue after Enqueue and Dequeue.                    *)
LEMMA EnqueueAdds ==
  ASSUME PoolTypeOK, NEW a \in Adders, NEW r \in Request, queue' = Append(queue, r)
  PROVE  InQueue' = InQueue \cup {r}
<1>1. queue \in Seq(Request)
  BY DEF PoolTypeOK
<1>2. {Append(queue, r)[i] : i \in DOMAIN Append(queue, r)}
        = {queue[i] : i \in DOMAIN queue} \cup {r}
  BY <1>1, QueueSets
<1>3. QED
  BY <1>2 DEF InQueue

(* Taking the first request leaves the others; it is in the queue once.    *)
LEMMA DequeueTakes ==
  ASSUME PoolTypeOK, queue # <<>>, queue' = Tail(queue)
  PROVE  /\ Head(queue) \in Request /\ queue' \in Seq(Request)
         /\ Len(queue') = Len(queue) - 1
         /\ InQueue' \cup {Head(queue)} = InQueue
<1>1. queue \in Seq(Request)
  BY DEF PoolTypeOK
<1>2. /\ Head(queue) \in Request /\ Tail(queue) \in Seq(Request)
      /\ Len(Tail(queue)) = Len(queue) - 1
      /\ {Tail(queue)[i] : i \in DOMAIN Tail(queue)} \cup {Head(queue)}
           = {queue[i] : i \in DOMAIN queue}
  BY <1>1, QueueSets
<1>3. QED
  BY <1>2 DEF InQueue

(* The empty queue holds nothing.                                          *)
LEMMA EmptyQueue == queue = <<>> => InQueue = {}
BY DEF InQueue

(* The initial state.                                                      *)
LEMMA InitPoolInv == PoolInit => PoolInv
<1> SUFFICES ASSUME PoolInit PROVE PoolInv
  OBVIOUS
<1>1. <<>> \in Seq(Request) /\ Len(<<>>) = 0
  OBVIOUS
<1>2. PoolTypeOK
  <2>1. /\ queue \in Seq(Request) /\ Len(queue) <= MaxQueueSize
        /\ calls \in [Adders -> 0..MaxRequests]
    BY <1>1, PoolAssumption DEF PoolInit
  <2>2. /\ adder \in [Adders -> AdderPC] /\ worker \in [Workers -> WorkerPC]
        /\ running \in [Workers -> SUBSET Request]
        /\ owner \in OwnerPC
    BY DEF PoolInit, AdderPC, WorkerPC, OwnerPC
  <2>3. /\ queueClosed \in BOOLEAN /\ shutdown \in BOOLEAN /\ freed \in BOOLEAN
        /\ use \in Uses
        /\ admitted \subseteq Request /\ finished \subseteq Request
    BY DEF PoolInit
  <2>4. QED
    BY <2>1, <2>2, <2>3 DEF PoolTypeOK
<1>3. FlagsFollowOwner /\ NoSleepOnWork /\ NoSleepOnSpace
  BY DEF PoolInit, FlagsFollowOwner, NoSleepOnWork, NoSleepOnSpace
<1>4. Conserved
  BY EmptyQueue DEF PoolInit, Conserved, BeingRun
<1>5. QED
  BY <1>2, <1>3, <1>4 DEF PoolInv

(* A call of addRequest(), from its beginning to its return.               *)
LEMMA AdderKeepsPoolInv ==
  ASSUME PoolInv, NEW a \in Adders, CallAddRequest(a) \/ AddRequest(a)
  PROVE  PoolInv'
<1> USE PoolAssumption DEF AdderPC, WorkerPC, OwnerPC
<1>1. CASE CallAddRequest(a)
  <2>a. InQueue' = InQueue /\ BeingRun' = BeingRun
    BY <1>1 DEF CallAddRequest, pool, history, InQueue, BeingRun
  <2>1. PoolTypeOK'
    BY <1>1 DEF CallAddRequest, pool, history, PoolInv, PoolTypeOK
  <2>2. FlagsFollowOwner'
    BY <1>1 DEF CallAddRequest, pool, history, PoolInv, PoolTypeOK,
       FlagsFollowOwner
  <2>3. NoSleepOnWork'
    BY <1>1 DEF CallAddRequest, pool, history, PoolInv, PoolTypeOK,
       FlagsFollowOwner, NoSleepOnWork
  <2>4. NoSleepOnSpace'
    BY <1>1 DEF CallAddRequest, pool, history, PoolInv, PoolTypeOK,
       FlagsFollowOwner, NoSleepOnSpace, Full
  <2>5. Conserved'
    BY <1>1, <2>a, EmptyQueue DEF CallAddRequest, pool, history, PoolInv,
       PoolTypeOK, FlagsFollowOwner, Conserved
  <2>6. QED
    BY <2>1, <2>2, <2>3, <2>4, <2>5 DEF PoolInv
<1>2. CASE /\ (~ freed /\ (NoSpace(a) \/ WaitNotFull(a) \/ Refuse(a))) \/ (freed /\ TouchFreed(a))
           /\ AddRequest(a)
           /\ UNCHANGED <<calls, running, owner, use, finished>>
  <2>1. PoolTypeOK'
    BY <1>2 DEF NoSpace, WaitNotFull, Refuse, TouchFreed, AddRequest, ReturnsAdder,
       pool, PoolInv, PoolTypeOK
  <2>2. FlagsFollowOwner'
    BY <1>2 DEF NoSpace, WaitNotFull, Refuse, TouchFreed, AddRequest, ReturnsAdder,
       pool, PoolInv, PoolTypeOK, FlagsFollowOwner
  <2>3. NoSleepOnWork'
    BY <1>2 DEF NoSpace, WaitNotFull, Refuse, TouchFreed, AddRequest, ReturnsAdder,
       pool, PoolInv, PoolTypeOK, FlagsFollowOwner, NoSleepOnWork
  <2>4. NoSleepOnSpace'
    BY <1>2 DEF NoSpace, WaitNotFull, Refuse, TouchFreed, AddRequest, ReturnsAdder,
       pool, PoolInv, PoolTypeOK, FlagsFollowOwner, NoSleepOnSpace, Full
  <2>5. Conserved'
    BY <1>2, EmptyQueue DEF NoSpace, WaitNotFull, Refuse, TouchFreed, AddRequest,
       ReturnsAdder, pool, PoolInv, PoolTypeOK, FlagsFollowOwner, Conserved,
       BeingRun, InQueue
  <2>6. QED
    BY <2>1, <2>2, <2>3, <2>4, <2>5 DEF PoolInv
<1>3. CASE /\ Enqueue(a)
           /\ AddRequest(a) /\ ~ freed
           /\ UNCHANGED <<calls, running, owner, use, finished>>
  <2> DEFINE r == <<a, calls[a]>>
  <2>a. r \in Request
    <3>1. calls[a] \in 0..MaxRequests /\ calls[a] > 0
      BY <1>3 DEF AddRequest, PoolInv, PoolTypeOK, FlagsFollowOwner
    <3>2. calls[a] \in 1..MaxRequests
      BY ONLY <3>1, PoolAssumption DEF PoolAssumption
    <3>3. QED
      BY ONLY <3>2, a \in Adders DEF Request
  <2>b. InQueue' = InQueue \cup {r}
    BY <1>3, <2>a, EnqueueAdds DEF Enqueue, PoolInv
  <2>1. PoolTypeOK'
    <3>1. queue' \in Seq(Request) /\ Len(queue') <= MaxQueueSize
      BY <1>3, <2>a, <2>b DEF Enqueue, AddRequest, ReturnsAdder,
         BroadcastNotEmpty, Notified, Full, PoolInv, PoolTypeOK
    <3>2. /\ adder' \in [Adders -> AdderPC] /\ worker' \in [Workers -> WorkerPC]
          /\ owner' \in OwnerPC /\ calls' \in [Adders -> 0..MaxRequests]
      BY <1>3, <2>a, <2>b DEF Enqueue, AddRequest, ReturnsAdder,
         BroadcastNotEmpty, Notified, PoolInv, PoolTypeOK
    <3>3. /\ running' \in [Workers -> SUBSET Request]
          /\ admitted' \subseteq Request /\ finished' \subseteq Request
      BY <1>3, <2>a, <2>b DEF Enqueue, AddRequest, ReturnsAdder,
         BroadcastNotEmpty, Notified, PoolInv, PoolTypeOK
    <3>4. /\ queueClosed' \in BOOLEAN /\ shutdown' \in BOOLEAN /\ freed' \in BOOLEAN
          /\ use' \in Uses
      BY <1>3, <2>a, <2>b DEF Enqueue, AddRequest, ReturnsAdder,
         BroadcastNotEmpty, Notified, PoolInv, PoolTypeOK
    <3>5. QED
      BY <3>1, <3>2, <3>3, <3>4 DEF PoolTypeOK
  <2>2. FlagsFollowOwner'
    BY <1>3, <2>a, <2>b DEF Enqueue, AddRequest, ReturnsAdder,
       BroadcastNotEmpty, Notified, PoolInv, PoolTypeOK, FlagsFollowOwner
  <2>3. NoSleepOnWork'
    BY <1>3, <2>a, <2>b DEF Enqueue, AddRequest, ReturnsAdder,
       BroadcastNotEmpty, Notified, PoolInv, PoolTypeOK, FlagsFollowOwner,
       NoSleepOnWork
  <2>4. NoSleepOnSpace'
    BY <1>3, <2>a, <2>b DEF Enqueue, AddRequest, ReturnsAdder,
       BroadcastNotEmpty, Notified, PoolInv, PoolTypeOK, FlagsFollowOwner,
       NoSleepOnSpace, Full
  <2>5. Conserved'
    BY <1>3, <2>a, <2>b, EmptyQueue DEF Enqueue, AddRequest,
       ReturnsAdder, BroadcastNotEmpty, Notified, PoolInv, PoolTypeOK,
       FlagsFollowOwner, Conserved, BeingRun
  <2>6. QED
    BY <2>1, <2>2, <2>3, <2>4, <2>5 DEF PoolInv
<1>4. QED
  BY <1>1, <1>2, <1>3 DEF AddRequest

(* A worker waits, takes a request, runs it, or exits.                     *)
LEMMA WorkerKeepsPoolInv ==
  ASSUME PoolInv, NEW w \in Workers, WorkerLocked(w) \/ RunRequest(w)
  PROVE  PoolInv'
<1> USE PoolAssumption DEF AdderPC, WorkerPC, OwnerPC
<1>1. CASE WorkerLocked(w) /\ (WaitNotEmpty(w) \/ Exit(w))
  <2>a. InQueue' = InQueue /\ BeingRun' = BeingRun
    BY <1>1 DEF WorkerLocked, WaitNotEmpty, Exit, pool, history, InQueue,
       BeingRun
  <2>1. PoolTypeOK'
    BY <1>1 DEF WorkerLocked, WaitNotEmpty, Exit, pool, history, PoolInv,
       PoolTypeOK
  <2>2. FlagsFollowOwner'
    BY <1>1 DEF WorkerLocked, WaitNotEmpty, Exit, pool, history, PoolInv,
       PoolTypeOK, FlagsFollowOwner
  <2>3. NoSleepOnWork'
    BY <1>1 DEF WorkerLocked, WaitNotEmpty, Exit, pool, history, PoolInv,
       PoolTypeOK, FlagsFollowOwner, NoSleepOnWork
  <2>4. NoSleepOnSpace'
    BY <1>1 DEF WorkerLocked, WaitNotEmpty, Exit, pool, history, PoolInv,
       PoolTypeOK, FlagsFollowOwner, NoSleepOnSpace, Full
  <2>5. Conserved'
    <3>1. /\ \A v \in Workers : worker'[v] # "running" => running'[v] = {}
          /\ freed' => \A v \in Workers : worker'[v] = "exited"
      BY <1>1 DEF WorkerLocked, WaitNotEmpty, Exit, pool, history, PoolInv,
         PoolTypeOK, Conserved
    <3>2. UNCHANGED <<queue, shutdown, use, freed, admitted, finished>>
      BY <1>1 DEF WorkerLocked, WaitNotEmpty, Exit, pool, history
    <3>3. QED
      BY <2>a, <3>1, <3>2 DEF PoolInv, Conserved
  <2>6. QED
    BY <2>1, <2>2, <2>3, <2>4, <2>5 DEF PoolInv
<1>2. CASE WorkerLocked(w) /\ Dequeue(w)
  <2>a. /\ Head(queue) \in Request /\ queue' \in Seq(Request)
        /\ Len(queue') = Len(queue) - 1
        /\ InQueue' \cup {Head(queue)} = InQueue
    BY <1>2, DequeueTakes DEF Dequeue, PoolInv
  <2>1. PoolTypeOK'
    <3>1. queue' \in Seq(Request) /\ Len(queue') <= MaxQueueSize
      <4>1. queue \in Seq(Request) /\ Len(queue) <= MaxQueueSize
        BY DEF PoolInv, PoolTypeOK
      <4>2. Len(queue) \in Nat
        BY <4>1
      <4>3. QED
        BY <2>a, <4>1, <4>2
    <3>2. /\ adder' \in [Adders -> AdderPC] /\ worker' \in [Workers -> WorkerPC]
          /\ owner' \in OwnerPC /\ calls' \in [Adders -> 0..MaxRequests]
      BY <1>2, <2>a DEF WorkerLocked, Dequeue, BroadcastNotFull, Notified,
         history, PoolInv, PoolTypeOK
    <3>3. /\ running' \in [Workers -> SUBSET Request]
          /\ admitted' \subseteq Request /\ finished' \subseteq Request
      BY <1>2, <2>a DEF WorkerLocked, Dequeue, BroadcastNotFull, Notified,
         history, PoolInv, PoolTypeOK
    <3>4. /\ queueClosed' \in BOOLEAN /\ shutdown' \in BOOLEAN /\ freed' \in BOOLEAN
          /\ use' \in Uses
      BY <1>2, <2>a DEF WorkerLocked, Dequeue, BroadcastNotFull, Notified,
         history, PoolInv, PoolTypeOK
    <3>5. QED
      BY <3>1, <3>2, <3>3, <3>4 DEF PoolTypeOK
  <2>2. FlagsFollowOwner'
    BY <1>2, <2>a DEF WorkerLocked, Dequeue, BroadcastNotFull, Notified,
       history, PoolInv, PoolTypeOK, FlagsFollowOwner
  <2>3. NoSleepOnWork'
    BY <1>2, <2>a DEF WorkerLocked, Dequeue, BroadcastNotFull, Notified,
       history, PoolInv, PoolTypeOK, FlagsFollowOwner, NoSleepOnWork
  <2>4. NoSleepOnSpace'
    BY <1>2, <2>a DEF WorkerLocked, Dequeue, BroadcastNotFull, Notified,
       history, PoolInv, PoolTypeOK, FlagsFollowOwner, NoSleepOnSpace, Full
  <2>5. Conserved'
    BY <1>2, <2>a, EmptyQueue DEF WorkerLocked, Dequeue,
       BroadcastNotFull, Notified, history, PoolInv, PoolTypeOK, FlagsFollowOwner,
       Conserved, BeingRun
  <2>6. QED
    BY <2>1, <2>2, <2>3, <2>4, <2>5 DEF PoolInv
<1>3. CASE RunRequest(w)
  <2>1. PoolTypeOK'
    BY <1>3 DEF RunRequest, pool, PoolInv, PoolTypeOK
  <2>2. FlagsFollowOwner'
    BY <1>3 DEF RunRequest, pool, PoolInv, PoolTypeOK, FlagsFollowOwner
  <2>3. NoSleepOnWork'
    BY <1>3 DEF RunRequest, pool, PoolInv, PoolTypeOK, FlagsFollowOwner,
       NoSleepOnWork
  <2>4. NoSleepOnSpace'
    BY <1>3 DEF RunRequest, pool, PoolInv, PoolTypeOK, FlagsFollowOwner,
       NoSleepOnSpace, Full
  <2>5. Conserved'
    BY <1>3, EmptyQueue DEF RunRequest, pool, PoolInv, PoolTypeOK,
       FlagsFollowOwner, Conserved, BeingRun, InQueue
  <2>6. QED
    BY <2>1, <2>2, <2>3, <2>4, <2>5 DEF PoolInv
<1>4. QED
  BY <1>1, <1>2, <1>3 DEF WorkerLocked

(* destroy(), and wake-ups nobody asked for.                               *)
LEMMA OwnerKeepsPoolInv ==
  ASSUME PoolInv,
         CloseQueue \/ Owner \/ SpuriousPoolWakeup
  PROVE  PoolInv'
<1> USE PoolAssumption DEF AdderPC, WorkerPC, OwnerPC
<1>1. CASE CloseQueue \/ QueueEmpty
  <2>1. PoolTypeOK'
    BY <1>1 DEF CloseQueue, QueueEmpty, SetShutdown, Drained, history,
       PoolInv, PoolTypeOK
  <2>2. FlagsFollowOwner'
    BY <1>1 DEF CloseQueue, QueueEmpty, SetShutdown, Drained, history,
       PoolInv, PoolTypeOK, FlagsFollowOwner
  <2>3. NoSleepOnWork'
    BY <1>1 DEF CloseQueue, QueueEmpty, SetShutdown, Drained, history,
       PoolInv, PoolTypeOK, FlagsFollowOwner, NoSleepOnWork
  <2>4. NoSleepOnSpace'
    BY <1>1 DEF CloseQueue, QueueEmpty, SetShutdown, Drained, history,
       PoolInv, PoolTypeOK, FlagsFollowOwner, NoSleepOnSpace, Full
  <2>5. Conserved'
    <3>1. InQueue' = InQueue /\ BeingRun' = BeingRun
      BY <1>1 DEF CloseQueue, QueueEmpty, InQueue, BeingRun
    <3>2. shutdown' /\ use'.waits => queue' = <<>>
      BY <1>1 DEF CloseQueue, QueueEmpty, SetShutdown, Drained, PoolInv,
         FlagsFollowOwner, Conserved
    <3>3. UNCHANGED <<queue, worker, running, use, freed, admitted, finished>>
      BY <1>1 DEF CloseQueue, QueueEmpty, history
    <3>4. QED
      BY <3>1, <3>2, <3>3 DEF PoolInv, Conserved
  <2>6. QED
    BY <2>1, <2>2, <2>3, <2>4, <2>5 DEF PoolInv
<1>2. CASE WakeWorkers \/ WakeAdders
  <2>a. InQueue' = InQueue /\ BeingRun' = BeingRun
    BY <1>2 DEF WakeWorkers, WakeAdders, BroadcastNotEmpty,
       BroadcastNotFull, Notified, pool, history, InQueue, BeingRun
  <2>1. PoolTypeOK'
    BY <1>2 DEF WakeWorkers, WakeAdders, BroadcastNotEmpty,
       BroadcastNotFull, Notified, pool, history, PoolInv, PoolTypeOK
  <2>2. FlagsFollowOwner'
    BY <1>2 DEF WakeWorkers, WakeAdders, BroadcastNotEmpty,
       BroadcastNotFull, Notified, pool, history, PoolInv, PoolTypeOK,
       FlagsFollowOwner
  <2>3. NoSleepOnWork'
    BY <1>2 DEF WakeWorkers, WakeAdders, BroadcastNotEmpty,
       BroadcastNotFull, Notified, pool, history, PoolInv, PoolTypeOK,
       FlagsFollowOwner, NoSleepOnWork
  <2>4. NoSleepOnSpace'
    BY <1>2 DEF WakeWorkers, WakeAdders, BroadcastNotEmpty,
       BroadcastNotFull, Notified, pool, history, PoolInv, PoolTypeOK,
       FlagsFollowOwner, NoSleepOnSpace, Full
  <2>5. Conserved'
    <3>1. UNCHANGED <<queue, running, shutdown, use, freed, admitted, finished>>
      BY <1>2 DEF WakeWorkers, WakeAdders, pool, history
    <3>2. \A w \in Workers :
            /\ worker'[w] # "running" => worker[w] # "running"
            /\ worker[w] = "exited" => worker'[w] = "exited"
      BY <1>2 DEF WakeWorkers, WakeAdders, BroadcastNotEmpty, Notified,
         PoolInv, PoolTypeOK
    <3>3. QED
      BY ONLY <2>a, <3>1, <3>2, PoolInv DEF PoolInv, Conserved
  <2>6. QED
    BY <2>1, <2>2, <2>3, <2>4, <2>5 DEF PoolInv
<1>3. CASE JoinAndFree
  <2>1. PoolTypeOK'
    BY <1>3 DEF JoinAndFree, Joined, history, PoolInv, PoolTypeOK
  <2>2. FlagsFollowOwner'
    BY <1>3 DEF JoinAndFree, Joined, history, PoolInv, PoolTypeOK, FlagsFollowOwner
  <2>3. NoSleepOnWork'
    BY <1>3 DEF JoinAndFree, Joined, history, PoolInv, PoolTypeOK, FlagsFollowOwner,
       NoSleepOnWork
  <2>4. NoSleepOnSpace'
    BY <1>3 DEF JoinAndFree, Joined, history, PoolInv, PoolTypeOK, FlagsFollowOwner,
       NoSleepOnSpace, Full
  <2>5. Conserved'
    BY <1>3, EmptyQueue DEF JoinAndFree, Joined, history, PoolInv, PoolTypeOK,
       FlagsFollowOwner, Conserved, BeingRun, InQueue
  <2>6. QED
    BY <2>1, <2>2, <2>3, <2>4, <2>5 DEF PoolInv
<1>4. CASE SpuriousPoolWakeup
  <2>a. InQueue' = InQueue /\ BeingRun' = BeingRun
    BY <1>4 DEF SpuriousPoolWakeup, Spurious, pool, history, InQueue, BeingRun
  <2>1. PoolTypeOK'
    BY <1>4 DEF SpuriousPoolWakeup, Spurious, pool, history, PoolInv, PoolTypeOK
  <2>2. FlagsFollowOwner'
    BY <1>4 DEF SpuriousPoolWakeup, Spurious, pool, history, PoolInv, PoolTypeOK,
       FlagsFollowOwner
  <2>3. NoSleepOnWork'
    BY <1>4 DEF SpuriousPoolWakeup, Spurious, pool, history, PoolInv, PoolTypeOK,
       FlagsFollowOwner, NoSleepOnWork
  <2>4. NoSleepOnSpace'
    BY <1>4 DEF SpuriousPoolWakeup, Spurious, pool, history, PoolInv, PoolTypeOK,
       FlagsFollowOwner, NoSleepOnSpace, Full
  <2>5. Conserved'
    BY <1>4, <2>a, EmptyQueue DEF SpuriousPoolWakeup, Spurious, pool,
       history, PoolInv, PoolTypeOK, FlagsFollowOwner, Conserved
  <2>6. QED
    BY <2>1, <2>2, <2>3, <2>4, <2>5 DEF PoolInv
<1>5. QED
  BY <1>1, <1>2, <1>3, <1>4 DEF Owner

(* The inductive invariant holds in every reachable state.                 *)
LEMMA PoolInvariance == PoolSpec => []PoolInv
<1>1. PoolInv /\ UNCHANGED poolvars => PoolInv'
  BY DEF poolvars, pool, threads, history, PoolInv, PoolTypeOK, FlagsFollowOwner,
         NoSleepOnWork, NoSleepOnSpace, Full, Conserved, InQueue, BeingRun
<1>2. PoolInv /\ [PoolNext]_poolvars => PoolInv'
  BY <1>1, AdderKeepsPoolInv, WorkerKeepsPoolInv, OwnerKeepsPoolInv DEF PoolNext
<1>3. QED
  BY <1>2, InitPoolInv, PTL DEF PoolSpec

(* Types, and the bound on the queue.                                      *)
THEOREM PoolTypeCorrect == PoolSpec => []PoolTypeOK
<1>1. PoolInv => PoolTypeOK
  BY DEF PoolInv
<1>2. QED
  BY <1>1, PoolInvariance, PTL

(* No worker sleeps while there is work, no caller of addRequest() while   *)
(* there is space: a broadcast at the edge of empty or full is enough.     *)
THEOREM SleepersWake == PoolSpec => []NoLostWakeUp
<1>1. PoolInv => NoLostWakeUp
  BY DEF PoolInv, NoLostWakeUp
<1>2. QED
  BY <1>1, PoolInvariance, PTL

(* destroy(true) has run every request that was accepted.                  *)
THEOREM AllRunBeforeReturn == PoolSpec => []FinishesAccepted
<1>1. PoolInv => FinishesAccepted
  BY EmptyQueue DEF PoolInv, FinishesAccepted, Conserved, FlagsFollowOwner,
     BeingRun
<1>2. QED
  BY <1>1, PoolInvariance, PTL
=============================================================================

---------------------------- MODULE CascadeProofs ----------------------------
(***************************************************************************)
(* Proofs about the links between the mixes, for a cascade of any length   *)
(* and whatever number of mixes crash and connections break.               *)
(*                                                                         *)
(* While the first mix is on line, so are the mixes it reaches over live   *)
(* connections. How far two neighbours have come is the same story on      *)
(* every link (LinkAgrees). That alone would need an induction along the   *)
(* cascade; NoGap says the same of any two mixes with live connections     *)
(* between them, and each step can disturb it at one mix only.             *)
(*                                                                         *)
(* Neighbours use the same keys, and users encrypt for the mixes that are  *)
(* there. A list of key infos fits the mixes that live links join to the   *)
(* one that has it, however far behind they are (ListsFit); with that a    *)
(* step need not look along the cascade either.                            *)
(*                                                                         *)
(* The sender's interval and the longest delay fit into what the receiver  *)
(* waits for, unless one of the 32-bit computations wraps around           *)
(* (NothingWraps).                                                         *)
(***************************************************************************)
EXTENDS KeyExchange, KeepAlive, TLAPS
LOCAL INSTANCE SequencesExt

-----------------------------------------------------------------------------
(* Coming on line.                                                         *)

(* Where a mix can be; past the key info of the next mix; connected to the *)
(* next mix; connected to the previous one.                                *)
Phases    == {"off", "sleep", "accept", "connect", "info", "offer", "answer", "online"}
Past      == {"offer", "answer", "online"}
LinkedOut == {"info", "offer", "answer", "online"}
LinkedIn  == {"connect", "info", "offer", "answer", "online"}
LinkEnds      == {"none", "live", "dead"}

CascadeTypeOK ==
  /\ at \in [Mixes -> Phases]
  /\ near \in [Links -> LinkEnds] /\ far \in [Links -> LinkEnds]
  /\ info \in [Links -> BOOLEAN] /\ key \in [Links -> BOOLEAN]

(* The progress of the key exchange on a live link: before the key info,   *)
(* while it is on its way, and from the key on.                            *)
Exchange(i) ==
  \/ /\ at[i] = "info" /\ ~info[i] /\ ~key[i]
     /\ at[i + 1] \in {"connect", "info", "offer"}
  \/ at[i] = "info" /\ info[i] /\ ~key[i] /\ at[i + 1] = "answer"
  \/ /\ at[i] \in Past /\ ~info[i]
     /\ \/ at[i + 1] = "answer" /\ key[i]
        \/ at[i + 1] = "online" /\ ~key[i]

LinkAgrees(i) ==
  /\ near[i] # "none" <=> at[i] \in LinkedOut
  /\ far[i] # "none" <=> at[i + 1] \in LinkedIn
  /\ near[i] = "live" <=> far[i] = "live"
  /\ near[i] = "none" => ~info[i]
  /\ far[i] = "none" => ~key[i]
  /\ near[i] = "live" => Exchange(i)

(* Behind a mix that has the key info of the next one every mix on live    *)
(* connections has sent its own.                                           *)
NoGap ==
  \A k, m \in Mixes :
    k < m /\ at[k] \in Past /\ (\A i \in Links : k <= i /\ i < m => near[i] = "live")
      => at[m] \in {"answer", "online"}

CascadeInv == CascadeTypeOK /\ (\A i \in Links : LinkAgrees(i)) /\ NoGap

-----------------------------------------------------------------------------
(* A link joins two neighbouring mixes, the second of which is not the     *)
(* first of the cascade.                                                   *)
LEMMA NeighboursAreMixes ==
  ASSUME NEW i \in Links
  PROVE  i \in Mixes /\ i + 1 \in Mixes /\ i \in Nat /\ i < N
BY CascadeAssumption DEF Links, Mixes

(* What closing both connections of a mix means on one link.               *)
LEMMA Closed ==
  ASSUME CascadeTypeOK, NEW m \in Mixes, NEW i \in Links, ClosesAll(m)
  PROVE  /\ i = m => near'[i] = "none" /\ far'[i] = Hangs(far[i]) /\ ~info'[i] /\ key'[i] = key[i]
         /\ i + 1 = m => near'[i] = Hangs(near[i]) /\ far'[i] = "none" /\ info'[i] = info[i] /\ ~key'[i]
         /\ i # m /\ i + 1 # m => near'[i] = near[i] /\ far'[i] = far[i]
                                  /\ info'[i] = info[i] /\ key'[i] = key[i]
<1>1. i \in Nat /\ i # i + 1 BY NeighboursAreMixes
<1> QED BY <1>1 DEF ClosesAll, CascadeTypeOK

(* Closing the ends of a mix keeps their types.                            *)
LEMMA ClosedTyped ==
  ASSUME CascadeTypeOK, NEW m \in Mixes, ClosesAll(m)
  PROVE  /\ near' \in [Links -> LinkEnds] /\ far' \in [Links -> LinkEnds]
         /\ info' \in [Links -> BOOLEAN] /\ key' \in [Links -> BOOLEAN]
BY DEF ClosesAll, CascadeTypeOK, Hangs, LinkEnds

(* A mix that gives up, for whatever reason, leaves its links in order.    *)
LEMMA GivingUp ==
  ASSUME CascadeInv, NEW m \in Mixes, NEW to \in {"sleep", "off"}, ClosesAll(m), Goes(m, to)
  PROVE  CascadeInv'
<1>1. CascadeTypeOK'
  BY ClosedTyped DEF CascadeInv, CascadeTypeOK, Goes, Phases
<1>2. ASSUME NEW i \in Links PROVE LinkAgrees(i)'
  <2>1. LinkAgrees(i) /\ CascadeTypeOK BY DEF CascadeInv
  <2>2. i \in Mixes /\ i + 1 \in Mixes /\ i \in Nat BY NeighboursAreMixes
  <2>3. m \in Nat BY DEF Mixes
  <2>4. CASE i = m
    <3>1. at'[i] = to /\ at'[i + 1] = at[i + 1] BY <2>1, <2>2, <2>4 DEF Goes, CascadeTypeOK
    <3>2. near'[i] = "none" /\ far'[i] = Hangs(far[i]) /\ ~info'[i] /\ key'[i] = key[i]
      BY <2>1, <2>4, Closed
    <3> QED BY <2>1, <3>1, <3>2 DEF LinkAgrees, Hangs, LinkedOut, LinkedIn
  <2>5. CASE i + 1 = m
    <3>1. at'[i] = at[i] /\ at'[i + 1] = to BY <2>1, <2>2, <2>5 DEF Goes, CascadeTypeOK
    <3>2. near'[i] = Hangs(near[i]) /\ far'[i] = "none" /\ info'[i] = info[i] /\ ~key'[i]
      BY <2>1, <2>5, Closed
    <3> QED BY <2>1, <3>1, <3>2 DEF LinkAgrees, Hangs, LinkedOut, LinkedIn
  <2>6. CASE i # m /\ i + 1 # m
    <3>1. at'[i] = at[i] /\ at'[i + 1] = at[i + 1] BY <2>1, <2>2, <2>6 DEF Goes, CascadeTypeOK
    <3>2. near'[i] = near[i] /\ far'[i] = far[i] /\ info'[i] = info[i] /\ key'[i] = key[i]
      BY <2>1, <2>6, Closed
    <3> QED BY <2>1, <3>1, <3>2 DEF LinkAgrees, Exchange
  <2> QED BY <2>4, <2>5, <2>6
<1>3. NoGap'
  <2> SUFFICES ASSUME NEW k \in Mixes, NEW n \in Mixes, k < n, at'[k] \in Past,
                      \A i \in Links : k <= i /\ i < n => near'[i] = "live"
               PROVE  at'[n] \in {"answer", "online"}
    BY DEF NoGap
  <2>1. \A x \in Mixes : at'[x] = IF x = m THEN to ELSE at[x]
    BY DEF Goes, CascadeInv, CascadeTypeOK
  <2>2. k # m /\ at[k] \in Past BY <2>1 DEF Past
  <2>3. ASSUME NEW i \in Links, k <= i, i < n PROVE near[i] = "live" /\ i + 1 # m
    <3>1. near'[i] = "live" BY <2>3
    <3> QED BY <2>3, <3>1, Closed DEF CascadeInv, CascadeTypeOK, Hangs, LinkEnds
  <2>4. at[n] \in {"answer", "online"} BY <2>2, <2>3 DEF CascadeInv, NoGap
  <2>5. n # m
    <3>1. n - 1 \in Links /\ k <= n - 1 /\ n - 1 < n /\ (n - 1) + 1 = n
      BY CascadeAssumption DEF Links, Mixes
    <3> QED BY <3>1, <2>3
  <2> QED BY <2>1, <2>4, <2>5
<1> QED BY <1>1, <1>2, <1>3 DEF CascadeInv

(* A mix that begins anew has no links yet.                                *)
LEMMA BeginKeeps ==
  ASSUME CascadeInv, NEW m \in Mixes, Begin(m) \/ StartMix(m)
  PROVE  CascadeInv'
<1>1. PICK to \in {"sleep", "connect", "accept"} : Goes(m, to) /\ at[m] \in {"off", "sleep"}
                                                  /\ (to = "connect" => m = 1)
  BY DEF Begin, StartMix
<1>2. UNCHANGED <<near, far, info, key>> BY DEF Begin, StartMix
<1>3. CascadeTypeOK' BY <1>1, <1>2 DEF CascadeInv, CascadeTypeOK, Goes, Phases
<1>4. \A x \in Mixes : at'[x] = IF x = m THEN to ELSE at[x]
  BY <1>1 DEF Goes, CascadeInv, CascadeTypeOK
<1>5. ASSUME NEW i \in Links PROVE LinkAgrees(i)'
  <2>1. LinkAgrees(i) BY DEF CascadeInv
  <2>2. i \in Mixes /\ i + 1 \in Mixes /\ i # i + 1 /\ i + 1 # 1
    BY NeighboursAreMixes DEF Links
  <2> QED BY <1>1, <1>2, <1>4, <2>1, <2>2 DEF LinkAgrees, Exchange, LinkedOut, LinkedIn, Past
<1>6. NoGap'
  BY <1>1, <1>2, <1>4 DEF CascadeInv, NoGap, Past
<1> QED BY <1>3, <1>5, <1>6 DEF CascadeInv

(* A mix that connects to the next one starts a new exchange on the link.  *)
LEMMA ConnectKeeps ==
  ASSUME CascadeInv, NEW m \in Mixes, Connect(m)
  PROVE  CascadeInv'
<1>1. m \in Links /\ m \in Nat /\ m + 1 \in Mixes /\ m # m + 1
  BY CascadeAssumption DEF Connect, Links, Mixes
<1>2. PICK to \in {"connect", "offer"} :
        at' = [at EXCEPT ![m] = "info", ![m + 1] = to] /\ (m + 1 \in Links => to = "connect")
  <2>1. m + 1 \in Links => m + 1 # N BY <1>1, CascadeAssumption DEF Links
  <2> QED BY <1>1, <2>1 DEF Connect, AfterAccept
<1>3. /\ at[m] = "connect" /\ at[m + 1] = "accept"
      /\ near' = [near EXCEPT ![m] = "live"] /\ far' = [far EXCEPT ![m] = "live"]
      /\ UNCHANGED <<info, key>>
  BY DEF Connect
<1>4. CascadeTypeOK' BY <1>2, <1>3 DEF CascadeInv, CascadeTypeOK, Phases, LinkEnds
<1>5. \A x \in Mixes : at'[x] = IF x = m THEN "info" ELSE IF x = m + 1 THEN to ELSE at[x]
  BY <1>1, <1>2 DEF CascadeInv, CascadeTypeOK
<1>6. \A i \in Links : /\ near'[i] = IF i = m THEN "live" ELSE near[i]
                      /\ far'[i] = IF i = m THEN "live" ELSE far[i]
  BY <1>3 DEF CascadeInv, CascadeTypeOK
<1>7. ASSUME NEW i \in Links PROVE LinkAgrees(i)'
  <2>1. LinkAgrees(i) BY DEF CascadeInv
  <2>2. i \in Mixes /\ i + 1 \in Mixes /\ i \in Nat BY NeighboursAreMixes
  <2>3. CASE i = m
    <3>1. ~info[m] /\ ~key[m] BY <1>3, <2>1, <2>3 DEF LinkAgrees, LinkedOut, LinkedIn
    <3>2. at'[m] = "info" /\ at'[m + 1] = to BY <1>1, <1>5
    <3>3. near'[m] = "live" /\ far'[m] = "live" BY <1>6, <2>3
    <3> QED BY <1>3, <2>3, <3>1, <3>2, <3>3 DEF LinkAgrees, Exchange, LinkedOut, LinkedIn
  <2>4. CASE i = m + 1
    <3>1. i # m /\ i + 1 # m /\ i + 1 # m + 1 BY <1>1, <2>2, <2>4
    <3>2. at'[i] = "connect" /\ at'[i + 1] = at[i + 1] BY <1>1, <1>2, <1>5, <2>2, <2>4, <3>1
    <3>3. near'[i] = near[i] /\ far'[i] = far[i] BY <1>6, <3>1
    <3>4. near[i] = "none" BY <1>3, <2>1, <2>4 DEF LinkAgrees, LinkedOut
    <3> QED BY <1>3, <2>1, <3>2, <3>3, <3>4 DEF LinkAgrees, LinkedOut, LinkedIn
  <2>5. CASE i + 1 = m
    <3>1. i # m /\ i # m + 1
      <4>1. i \in Nat BY <2>2
      <4> QED BY ONLY <4>1, <2>5
    <3>2. at'[i] = at[i] /\ at[i + 1] = "connect" /\ at'[i + 1] = "info" BY <1>1, <1>3, <1>5, <2>2, <2>5, <3>1
    <3>3. near'[i] = near[i] /\ far'[i] = far[i] BY <1>6, <3>1
    <3> QED BY <1>3, <2>1, <3>2, <3>3 DEF LinkAgrees, Exchange, LinkedIn, Past
  <2>6. CASE i # m /\ i # m + 1 /\ i + 1 # m
    BY <1>1, <1>3, <1>5, <1>6, <2>1, <2>2, <2>6 DEF LinkAgrees, Exchange
  <2> QED BY <2>3, <2>4, <2>5, <2>6
<1>8. NoGap'
  <2> SUFFICES ASSUME NEW k \in Mixes, NEW n \in Mixes, k < n, at'[k] \in Past,
                      \A i \in Links : k <= i /\ i < n => near'[i] = "live"
               PROVE  at'[n] \in {"answer", "online"}
    BY DEF NoGap
  <2>1. k \in Nat /\ n \in Nat BY DEF Mixes
  <2>2. CASE k = m + 1
    \* the next mix is the last one, if it has nothing to connect to
    <3>1. m + 1 \in Links BY <1>1, <2>1, <2>2, CascadeAssumption DEF Links, Mixes
    <3> QED BY <1>1, <1>2, <1>5, <2>2, <3>1 DEF Past
  <2>3. CASE k # m + 1
    <3>1. k # m /\ at[k] \in Past BY <1>5, <2>3 DEF Past
    <3>2. CASE k < m /\ m < n
      \* the mixes before were connected to a mix that had just begun
      <4>1. \A i \in Links : k <= i /\ i < m => near[i] = "live"
        BY <1>1, <1>6, <3>2, <2>1, NeighboursAreMixes
      <4>2. at[m] \in {"answer", "online"} BY <3>1, <3>2, <4>1 DEF CascadeInv, NoGap
      <4> QED BY <4>2, <1>3
    <3>3. CASE ~(k < m /\ m < n)
      <4>1. \A i \in Links : k <= i /\ i < n => near[i] = "live"
        BY <1>1, <1>6, <3>1, <3>3, <2>1, NeighboursAreMixes
      <4>2. at[n] \in {"answer", "online"} BY <3>1, <4>1 DEF CascadeInv, NoGap
      <4> QED BY <4>2, <1>1, <1>3, <1>5
    <3> QED BY <3>2, <3>3
  <2> QED BY <2>2, <2>3
<1> QED BY <1>4, <1>7, <1>8 DEF CascadeInv

(* The mix before now has the key info, and the next one a key to come.    *)
LEMMA ReceiveInfoKeeps ==
  ASSUME CascadeInv, NEW m \in Mixes, ReceiveInfo(m)
  PROVE  CascadeInv'
<1>1. m \in Links /\ m \in Nat /\ m + 1 \in Mixes /\ m # m + 1
  BY CascadeAssumption DEF ReceiveInfo, Links, Mixes
<1>2. PICK to \in {"online", "offer"} : Goes(m, to) /\ (m # 1 => to = "offer")
  BY DEF ReceiveInfo
<1>3. /\ at[m] = "info" /\ info[m]
      /\ info' = [info EXCEPT ![m] = FALSE] /\ key' = [key EXCEPT ![m] = near[m] = "live"]
      /\ UNCHANGED <<near, far>>
  BY DEF ReceiveInfo
<1>4. CascadeTypeOK' BY <1>2, <1>3 DEF CascadeInv, CascadeTypeOK, Goes, Phases
<1>5. \A x \in Mixes : at'[x] = IF x = m THEN to ELSE at[x]
  BY <1>2 DEF Goes, CascadeInv, CascadeTypeOK
<1>6. \A i \in Links : /\ info'[i] = IF i = m THEN FALSE ELSE info[i]
                      /\ key'[i] = IF i = m THEN near[m] = "live" ELSE key[i]
  BY <1>3 DEF CascadeInv, CascadeTypeOK
<1>7. LinkAgrees(m) BY <1>1 DEF CascadeInv
<1>8. near[m] = "live" => at[m + 1] = "answer"
  BY <1>3, <1>7 DEF LinkAgrees, Exchange, Past
<1>9. ASSUME NEW i \in Links PROVE LinkAgrees(i)'
  <2>1. LinkAgrees(i) BY DEF CascadeInv
  <2>2. i \in Mixes /\ i + 1 \in Mixes /\ i \in Nat BY NeighboursAreMixes
  <2>3. CASE i = m
    <3>1. at'[m] = to /\ at'[m + 1] = at[m + 1] BY <1>1, <1>5
    <3>2. ~info'[m] /\ key'[m] = (near[m] = "live") BY <1>1, <1>6
    <3> QED BY <1>2, <1>3, <1>7, <1>8, <2>3, <3>1, <3>2
            DEF LinkAgrees, Exchange, LinkedOut, LinkedIn, Past
  <2>4. CASE i + 1 = m
    <3>1. i # m /\ m # 1 BY <2>2, <2>4 DEF Links
    <3>2. at'[i] = at[i] /\ at'[i + 1] = "offer" BY <1>2, <1>5, <2>2, <2>4, <3>1
    <3>3. info'[i] = info[i] /\ key'[i] = key[i] BY <1>6, <3>1
    <3> QED BY <1>3, <2>1, <2>4, <3>2, <3>3 DEF LinkAgrees, Exchange, LinkedOut, LinkedIn, Past
  <2>5. CASE i # m /\ i + 1 # m
    BY <1>3, <1>5, <1>6, <2>1, <2>2, <2>5 DEF LinkAgrees, Exchange
  <2> QED BY <2>3, <2>4, <2>5
<1>10. NoGap'
  <2> SUFFICES ASSUME NEW k \in Mixes, NEW n \in Mixes, k < n, at'[k] \in Past,
                      \A i \in Links : k <= i /\ i < n => near[i] = "live"
               PROVE  at'[n] \in {"answer", "online"}
    BY <1>3 DEF NoGap
  <2>1. k \in Nat /\ n \in Nat BY DEF Mixes
  <2>2. CASE k # m
    <3>1. at[k] \in Past BY <1>5, <2>2
    <3>2. at[n] \in {"answer", "online"} BY <3>1 DEF CascadeInv, NoGap
    <3> QED BY <3>2, <1>3, <1>5
  <2>3. CASE k = m /\ n = m + 1
    BY <1>1, <1>5, <1>8, <2>1, <2>3
  <2>4. CASE k = m /\ n # m + 1
    <3>1. m + 1 < n /\ near[m] = "live" BY <1>1, <2>1, <2>4
    <3>2. at[m + 1] \in Past BY <1>8, <3>1 DEF Past
    <3>3. \A i \in Links : m + 1 <= i /\ i < n => near[i] = "live"
      BY <1>1, <2>4, NeighboursAreMixes
    <3>4. at[n] \in {"answer", "online"} BY <1>1, <3>1, <3>2, <3>3 DEF CascadeInv, NoGap
    <3> QED BY <2>1, <2>4, <3>4, <1>5
  <2> QED BY <2>2, <2>3, <2>4
<1> QED BY <1>4, <1>9, <1>10 DEF CascadeInv

(* Sending the key info and receiving the key: the mix stays past its own  *)
(* key info from the next mix, and only the link to the previous mix       *)
(* changes.                                                                *)
LEMMA AnswerKeeps ==
  ASSUME CascadeInv, NEW m \in Mixes, SendInfo(m) \/ ReceiveKey(m)
  PROVE  CascadeInv'
<1> DEFINE l == m - 1
<1>1. l \in Links /\ l + 1 = m /\ l \in Nat /\ l # m
  BY CascadeAssumption DEF SendInfo, ReceiveKey, Links, Mixes
<1> HIDE DEF l
<1>2. PICK to \in {"answer", "online"} : Goes(m, to)
  BY DEF SendInfo, ReceiveKey
<1>3. UNCHANGED <<near, far>> /\ at[m] \in {"offer", "answer"}
  BY DEF SendInfo, ReceiveKey
<1>4. CascadeTypeOK'
  BY <1>2, <1>3 DEF CascadeInv, CascadeTypeOK, Goes, Phases, SendInfo, ReceiveKey
<1>5. \A x \in Mixes : at'[x] = IF x = m THEN to ELSE at[x]
  BY <1>2 DEF Goes, CascadeInv, CascadeTypeOK
<1>6. \A i \in Links : i # l => info'[i] = info[i] /\ key'[i] = key[i]
  BY <1>1 DEF SendInfo, ReceiveKey, CascadeInv, CascadeTypeOK, l
<1>7. LinkAgrees(l)'
  <2>1. LinkAgrees(l) /\ CascadeTypeOK BY <1>1 DEF CascadeInv
  <2>2. l \in Mixes /\ at'[l] = at[l] BY <1>1, <1>5, NeighboursAreMixes
  <2>3. CASE SendInfo(m)
    <3>1. at[m] = "offer" /\ at'[m] = "answer" BY <2>1, <2>3 DEF SendInfo, Goes, CascadeTypeOK
    <3>2. info'[l] = (far[l] = "live") /\ key'[l] = key[l]
      BY <1>1, <2>1, <2>3 DEF SendInfo, CascadeTypeOK, l
    <3> QED BY <1>1, <1>3, <2>1, <2>2, <3>1, <3>2
            DEF LinkAgrees, Exchange, LinkedOut, LinkedIn, Past
  <2>4. CASE ReceiveKey(m)
    <3>1. at[m] = "answer" /\ at'[m] = "online" BY <2>1, <2>4 DEF ReceiveKey, Goes, CascadeTypeOK
    <3>2. key[l] /\ ~key'[l] /\ info'[l] = info[l]
      BY <1>1, <2>1, <2>4 DEF ReceiveKey, CascadeTypeOK, l
    <3> QED BY <1>1, <1>3, <2>1, <2>2, <3>1, <3>2
            DEF LinkAgrees, Exchange, LinkedOut, LinkedIn, Past
  <2> QED BY <2>3, <2>4
<1>8. ASSUME NEW i \in Links PROVE LinkAgrees(i)'
  <2>1. LinkAgrees(i) BY DEF CascadeInv
  <2>2. i \in Mixes /\ i + 1 \in Mixes /\ i \in Nat /\ i # i + 1 BY NeighboursAreMixes
  <2>3. CASE i = l BY <1>7, <2>3
  <2>4. CASE i # l
    <3>1. i + 1 # m BY <1>1, <2>2, <2>4
    <3>2. at'[i + 1] = at[i + 1] /\ (i # m => at'[i] = at[i]) /\ (i = m => at'[i] = to)
      BY <1>5, <2>2, <3>1
    <3> QED BY <1>2, <1>3, <1>6, <2>1, <2>4, <3>2
            DEF LinkAgrees, Exchange, LinkedOut, LinkedIn, Past
  <2> QED BY <2>3, <2>4
<1>9. NoGap'
  BY <1>3, <1>5 DEF CascadeInv, NoGap, Past
<1> QED BY <1>4, <1>8, <1>9 DEF CascadeInv

(* A connection that breaks leaves no live end behind.                     *)
LEMMA LossKeeps ==
  ASSUME CascadeInv, NEW l \in Links, LoseLink(l)
  PROVE  CascadeInv'
<1>1. CascadeTypeOK' BY DEF LoseLink, CascadeInv, CascadeTypeOK, LinkEnds
<1>2. \A i \in Links :
        IF i = l THEN near'[i] = "dead" /\ far'[i] = "dead" /\ ~info'[i] /\ ~key'[i]
        ELSE near'[i] = near[i] /\ far'[i] = far[i] /\ info'[i] = info[i] /\ key'[i] = key[i]
  BY DEF LoseLink, CascadeInv, CascadeTypeOK
<1>3. at' = at /\ near[l] = "live" BY DEF LoseLink
<1>4. ASSUME NEW i \in Links PROVE LinkAgrees(i)'
  <2>1. LinkAgrees(i) BY DEF CascadeInv
  <2> QED BY <1>2, <1>3, <2>1 DEF LinkAgrees, Exchange
<1>5. NoGap'
  <2>1. \A i \in Links : near'[i] = "live" => near[i] = "live" BY <1>2
  <2> QED BY <1>3, <2>1 DEF CascadeInv, NoGap
<1> QED BY <1>1, <1>4, <1>5 DEF CascadeInv

-----------------------------------------------------------------------------
(* Nothing is connected at first.                                          *)
LEMMA InitHolds == CascadeInit => CascadeInv
<1> SUFFICES ASSUME CascadeInit PROVE CascadeInv OBVIOUS
<1>1. CascadeTypeOK BY DEF CascadeInit, CascadeTypeOK, Phases, LinkEnds
<1>2. ASSUME NEW i \in Links PROVE LinkAgrees(i)
  BY NeighboursAreMixes DEF CascadeInit, LinkAgrees, LinkedOut, LinkedIn
<1>3. NoGap BY DEF CascadeInit, NoGap, Past
<1> QED BY <1>1, <1>2, <1>3 DEF CascadeInv

(* Every step of the cascade preserves the invariant.                      *)
LEMMA StepKeeps == CascadeInv /\ [CascadeNext]_cvars => CascadeInv'
<1> SUFFICES ASSUME CascadeInv, [CascadeNext]_cvars PROVE CascadeInv' OBVIOUS
<1>1. CASE UNCHANGED cvars
  BY <1>1 DEF cvars, CascadeInv, CascadeTypeOK, LinkAgrees, Exchange, NoGap
<1>2. ASSUME NEW m \in Mixes, MixStep(m) PROVE CascadeInv'
  <2>1. CASE Begin(m) BY <2>1, BeginKeeps
  <2>2. CASE Connect(m) BY <2>2, ConnectKeeps
  <2>3. CASE ReceiveInfo(m) BY <2>3, ReceiveInfoKeeps
  <2>4. CASE SendInfo(m) \/ ReceiveKey(m) BY <2>4, AnswerKeeps
  <2>5. CASE Restarts(m) BY <2>5, GivingUp DEF Restarts
  <2> QED BY <1>2, <2>1, <2>2, <2>3, <2>4, <2>5 DEF MixStep
<1>3. ASSUME NEW m \in Mixes, OfferFails(m) PROVE CascadeInv'
  BY <1>3, GivingUp DEF OfferFails
<1>4. ASSUME NEW m \in Mixes, TimesOut(m) PROVE CascadeInv'
  BY <1>4, GivingUp DEF TimesOut
<1>5. ASSUME NEW m \in Mixes, Crash(m) PROVE CascadeInv'
  BY <1>5, GivingUp DEF Crash
<1>6. ASSUME NEW m \in Mixes, StartMix(m) PROVE CascadeInv'
  BY <1>6, BeginKeeps
<1>7. ASSUME NEW i \in Links, LoseLink(i) PROVE CascadeInv'
  BY <1>7, LossKeeps
<1> QED BY <1>1, <1>2, <1>3, <1>4, <1>5, <1>6, <1>7 DEF CascadeNext

(* While the first mix is on line, a mix that live connections join to it  *)
(* is past its own key info from the next one.                             *)
LEMMA InvGivesOnline == CascadeInv => OnlineFromTheEnd
<1> SUFFICES ASSUME CascadeInv, NEW m \in Mixes \ {1}, at[1] = "online",
                    \A i \in Links : i < m => near[i] = "live"
             PROVE  /\ at[m] = "online" \/ (at[m] = "answer" /\ key[m - 1])
                    /\ m < N => near[m] # "none"
  BY DEF OnlineFromTheEnd
<1>1. m \in Nat /\ 1 < m /\ 1 \in Mixes /\ m - 1 \in Links /\ m - 1 \in Mixes
  BY CascadeAssumption DEF Mixes, Links
<1>2. at[m] \in {"answer", "online"}
  BY <1>1 DEF CascadeInv, NoGap, Past
<1>3. at[m] = "online" \/ key[m - 1]
  <2>1. LinkAgrees(m - 1) /\ near[m - 1] = "live" /\ (m - 1) + 1 = m
    BY <1>1 DEF CascadeInv
  <2>2. at[m - 1] # "info"
    <3>1. CASE m - 1 = 1 BY <3>1
    <3>2. CASE m - 1 # 1
      <4>1. 1 < m - 1 /\ \A i \in Links : 1 <= i /\ i < m - 1 => near[i] = "live"
        BY <1>1, <3>2, NeighboursAreMixes
      <4>2. at[m - 1] \in {"answer", "online"}
        BY <1>1, <4>1 DEF CascadeInv, NoGap, Past
      <4> QED BY <4>2
    <3> QED BY <3>1, <3>2
  <2> QED BY <1>2, <2>1, <2>2 DEF LinkAgrees, Exchange
<1>4. m < N => near[m] # "none"
  <2> SUFFICES ASSUME m < N PROVE near[m] # "none" OBVIOUS
  <2>1. m \in Links BY <1>1, CascadeAssumption DEF Links
  <2> QED BY <1>2, <2>1 DEF CascadeInv, LinkAgrees, LinkedOut
<1> QED BY <1>2, <1>3, <1>4

-----------------------------------------------------------------------------
(* The steps and connections of all mixes keep their types (CAMix::start() *)
(* and init() of the three kinds of mixes).                                *)
THEOREM CascadeTypeCorrect == CascadeSpec => []CascadeTypeOK
<1>1. CascadeInv => CascadeTypeOK BY DEF CascadeInv
<1> QED BY <1>1, InitHolds, StepKeeps, PTL DEF CascadeSpec

(* Two neighbours agree on how far their key exchange has come, and a      *)
(* connection made after a restart starts with nothing of the last one.    *)
THEOREM NeighboursAgree == CascadeSpec => [](\A i \in Links : LinkAgrees(i))
<1>1. CascadeInv => \A i \in Links : LinkAgrees(i) BY DEF CascadeInv
<1> QED BY <1>1, InitHolds, StepKeeps, PTL DEF CascadeSpec

(* The first mix accepts users for whole cascades only: whatever mixes     *)
(* crash, whatever connections break, in a cascade of any length.          *)
THEOREM WholeCascadesOnly == CascadeSpec => []OnlineFromTheEnd
BY InitHolds, StepKeeps, InvGivesOnline, PTL DEF CascadeSpec

-----------------------------------------------------------------------------
(* Key exchange.                                                           *)

Infos   == [mix : Mixes, session : Nat]
KeyPair == [send : Seq(Nat), receive : Seq(Nat)]

KXTypeOK ==
  /\ outdated \in [Links -> SUBSET {"near", "far"}]
  /\ session \in [Mixes -> Nat] /\ fits \in [Mixes -> BOOLEAN]
  /\ list \in [Mixes -> Seq(Infos)] /\ infos \in [Links -> Seq(Infos)]
  /\ answer \in [Links -> [session : Nat, keys : Nat]]
  /\ outKeys \in [Mixes -> KeyPair] /\ inKeys \in [Mixes -> KeyPair]
  /\ told \in Seq(Infos)
  /\ user \in [in : BOOLEAN, layers : Seq(Infos)]

(* Every link from mix k to mix j is live, as far as conn tells; s is the  *)
(* list of the entries of the mixes after k, and those of mixes that live  *)
(* links join to k are of their session.                                   *)
Reach(k, j, conn) == \A i \in Links : k <= i /\ i < j => conn[i] = "live"

ListFits(k, s, conn, ses) ==
  /\ Len(s) = N - k
  /\ \A j \in Mixes : k < j =>
       s[j - k].mix = j /\ (Reach(k, j, conn) => s[j - k].session = ses[j])

(* Lists on their way, those a middle mix keeps, and that of the users.    *)
ListsFit ==
  /\ \A i \in Links : info[i] => ListFits(i, infos[i], near, session)
  /\ \A m \in Mixes : IF at[m] = "offer" THEN ListFits(m, list[m], near, session)
                      ELSE list[m] = <<>>
  /\ at[1] = "online" => ListFits(0, told, near, session)

(* What has been agreed upon on a link when the mix before has its answer  *)
(* on the way, and when the mix after it has accepted that.                *)
KeysAt(i) ==
  /\ at[i] \in Past => VerifiesNext(i) /\ (fits[i] => CheckCompatibility(i, i + 1))
  /\ near[i] = "live" =>
       /\ at[i] \in Past => outKeys[i] = SymKeys(session[i])
       /\ key[i] => answer[i].keys = session[i]
       /\ at[i + 1] = "online" => /\ inKeys[i + 1] = OtherHalves(session[i])
                                  /\ "far" \notin outdated[i]
                                  /\ CheckCompatibility(i + 1, i)

KeysFit ==
  /\ fits[1] /\ \A m \in Mixes : at[m] = "online" => fits[m]
  /\ \A i \in Links : KeysAt(i)

UserFits ==
  /\ user.layers # <<>> => at[1] = "online" /\ user.layers = Reverse(told)
  /\ user.in => user.layers # <<>>

KXInv == CascadeInv /\ KXTypeOK /\ ListsFit /\ KeysFit /\ UserFits

-----------------------------------------------------------------------------
(* The keys of a pair are sequences of numbers.                            *)
LEMMA TypedPairs ==
  /\ \A k \in Nat : SymKeys(k) \in KeyPair /\ OtherHalves(k) \in KeyPair
  /\ NoKeys \in KeyPair /\ NoAnswer \in [session : Nat, keys : Nat]
  /\ Nobody \in [in : BOOLEAN, layers : Seq(Infos)] /\ <<>> \in Seq(Infos)
<1>1. \A k \in Nat : <<k, 1>> \in Seq(Nat) /\ <<k, 2>> \in Seq(Nat) OBVIOUS
<1>2. <<>> \in Seq(Nat) /\ <<>> \in Seq(Infos) OBVIOUS
<1>3. \A k \in Nat : SymKeys(k) \in KeyPair /\ OtherHalves(k) \in KeyPair
  BY <1>1 DEF SymKeys, OtherHalves, KeyPair
<1>4. NoKeys \in KeyPair BY <1>2 DEF NoKeys, KeyPair
<1>5. NoAnswer \in [session : Nat, keys : Nat] BY DEF NoAnswer
<1>6. Nobody \in [in : BOOLEAN, layers : Seq(Infos)] BY <1>2 DEF Nobody
<1> QED BY <1>2, <1>3, <1>4, <1>5, <1>6

(* There is a first mix.                                                   *)
LEMMA OneIsAMix == 1 \in Mixes
BY CascadeAssumption DEF Mixes

(* What was configured stays as it was, except that a mix that was refused *)
(* for its version may be updated.                                         *)
LEMMA ConfStays ==
  UNCHANGED kxconf => \A x, y : /\ CheckCompatibility(x, y)' <=> CheckCompatibility(x, y)
                                /\ VerifiesNext(x)' <=> VerifiesNext(x)
BY DEF CheckCompatibility, VerifiesNext, kxconf

(* A list still fits when no link has become live, and the mixes at live   *)
(* links have the sessions they had.                                       *)
LEMMA Carried ==
  ASSUME NEW k \in 0..N, NEW s, NEW conn, NEW conn2, NEW ses, NEW ses2,
         ListFits(k, s, conn, ses),
         \A j \in Mixes : k < j /\ Reach(k, j, conn2) => Reach(k, j, conn) /\ ses2[j] = ses[j]
  PROVE  ListFits(k, s, conn2, ses2)
BY DEF ListFits

(* addMixInfo() makes of a list of the mixes after m one of those from m.  *)
LEMMA PutInFront ==
  ASSUME NEW m \in Mixes, NEW s \in Seq(Infos), KXTypeOK, ListFits(m, s, near, session)
  PROVE  /\ AddMixInfo(m, s) \in Seq(Infos)
         /\ ListFits(m - 1, AddMixInfo(m, s), near, session)
<1>1. m \in Nat /\ 1 <= m /\ N \in Nat BY CascadeAssumption DEF Mixes
<1>2. Entry(m) \in Infos /\ Entry(m).mix = m /\ Entry(m).session = session[m]
  BY DEF Entry, Infos, KXTypeOK
<1>3. /\ AddMixInfo(m, s) \in Seq(Infos) /\ Len(AddMixInfo(m, s)) = Len(s) + 1
      /\ AddMixInfo(m, s)[1] = Entry(m)
      /\ \A n \in 1..Len(s) : AddMixInfo(m, s)[n + 1] = s[n]
  <2>1. <<Entry(m)>> \in Seq(Infos) /\ Len(<<Entry(m)>>) = 1 BY <1>2
  <2> QED BY <1>2, <2>1 DEF AddMixInfo
<1>4. Len(s) = N - m BY DEF ListFits
<1>5. Len(AddMixInfo(m, s)) = N - (m - 1) BY <1>1, <1>3, <1>4
<1>6. ASSUME NEW j \in Mixes, m - 1 < j
      PROVE  /\ AddMixInfo(m, s)[j - (m - 1)].mix = j
             /\ Reach(m - 1, j, near) => AddMixInfo(m, s)[j - (m - 1)].session = session[j]
  <2>1. j \in Nat /\ j <= N BY <1>1 DEF Mixes
  <2>2. CASE j = m
    <3>1. j - (m - 1) = 1 BY <1>1, <2>1, <2>2
    <3> QED BY <1>2, <1>3, <2>2, <3>1
  <2>3. CASE j # m
    <3>1. m < j /\ j - m \in 1..Len(s) /\ j - (m - 1) = (j - m) + 1
      BY <1>1, <1>4, <1>6, <2>1, <2>3
    <3>2. AddMixInfo(m, s)[j - (m - 1)] = s[j - m] BY <1>3, <3>1
    <3>3. Reach(m - 1, j, near) => Reach(m, j, near)
      BY <1>1, NeighboursAreMixes DEF Reach
    <3> QED BY <3>1, <3>2, <3>3 DEF ListFits
  <2> QED BY <2>2, <2>3
<1> QED BY <1>3, <1>5, <1>6 DEF ListFits

(* Steps that make no list.                                                *)
LEMMA ListsCarried ==
  ASSUME ListsFit,
         \A i \in Links : near'[i] = "live" => near[i] = "live" /\ session'[i + 1] = session[i + 1],
         at'[1] = "online" => at[1] = "online" /\ told' = told /\ session'[1] = session[1],
         \A i \in Links : info'[i] => info[i] /\ infos'[i] = infos[i],
         \A m \in Mixes : IF at'[m] = "offer" THEN at[m] = "offer" /\ list'[m] = list[m]
                          ELSE list'[m] = <<>>
  PROVE  ListsFit'
<1>1. ASSUME NEW k \in 0..N, NEW j \in Mixes, k < j, Reach(k, j, near'), k # 0 \/ at'[1] = "online"
      PROVE  Reach(k, j, near) /\ session'[j] = session[j]
  <2>1. Reach(k, j, near) BY <1>1 DEF Reach
  <2>2. CASE j = 1
    <3>1. k = 0 BY <1>1, <2>2, CascadeAssumption
    <3>2. at'[1] = "online" BY <1>1, <3>1
    <3> QED BY <2>1, <2>2, <3>2
  <2>3. CASE j # 1
    <3>1. j - 1 \in Links /\ k <= j - 1 /\ j - 1 < j /\ (j - 1) + 1 = j
      BY <1>1, <2>3, CascadeAssumption DEF Links, Mixes
    <3>2. near'[j - 1] = "live" BY <1>1, <3>1 DEF Reach
    <3> QED BY <2>1, <3>1, <3>2
  <2> QED BY <2>1, <2>2, <2>3
<1>2. ASSUME NEW i \in Links, info'[i] PROVE ListFits(i, infos'[i], near', session')
  <2>1. i \in 0..N /\ i # 0 BY CascadeAssumption DEF Links
  <2>2. ListFits(i, infos[i], near, session) BY <1>2 DEF ListsFit
  <2> QED BY <1>1, <1>2, <2>1, <2>2, Carried
<1>3. ASSUME NEW m \in Mixes, at'[m] = "offer" PROVE ListFits(m, list'[m], near', session')
  <2>1. m \in 0..N /\ m # 0 BY CascadeAssumption DEF Mixes
  <2>2. ListFits(m, list[m], near, session) BY <1>3 DEF ListsFit
  <2> QED BY <1>1, <1>3, <2>1, <2>2, Carried
<1>4. ASSUME at'[1] = "online" PROVE ListFits(0, told', near', session')
  <2>1. 0 \in 0..N BY CascadeAssumption
  <2>2. ListFits(0, told, near, session) BY <1>4 DEF ListsFit
  <2> QED BY <1>1, <1>4, <2>1, <2>2, Carried
<1> QED BY <1>2, <1>3, <1>4 DEF ListsFit

-----------------------------------------------------------------------------
(* Steps of init().                                                        *)

(* init() of a mix that starts: a new session, and nothing received yet.   *)
LEMMA KBeginKeeps ==
  ASSUME KXInv, NEW m \in Mixes, KBegin(m)
  PROVE  KXInv'
<1>1. CascadeInv /\ KXTypeOK /\ ListsFit /\ KeysFit /\ UserFits BY DEF KXInv
<1>2. CascadeInv' BY <1>1, BeginKeeps DEF KBegin
<1>3. /\ at[m] = "sleep" /\ UNCHANGED <<near, far, info, key>>
      /\ UNCHANGED <<kxconf, list, infos, answer, outKeys, inKeys, told, user>>
      /\ fits' = [fits EXCEPT ![m] = TRUE]
  BY DEF KBegin, Begin
<1>4. /\ \A x \in Mixes \ {m} : at'[x] = at[x] /\ session'[x] = session[x]
      /\ at'[m] \in {"connect", "accept"} /\ session' \in [Mixes -> Nat]
  BY <1>1 DEF KBegin, Begin, Goes, CascadeInv, CascadeTypeOK, KXTypeOK
<1>5. KXTypeOK' BY <1>1, <1>3, <1>4 DEF KXTypeOK, kxconf
<1>6. \A i \in Links : i = m \/ i + 1 = m => near[i] # "live"
  <2>1. \A i \in Links : LinkAgrees(i) BY <1>1 DEF CascadeInv
  <2> QED BY <1>3, <2>1 DEF LinkAgrees, LinkedOut, LinkedIn
<1>7. ListsFit'
  <2>1. \A i \in Links : near'[i] = "live" => near[i] = "live" /\ session'[i + 1] = session[i + 1]
    BY <1>3, <1>4, <1>6, NeighboursAreMixes
  <2>2. at'[1] = "online" => at[1] = "online" /\ told' = told /\ session'[1] = session[1]
    BY <1>3, <1>4, OneIsAMix
  <2>3. \A x \in Mixes : IF at'[x] = "offer" THEN at[x] = "offer" /\ list'[x] = list[x]
                         ELSE list'[x] = <<>>
    BY <1>1, <1>3, <1>4 DEF ListsFit
  <2> QED BY <1>1, <1>3, <2>1, <2>2, <2>3, ListsCarried
<1>8. KeysFit'
  <2>1. fits'[1] /\ \A x \in Mixes : at'[x] = "online" => fits'[x]
    <3>1. \A x \in Mixes : fits[x] => fits'[x] BY <1>1, <1>3 DEF KXTypeOK
    <3> QED BY <1>1, <1>4, <3>1, OneIsAMix DEF KeysFit
  <2>2. ASSUME NEW i \in Links PROVE KeysAt(i)'
    <3>1. KeysAt(i) /\ i \in Mixes /\ i + 1 \in Mixes BY <1>1, NeighboursAreMixes DEF KeysFit
    <3>2. CASE i = m BY <1>3, <1>4, <1>6, <3>2 DEF KeysAt, Past
    <3>3. CASE i # m
      <4>1. at'[i] = at[i] /\ session'[i] = session[i] /\ fits'[i] = fits[i]
        BY <1>1, <1>3, <1>4, <3>1, <3>3 DEF KXTypeOK
      <4>2. at'[i + 1] = "online" => at[i + 1] = "online" BY <1>4, <3>1
      <4> QED BY <1>3, <3>1, <4>1, <4>2, ConfStays DEF KeysAt, kxconf
    <3> QED BY <3>2, <3>3
  <2> QED BY <2>1, <2>2 DEF KeysFit
<1>9. UserFits'
  <2>1. at[1] = "online" => at'[1] = "online" BY <1>3, <1>4, OneIsAMix
  <2> QED BY <1>1, <1>3, <2>1 DEF UserFits
<1> QED BY <1>2, <1>5, <1>7, <1>8, <1>9 DEF KXInv

(* The connect() and accept() of two neighbours: the link has no list on   *)
(* it.                                                                     *)
LEMMA KConnectKeeps ==
  ASSUME KXInv, NEW m \in Mixes, KConnect(m)
  PROVE  KXInv'
<1>1. CascadeInv /\ KXTypeOK /\ ListsFit /\ KeysFit /\ UserFits BY DEF KXInv
<1>2. CascadeInv' BY <1>1, ConnectKeeps DEF KConnect
<1>3. /\ m \in Links /\ m + 1 \in Mixes /\ m \in Nat /\ m # m + 1
      /\ at[m] = "connect" /\ at[m + 1] = "accept"
      /\ UNCHANGED <<info, key>> /\ UNCHANGED kxvars
      /\ near' = [near EXCEPT ![m] = "live"]
  BY CascadeAssumption DEF KConnect, Connect, Links, Mixes
<1>4. /\ at'[m] = "info"
      /\ at'[m + 1] = IF m + 1 = N THEN "offer" ELSE "connect"
      /\ \A x \in Mixes : x # m /\ x # m + 1 => at'[x] = at[x]
  BY <1>1, <1>3 DEF KConnect, Connect, AfterAccept, CascadeInv, CascadeTypeOK
<1>5. /\ \A i \in Links : LinkAgrees(i) /\ (i # m => near'[i] = near[i])
      /\ near[m] = "none" /\ ~key[m]
  <2>1. near[m] = "none" /\ far[m] = "none"
    BY <1>1, <1>3 DEF CascadeInv, LinkAgrees, LinkedOut, LinkedIn
  <2> QED BY <1>1, <1>3, <2>1 DEF CascadeInv, CascadeTypeOK, LinkAgrees
<1>6. KXTypeOK' BY <1>1, <1>3 DEF KXTypeOK, kxvars, kxconf
\* a mix that connects is not reached by a list that is on its way
<1>7. ASSUME NEW k \in 0..N, NEW j \in Mixes, k < j, Reach(k, j, near'),
             \/ k \in Links /\ info[k]
             \/ k \in Mixes /\ at'[k] = "offer"
             \/ k = 0 /\ at'[1] = "online"
      PROVE  Reach(k, j, near)
  <2>1. k \in Int /\ j \in Int /\ m \in Int /\ N \in Int BY <1>3, CascadeAssumption DEF Mixes
  <2>2. CASE ~(k <= m /\ m < j) BY <1>5, <1>7, <2>2 DEF Reach
  <2>3. CASE k <= m /\ m < j
    <3> DEFINE k1 == IF k = 0 THEN 1 ELSE IF k \in Links /\ info[k] THEN k + 1 ELSE k
    <3>1. k1 \in Mixes /\ at[k1] \in {"offer", "answer", "online"} /\ k <= k1 /\ k1 <= m
      <4>1. CASE k = 0
        <5>1. at[1] = "online" BY <1>3, <1>4, <1>7, <4>1, OneIsAMix DEF Links, Mixes
        <5> QED BY <2>1, <2>3, <4>1, <5>1, <1>3, OneIsAMix DEF Mixes
      <4>2. CASE k # 0 /\ k \in Links /\ info[k]
        <5>1. k # m
          BY <1>3, <1>5, <4>2 DEF LinkAgrees
        <5>2. near[k] = "live"
          <6>1. k <= k /\ k < j BY <2>1, <2>3
          <6> QED BY <1>5, <1>7, <4>2, <5>1, <6>1 DEF Reach
        <5>3. at[k + 1] = "answer" BY <1>5, <4>2, <5>2 DEF LinkAgrees, Exchange
        <5> QED BY <2>1, <2>3, <4>2, <5>1, <5>3, NeighboursAreMixes
      <4>3. CASE k # 0 /\ ~(k \in Links /\ info[k])
        <5>1. k \in Mixes /\ at'[k] = "offer" BY <1>7, <4>3
        <5>2. k # m /\ k # m + 1 BY <1>3, <1>4, <2>1, <2>3, <5>1
        <5> QED BY <1>4, <2>1, <2>3, <4>3, <5>1, <5>2
      <4> QED BY <4>1, <4>2, <4>3
    <3> HIDE DEF k1
    <3>2. k1 # m BY <1>3, <3>1
    <3>3. k1 \in Int BY <3>1 DEF Mixes
    <3>4. k1 < m /\ at[k1] \in Past BY <2>1, <3>1, <3>2, <3>3 DEF Past
    <3>5. \A i \in Links : k1 <= i /\ i < m => near[i] = "live"
      BY <1>5, <1>7, <2>1, <2>3, <3>1, <3>3, NeighboursAreMixes DEF Reach
    <3>6. at[m] \in {"answer", "online"} BY <1>1, <3>1, <3>4, <3>5 DEF CascadeInv, NoGap
    <3> QED BY <1>3, <3>6
  <2> QED BY <2>2, <2>3
<1>8. ListsFit'
  <2>1. session' = session /\ list' = list /\ infos' = infos /\ told' = told /\ info' = info
    BY <1>3 DEF kxvars
  <2>2. ASSUME NEW i \in Links, info[i] PROVE ListFits(i, infos[i], near', session)
    <3>1. i \in 0..N /\ ListFits(i, infos[i], near, session)
      BY <1>1, <2>2, NeighboursAreMixes, CascadeAssumption DEF ListsFit, Links
    <3> QED BY <1>7, <2>2, <3>1, Carried
  <2>3. ASSUME NEW x \in Mixes, at'[x] = "offer" PROVE ListFits(x, list[x], near', session)
    <3>1. x \in 0..N /\ x # 0 BY CascadeAssumption DEF Mixes
    <3>2. CASE at[x] = "offer"
      <4>1. ListFits(x, list[x], near, session) BY <1>1, <3>2 DEF ListsFit
      <4> QED BY <1>7, <2>3, <3>1, <4>1, Carried
    <3>3. CASE at[x] # "offer"
      <4>1. x = N /\ list[x] = <<>> BY <1>1, <1>3, <1>4, <2>3, <3>3 DEF ListsFit
      <4>2. Len(list[x]) = N - N /\ \A j \in Mixes : ~(N < j)
        BY <4>1, CascadeAssumption DEF Mixes
      <4> QED BY <4>1, <4>2 DEF ListFits
    <3> QED BY <3>2, <3>3
  <2>4. ASSUME NEW x \in Mixes, at'[x] # "offer" PROVE list[x] = <<>>
    <3>1. at[x] # "offer" BY <1>3, <1>4, <2>4
    <3> QED BY <1>1, <3>1 DEF ListsFit
  <2>5. ASSUME at'[1] = "online" PROVE ListFits(0, told, near', session)
    <3>1. 0 \in 0..N BY CascadeAssumption
    <3>2. at[1] = "online" BY <1>3, <1>4, <2>5, OneIsAMix
    <3>3. ListFits(0, told, near, session) BY <1>1, <3>2 DEF ListsFit
    <3> QED BY <1>7, <2>5, <3>1, <3>3, Carried
  <2> QED BY <2>1, <2>2, <2>3, <2>4, <2>5 DEF ListsFit
<1>9. KeysFit'
  <2>1. fits'[1] /\ \A x \in Mixes : at'[x] = "online" => fits'[x]
    <3>1. \A x \in Mixes : at'[x] = "online" => at[x] = "online" BY <1>3, <1>4
    <3> QED BY <1>1, <1>3, <3>1 DEF KeysFit, kxvars
  <2>2. ASSUME NEW i \in Links PROVE KeysAt(i)'
    <3>1. KeysAt(i) /\ i \in Mixes /\ i + 1 \in Mixes /\ i \in Nat
      BY <1>1, NeighboursAreMixes DEF KeysFit
    <3>2. i = m => ~key'[i] /\ at'[i] \notin Past /\ at'[i + 1] # "online"
      BY <1>3, <1>4, <1>5 DEF Past
    <3>3. at'[i] \in Past => at[i] \in Past
      <4>1. i # N BY <3>1, NeighboursAreMixes
      <4> QED BY <1>3, <1>4, <3>1, <4>1 DEF Past
    <3>4. at'[i + 1] = "online" => at[i + 1] = "online" BY <1>3, <1>4, <3>1
    <3>5. UNCHANGED kxconf /\ UNCHANGED <<fits, outKeys, inKeys, session, answer, key>>
      BY <1>3 DEF kxvars
    <3>6. CASE i = m
      BY <3>1, <3>2, <3>3, <3>5, <3>6, ConfStays DEF KeysAt
    <3>7. CASE i # m
      BY <1>5, <3>1, <3>3, <3>4, <3>5, <3>7, ConfStays DEF KeysAt, kxconf
    <3> QED BY <3>6, <3>7
  <2> QED BY <2>1, <2>2 DEF KeysFit
<1>10. UserFits'
  <2>1. at[1] = "online" => at'[1] = "online" BY <1>3, <1>4, OneIsAMix
  <2> QED BY <1>1, <1>3, <2>1 DEF UserFits, kxvars
<1> QED BY <1>2, <1>6, <1>8, <1>9, <1>10 DEF KXInv

(* A mix that receives the list of the next one puts its own entry in      *)
(* front of it.                                                            *)
LEMMA KReceiveInfoKeeps ==
  ASSUME KXInv, NEW m \in Mixes, KReceiveInfo(m)
  PROVE  KXInv'
<1>1. CascadeInv /\ KXTypeOK /\ ListsFit /\ KeysFit /\ UserFits BY DEF KXInv
<1>2. ReceiveInfo(m) BY DEF KReceiveInfo, MiddleReceivesInfo, FirstReceivesInfo
<1>3. CascadeInv' BY <1>1, <1>2, ReceiveInfoKeeps
<1>4. /\ m \in Links /\ m + 1 \in Mixes /\ m \in Nat /\ m < N /\ m # m + 1
      /\ at[m] = "info" /\ info[m] /\ UNCHANGED <<near, far>>
      /\ at' = [at EXCEPT ![m] = IF m = 1 THEN "online" ELSE "offer"]
      /\ info' = [info EXCEPT ![m] = FALSE]
      /\ key' = [key EXCEPT ![m] = near[m] = "live"]
  BY <1>2, CascadeAssumption DEF ReceiveInfo, Goes, Links, Mixes
<1>5. /\ answer' = [answer EXCEPT ![m] = IF key'[m] THEN Answer(m) ELSE NoAnswer]
      /\ outKeys' = [outKeys EXCEPT ![m] = SymKeys(session[m])]
      /\ infos' = [infos EXCEPT ![m] = <<>>]
      /\ UNCHANGED <<kxconf, session, inKeys>>
  BY DEF KReceiveInfo
<1>6. /\ VerifiesNext(m)
      /\ IF m = 1 THEN /\ CheckCompatibility(1, 2) /\ told' = AddMixInfo(1, infos[1])
                       /\ UNCHANGED <<fits, list, user>>
         ELSE /\ fits' = [fits EXCEPT ![m] = CheckCompatibility(m, Head(infos[m]).mix)]
              /\ list' = [list EXCEPT ![m] = infos[m]]
              /\ UNCHANGED <<told, user>>
  BY DEF KReceiveInfo, MiddleReceivesInfo, FirstReceivesInfo
<1>7. /\ at'[m] = IF m = 1 THEN "online" ELSE "offer"
      /\ \A x \in Mixes : x # m => at'[x] = at[x]
      /\ \A i \in Links : i # m => /\ info'[i] = info[i] /\ key'[i] = key[i] /\ infos'[i] = infos[i]
                                   /\ answer'[i] = answer[i]
      /\ ~info'[m] /\ key'[m] = (near[m] = "live")
  BY <1>1, <1>4, <1>5 DEF CascadeInv, CascadeTypeOK, KXTypeOK
<1>8. ListFits(m, infos[m], near, session) /\ infos[m] \in Seq(Infos)
  BY <1>1, <1>4 DEF ListsFit, KXTypeOK
<1>9. infos[m] # <<>> /\ Head(infos[m]) \in Infos /\ Head(infos[m]).mix = m + 1
  <2>1. Len(infos[m]) = N - m /\ N - m >= 1 /\ N - m \in Nat
    BY <1>4, <1>8, CascadeAssumption DEF ListFits
  <2>2. infos[m][(m + 1) - m].mix = m + 1 /\ (m + 1) - m = 1
    BY <1>4, <1>8 DEF ListFits
  <2> QED BY <1>8, <2>1, <2>2
<1>10. AddMixInfo(m, infos[m]) \in Seq(Infos) /\ ListFits(m - 1, AddMixInfo(m, infos[m]), near, session)
  BY <1>1, <1>8, PutInFront
<1>11. KXTypeOK'
  <2>1. /\ SymKeys(session[m]) \in KeyPair /\ Answer(m) \in [session : Nat, keys : Nat]
        /\ NoAnswer \in [session : Nat, keys : Nat] /\ <<>> \in Seq(Infos)
    BY <1>1, <1>4, <1>9, TypedPairs DEF KXTypeOK, Answer, Infos
  <2>2. answer' \in [Links -> [session : Nat, keys : Nat]] BY <1>1, <1>5, <2>1 DEF KXTypeOK
  <2>3. outKeys' \in [Mixes -> KeyPair] /\ infos' \in [Links -> Seq(Infos)]
    BY <1>1, <1>5, <2>1 DEF KXTypeOK
  <2>4. fits' \in [Mixes -> BOOLEAN]
    <3>1. CheckCompatibility(m, Head(infos[m]).mix) \in BOOLEAN BY DEF CheckCompatibility
    <3> QED BY <1>1, <1>6, <3>1 DEF KXTypeOK
  <2>5. list' \in [Mixes -> Seq(Infos)] /\ told' \in Seq(Infos) /\ user' = user
    BY <1>1, <1>6, <1>8, <1>10 DEF KXTypeOK
  <2> QED BY <1>1, <1>5, <2>2, <2>3, <2>4, <2>5 DEF KXTypeOK, kxconf
<1>12. ListsFit'
  <2>1. near' = near /\ session' = session BY <1>4, <1>5
  <2>2. ASSUME NEW i \in Links, info'[i] PROVE ListFits(i, infos'[i], near, session)
    BY <1>1, <1>7, <2>2 DEF ListsFit
  <2>3. ASSUME NEW x \in Mixes, at'[x] = "offer" PROVE ListFits(x, list'[x], near, session)
    <3>1. CASE x = m
      <4>1. m # 1 BY <1>7, <2>3, <3>1
      <4>2. list'[m] = infos[m] BY <1>1, <1>6, <4>1 DEF KXTypeOK
      <4> QED BY <1>8, <3>1, <4>2
    <3>2. CASE x # m
      <4>1. at[x] = "offer" /\ list'[x] = list[x] BY <1>1, <1>6, <1>7, <2>3, <3>2 DEF KXTypeOK
      <4> QED BY <1>1, <4>1 DEF ListsFit
    <3> QED BY <3>1, <3>2
  <2>4. ASSUME NEW x \in Mixes, at'[x] # "offer" PROVE list'[x] = <<>>
    <3>1. at[x] # "offer" /\ list'[x] = list[x]
      BY <1>1, <1>4, <1>6, <1>7, <2>4 DEF KXTypeOK
    <3> QED BY <1>1, <3>1 DEF ListsFit
  <2>5. ASSUME at'[1] = "online" PROVE ListFits(0, told', near, session)
    <3>1. CASE m = 1 BY <1>6, <1>10, <3>1
    <3>2. CASE m # 1 BY <1>1, <1>6, <1>7, <2>5, <3>2, OneIsAMix DEF ListsFit
    <3> QED BY <3>1, <3>2
  <2> QED BY <2>1, <2>2, <2>3, <2>4, <2>5 DEF ListsFit
<1>13. KeysFit'
  <2>1. \A x \in Mixes : x # m => fits'[x] = fits[x]
    BY <1>1, <1>6 DEF KXTypeOK
  <2>2. fits'[1] /\ \A x \in Mixes : at'[x] = "online" => fits'[x]
    <3>1. fits'[1] BY <1>1, <1>6, <2>1, OneIsAMix DEF KeysFit
    <3>2. \A x \in Mixes : at'[x] = "online" => x = 1 \/ (x # m /\ at[x] = "online")
      BY <1>7
    <3> QED BY <1>1, <2>1, <3>1, <3>2 DEF KeysFit
  <2>3. ASSUME NEW i \in Links PROVE KeysAt(i)'
    <3>1. KeysAt(i) /\ i \in Mixes /\ i + 1 \in Mixes /\ i \in Nat
      BY <1>1, NeighboursAreMixes DEF KeysFit
    <3>2. CASE i = m
      <4>1. outKeys'[m] = SymKeys(session[m]) BY <1>1, <1>5 DEF KXTypeOK
      <4>2. near[m] = "live" => answer'[m].keys = session[m]
        BY <1>1, <1>4, <1>5, <1>7 DEF KXTypeOK, Answer
      <4>3. near[m] = "live" => at'[m + 1] # "online"
        <5>1. LinkAgrees(m) BY <1>1, <1>4 DEF CascadeInv
        <5> QED BY <1>4, <1>7, <5>1 DEF LinkAgrees, Exchange, Past
      <4>4. fits'[m] => CheckCompatibility(m, m + 1)
        <5>1. CASE m = 1 BY <1>6, <5>1
        <5>2. CASE m # 1
          <6>1. fits'[m] = CheckCompatibility(m, m + 1) BY <1>1, <1>6, <1>9, <5>2 DEF KXTypeOK
          <6> QED BY <6>1
        <5> QED BY <5>1, <5>2
      <4> QED BY <1>4, <1>5, <1>6, <3>2, <4>1, <4>2, <4>3, <4>4, ConfStays DEF KeysAt
    <3>3. CASE i # m
      <4>1. at'[i] = at[i] /\ fits'[i] = fits[i] /\ outKeys'[i] = outKeys[i]
        BY <1>1, <1>5, <1>7, <2>1, <3>1, <3>3 DEF KXTypeOK
      <4>2. at'[i + 1] = "online" => at[i + 1] = "online"
        BY <1>4, <1>7, <3>1, NeighboursAreMixes DEF Links
      <4> QED BY <1>4, <1>5, <1>7, <3>1, <3>3, <4>1, <4>2, ConfStays DEF KeysAt, kxconf
    <3> QED BY <3>2, <3>3
  <2> QED BY <2>2, <2>3 DEF KeysFit
<1>14. UserFits'
  <2>1. user' = user BY <1>6
  <2>2. CASE m = 1 BY <1>1, <1>4, <2>1, <2>2 DEF UserFits
  <2>3. CASE m # 1
    <3>1. at'[1] = at[1] /\ told' = told BY <1>6, <1>7, <2>3, OneIsAMix
    <3> QED BY <1>1, <2>1, <3>1 DEF UserFits
  <2> QED BY <2>2, <2>3
<1> QED BY <1>3, <1>11, <1>12, <1>13, <1>14 DEF KXInv

(* A mix offers its list to the previous one, or to its users.             *)
LEMMA KSendInfoKeeps ==
  ASSUME KXInv, NEW m \in Mixes, KSendInfo(m)
  PROVE  KXInv'
<1>1. CascadeInv /\ KXTypeOK /\ ListsFit /\ KeysFit /\ UserFits BY DEF KXInv
<1>2. SendInfo(m) BY DEF KSendInfo
<1>3. CascadeInv' BY <1>1, <1>2, AnswerKeeps
<1> DEFINE l == m - 1
<1>4. /\ l \in Links /\ l + 1 = m /\ l \in Nat /\ l # m /\ m # 1
      /\ at[m] = "offer" /\ UNCHANGED <<near, far, key>>
      /\ at' = [at EXCEPT ![m] = "answer"]
      /\ info' = [info EXCEPT ![l] = far[l] = "live"]
      /\ infos' = [infos EXCEPT ![l] = IF info'[l] THEN MixesFrom(m) ELSE <<>>]
      /\ list' = [list EXCEPT ![m] = <<>>]
  BY <1>2, CascadeAssumption DEF KSendInfo, SendInfo, Goes, Links, Mixes
<1>5. UNCHANGED <<kxconf, session, fits, answer, outKeys, inKeys, told, user>>
  BY DEF KSendInfo
<1>6. /\ AddMixInfo(m, list[m]) \in Seq(Infos)
      /\ ListFits(l, AddMixInfo(m, list[m]), near, session)
  <2>1. list[m] \in Seq(Infos) /\ ListFits(m, list[m], near, session)
    BY <1>1, <1>4 DEF ListsFit, KXTypeOK
  <2> QED BY <1>1, <2>1, PutInFront
<1> HIDE DEF l
<1>7. /\ at'[m] = "answer" /\ \A x \in Mixes : x # m => at'[x] = at[x]
      /\ \A i \in Links : i # l => info'[i] = info[i] /\ infos'[i] = infos[i]
      /\ info'[l] => infos'[l] = AddMixInfo(m, list[m])
  BY <1>1, <1>4 DEF CascadeInv, CascadeTypeOK, KXTypeOK, MixesFrom
<1>8. KXTypeOK'
  <2>1. infos' \in [Links -> Seq(Infos)] /\ list' \in [Mixes -> Seq(Infos)]
    BY <1>1, <1>4, <1>6, TypedPairs DEF KXTypeOK, MixesFrom
  <2> QED BY <1>1, <1>5, <2>1 DEF KXTypeOK, kxconf
<1>9. ListsFit'
  <2>1. near' = near /\ session' = session /\ told' = told BY <1>4, <1>5
  <2>2. ASSUME NEW i \in Links, info'[i] PROVE ListFits(i, infos'[i], near, session)
    BY <1>1, <1>6, <1>7, <2>2 DEF ListsFit
  <2>3. ASSUME NEW x \in Mixes
        PROVE  IF at'[x] = "offer" THEN ListFits(x, list'[x], near, session) ELSE list'[x] = <<>>
    <3>1. CASE x = m BY <1>1, <1>4, <1>7, <3>1 DEF KXTypeOK
    <3>2. CASE x # m
      <4>1. at'[x] = at[x] /\ list'[x] = list[x] BY <1>1, <1>4, <1>7, <3>2 DEF KXTypeOK
      <4> QED BY <1>1, <4>1 DEF ListsFit
    <3> QED BY <3>1, <3>2
  <2>4. at'[1] = at[1] BY <1>4, <1>7, OneIsAMix
  <2> QED BY <1>1, <2>1, <2>2, <2>3, <2>4 DEF ListsFit
<1>10. KeysFit'
  <2>1. ASSUME NEW i \in Links PROVE KeysAt(i)'
    <3>1. KeysAt(i) /\ i \in Mixes /\ i + 1 \in Mixes BY <1>1, NeighboursAreMixes DEF KeysFit
    <3>2. at'[i] \in Past => at[i] \in Past BY <1>4, <1>7, <3>1 DEF Past
    <3>3. at'[i + 1] = "online" => at[i + 1] = "online" BY <1>7, <3>1
    <3> QED BY <1>4, <1>5, <3>1, <3>2, <3>3, ConfStays DEF KeysAt, kxconf
  <2>2. \A x \in Mixes : at'[x] = "online" => at[x] = "online" BY <1>7
  <2> QED BY <1>1, <1>5, <2>1, <2>2 DEF KeysFit
<1>11. UserFits'
  <2>1. at'[1] = at[1] BY <1>4, <1>7, OneIsAMix
  <2> QED BY <1>1, <1>5, <2>1 DEF UserFits
<1> QED BY <1>3, <1>8, <1>9, <1>10, <1>11 DEF KXInv

(* The answer with the keys reaches the next mix, which takes the other    *)
(* halves.                                                                 *)
LEMMA KReceiveKeyKeeps ==
  ASSUME KXInv, NEW m \in Mixes, KReceiveKey(m)
  PROVE  KXInv'
<1>1. CascadeInv /\ KXTypeOK /\ ListsFit /\ KeysFit /\ UserFits BY DEF KXInv
<1>2. ReceiveKey(m) BY DEF KReceiveKey
<1>3. CascadeInv' BY <1>1, <1>2, AnswerKeeps
<1> DEFINE l == m - 1
<1>4. /\ l \in Links /\ l + 1 = m /\ l \in Mixes /\ l # m /\ m # 1
      /\ at[m] = "answer" /\ key[l] /\ UNCHANGED <<near, far, info>>
      /\ at' = [at EXCEPT ![m] = "online"] /\ key' = [key EXCEPT ![l] = FALSE]
  BY <1>2, CascadeAssumption DEF ReceiveKey, Goes, Links, Mixes
<1>5. /\ "far" \notin outdated[l] /\ fits[m] /\ CheckCompatibility(m, l)
      /\ inKeys' = [inKeys EXCEPT ![m] = OtherHalves(answer[l].keys)]
      /\ answer' = [answer EXCEPT ![l] = NoAnswer]
      /\ UNCHANGED <<kxconf, session, fits, list, infos, outKeys, told, user>>
  BY DEF KReceiveKey, AcceptsAnswer
<1> HIDE DEF l
<1>6. /\ at'[m] = "online" /\ \A x \in Mixes : x # m => at'[x] = at[x]
      /\ ~key'[l] /\ \A i \in Links : i # l => key'[i] = key[i] /\ answer'[i] = answer[i]
      /\ inKeys'[m] = OtherHalves(answer[l].keys) /\ \A x \in Mixes : x # m => inKeys'[x] = inKeys[x]
  BY <1>1, <1>4, <1>5 DEF CascadeInv, CascadeTypeOK, KXTypeOK
<1>7. KXTypeOK'
  <2>1. answer' \in [Links -> [session : Nat, keys : Nat]]
    BY <1>1, <1>5, TypedPairs DEF KXTypeOK
  <2>2. answer[l].keys \in Nat BY <1>1, <1>4 DEF KXTypeOK
  <2>3. inKeys' \in [Mixes -> KeyPair] BY <1>1, <1>5, <2>2, TypedPairs DEF KXTypeOK
  <2> QED BY <1>1, <1>5, <2>1, <2>3 DEF KXTypeOK, kxconf
<1>8. at'[1] = at[1] BY <1>4, <1>6, OneIsAMix
<1>9. ListsFit'
  <2>1. \A x \in Mixes : IF at'[x] = "offer" THEN at[x] = "offer" /\ list'[x] = list[x]
                         ELSE list'[x] = <<>>
    BY <1>1, <1>4, <1>5, <1>6 DEF ListsFit
  <2> QED BY <1>1, <1>4, <1>5, <1>8, <2>1, ListsCarried
<1>10. KeysFit'
  <2>1. ASSUME NEW i \in Links PROVE KeysAt(i)'
    <3>1. KeysAt(i) /\ i \in Mixes /\ i + 1 \in Mixes /\ i \in Nat /\ l \in Nat
      BY <1>1, <1>4, NeighboursAreMixes DEF KeysFit
    <3>2. at'[i] \in Past => at[i] \in Past BY <1>4, <1>6, <3>1 DEF Past
    <3>3. CASE i = l
      <4>1. near[l] = "live" => inKeys'[m] = OtherHalves(session[l])
        BY <1>4, <1>6, <3>1, <3>3 DEF KeysAt
      <4> QED BY <1>4, <1>5, <1>6, <3>1, <3>2, <3>3, <4>1, ConfStays DEF KeysAt, kxconf
    <3>4. CASE i # l
      <4>1. i + 1 # m BY <1>4, <3>1, <3>4
      <4>2. at'[i + 1] = at[i + 1] /\ inKeys'[i + 1] = inKeys[i + 1] BY <1>6, <3>1, <4>1
      <4> QED BY <1>4, <1>5, <1>6, <3>1, <3>2, <3>4, <4>2, ConfStays DEF KeysAt, kxconf
    <3> QED BY <3>3, <3>4
  <2>2. \A x \in Mixes : at'[x] = "online" => x = m \/ at[x] = "online" BY <1>6
  <2> QED BY <1>1, <1>5, <2>1, <2>2 DEF KeysFit
<1>11. UserFits' BY <1>1, <1>5, <1>8 DEF UserFits
<1> QED BY <1>3, <1>7, <1>9, <1>10, <1>11 DEF KXInv

-----------------------------------------------------------------------------
(* Failures.                                                               *)

(* The first mix does not fit to the next one: the link is taken down as   *)
(* by clean(), but the next mix still has an answer to receive.            *)
LEMMA MisfitKeepsCascade ==
  ASSUME CascadeInv, FirstDoesNotFit
  PROVE  CascadeInv'
<1>1. 1 \in Links /\ 1 \in Mixes /\ 2 \in Mixes BY CascadeAssumption DEF Links, Mixes
<1>2. /\ at[1] = "info" /\ at' = [at EXCEPT ![1] = "sleep"]
      /\ near' = [near EXCEPT ![1] = "none"] /\ far' = [far EXCEPT ![1] = Hangs(@)]
      /\ info' = [info EXCEPT ![1] = FALSE] /\ key' = [key EXCEPT ![1] = near[1] = "live"]
  BY DEF FirstDoesNotFit, Goes
<1>3. CascadeTypeOK' BY <1>1, <1>2 DEF CascadeInv, CascadeTypeOK, Phases, LinkEnds, Hangs
<1>4. /\ at'[1] = "sleep" /\ \A x \in Mixes : x # 1 => at'[x] = at[x]
      /\ near'[1] = "none" /\ far'[1] = Hangs(far[1]) /\ ~info'[1] /\ key'[1] = (near[1] = "live")
      /\ \A i \in Links : i # 1 => /\ near'[i] = near[i] /\ far'[i] = far[i]
                                   /\ info'[i] = info[i] /\ key'[i] = key[i]
  BY <1>1, <1>2 DEF CascadeInv, CascadeTypeOK
<1>5. ASSUME NEW i \in Links PROVE LinkAgrees(i)'
  <2>1. LinkAgrees(i) /\ i \in Mixes /\ i + 1 \in Mixes /\ i \in Nat
    BY NeighboursAreMixes DEF CascadeInv
  <2>2. i + 1 # 1 BY <2>1 DEF Links
  <2>3. CASE i = 1
    <3>1. at'[1] \notin LinkedOut /\ at'[2] = at[2] BY <1>1, <1>4 DEF LinkedOut
    <3>2. near[1] = "live" <=> far[1] = "live" BY <2>1, <2>3 DEF LinkAgrees
    <3>3. /\ far'[1] # "none" <=> far[1] # "none"
          /\ far'[1] # "live" /\ (far'[1] = "none" => ~key'[1])
      BY <1>4, <3>2 DEF Hangs
    <3>4. far[1] # "none" <=> at[2] \in LinkedIn BY <2>1, <2>3 DEF LinkAgrees
    <3> QED BY <1>4, <2>3, <3>1, <3>3, <3>4 DEF LinkAgrees
  <2>4. CASE i # 1
    <3>1. at'[i] = at[i] /\ at'[i + 1] = at[i + 1] BY <1>4, <2>1, <2>2, <2>4
    <3> QED BY <1>4, <2>1, <2>4, <3>1 DEF LinkAgrees, Exchange
  <2> QED BY <2>3, <2>4
<1>6. NoGap'
  <2> SUFFICES ASSUME NEW k \in Mixes, NEW n \in Mixes, k < n, at'[k] \in Past,
                      \A i \in Links : k <= i /\ i < n => near'[i] = "live"
               PROVE  at'[n] \in {"answer", "online"}
    BY DEF NoGap
  <2>1. k # 1 /\ n # 1 BY <1>4 DEF Past, Mixes
  <2>2. \A i \in Links : near'[i] = "live" => near[i] = "live" BY <1>4
  <2> QED BY <1>4, <2>1, <2>2 DEF CascadeInv, NoGap
<1> QED BY <1>3, <1>5, <1>6 DEF CascadeInv

(* What a mix that starts over leaves: nothing of its session, and dead    *)
(* links.  What others have of it is on links that are no longer live.     *)
LEMMA LeavesFit ==
  ASSUME KXInv, CascadeInv', KXTypeOK', NEW m \in Mixes, at'[m] \in {"sleep", "off"}, Forgets(m),
         \A x \in Mixes : x # m => at'[x] = at[x],
         \A i \in Links : /\ near'[i] = "live" => near[i] = "live" /\ i # m /\ i + 1 # m
                          /\ info'[i] => info[i] /\ infos'[i] = infos[i]
                          /\ i # m /\ key'[i] => key[i] /\ answer'[i] = answer[i]
  PROVE  KXInv'
<1>1. CascadeInv /\ KXTypeOK /\ ListsFit /\ KeysFit /\ UserFits BY DEF KXInv
<1>2. /\ \A x \in Mixes : x # m => /\ session'[x] = session[x] /\ list'[x] = list[x]
                                   /\ outKeys'[x] = outKeys[x] /\ inKeys'[x] = inKeys[x]
      /\ list'[m] = <<>> /\ UNCHANGED <<kxconf, fits>>
  BY <1>1 DEF Forgets, KXTypeOK
<1>3. IF m = 1 THEN told' = <<>> /\ user' = Nobody ELSE UNCHANGED <<told, user>>
  BY DEF Forgets
<1>4. at'[1] = "online" => m # 1 /\ at[1] = "online" BY OneIsAMix
<1>5. ListsFit'
  <2>1. \A i \in Links : near'[i] = "live" => near[i] = "live" /\ session'[i + 1] = session[i + 1]
    BY <1>2, NeighboursAreMixes
  <2>2. at'[1] = "online" => at[1] = "online" /\ told' = told /\ session'[1] = session[1]
    BY <1>2, <1>3, <1>4, OneIsAMix
  <2>3. \A x \in Mixes : IF at'[x] = "offer" THEN at[x] = "offer" /\ list'[x] = list[x]
                         ELSE list'[x] = <<>>
    BY <1>1, <1>2 DEF ListsFit
  <2> QED BY <1>1, <2>1, <2>2, <2>3, ListsCarried
<1>6. KeysFit'
  <2>1. ASSUME NEW i \in Links PROVE KeysAt(i)'
    <3>1. KeysAt(i) /\ i \in Mixes /\ i + 1 \in Mixes BY <1>1, NeighboursAreMixes DEF KeysFit
    <3>2. CASE i = m BY <3>2 DEF KeysAt, Past
    <3>3. CASE i # m
      <4>1. at'[i] = at[i] /\ session'[i] = session[i] /\ outKeys'[i] = outKeys[i]
        BY <1>2, <3>1, <3>3
      <4>2. near'[i] = "live" => /\ near[i] = "live" /\ at'[i + 1] = at[i + 1]
                                 /\ inKeys'[i + 1] = inKeys[i + 1]
        BY <1>2, <3>1
      <4> QED BY <1>2, <3>1, <3>3, <4>1, <4>2, ConfStays DEF KeysAt, kxconf
    <3> QED BY <3>2, <3>3
  <2>2. \A x \in Mixes : at'[x] = "online" => at[x] = "online" OBVIOUS
  <2> QED BY <1>1, <1>2, <2>1, <2>2 DEF KeysFit
<1>7. UserFits'
  <2>1. CASE m = 1 BY <1>3, <2>1 DEF UserFits, Nobody
  <2>2. CASE m # 1
    <3>1. at'[1] = at[1] BY <2>2, OneIsAMix
    <3> QED BY <1>1, <1>3, <2>2, <3>1 DEF UserFits
  <2> QED BY <2>1, <2>2
<1> QED BY <1>5, <1>6, <1>7 DEF KXInv

(* What a mix that gives up forgets keeps the types.                       *)
LEMMA ForgetsTyped ==
  ASSUME KXTypeOK, NEW m \in Mixes, Forgets(m),
         infos' \in [Links -> Seq(Infos)], answer' \in [Links -> [session : Nat, keys : Nat]]
  PROVE  KXTypeOK'
<1>1. session' \in [Mixes -> Nat] /\ fits' = fits /\ outdated' = outdated
  BY DEF Forgets, KXTypeOK, kxconf
<1>2. list' \in [Mixes -> Seq(Infos)] BY TypedPairs DEF Forgets, KXTypeOK
<1>3. outKeys' \in [Mixes -> KeyPair] /\ inKeys' \in [Mixes -> KeyPair]
  BY TypedPairs DEF Forgets, KXTypeOK
<1>4. told' \in Seq(Infos) /\ user' \in [in : BOOLEAN, layers : Seq(Infos)]
  BY TypedPairs DEF Forgets, KXTypeOK
<1> QED BY <1>1, <1>2, <1>3, <1>4 DEF KXTypeOK

(* What is dropped with the links of a mix keeps the types.                *)
LEMMA DropsTyped ==
  ASSUME KXTypeOK, Drops
  PROVE  infos' \in [Links -> Seq(Infos)] /\ answer' \in [Links -> [session : Nat, keys : Nat]]
BY TypedPairs DEF KXTypeOK, Drops

(* A mix that fails takes its links and its lists with it.                 *)
LEMMA KFailsKeeps ==
  ASSUME KXInv, NEW m \in Mixes, KFails(m)
  PROVE  KXInv'
<1>1. CascadeInv /\ KXTypeOK BY DEF KXInv
<1>2. PICK to \in {"sleep", "off"} : ClosesAll(m) /\ Goes(m, to)
  BY DEF KFails, Restarts, OfferFails, TimesOut, Crash, Refuses
<1>3. Forgets(m) /\ Drops BY DEF KFails
<1>4. CascadeInv' BY <1>1, <1>2, GivingUp
<1>5. KXTypeOK' BY <1>1, <1>3, ForgetsTyped, DropsTyped
<1>6. at'[m] = to /\ \A x \in Mixes : x # m => at'[x] = at[x]
  BY <1>1, <1>2 DEF Goes, CascadeInv, CascadeTypeOK
<1>7. ASSUME NEW i \in Links
      PROVE  /\ near'[i] = "live" => near[i] = "live" /\ i # m /\ i + 1 # m
             /\ info'[i] => info[i] /\ infos'[i] = infos[i]
             /\ key'[i] => key[i] /\ answer'[i] = answer[i]
  <2>1. CascadeTypeOK BY <1>1 DEF CascadeInv
  <2>2. /\ i = m => near'[i] = "none" /\ ~info'[i] /\ key'[i] = key[i]
        /\ i + 1 = m => near'[i] = Hangs(near[i]) /\ info'[i] = info[i] /\ ~key'[i]
        /\ i # m /\ i + 1 # m => near'[i] = near[i] /\ info'[i] = info[i] /\ key'[i] = key[i]
    BY <1>2, <2>1, Closed
  <2>3. (info'[i] => infos'[i] = infos[i]) /\ (key'[i] => answer'[i] = answer[i])
    BY <1>3 DEF Drops
  <2> QED BY <2>2, <2>3 DEF Hangs
<1> QED BY <1>2, <1>3, <1>4, <1>5, <1>6, <1>7, LeavesFit

(* A first mix that does not fit to the next one closes its end of the     *)
(* link; what it has sent by then still arrives.                           *)
LEMMA FirstDoesNotFitKeeps ==
  ASSUME KXInv, FirstDoesNotFit
  PROVE  KXInv'
<1>1. CascadeInv /\ KXTypeOK /\ ListsFit BY DEF KXInv
<1>2. CascadeInv' BY <1>1, MisfitKeepsCascade
<1>3. 1 \in Links /\ 1 \in Mixes /\ N \in Nat /\ N >= 2 BY CascadeAssumption DEF Links, Mixes
<1>4. /\ near' = [near EXCEPT ![1] = "none"] /\ info' = [info EXCEPT ![1] = FALSE]
      /\ key' = [key EXCEPT ![1] = near[1] = "live"]
      /\ answer' = [answer EXCEPT ![1] = IF key'[1] THEN Answer(1) ELSE NoAnswer]
      /\ infos' = [infos EXCEPT ![1] = <<>>]
      /\ at' = [at EXCEPT ![1] = "sleep"] /\ Forgets(1) /\ info[1]
  BY DEF FirstDoesNotFit, Goes
<1>5. Answer(1) \in [session : Nat, keys : Nat]
  <2>1. ListFits(1, infos[1], near, session) /\ infos[1] \in Seq(Infos)
    BY <1>1, <1>3, <1>4 DEF ListsFit, KXTypeOK
  <2>2. Len(infos[1]) = N - 1 /\ N - 1 >= 1 BY <1>3, <2>1 DEF ListFits
  <2>3. infos[1] # <<>> /\ Head(infos[1]) \in Infos BY <1>3, <2>1, <2>2
  <2> QED BY <1>1, <1>3, <2>3 DEF Answer, Infos, KXTypeOK
<1>6. answer' \in [Links -> [session : Nat, keys : Nat]] /\ infos' \in [Links -> Seq(Infos)]
  BY <1>1, <1>4, <1>5, TypedPairs DEF KXTypeOK
<1>7. KXTypeOK' BY <1>1, <1>3, <1>4, <1>6, ForgetsTyped
<1>8. at'[1] = "sleep" /\ \A x \in Mixes : x # 1 => at'[x] = at[x]
  BY <1>1, <1>3, <1>4 DEF CascadeInv, CascadeTypeOK
<1>9. ASSUME NEW i \in Links
      PROVE  /\ near'[i] = "live" => near[i] = "live" /\ i # 1 /\ i + 1 # 1
             /\ info'[i] => info[i] /\ infos'[i] = infos[i]
             /\ i # 1 /\ key'[i] => key[i] /\ answer'[i] = answer[i]
  <2>1. i + 1 # 1 BY NeighboursAreMixes DEF Links
  <2>2. CASE i = 1 BY <1>1, <1>4, <2>2 DEF CascadeInv, CascadeTypeOK
  <2>3. CASE i # 1 BY <1>1, <1>4, <2>1, <2>3 DEF CascadeInv, CascadeTypeOK, KXTypeOK
  <2> QED BY <2>2, <2>3
<1> QED BY <1>2, <1>3, <1>4, <1>7, <1>8, <1>9, LeavesFit

(* A link that is lost takes what was on its way with it.                  *)
LEMMA KLoseLinkKeeps ==
  ASSUME KXInv, NEW l \in Links, KLoseLink(l)
  PROVE  KXInv'
<1>1. CascadeInv /\ KXTypeOK /\ ListsFit /\ KeysFit /\ UserFits BY DEF KXInv
<1>2. LoseLink(l) /\ Drops BY DEF KLoseLink
<1>3. UNCHANGED <<kxconf, session, fits, list, outKeys, inKeys, told, user>> /\ at' = at
  BY <1>2 DEF KLoseLink, LoseLink
<1>4. CascadeInv' BY <1>1, <1>2, LossKeeps
<1>5. KXTypeOK' BY <1>1, <1>2, <1>3, DropsTyped DEF KXTypeOK, kxconf
<1>6. \A i \in Links : /\ near'[i] = "live" => near[i] = "live"
                       /\ info'[i] => info[i] /\ infos'[i] = infos[i]
                       /\ key'[i] => key[i] /\ answer'[i] = answer[i]
  <2>1. \A i \in Links : /\ near'[i] = "live" => near[i] = "live"
                         /\ info'[i] => info[i]
                         /\ key'[i] => key[i]
    BY <1>1, <1>2 DEF LoseLink, CascadeInv, CascadeTypeOK
  <2> QED BY <1>2, <2>1 DEF Drops
<1>7. ListsFit'
  <2>1. \A x \in Mixes : IF at'[x] = "offer" THEN at[x] = "offer" /\ list'[x] = list[x]
                         ELSE list'[x] = <<>>
    BY <1>1, <1>3 DEF ListsFit
  <2>2. session' = session /\ told' = told BY <1>3
  <2>3. \A i \in Links : near'[i] = "live" => near[i] = "live" /\ session'[i + 1] = session[i + 1]
    BY <1>6, <2>2
  <2>4. \A i \in Links : info'[i] => info[i] /\ infos'[i] = infos[i] BY <1>6
  <2> QED BY <1>1, <1>3, <2>1, <2>2, <2>3, <2>4, ListsCarried
<1>8. KeysFit'
  <2>1. ASSUME NEW i \in Links PROVE KeysAt(i)'
    <3>1. KeysAt(i) BY <1>1 DEF KeysFit
    <3>2. /\ near'[i] = "live" => near[i] = "live"
          /\ key'[i] => key[i] /\ answer'[i] = answer[i]
      BY <1>6
    <3>3. at' = at /\ session' = session /\ fits' = fits /\ outKeys' = outKeys /\ inKeys' = inKeys
          /\ kxconf' = kxconf
      BY <1>3
    <3> QED BY <3>1, <3>2, <3>3, ConfStays DEF KeysAt, kxconf
  <2> QED BY <1>1, <1>3, <2>1 DEF KeysFit
<1>9. UserFits' BY <1>1, <1>3 DEF UserFits
<1> QED BY <1>4, <1>5, <1>7, <1>8, <1>9 DEF KXInv

(* Mixes that are started, users, and steps that change nothing.           *)
LEMMA OthersKeep ==
  ASSUME KXInv,
         \/ \E m \in Mixes : StartMix(m) /\ UNCHANGED kxvars
         \/ UserIsTold \/ UserLogsIn \/ UserLogsOut \/ UNCHANGED <<cvars, kxvars>>
  PROVE  KXInv'
<1>1. CascadeInv /\ KXTypeOK /\ ListsFit /\ KeysFit /\ UserFits BY DEF KXInv
<1>2. UNCHANGED <<near, far, info, key, kxconf, session, fits, list, infos, answer, outKeys, inKeys, told>>
  BY DEF StartMix, UserIsTold, UserLogsIn, UserLogsOut, cvars, kxvars
<1>3. at \in [Mixes -> Phases] BY <1>1 DEF CascadeInv, CascadeTypeOK
<1>4. \A x \in Mixes : at'[x] = at[x] \/ (at[x] = "off" /\ at'[x] = "sleep")
  <2>1. CASE \E m \in Mixes : StartMix(m) BY <1>3, <2>1 DEF StartMix, Goes
  <2>2. CASE at' = at BY <2>2
  <2> QED BY <2>1, <2>2 DEF UserIsTold, UserLogsIn, UserLogsOut, cvars
<1>5. CascadeInv'
  <2>1. CASE \E m \in Mixes : StartMix(m) BY <1>1, <2>1, BeginKeeps
  <2>2. CASE at' = at
    BY <1>1, <1>2, <2>2 DEF CascadeInv, CascadeTypeOK, LinkAgrees, Exchange, NoGap
  <2> QED BY <2>1, <2>2 DEF UserIsTold, UserLogsIn, UserLogsOut, cvars
<1>6. /\ user' \in [in : BOOLEAN, layers : Seq(Infos)]
      /\ UserFits'
  <2>1. user \in [in : BOOLEAN, layers : Seq(Infos)] /\ told \in Seq(Infos)
    BY <1>1 DEF KXTypeOK
  <2>2. Reverse(told) \in Seq(Infos)
    <3>1. \A i \in 1..Len(told) : told[(Len(told) - i) + 1] \in Infos BY <2>1
    <3> QED BY <2>1, <3>1 DEF Reverse
  <2>3. CASE user' = user
    <3>1. at[1] = "online" => at'[1] = "online" BY <1>4, OneIsAMix
    <3> QED BY <1>1, <1>2, <2>1, <2>3, <3>1 DEF UserFits
  <2>4. CASE UserIsTold
    <3>1. user' = [in |-> FALSE, layers |-> Reverse(told)] /\ at[1] = "online" /\ at' = at
      BY <2>4 DEF UserIsTold, cvars
    <3> QED BY <1>2, <2>2, <3>1 DEF UserFits
  <2>5. CASE user' = Nobody
    BY <2>5, TypedPairs DEF UserFits, Nobody
  <2>6. CASE UserLogsIn /\ user' = [user EXCEPT !.in = TRUE]
    <3>1. user'.layers = user.layers /\ user.layers # <<>> /\ at' = at
          /\ user' \in [in : BOOLEAN, layers : Seq(Infos)]
      BY <2>1, <2>6 DEF UserLogsIn, cvars
    <3> QED BY <1>1, <1>2, <3>1 DEF UserFits
  <2> QED BY <2>3, <2>4, <2>5, <2>6 DEF UserLogsIn, UserLogsOut, kxvars
<1>7. KXTypeOK' BY <1>1, <1>2, <1>6 DEF KXTypeOK, kxconf
<1>8. ListsFit'
  <2>1. \A x \in Mixes : IF at'[x] = "offer" THEN at[x] = "offer" /\ list'[x] = list[x]
                         ELSE list'[x] = <<>>
    BY <1>1, <1>2, <1>4 DEF ListsFit
  <2>2. at'[1] = "online" => at[1] = "online" BY <1>4, OneIsAMix
  <2> QED BY <1>1, <1>2, <2>1, <2>2, ListsCarried
<1>9. KeysFit'
  <2>1. ASSUME NEW i \in Links PROVE KeysAt(i)'
    <3>1. KeysAt(i) /\ i \in Mixes /\ i + 1 \in Mixes BY <1>1, NeighboursAreMixes DEF KeysFit
    <3>2. /\ at'[i] \in Past => at[i] \in Past
          /\ at'[i + 1] = "online" => at[i + 1] = "online"
      BY <1>4, <3>1 DEF Past
    <3> QED BY <1>2, <3>1, <3>2, ConfStays DEF KeysAt, kxconf
  <2> QED BY <1>1, <1>2, <1>4, <2>1 DEF KeysFit
<1> QED BY <1>5, <1>6, <1>7, <1>8, <1>9 DEF KXInv

(* No list and no keys exist at first.                                     *)
LEMMA KXInitHolds == KXInit => KXInv
<1> SUFFICES ASSUME KXInit PROVE KXInv OBVIOUS
<1>1. CascadeInv BY InitHolds DEF KXInit
<1>2. KXTypeOK BY TypedPairs DEF KXInit, KXTypeOK
<1>3. \A m \in Mixes : at[m] = "sleep" BY DEF KXInit, CascadeInit
<1>4. ListsFit BY <1>3, OneIsAMix DEF KXInit, CascadeInit, ListsFit
<1>5. KeysFit
  <2>1. \A i \in Links : KeysAt(i)
    BY <1>3, NeighboursAreMixes DEF KXInit, CascadeInit, KeysAt, Past
  <2> QED BY <1>3, <2>1, OneIsAMix DEF KXInit, KeysFit
<1>6. UserFits BY DEF KXInit, UserFits, Nobody
<1> QED BY <1>1, <1>2, <1>4, <1>5, <1>6 DEF KXInv

(* Every step of the key exchange preserves the invariant.                 *)
LEMMA KXStepKeeps == KXInv /\ [KXNext]_<<cvars, kxvars>> => KXInv'
<1> SUFFICES ASSUME KXInv, [KXNext]_<<cvars, kxvars>> PROVE KXInv' OBVIOUS
<1> QED BY KBeginKeeps, KConnectKeeps, KReceiveInfoKeeps, KSendInfoKeeps, KReceiveKeyKeeps,
           KFailsKeeps, FirstDoesNotFitKeeps, KLoseLinkKeeps, OthersKeep DEF KXNext

(* The keys of neighbours are of the same exchange when the invariant      *)
(* holds.                                                                  *)
LEMMA InvGivesKeys == KXInv => KeysAgree
<1> SUFFICES ASSUME KXInv, NEW i \in Links, near[i] = "live", at[i + 1] = "online"
             PROVE  /\ inKeys[i + 1].receive = outKeys[i].send /\ outKeys[i].send # <<>>
                    /\ inKeys[i + 1].send = outKeys[i].receive
                    /\ at[i] = "online" =>
                         /\ outdated[i] = {}
                         /\ CheckCompatibility(i, i + 1) /\ CheckCompatibility(i + 1, i)
  BY DEF KeysAgree
<1>1. LinkAgrees(i) /\ KeysAt(i) /\ KXTypeOK /\ KeysFit /\ i \in Mixes
  BY NeighboursAreMixes DEF KXInv, CascadeInv, KeysFit
<1>2. at[i] \in Past BY <1>1 DEF LinkAgrees, Exchange, Past
<1>3. /\ outKeys[i] = SymKeys(session[i]) /\ inKeys[i + 1] = OtherHalves(session[i])
      /\ VerifiesNext(i) /\ "far" \notin outdated[i]
  BY <1>1, <1>2 DEF KeysAt
<1>4. <<session[i], 1>> # <<>> OBVIOUS
<1>5. outdated[i] = {} BY <1>1, <1>3 DEF VerifiesNext, KXTypeOK
<1>6. at[i] = "online" => CheckCompatibility(i, i + 1) /\ CheckCompatibility(i + 1, i)
  BY <1>1, <1>2 DEF KeysAt, KeysFit
<1> QED BY <1>3, <1>4, <1>5, <1>6 DEF SymKeys, OtherHalves

(* The entries the users encrypt for are those of the mixes on line when   *)
(* the invariant holds.                                                    *)
LEMMA InvGivesLayers == KXInv => LayersFit
<1> SUFFICES ASSUME KXInv, user.in, \A i \in Links : near[i] = "live"
             PROVE  Reverse(user.layers) = [m \in Mixes |-> Entry(m)]
  BY DEF LayersFit
<1>1. KXTypeOK /\ ListsFit /\ UserFits BY DEF KXInv
<1>2. user.layers = Reverse(told) /\ ListFits(0, told, near, session)
  BY <1>1 DEF UserFits, ListsFit
<1>3. told \in Seq(Infos) /\ Len(told) = N /\ N \in Nat
  BY <1>1, <1>2, CascadeAssumption DEF KXTypeOK, ListFits
<1>4. Reverse(Reverse(told)) = told
  <2>1. /\ DOMAIN Reverse(told) = 1..N /\ Len(Reverse(told)) = N
        /\ \A i \in 1..N : Reverse(told)[i] = told[(N - i) + 1]
    BY <1>3 DEF Reverse
  <2>2. \A i \in 1..N : (N - i) + 1 \in 1..N /\ (N - ((N - i) + 1)) + 1 = i
    <3>1. N \in Nat BY <1>3
    <3> QED BY ONLY <3>1
  <2>3. \A i \in 1..N : Reverse(told)[(N - i) + 1] = told[i] BY <2>1, <2>2
  <2>4. Reverse(Reverse(told)) = [i \in 1..N |-> Reverse(told)[(N - i) + 1]]
    <3> PICK r, n : r = Reverse(told) /\ n = N OBVIOUS
    <3>1. Reverse(r) = [i \in 1..n |-> r[(n - i) + 1]] BY ONLY <2>1, r = Reverse(told) /\ n = N DEF Reverse
    <3> QED BY ONLY <3>1, r = Reverse(told) /\ n = N
  <2>5. told = [i \in 1..N |-> told[i]] BY <1>3
  <2> QED BY <2>3, <2>4, <2>5
<1>5. ASSUME NEW j \in Mixes PROVE told[j] = Entry(j)
  <2>1. j \in Nat /\ 0 < j /\ j - 0 = j /\ j \in 1..Len(told) BY <1>3 DEF Mixes
  <2>2. told[j].mix = j /\ told[j].session = session[j]
    BY <1>2, <2>1 DEF ListFits, Reach
  <2>3. told[j] \in Infos BY <1>3, <2>1
  <2> QED BY <2>2, <2>3 DEF Infos, Entry
<1>6. told = [m \in Mixes |-> Entry(m)] BY <1>3, <1>5 DEF Mixes
<1> QED BY <1>2, <1>4, <1>6

(* The mixes at both ends of a link use each other's keys, and have        *)
(* accepted each other, in a cascade of any length, with any certificates, *)
(* versions and flags, and whatever breaks (processKeyExchange).           *)
THEOREM NeighboursUseTheSameKeys == KXSpec => []KeysAgree
BY KXInitHolds, KXStepKeeps, InvGivesKeys, PTL DEF KXSpec

(* A user who is logged in encrypts for all the mixes of the cascade, in   *)
(* their order, and for key pairs they have (CAFirstMix::doUserLogin).     *)
THEOREM UsersEncryptForTheMixes == KXSpec => []LayersFit
BY KXInitHolds, KXStepKeeps, InvGivesLayers, PTL DEF KXSpec

-----------------------------------------------------------------------------
(* Keep-alive traffic.                                                     *)

(* Offers for which none of the 32-bit differences and sums of the two     *)
(* computations wraps around: the sender does not offer less than the      *)
(* margin of ten seconds, and neither offer is close to 2^32 ms.           *)
NothingWraps ==
  /\ \A s \in SendOffers : Margin <= s /\ s + Margin < Word
  /\ \A r \in RecvOffers : r + Margin < Word

(* What the two mixes have computed: the sender's interval and the longest *)
(* delay fit into the receiver's.                                          *)
LEMMA IntervalsFit ==
  ASSUME NothingWraps, sendOffer \in SendOffers, recvOffer \in RecvOffers
  PROVE  SendsEvery \in Nat /\ WaitsFor \in Nat /\ SendsEvery + MaxDelay <= WaitsFor
<1>1. /\ Word \in Nat /\ Margin \in Nat /\ MaxDelay \in Nat
      /\ MaxDelay < Margin /\ Margin < Word
      /\ sendOffer \in Nat /\ recvOffer \in Nat
      /\ Margin <= sendOffer /\ sendOffer + Margin < Word /\ recvOffer + Margin < Word
  BY KeepAliveAssumption DEF NothingWraps
<1>2. ASSUME NEW x \in Nat, x < Word, Margin <= x PROVE Minus(x, Margin) = x - Margin
  BY <1>1, <1>2 DEF Minus
<1>3. ASSUME NEW x \in Nat, x < Margin PROVE Minus(x, Margin) = x + Word - Margin
  BY <1>1, <1>3 DEF Minus
<1>4. ASSUME NEW x \in Nat, x + Margin < Word PROVE Plus(x, Margin) = x + Margin
  BY <1>1, <1>4 DEF Plus
<1>5. SendsEvery = IF Margin <= recvOffer /\ sendOffer > recvOffer - Margin
                   THEN sendOffer - Margin ELSE sendOffer
  BY <1>1, <1>2, <1>3 DEF SendsEvery, SendInterval
<1>6. WaitsFor >= sendOffer /\ WaitsFor \in Nat
  <2> DEFINE r == Larger(recvOffer, sendOffer)
  <2>1. r \in Nat /\ r >= sendOffer /\ r + Margin < Word BY <1>1 DEF Larger
  <2>2. WaitsFor = IF Minus(r, Margin) < sendOffer THEN r + Margin ELSE r
    BY <1>4, <2>1 DEF WaitsFor, RecvInterval
  <2> QED BY <1>1, <2>1, <2>2
<1>7. ~(Margin <= recvOffer /\ sendOffer > recvOffer - Margin) => WaitsFor >= sendOffer + Margin
  <2>1. CASE recvOffer < Margin
    <3>1. Larger(recvOffer, sendOffer) = sendOffer BY <1>1, <2>1 DEF Larger
    <3>2. Minus(sendOffer, Margin) = sendOffer - Margin BY <1>1, <1>2
    <3> QED BY <1>1, <1>4, <3>1, <3>2 DEF WaitsFor, RecvInterval
  <2>2. CASE Margin <= recvOffer /\ sendOffer <= recvOffer - Margin
    <3>1. Larger(recvOffer, sendOffer) = recvOffer BY <1>1, <2>2 DEF Larger
    <3>2. Minus(recvOffer, Margin) = recvOffer - Margin BY <1>1, <1>2, <2>2
    <3> QED BY <1>1, <2>2, <3>1, <3>2 DEF WaitsFor, RecvInterval
  <2> QED BY <1>1, <2>1, <2>2
<1> QED BY <1>1, <1>5, <1>6, <1>7

(* The sender is never silent for longer than its interval, and the        *)
(* receiver has waited no longer than that plus the age of some packet     *)
(* that is on its way to it.                                               *)
KeepAliveInv ==
  /\ sendOffer \in SendOffers /\ recvOffer \in RecvOffers
  /\ sinceSent \in Nat /\ sinceSent <= SendsEvery /\ sinceHeard \in Nat
  /\ onTheWay \subseteq 0..MaxDelay
  /\ IF onTheWay = {} THEN sinceHeard <= sinceSent
     ELSE \E a \in onTheWay : sinceHeard <= SendsEvery + a
  /\ ~broken

(* A connection starts with both clocks at zero.                           *)
LEMMA KeepAliveInit == NothingWraps /\ KInit => KeepAliveInv
BY IntervalsFit DEF KInit, KeepAliveInv

(* Neither time nor a packet lets the receiver wait for longer than it     *)
(* accepts.                                                                *)
LEMMA KeepAliveStep == NothingWraps /\ KeepAliveInv /\ [KNext]_kvars => KeepAliveInv'
<1> SUFFICES ASSUME NothingWraps, KeepAliveInv, [KNext]_kvars PROVE KeepAliveInv'
  OBVIOUS
<1> USE DEF KeepAliveInv
<1>1. SendsEvery \in Nat /\ WaitsFor \in Nat /\ SendsEvery + MaxDelay <= WaitsFor
  BY IntervalsFit
<1>2. MaxDelay \in Nat BY KeepAliveAssumption
<1>3. UNCHANGED <<sendOffer, recvOffer>> => SendsEvery' = SendsEvery
  BY DEF SendsEvery
<1>4. CASE KTick
  <2>1. SendsEvery' = SendsEvery BY <1>3, <1>4 DEF KTick
  <2>2. onTheWay' \subseteq 0..MaxDelay BY <1>2, <1>4 DEF KTick
  <2>3. ASSUME NEW a \in onTheWay, sinceHeard <= SendsEvery + a
        PROVE  a + 1 \in onTheWay' /\ sinceHeard' <= SendsEvery' + (a + 1)
    <3>1. a + 1 \in onTheWay' BY <1>4 DEF KTick
    <3>2. a \in Nat BY <1>2
    <3>3. sinceHeard' = sinceHeard + 1 BY <1>4 DEF KTick
    <3>4. sinceHeard \in Nat /\ SendsEvery \in Nat BY <1>1
    <3>5. sinceHeard' <= SendsEvery + (a + 1) BY <2>3, <3>2, <3>3, <3>4
    <3> QED BY <2>1, <3>1, <3>5
  <2>4. onTheWay = {} => onTheWay' = {} /\ sinceHeard' <= sinceSent' BY <1>4 DEF KTick
  <2>5. /\ sinceSent' \in Nat /\ sinceSent' <= SendsEvery' /\ sinceHeard' \in Nat
        /\ sendOffer' \in SendOffers /\ recvOffer' \in RecvOffers /\ ~broken'
    BY <1>1, <1>4, <2>1 DEF KTick
  <2>6. CASE onTheWay = {}
    BY <2>2, <2>4, <2>5, <2>6
  <2>7. CASE onTheWay # {}
    <3>1. PICK a \in onTheWay : sinceHeard <= SendsEvery + a BY <2>7
    <3>2. a + 1 \in onTheWay' /\ sinceHeard' <= SendsEvery' + (a + 1) BY <2>3, <3>1
    <3> QED BY <2>2, <2>5, <3>2
  <2> QED BY <2>6, <2>7
<1>5. CASE SendAny
  <2>1. SendsEvery' = SendsEvery BY <1>3, <1>5 DEF SendAny
  <2>2. onTheWay = {} => 0 \in onTheWay' /\ sinceHeard' <= SendsEvery' + 0
    BY <1>1, <1>5, <2>1 DEF SendAny
  <2>3. \A a \in onTheWay : a \in onTheWay' BY <1>5 DEF SendAny
  <2>4. onTheWay' \subseteq 0..MaxDelay BY <1>2, <1>5 DEF SendAny
  <2> QED BY <1>1, <1>5, <2>1, <2>2, <2>3, <2>4 DEF SendAny
<1>6. CASE Receive
  <2>1. SendsEvery' = SendsEvery BY <1>3, <1>6 DEF Receive
  <2>2. onTheWay' \subseteq 0..MaxDelay BY <1>6 DEF Receive
  <2>3. sinceHeard' = 0 BY <1>6 DEF Receive
  <2>4. \A a \in onTheWay' : sinceHeard' <= SendsEvery' + a BY <1>1, <1>2, <2>1, <2>2, <2>3
  <2> QED BY <1>1, <1>6, <2>1, <2>2, <2>3, <2>4 DEF Receive
<1>7. ~GivesUp
  <2>1. sinceHeard <= SendsEvery + MaxDelay BY <1>1, <1>2
  <2> QED BY <1>1, <1>2, <2>1 DEF GivesUp
<1>8. CASE UNCHANGED kvars
  BY <1>3, <1>8 DEF kvars
<1> QED BY <1>4, <1>5, <1>6, <1>7, <1>8 DEF KNext

(* For any two offers the computations of which do not wrap around, and    *)
(* packets that need less than the margin of ten seconds on their way: the *)
(* keep-alive traffic of a sender keeps its neighbour from giving up the   *)
(* connection, however long no user sends anything.                        *)
THEOREM SilentUsersKeepLink ==
  ASSUME NothingWraps
  PROVE  KSpec => []IdleLinkSurvives
<1>1. KeepAliveInv => IdleLinkSurvives BY DEF KeepAliveInv, IdleLinkSurvives
<1> QED BY <1>1, KeepAliveInit, KeepAliveStep, PTL DEF KSpec
=============================================================================

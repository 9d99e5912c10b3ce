--------------------------- MODULE SettlementProofs ---------------------------
(***************************************************************************)
(* Proofs about the settlement transactions and about the accounts they    *)
(* settle while their users go on transferring, for any number of threads. *)
(*                                                                         *)
(* The order of the answers rests on TicketInv: whose answer is in line    *)
(* holds the numbers from nextSettleNr on, one after the other, and the    *)
(* thread that has applied its answer but has not yet gone on holds the    *)
(* first of them.                                                          *)
(*                                                                         *)
(* That no verdict on an account gets lost rests on FlagsFit: who is taken *)
(* for an empty account while online is one in the login table, too, and   *)
(* so a packet that takes any other verdict back has ended the connection. *)
(*                                                                         *)
(* What a user may owe rests on Owes: he gets online with nothing to pay,  *)
(* every packet that takes his credit below the prepaid interval is the    *)
(* last one, and results that move the counters to another cost            *)
(* confirmation keep their difference.  The rest is what the stored        *)
(* numbers are (StoreFits) and how they wrap.                              *)
(***************************************************************************)
EXTENDS AccountTraffic, TLAPS

Places == {"idle", "asking", "waiting", "woken", "apply", "finish"}

TicketTypes ==
  /\ nextSettleNr \in Nat /\ settleWaitNr \in Nat
  /\ settler \in [Settlers -> Places]
  /\ myWaitNr \in [Settlers -> Nat]
  /\ answered \in Seq(Settlers)

(* The number held by a thread that is about to signal.                    *)
Finishing == IF \E t \in Settlers : settler[t] = "finish" THEN 1 ELSE 0

InLine(t) == settler[t] \in {"waiting", "woken", "apply"}

OneAtWork ==
  \A t, u \in Settlers :
    settler[t] \in {"apply", "finish"} /\ settler[u] \in {"apply", "finish"} => t = u

NumbersInUse == settleWaitNr = nextSettleNr + Len(answered) + Finishing

NumbersInOrder ==
  \A i \in 1..Len(answered) :
    /\ InLine(answered[i])
    /\ myWaitNr[answered[i]] = nextSettleNr + (i - 1) + Finishing

AllInLine ==
  \A t \in Settlers : InLine(t) => \E i \in 1..Len(answered) : answered[i] = t

ApplyInTurn ==
  \A t \in Settlers : settler[t] = "apply" => myWaitNr[t] = nextSettleNr

TicketInv ==
  TicketTypes /\ OneAtWork /\ NumbersInUse /\ NumbersInOrder /\ AllInLine /\ ApplyInTurn

(* Nobody finishes while a thread applies its answer, and it is the head.  *)
LEMMA ApplyIsHead ==
  ASSUME TicketInv, NEW t \in Settlers, settler[t] = "apply"
  PROVE  Finishing = 0 /\ Len(answered) > 0 /\ answered[1] = t
<1>1. Finishing = 0
  BY DEF TicketInv, OneAtWork, Finishing
<1>2. PICK i \in 1..Len(answered) : answered[i] = t
  BY DEF TicketInv, AllInLine, InLine
<1>3. i = 1
  BY <1>1, <1>2 DEF TicketInv, TicketTypes, NumbersInOrder, ApplyInTurn
<1> QED BY <1>1, <1>2, <1>3 DEF TicketInv, TicketTypes

(* Every step preserves the order of the answers.                          *)
LEMMA TicketStep ==
  ASSUME TicketInv, SettlementNext \/ UNCHANGED settlementVars
  PROVE  TicketInv'
<1> USE DEF TicketInv
<1>1. ASSUME UNCHANGED tickets PROVE TicketInv'
  BY <1>1 DEF tickets, TicketTypes, OneAtWork, NumbersInUse, NumbersInOrder, AllInLine,
              ApplyInTurn, InLine, Finishing
<1>2. ASSUME NEW t \in Settlers, Ask(t) \/ AskInVain(t) PROVE TicketInv'
  <2>1. /\ settler[t] \in {"idle", "asking"}
        /\ \E p \in {"idle", "asking"} : settler' = [settler EXCEPT ![t] = p]
        /\ UNCHANGED <<nextSettleNr, settleWaitNr, myWaitNr, answered>>
    BY <1>2 DEF Ask, AskInVain, Goes
  <2>2. Finishing' = Finishing
    BY <2>1 DEF Finishing, TicketTypes
  <2> QED
    BY <2>1, <2>2 DEF TicketTypes, Places, OneAtWork, NumbersInUse, NumbersInOrder, AllInLine,
                      ApplyInTurn, InLine
<1>3. ASSUME NEW t \in Settlers, WakeSpuriously(t) \/ WaitAgain(t) PROVE TicketInv'
  <2>1. /\ settler[t] \in {"waiting", "woken"}
        /\ \E p \in {"waiting", "woken"} : settler' = [settler EXCEPT ![t] = p]
        /\ UNCHANGED <<nextSettleNr, settleWaitNr, myWaitNr, answered>>
    BY <1>3 DEF WakeSpuriously, WaitAgain, Goes
  <2>2. Finishing' = Finishing
    BY <2>1 DEF Finishing, TicketTypes
  <2>3. TicketTypes' BY <2>1 DEF TicketTypes, Places
  <2>4. \A u \in Settlers : /\ InLine(u)' <=> InLine(u)
                            /\ settler'[u] \in {"apply", "finish"} <=> settler[u] \in {"apply", "finish"}
                            /\ settler'[u] = "apply" => settler[u] = "apply"
    BY <2>1 DEF TicketTypes, InLine
  <2>5. OneAtWork' /\ ApplyInTurn' BY <2>1, <2>4 DEF OneAtWork, ApplyInTurn
  <2>6. NumbersInUse' BY <2>1, <2>2 DEF NumbersInUse
  <2>7. \A i \in 1..Len(answered) : answered[i] \in Settlers BY DEF TicketTypes
  <2>8. NumbersInOrder' BY <2>1, <2>2, <2>4, <2>7 DEF NumbersInOrder
  <2>9. AllInLine' BY <2>1, <2>4 DEF AllInLine
  <2> QED BY <2>3, <2>5, <2>6, <2>8, <2>9
<1>4. ASSUME NEW t \in Settlers, Answer(t) PROVE TicketInv'
  <2>1. settler[t] = "asking" /\ answered' = Append(answered, t)
    BY <1>4 DEF Answer
  <2>2. CASE TakeTurn(t)
    <3>1. Len(answered) = 0 /\ Finishing = 0
      BY <2>2 DEF TakeTurn, NumbersInUse, TicketTypes, Finishing
    <3>2. \A u \in Settlers : settler[u] \notin {"apply", "finish", "waiting", "woken"}
      BY <3>1 DEF AllInLine, InLine, Finishing, TicketTypes
    <3>3. /\ nextSettleNr' = 0 /\ settleWaitNr' = 1 /\ Len(answered') = 1 /\ answered'[1] = t
          /\ settler' = [settler EXCEPT ![t] = "apply"]
          /\ myWaitNr' = [myWaitNr EXCEPT ![t] = 0]
          /\ answered' \in Seq(Settlers)
      BY <2>1, <2>2, <3>1 DEF TakeTurn, Goes, TicketTypes
    <3>4. Finishing' = 0
      BY <3>2, <3>3 DEF Finishing, TicketTypes
    <3> QED
      BY <3>2, <3>3, <3>4 DEF TicketTypes, Places, OneAtWork, NumbersInUse, NumbersInOrder,
                              AllInLine, ApplyInTurn, InLine
  <2>3. CASE TakeNumber(t)
    <3>1. /\ settler' = [settler EXCEPT ![t] = "waiting"]
          /\ myWaitNr' = [myWaitNr EXCEPT ![t] = settleWaitNr]
          /\ settleWaitNr' = settleWaitNr + 1 /\ UNCHANGED nextSettleNr
      BY <2>3 DEF TakeNumber, Goes
    <3>2. /\ answered' \in Seq(Settlers) /\ Len(answered') = Len(answered) + 1
          /\ answered'[Len(answered) + 1] = t
          /\ \A i \in 1..Len(answered) : answered'[i] = answered[i]
      BY <2>1 DEF TicketTypes
    <3>3. Finishing' = Finishing /\ Finishing \in {0, 1}
      BY <2>1, <3>1 DEF Finishing, TicketTypes
    <3>4. \A i \in 1..Len(answered) : answered[i] # t /\ answered[i] \in Settlers
      <4> SUFFICES ASSUME NEW i \in 1..Len(answered)
                   PROVE  answered[i] # t /\ answered[i] \in Settlers
        OBVIOUS
      <4>1. answered[i] \in Settlers
        BY DEF TicketTypes
      <4>2. InLine(answered[i])
        BY DEF NumbersInOrder
      <4> QED BY <2>1, <4>1, <4>2 DEF InLine
    <3>5. TicketTypes'
      BY <3>1, <3>2 DEF TicketTypes, Places
    <3>6. NumbersInUse' /\ OneAtWork' /\ ApplyInTurn'
      BY <2>1, <3>1, <3>2, <3>3
      DEF NumbersInUse, OneAtWork, ApplyInTurn, TicketTypes
    <3>7. NumbersInOrder'
      <4> SUFFICES ASSUME NEW i \in 1..Len(answered')
                   PROVE  /\ InLine(answered[i])'
                          /\ myWaitNr'[answered'[i]] = nextSettleNr' + (i - 1) + Finishing'
        BY DEF NumbersInOrder, InLine
      <4>1. CASE i = Len(answered) + 1
        <5>1. InLine(answered[i])'
          BY <4>1, <3>1, <3>2 DEF InLine, TicketTypes
        <5>2. myWaitNr'[answered'[i]] = settleWaitNr
          BY <4>1, <3>1, <3>2 DEF TicketTypes
        <5> QED BY <4>1, <5>1, <5>2, <3>1, <3>3 DEF NumbersInUse, TicketTypes
      <4>2. CASE i # Len(answered) + 1
        <5>1. i \in 1..Len(answered) /\ answered'[i] = answered[i]
          BY <4>2, <3>2 DEF TicketTypes
        <5>2. answered[i] # t /\ answered[i] \in Settlers
          BY <5>1, <3>4
        <5>3. InLine(answered[i]) /\ myWaitNr[answered[i]] = nextSettleNr + (i - 1) + Finishing
          BY <5>1 DEF NumbersInOrder
        <5>4. settler'[answered[i]] = settler[answered[i]] /\ myWaitNr'[answered[i]] = myWaitNr[answered[i]]
          BY <5>2, <3>1 DEF TicketTypes
        <5> QED BY <5>1, <5>3, <5>4, <3>1, <3>3 DEF InLine
      <4> QED BY <4>1, <4>2
    <3>8. AllInLine'
      <4> SUFFICES ASSUME NEW u \in Settlers, InLine(u)'
                   PROVE  \E i \in 1..Len(answered') : answered'[i] = u
        BY DEF AllInLine
      <4>1. CASE u = t
        BY <4>1, <3>2 DEF TicketTypes
      <4>2. CASE u # t
        <5>1. InLine(u)
          BY <4>2, <3>1 DEF InLine, TicketTypes
        <5>2. PICK i \in 1..Len(answered) : answered[i] = u
          BY <5>1 DEF AllInLine
        <5>3. i \in 1..Len(answered') /\ answered'[i] = u
          BY <5>2, <3>2 DEF TicketTypes
        <5> QED BY <5>3
      <4> QED BY <4>1, <4>2
    <3> QED BY <3>5, <3>6, <3>7, <3>8
  <2> QED BY <1>4, <2>2, <2>3 DEF Answer
<1>5. ASSUME NEW t \in Settlers, GoOn(t) PROVE TicketInv'
  <2>1. /\ settler[t] = "woken" /\ myWaitNr[t] = nextSettleNr
        /\ settler' = [settler EXCEPT ![t] = "apply"]
        /\ UNCHANGED <<nextSettleNr, settleWaitNr, myWaitNr, answered>>
    BY <1>5 DEF GoOn, Goes
  <2>2. PICK i \in 1..Len(answered) : answered[i] = t
    BY <2>1 DEF AllInLine, InLine
  <2>3. i = 1 /\ Finishing = 0
    BY <2>1, <2>2 DEF NumbersInOrder, TicketTypes, Finishing
  <2>4. \A u \in Settlers : settler[u] \notin {"apply", "finish"}
    BY <2>1, <2>2, <2>3, ApplyIsHead DEF Finishing
  <2>5. Finishing' = 0
    BY <2>1, <2>4 DEF Finishing, TicketTypes
  <2> QED
    BY <2>1, <2>3, <2>4, <2>5 DEF TicketTypes, Places, OneAtWork, NumbersInUse, NumbersInOrder,
                                  AllInLine, ApplyInTurn, InLine
<1>6. ASSUME NEW t \in Settlers, Apply(t) PROVE TicketInv'
  <2>1. /\ settler[t] = "apply" /\ answered' = Without(answered, t)
        /\ settler' = [settler EXCEPT ![t] = "finish"]
        /\ UNCHANGED <<nextSettleNr, settleWaitNr, myWaitNr>>
    BY <1>6 DEF Apply, Goes
  <2>2. Finishing = 0 /\ Len(answered) > 0 /\ answered[1] = t
    BY <2>1, ApplyIsHead
  <2>3. \A i \in 1..Len(answered) : answered[i] = t => i = 1
    <3> SUFFICES ASSUME NEW i \in 1..Len(answered), answered[i] = t PROVE i = 1
      OBVIOUS
    <3>1. /\ myWaitNr[t] = nextSettleNr + (i - 1) + Finishing
          /\ myWaitNr[t] = nextSettleNr + (1 - 1) + Finishing
      <4>1. 1 \in 1..Len(answered) BY <2>2 DEF TicketTypes
      <4>2. NumbersInOrder OBVIOUS
      <4> QED BY ONLY <2>2, <4>1, <4>2, i \in 1..Len(answered), answered[i] = t DEF NumbersInOrder
    <3>2. nextSettleNr \in Nat BY DEF TicketTypes
    <3> QED BY ONLY <2>2, <3>1, <3>2, i \in 1..Len(answered)
  <2>4. Place(answered, t) = 1
    BY <2>2, <2>3 DEF Place, TicketTypes
  <2>5. answered' = [j \in 1..(Len(answered) - 1) |-> answered[j + 1]]
    BY <2>1, <2>4 DEF Without
  <2>6. /\ answered' \in Seq(Settlers) /\ Len(answered') = Len(answered) - 1
        /\ \A j \in 1..(Len(answered) - 1) : answered'[j] = answered[j + 1]
    BY <2>2, <2>5 DEF TicketTypes
  <2>7. Finishing' = 1
    BY <2>1 DEF Finishing, TicketTypes
  <2>8. \A u \in Settlers : u # t => settler[u] \notin {"apply", "finish"}
    BY <2>1 DEF OneAtWork
  <2>9. TicketTypes' /\ OneAtWork' /\ NumbersInUse' /\ ApplyInTurn'
    BY <2>1, <2>2, <2>6, <2>7, <2>8
    DEF TicketTypes, Places, OneAtWork, NumbersInUse, ApplyInTurn
  <2>10. NumbersInOrder'
    <3> SUFFICES ASSUME NEW j \in 1..Len(answered')
                 PROVE  /\ InLine(answered[j])'
                        /\ myWaitNr'[answered'[j]] = nextSettleNr' + (j - 1) + Finishing'
      BY DEF NumbersInOrder, InLine
    <3>0. Len(answered) \in Nat BY DEF TicketTypes
    <3>1. j + 1 \in 1..Len(answered) /\ answered'[j] = answered[j + 1] /\ j + 1 # 1
      BY ONLY <2>6, <3>0, j \in 1..Len(answered')
    <3>2. answered[j + 1] # t /\ answered[j + 1] \in Settlers
      <4>1. answered[j + 1] # t BY ONLY <2>3, <3>1
      <4>2. answered[j + 1] \in Settlers BY <3>1 DEF TicketTypes
      <4> QED BY <4>1, <4>2
    <3>3. InLine(answered[j + 1]) /\ myWaitNr[answered[j + 1]] = nextSettleNr + ((j + 1) - 1) + Finishing
      BY <3>1 DEF NumbersInOrder
    <3>4. settler'[answered[j + 1]] = settler[answered[j + 1]]
      BY <3>2, <2>1 DEF TicketTypes
    <3> QED BY <3>1, <3>3, <3>4, <2>1, <2>2, <2>6, <2>7 DEF InLine, TicketTypes
  <2>11. AllInLine'
    <3> SUFFICES ASSUME NEW u \in Settlers, InLine(u)'
                 PROVE  \E j \in 1..Len(answered') : answered'[j] = u
      BY DEF AllInLine
    <3>1. u # t /\ InLine(u)
      BY <2>1 DEF InLine, TicketTypes
    <3>2. PICK i \in 1..Len(answered) : answered[i] = u
      BY <3>1 DEF AllInLine
    <3>3. i - 1 \in 1..Len(answered') /\ answered'[i - 1] = u
      <4>1. i # 1 BY ONLY <2>2, <3>1, <3>2
      <4>2. Len(answered) \in Nat BY DEF TicketTypes
      <4> PICK j : j = i - 1 OBVIOUS
      <4>3. j \in 1..(Len(answered) - 1) /\ j + 1 = i
        BY ONLY <4>1, <4>2, j = i - 1, i \in 1..Len(answered)
      <4>4. answered'[j] = u BY ONLY <2>6, <3>2, <4>3
      <4> QED BY ONLY <2>6, <4>3, <4>4, j = i - 1
    <3> QED BY <3>3
  <2> QED BY <2>9, <2>10, <2>11
<1>7. ASSUME NEW t \in Settlers, Finish(t) PROVE TicketInv'
  <2>1. /\ settler[t] = "finish" /\ nextSettleNr' = nextSettleNr + 1
        /\ UNCHANGED <<settleWaitNr, myWaitNr, answered>>
    BY <1>7 DEF Finish
  <2>2. PICK s \in Signalled : settler' = [s EXCEPT ![t] = "idle"]
    BY <1>7 DEF Finish
  <2>3. \A u \in Settlers : u # t => settler[u] \notin {"apply", "finish"}
    BY <2>1 DEF OneAtWork
  <2>4. s = settler \/ \E u \in Settlers : settler[u] = "waiting" /\ s = [settler EXCEPT ![u] = "woken"]
    BY <2>2 DEF Signalled
  <2>5. /\ settler' \in [Settlers -> Places] /\ settler'[t] = "idle"
        /\ \A v \in Settlers \ {t} : \/ settler'[v] = settler[v]
                                     \/ settler[v] = "waiting" /\ settler'[v] = "woken"
    BY <2>1, <2>2, <2>4 DEF TicketTypes, Places
  <2>6. Finishing = 1 /\ Finishing' = 0
    BY <2>1, <2>3, <2>5 DEF Finishing
  <2>7. \A v \in Settlers : InLine(v)' <=> InLine(v)
    BY <2>1, <2>5 DEF InLine
  <2>8. TicketTypes' /\ NumbersInUse' /\ AllInLine'
    BY <2>1, <2>5, <2>6, <2>7 DEF TicketTypes, NumbersInUse, AllInLine
  <2>9. OneAtWork' /\ ApplyInTurn'
    BY <2>3, <2>5 DEF OneAtWork, ApplyInTurn
  <2>10. NumbersInOrder'
    <3>1. \A i \in 1..Len(answered) : answered[i] \in Settlers
      BY DEF TicketTypes
    <3> SUFFICES ASSUME NEW i \in 1..Len(answered)
                 PROVE  /\ InLine(answered[i])'
                        /\ myWaitNr[answered[i]] = nextSettleNr + 1 + (i - 1) + 0
      BY <2>1, <2>6 DEF NumbersInOrder, InLine
    <3>2. InLine(answered[i]) /\ myWaitNr[answered[i]] = nextSettleNr + (i - 1) + 1
      BY <2>6 DEF NumbersInOrder
    <3>3. InLine(answered[i])'
      <4> PICK v \in Settlers : v = answered[i] BY <3>1
      <4>1. InLine(v)' BY <2>7, <3>2
      <4> QED BY ONLY <2>1, <4>1, v = answered[i] DEF InLine
    <3>4. nextSettleNr \in Nat /\ i \in Int BY DEF TicketTypes
    <3>5. nextSettleNr + 1 + (i - 1) + 0 = nextSettleNr + (i - 1) + 1 BY ONLY <3>4
    <3> QED BY ONLY <3>2, <3>3, <3>5
  <2> QED BY <2>8, <2>9, <2>10
<1>8. ASSUME NEW t \in Settlers, Settle(t) PROVE TicketInv'
  BY <1>2, <1>3, <1>4, <1>5, <1>6, <1>7, <1>8 DEF Settle
<1>9. ASSUME LogInOrOut \/ \E bytes \in 1..MaxBytes : Confirm(bytes) PROVE UNCHANGED tickets
  BY <1>9 DEF LogInOrOut, Confirm
<1>10. ASSUME UNCHANGED settlementVars PROVE UNCHANGED tickets
  BY <1>10 DEF settlementVars
<1> QED BY <1>1, <1>8, <1>9, <1>10 DEF SettlementNext

(* No transaction has a number at first.                                   *)
LEMMA TicketStart == SettlementInit => TicketInv
  BY DEF SettlementInit, TicketInv, TicketTypes, Places, OneAtWork, NumbersInUse, NumbersInOrder,
         AllInLine, ApplyInTurn, InLine, Finishing

(* Answers are applied to the login table in the order in which the        *)
(* payment instance gave them (ticket numbers of                           *)
(* __newSettlementTransaction()).                                          *)
THEOREM AnswersAppliedInOrder == SettlementSpec => []AppliedInOrder
<1>1. TicketInv /\ [SettlementNext]_settlementVars => TicketInv'
  BY TicketStep
<1>2. TicketInv => AppliedInOrder
  <2> SUFFICES ASSUME TicketInv, NEW t \in Settlers, settler[t] = "apply"
               PROVE  Head(answered) = t
    BY DEF AppliedInOrder
  <2> QED BY ApplyIsHead DEF TicketInv, TicketTypes
<1> QED BY TicketStart, <1>1, <1>2, PTL DEF SettlementSpec

-----------------------------------------------------------------------------
(* What is settled was seen.                                               *)

CCType == [bytes : Nat \cup {NoBytes}, settled : BOOLEAN]

(* A row of the database, as far as it matters here.                       *)
IsRow(d) ==
  /\ d = [cc |-> d.cc, status |-> d.status, prepaid |-> d.prepaid]
  /\ d.cc \in CCType
  /\ d.cc.bytes = NoBytes => ~d.cc.settled

SeenInv ==
  /\ settler \in [Settlers -> Places]
  /\ asked \in [Settlers -> Nat \cup {NoBytes}]
  /\ \A t \in Settlers : settler[t] = "asking" => asked[t] \in Nat
  /\ IsRow(db)
  /\ seen \in BOOLEAN
  /\ SettledIsSeen

IsCC(c) == c \in CCType /\ (c.bytes = NoBytes => ~c.settled)

(* What the records of cost confirmations contain.                         *)
LEMMA CCTypes == IsCC(NoCC) /\ ~NoCC.settled /\ \A b \in Nat : IsCC(CC(b)) /\ ~CC(b).settled
<1>1. IsCC(NoCC) /\ ~NoCC.settled
  BY SettlementAssumption DEF NoCC, CCType, IsCC
<1>2. ASSUME NEW b \in Nat PROVE IsCC(CC(b)) /\ ~CC(b).settled
  BY SettlementAssumption DEF CC, CCType, IsCC
<1> QED BY <1>1, <1>2

(* Storing a cost confirmation in a row.                                   *)
LEMMA RowWithCC ==
  ASSUME NEW d, IsRow(d), NEW c, IsCC(c)
  PROVE  IsRow([d EXCEPT !.cc = c]) /\ [d EXCEPT !.cc = c].cc = c
<1>1. [d EXCEPT !.cc = c] = [cc |-> c, status |-> d.status, prepaid |-> d.prepaid]
  BY DEF IsRow
<1> HIDE DEF CCType
<1> QED BY <1>1 DEF IsRow, IsCC

(* Recording an answer keeps the row in order, and marks no cost           *)
(* confirmation but the one that was asked about or came with the answer.  *)
LEMMA RecordedMarks ==
  ASSUME NEW d, IsRow(d), NEW v \in Verdict, NEW bytes \in Nat
  PROVE  /\ IsRow(Recorded(d, v, bytes))
         /\ Recorded(d, v, bytes).cc.settled =>
              \/ d.cc.settled
              \/ Recorded(d, v, bytes).cc.bytes \in {bytes, v.bytes} \ {NoBytes}
<1> USE SettlementAssumption
<1>1. \A s : IsRow(storeAccountStatus(d, s)) /\ storeAccountStatus(d, s).cc = d.cc
  BY DEF storeAccountStatus, IsRow
<1>2. ASSUME NEW e, IsRow(e), NEW b \in Nat
      PROVE  /\ IsRow(markAsSettled(e, b))
             /\ markAsSettled(e, b).cc.settled => e.cc.settled \/ markAsSettled(e, b).cc.bytes = b
  BY <1>2 DEF markAsSettled, IsRow, CCType
<1>3. ASSUME NEW e, IsRow(e) PROVE IsRow(deleteCC(e)) /\ ~deleteCC(e).cc.settled
  BY <1>3, CCTypes, RowWithCC DEF deleteCC
<1>4. ASSUME NEW b \in Nat
      PROVE  IsRow(storeCostConfirmation(d, b)) /\ ~storeCostConfirmation(d, b).cc.settled
  BY <1>4, CCTypes, RowWithCC DEF storeCostConfirmation
<1>5. bytes # NoBytes
  OBVIOUS
<1>6. CASE v.code = "ok"
  BY <1>2, <1>5, <1>6 DEF Recorded
<1>7. CASE v.code = "accountEmpty"
  <2>1. Recorded(d, v, bytes) = markAsSettled(storeAccountStatus(d, "EMPTY"), bytes)
    BY <1>7 DEF Recorded
  <2> QED BY <1>1, <1>2, <1>5, <2>1
<1>8. CASE v.code = "outdated" /\ v.bytes # NoBytes
  <2>1. Recorded(d, v, bytes) = markAsSettled(storeCostConfirmation(d, v.bytes), v.bytes)
    BY <1>8 DEF Recorded
  <2>2. v.bytes \in Nat
    BY <1>8 DEF Verdict
  <2> DEFINE e == storeCostConfirmation(d, v.bytes)
  <2>3. IsRow(e) /\ ~e.cc.settled
    BY <1>4, <2>2
  <2>4. IsRow(markAsSettled(e, v.bytes))
        /\ (markAsSettled(e, v.bytes).cc.settled => markAsSettled(e, v.bytes).cc.bytes = v.bytes)
    BY <1>2, <2>2, <2>3
  <2> QED BY <1>8, <2>1, <2>4
<1>9. CASE v.code = "blocked"
  <2>1. Recorded(d, v, bytes) = deleteCC(storeAccountStatus(d, "BLOCKED"))
    BY <1>9 DEF Recorded
  <2> QED BY <1>1, <1>3, <2>1
<1>10. CASE v.code \in {"keyNotFound", "other"}
  BY <1>3, <1>10 DEF Recorded
<1>11. CASE \/ v.code \in {"noAnswer", "databaseError", "internalError"}
            \/ v.code = "outdated" /\ v.bytes = NoBytes
  BY <1>11 DEF Recorded
<1>12. v.code \in {"ok", "noAnswer", "databaseError", "keyNotFound", "blocked",
                   "internalError", "other", "accountEmpty", "outdated"}
  BY DEF Verdict
<1> QED BY <1>6, <1>7, <1>8, <1>9, <1>10, <1>11, <1>12

(* The commit to the database does not touch the cost confirmation.        *)
LEMMA CommitKeepsCC ==
  ASSUME NEW d, IsRow(d), NEW e
  PROVE  IsRow(Committed(d, e)) /\ Committed(d, e).cc = d.cc
  BY DEF Committed, IsRow

(* Every step settles only confirmations that were seen.                   *)
LEMMA SeenStep ==
  ASSUME SeenInv, SettlementNext \/ UNCHANGED settlementVars
  PROVE  SeenInv'
<1> USE SettlementAssumption DEF SeenInv
<1>1. ASSUME NEW t \in Settlers, Answer(t) PROVE SeenInv'
  <2>1. PICK v \in Verdicts :
          /\ seen' = (seen \/ Recorded(db, v, asked[t]).cc.bytes \in {asked[t], v.bytes} \ {NoBytes})
          /\ \/ /\ TakeTurn(t)
                /\ db' = Committed(Recorded(db, v, asked[t]), SettleEntry(v, asked[t], db.status))
             \/ /\ TakeNumber(t)
                /\ db' = Recorded(db, v, asked[t])
    BY <1>1 DEF Answer
  <2>2. settler[t] = "asking" /\ asked' = [asked EXCEPT ![t] = NoBytes]
    BY <1>1 DEF Answer
  <2>3. v \in Verdict /\ asked[t] \in Nat
    BY <2>2, VerdictAssumption
  <2>4. settler' \in [Settlers -> Places] /\ settler'[t] # "asking"
        /\ \A u \in Settlers \ {t} : settler'[u] = settler[u]
    BY <2>1 DEF TakeTurn, TakeNumber, Goes, Places
  <2>5. /\ IsRow(Recorded(db, v, asked[t]))
        /\ Recorded(db, v, asked[t]).cc.settled => seen'
    BY <2>1, <2>3, RecordedMarks DEF SettledIsSeen
  <2>6. IsRow(db') /\ db'.cc = Recorded(db, v, asked[t]).cc
    BY <2>1, <2>5, CommitKeepsCC
  <2>7. IsRow(db)' /\ SettledIsSeen'
    BY <2>5, <2>6 DEF IsRow, SettledIsSeen
  <2>8. /\ asked' \in [Settlers -> Nat \cup {NoBytes}]
        /\ \A u \in Settlers : settler'[u] = "asking" => asked'[u] \in Nat
    BY <2>2, <2>4
  <2>9. seen' \in BOOLEAN
    BY <2>1
  <2> QED BY <2>4, <2>7, <2>8, <2>9
<1>2. ASSUME NEW t \in Settlers, GoOn(t) PROVE SeenInv'
  <2>1. /\ settler' = [settler EXCEPT ![t] = "apply"] /\ UNCHANGED <<asked, seen>>
        /\ db' = db \/ db' = Committed(db, entry[t])
    BY <1>2 DEF GoOn, Goes
  <2>2. IsRow(db') /\ db'.cc = db.cc
    BY <2>1, CommitKeepsCC
  <2> QED BY <2>1, <2>2 DEF IsRow, SettledIsSeen, Places
<1>3. ASSUME NEW t \in Settlers, Ask(t) PROVE SeenInv'
  <2>1. db.cc.bytes \in Nat
    BY <1>3 DEF Ask, IsRow, CCType, NoCC
  <2> QED BY <1>3, <2>1 DEF Ask, Goes, Places, IsRow, SettledIsSeen
<1>4. ASSUME NEW t \in Settlers, AskInVain(t) PROVE SeenInv'
  BY <1>4 DEF AskInVain, Goes, Places, IsRow, SettledIsSeen
<1>5. ASSUME NEW t \in Settlers, WakeSpuriously(t) \/ WaitAgain(t) \/ Apply(t) PROVE SeenInv'
  <2>1. /\ \E p \in {"waiting", "woken", "finish"} : settler' = [settler EXCEPT ![t] = p]
        /\ UNCHANGED <<asked, db, seen>>
    BY <1>5 DEF WakeSpuriously, WaitAgain, Apply, Goes, accounts
  <2> QED BY <2>1 DEF Places, IsRow, SettledIsSeen
<1>6. ASSUME NEW t \in Settlers, Finish(t) PROVE SeenInv'
  <2>1. UNCHANGED <<asked, db, seen>>
    BY <1>6 DEF Finish, accounts
  <2>2. PICK s \in Signalled : settler' = [s EXCEPT ![t] = "idle"]
    BY <1>6 DEF Finish
  <2>3. s = settler \/ \E u \in Settlers : s = [settler EXCEPT ![u] = "woken"]
    BY <2>2 DEF Signalled
  <2>4. /\ settler' \in [Settlers -> Places]
        /\ \A u \in Settlers : settler'[u] = "asking" => settler[u] = "asking"
    BY <2>2, <2>3 DEF Places
  <2> QED BY <2>1, <2>4 DEF IsRow, SettledIsSeen
<1>7. ASSUME NEW bytes \in 1..MaxBytes, Confirm(bytes) PROVE SeenInv'
  <2>1. /\ db' = [db EXCEPT !.cc = CC(bytes)] /\ seen' = FALSE
        /\ UNCHANGED <<settler, asked>>
    BY <1>7 DEF Confirm, storeCostConfirmation, tickets
  <2>2. IsRow(db') /\ ~db'.cc.settled
    BY <2>1, CCTypes, RowWithCC
  <2> QED BY <2>1, <2>2 DEF IsRow, SettledIsSeen
<1>8. ASSUME LogInOrOut \/ UNCHANGED settlementVars PROVE SeenInv'
  BY <1>8 DEF LogInOrOut, settlementVars, tickets, accounts, IsRow, SettledIsSeen
<1> QED
  BY <1>1, <1>2, <1>3, <1>4, <1>5, <1>6, <1>7, <1>8 DEF SettlementNext, Settle

(* Nothing is settled at first.                                            *)
LEMMA SeenStart == SettlementInit => SeenInv
<1> SUFFICES ASSUME SettlementInit PROVE SeenInv
  OBVIOUS
<1>1. settler \in [Settlers -> Places] /\ \A t \in Settlers : settler[t] = "idle"
  BY DEF SettlementInit, Places
<1>2. asked \in [Settlers -> Nat \cup {NoBytes}] /\ seen = FALSE
  BY DEF SettlementInit
<1>3. db.cc = NoCC /\ db = [cc |-> db.cc, status |-> db.status, prepaid |-> db.prepaid]
  BY DEF SettlementInit
<1>4. IsRow(db) /\ SettledIsSeen
  BY <1>3, CCTypes DEF IsRow, IsCC, SettledIsSeen
<1> QED BY <1>1, <1>2, <1>4 DEF SeenInv

(* Only a cost confirmation that the payment instance has seen is marked   *)
(* as settled (markAsSettled() compares the bytes).                        *)
THEOREM OnlySeenIsSettled == SettlementSpec => []SettledIsSeen
<1>1. SeenInv /\ [SettlementNext]_settlementVars => SeenInv'
  BY SeenStep
<1>2. SeenInv => SettledIsSeen
  BY DEF SeenInv
<1> QED BY SeenStart, <1>1, <1>2, PTL DEF SettlementSpec

-----------------------------------------------------------------------------
(* The settlement of an account that is in use.                            *)

(* A step of the traffic is one of the settlement, or leaves it alone but  *)
(* for the cost confirmation and the prepaid bytes in the database, and    *)
(* the entry in the login table.                                           *)
LEMMA TrafficSettles ==
  ASSUME [TrafficNext]_trafficVars
  PROVE  \/ \E t \in Settlers : Settle(t)
         \/ /\ UNCHANGED <<tickets, asked, entry>>
            /\ \/ UNCHANGED <<db, seen>>
               \/ /\ \E bytes \in 1..MaxBytes : db' = storeCostConfirmation(db, bytes)
                  /\ seen' = FALSE
               \/ /\ db' = [db EXCEPT !.prepaid = StoredBalance]
                  /\ UNCHANGED seen
<1>1. CASE \E t \in Settlers : SettleInPhase(t)
  BY <1>1 DEF SettleInPhase, Settle
<1>2. CASE Balance \/ EndExchange \/ NothingToSettle \/ FinishLogin \/ Packet \/ TimePasses
  BY <1>2 DEF Balance, EndExchange, NothingToSettle, FinishLogin, Packet, TimePasses,
              settlementVars, accounts
<1>3. CASE Close BY <1>3 DEF Close
<1>4. ASSUME NEW bytes \in 1..MaxBytes, HandleCC(bytes)
      PROVE  /\ UNCHANGED <<tickets, asked, entry>>
             /\ \/ UNCHANGED <<db, seen>>
                \/ db' = storeCostConfirmation(db, bytes) /\ seen' = FALSE
  BY <1>4 DEF HandleCC, RefuseCC, AcceptCC
<1>5. CASE UNCHANGED trafficVars BY <1>5 DEF trafficVars, settlementVars, accounts
<1> QED BY <1>1, <1>2, <1>3, <1>4, <1>5 DEF TrafficNext

(* The order of the answers is kept while the account is in use, ...       *)
LEMMA TrafficKeepsTickets ==
  ASSUME TicketInv, [TrafficNext]_trafficVars PROVE TicketInv'
<1>1. CASE \E t \in Settlers : Settle(t)
  BY <1>1, TicketStep DEF SettlementNext
<1>2. CASE UNCHANGED tickets
  BY <1>2 DEF tickets, TicketInv, TicketTypes, OneAtWork, NumbersInUse, NumbersInOrder, AllInLine,
              ApplyInTurn, InLine, Finishing
<1> QED BY <1>1, <1>2, TrafficSettles

(* ... and so is what the payment instance has seen.                       *)
LEMMA TrafficKeepsSeen ==
  ASSUME SeenInv, [TrafficNext]_trafficVars PROVE SeenInv'
<1> USE DEF SeenInv
<1>1. CASE \E t \in Settlers : Settle(t)
  BY <1>1, SeenStep DEF SettlementNext
<1>2. CASE UNCHANGED <<tickets, asked, entry>> /\ UNCHANGED <<db, seen>>
  BY <1>2 DEF tickets, IsRow, SettledIsSeen
<1>3. ASSUME NEW bytes \in 1..MaxBytes, UNCHANGED <<tickets, asked, entry>>,
             db' = storeCostConfirmation(db, bytes), seen' = FALSE
      PROVE  SeenInv'
  <2>1. IsRow(db') /\ ~db'.cc.settled
    BY <1>3, CCTypes, RowWithCC DEF storeCostConfirmation
  <2> QED BY <1>3, <2>1 DEF tickets, IsRow, SettledIsSeen
<1>4. CASE /\ UNCHANGED <<tickets, asked, entry>>
           /\ db' = [db EXCEPT !.prepaid = StoredBalance] /\ UNCHANGED seen
  <2>1. db' = [cc |-> db.cc, status |-> db.status, prepaid |-> StoredBalance]
    BY <1>4 DEF IsRow
  <2>2. IsRow(db)' /\ db'.cc = db.cc
    <3> HIDE DEF CCType
    <3> QED BY <2>1 DEF IsRow
  <2> QED BY <1>4, <2>2 DEF tickets, SettledIsSeen
<1> QED BY <1>1, <1>2, <1>3, <1>4, TrafficSettles

(* The same of the account that logs in, confirms and goes by the rules of *)
(* the accounting: what AnswersAppliedInOrder and OnlySeenIsSettled say of *)
(* any use of the account.                                                 *)
THEOREM UsedAccountsSettleInOrder == TrafficSpec => [](AppliedInOrder /\ SettledIsSeen)
<1>1. TrafficInit => TicketInv /\ SeenInv
  BY TicketStart, SeenStart DEF TrafficInit
<1>2. TicketInv /\ SeenInv /\ [TrafficNext]_trafficVars => TicketInv' /\ SeenInv'
  BY TrafficKeepsTickets, TrafficKeepsSeen
<1>3. TicketInv /\ SeenInv => AppliedInOrder /\ SettledIsSeen
  <2> SUFFICES ASSUME TicketInv, SeenInv PROVE AppliedInOrder
    BY DEF SeenInv
  <2> QED BY ApplyIsHead DEF AppliedInOrder
<1> QED BY <1>1, <1>2, <1>3, PTL DEF TrafficSpec

-----------------------------------------------------------------------------
(* What a packet makes of the counters and the flags of a connection.      *)

IsInfo(i) ==
  i = [flags |-> i.flags, transferred |-> i.transferred, confirmed |-> i.confirmed,
       toConfirm |-> i.toConfirm, packets |-> i.packets, late |-> i.late]

IsLogin(l) ==
  l = [live |-> l.live, flags |-> l.flags, removes |-> l.removes, confirmed |-> l.confirmed]

SameBytes(i, j) == j.transferred = i.transferred /\ j.confirmed = i.confirmed

(* The prepaid bytes depend on the two counters alone.                     *)
LEMMA SameCredit == ASSUME NEW i, NEW j, SameBytes(i, j) PROVE getPrepaidBytes(j) = getPrepaidBytes(i)
BY DEF SameBytes, getPrepaidBytes

(* Asking for a cost confirmation.                                         *)
LEMMA SendKeeps ==
  ASSUME NEW i, IsInfo(i)
  PROVE  /\ IsInfo(sendCCRequest(i)) /\ SameBytes(i, sendCCRequest(i))
         /\ sendCCRequest(i).flags = i.flags \cup {"SENT_CC_REQUEST"}
<1> DEFINE c == IF "EMPTY" \in i.flags THEN i.toConfirm ELSE (PrepaidInterval + i.transferred) % Word
<1>1. sendCCRequest(i) = [i EXCEPT !.flags = @ \cup {"SENT_CC_REQUEST"}, !.toConfirm = c]
  BY DEF sendCCRequest
<1> HIDE DEF c
<1>2. sendCCRequest(i) = [flags |-> i.flags \cup {"SENT_CC_REQUEST"}, transferred |-> i.transferred,
                          confirmed |-> i.confirmed, toConfirm |-> c, packets |-> i.packets,
                          late |-> i.late]
  BY <1>1 DEF IsInfo
<1> QED BY <1>2 DEF IsInfo, SameBytes

(* The end of a connection is prepared.                                    *)
LEMMA KickKeeps ==
  ASSUME NEW i, IsInfo(i)
  PROVE  /\ IsInfo(PrepareKickout(i)) /\ SameBytes(i, PrepareKickout(i))
         /\ PrepareKickout(i).flags = i.flags \cup {"FATAL_ERROR"}
BY DEF IsInfo, SameBytes, PrepareKickout

(* Time passes for the user.                                               *)
LEMMA LateKeeps ==
  ASSUME NEW i, IsInfo(i), NEW b
  PROVE  /\ IsInfo([i EXCEPT !.late = b]) /\ SameBytes(i, [i EXCEPT !.late = b])
         /\ [i EXCEPT !.late = b].flags = i.flags
BY DEF IsInfo, SameBytes

(* A user who is too far behind is not let through again.                  *)
LEMMA HardLimitKeeps ==
  ASSUME NEW i, IsInfo(i)
  PROVE  LET r == HardLimitChecked(i) IN
         /\ IsInfo(r) /\ SameBytes(i, r)
         /\ r.flags \subseteq i.flags \cup {"HARD_LIMIT", "SENT_CC_REQUEST", "FATAL_ERROR"}
         /\ i.flags \ {"HARD_LIMIT"} \subseteq r.flags
         /\ \/ getPrepaidBytes(i) > HardLimit
            \/ ~(-getPrepaidBytes(i) >= PrepaidInterval)
            \/ "FATAL_ERROR" \in r.flags
<1> DEFINE j == IF "HARD_LIMIT" \in i.flags THEN i
                ELSE [i EXCEPT !.flags = @ \cup {"HARD_LIMIT"}, !.late = FALSE]
           k == [j EXCEPT !.late = TRUE]
           u == [i EXCEPT !.flags = @ \ {"HARD_LIMIT"}]
<1>1. IsInfo(j) /\ SameBytes(i, j) /\ j.flags \subseteq i.flags \cup {"HARD_LIMIT"}
      /\ i.flags \subseteq j.flags
  BY DEF IsInfo, SameBytes
<1>2. IsInfo(u) /\ SameBytes(i, u) /\ u.flags = i.flags \ {"HARD_LIMIT"} BY DEF IsInfo, SameBytes
<1>3. HardLimitChecked(i) =
        IF getPrepaidBytes(i) > HardLimit THEN u
        ELSE IF Overdue(j) THEN PrepareKickout(k)
        ELSE IF "SENT_CC_REQUEST" \in j.flags THEN j ELSE sendCCRequest(j)
  BY DEF HardLimitChecked
<1> HIDE DEF j, u
<1>4. IsInfo(k) /\ SameBytes(i, k) /\ k.flags = j.flags
  <2>1. IsInfo(k) /\ SameBytes(j, k) /\ k.flags = j.flags BY <1>1, LateKeeps
  <2> QED BY <1>1, <2>1 DEF SameBytes
<1> HIDE DEF k
<1>5. CASE getPrepaidBytes(i) > HardLimit BY <1>2, <1>3, <1>5
<1>6. CASE ~(getPrepaidBytes(i) > HardLimit) /\ Overdue(j)
  BY <1>1, <1>3, <1>4, <1>6, KickKeeps DEF SameBytes
<1>7. CASE ~(getPrepaidBytes(i) > HardLimit) /\ ~Overdue(j)
  <2>1. ~(-getPrepaidBytes(i) >= PrepaidInterval) BY <1>1, <1>7, SameCredit DEF Overdue
  <2>2. HardLimitChecked(i) = IF "SENT_CC_REQUEST" \in j.flags THEN j ELSE sendCCRequest(j)
    BY <1>3, <1>7
  <2> QED BY <1>1, <2>1, <2>2, SendKeeps DEF SameBytes
<1> QED BY <1>5, <1>6, <1>7

(* A user who is near the end of his credit is asked for more.             *)
LEMMA SoftLimitKeeps ==
  ASSUME NEW i, IsInfo(i)
  PROVE  LET r == SoftLimitChecked(i) IN
         /\ IsInfo(r) /\ SameBytes(i, r) /\ i.flags \subseteq r.flags
         /\ r.flags \subseteq i.flags \cup {"SENT_CC_REQUEST"}
BY SendKeeps DEF SoftLimitChecked, SameBytes

(* The flags of the login entry are looked at.                             *)
LEMMA NoticedKeeps ==
  ASSUME NEW i, IsInfo(i), NEW l
  PROVE  LET n == Noticed(i, l) IN
         /\ IsInfo(n)
         /\ n.flags \subseteq i.flags \cup {"SENT_CC_REQUEST", "EMPTY"}
         /\ i.flags \ l.removes \subseteq n.flags
         /\ "EMPTY" \in n.flags => "EMPTY" \in i.flags \/ Notice(l) = "EMPTY"
         /\ \/ SameBytes(i, n)
            \/ /\ n.confirmed = l.confirmed
               /\ n.transferred = (i.transferred + l.confirmed - i.confirmed) % Word
            \/ /\ n.confirmed = l.confirmed
               /\ n.transferred = IF l.confirmed < i.transferred THEN l.confirmed ELSE i.transferred
<1> DEFINE k == [i EXCEPT !.flags = @ \ l.removes]
<1>1. IsInfo(k) /\ SameBytes(i, k) /\ k.flags = i.flags \ l.removes BY DEF IsInfo, SameBytes
<1>2. Noticed(i, l) = CASE Notice(l) = "OUTDATED" -> FixOutdated(k, l)
                        [] Notice(l) = "EMPTY"    -> TakeEmpty(k, l)
                        [] OTHER                  -> k
  BY DEF Noticed
<1> HIDE DEF k
<1>3. CASE Notice(l) = "OUTDATED"
  <2>1. Noticed(i, l) = FixOutdated(k, l) BY <1>2, <1>3
  <2>2. CASE ~db.cc.settled BY <1>1, <2>1, <2>2 DEF FixOutdated
  <2>3. CASE db.cc.settled
    <3>1. Noticed(i, l) = [k EXCEPT !.transferred = (@ + l.confirmed - k.confirmed) % Word,
                                    !.confirmed = l.confirmed,
                                    !.flags = @ \cup {"SENT_CC_REQUEST"}]
      BY <2>1, <2>3 DEF FixOutdated
    <3>2. Noticed(i, l) = [flags |-> k.flags \cup {"SENT_CC_REQUEST"},
                           transferred |-> (k.transferred + l.confirmed - k.confirmed) % Word,
                           confirmed |-> l.confirmed, toConfirm |-> k.toConfirm,
                           packets |-> k.packets, late |-> k.late]
      BY <1>1, <3>1 DEF IsInfo
    <3> QED BY <1>1, <3>2 DEF IsInfo, SameBytes
  <2> QED BY <2>2, <2>3
<1>4. CASE Notice(l) = "EMPTY"
  <2>1. Noticed(i, l) = TakeEmpty(k, l) BY <1>2, <1>4
  <2>2. CASE "EMPTY" \in k.flags BY <1>1, <1>4, <2>1, <2>2 DEF TakeEmpty
  <2>3. CASE "EMPTY" \notin k.flags
    <3>1. Noticed(i, l) = [k EXCEPT !.flags = @ \cup {"EMPTY"}, !.confirmed = l.confirmed,
                             !.transferred = IF l.confirmed < @ THEN l.confirmed ELSE @]
      BY <2>1, <2>3 DEF TakeEmpty
    <3>2. Noticed(i, l) = [flags |-> k.flags \cup {"EMPTY"},
                           transferred |-> IF l.confirmed < k.transferred THEN l.confirmed
                                           ELSE k.transferred,
                           confirmed |-> l.confirmed, toConfirm |-> k.toConfirm,
                           packets |-> k.packets, late |-> k.late]
      BY <1>1, <3>1 DEF IsInfo
    <3> QED BY <1>1, <1>4, <3>2 DEF IsInfo, SameBytes
  <2> QED BY <2>2, <2>3
<1>5. CASE Notice(l) \notin {"OUTDATED", "EMPTY"} BY <1>1, <1>2, <1>5
<1> QED BY <1>3, <1>4, <1>5

(* A packet that is checked is let through, or its user is not too far     *)
(* behind, or he is kicked out; and he is if his account is at fault.      *)
LEMMA CheckedKeeps ==
  ASSUME NEW i, IsInfo(i), NEW l
  PROVE  LET n == Noticed(i, l)
             r == Checked(i, l)
         IN
         /\ IsInfo(r) /\ SameBytes(n, r)
         /\ r.flags \subseteq n.flags \cup {"HARD_LIMIT", "SENT_CC_REQUEST", "FATAL_ERROR"}
         /\ n.flags \ {"HARD_LIMIT"} \subseteq r.flags
         /\ \/ getPrepaidBytes(n) > 0 \/ getPrepaidBytes(n) > HardLimit
            \/ ~(-getPrepaidBytes(n) >= PrepaidInterval)
            \/ "FATAL_ERROR" \in r.flags
         /\ IsError(Notice(l)) /\ "EMPTY" \notin n.flags => "FATAL_ERROR" \in r.flags
<1> DEFINE n == Noticed(i, l)
           m == IF "EMPTY" \in n.flags THEN [n EXCEPT !.late = FALSE] ELSE n
           h == HardLimitChecked(m)
<1>1. IsInfo(n) BY NoticedKeeps
<1>2. Checked(i, l) =
        IF "EMPTY" \in n.flags /\ getPrepaidBytes(n) > 0 THEN m
        ELSE IF "EMPTY" \in n.flags \/ IsError(Notice(l)) THEN PrepareKickout(m)
        ELSE SoftLimitChecked(h)
  BY DEF Checked
<1> HIDE DEF n
<1>3. IsInfo(m) /\ SameBytes(n, m) /\ m.flags = n.flags
  BY <1>1, LateKeeps DEF SameBytes
<1>4. getPrepaidBytes(m) = getPrepaidBytes(n) BY <1>3, SameCredit
<1> HIDE DEF m
<1>5. /\ IsInfo(h) /\ SameBytes(m, h)
      /\ h.flags \subseteq m.flags \cup {"HARD_LIMIT", "SENT_CC_REQUEST", "FATAL_ERROR"}
      /\ m.flags \ {"HARD_LIMIT"} \subseteq h.flags
      /\ \/ getPrepaidBytes(m) > HardLimit
         \/ ~(-getPrepaidBytes(m) >= PrepaidInterval)
         \/ "FATAL_ERROR" \in h.flags
  BY <1>3, HardLimitKeeps
<1> HIDE DEF h
<1>6. CASE "EMPTY" \in n.flags /\ getPrepaidBytes(n) > 0
  BY <1>2, <1>3, <1>6 DEF n
<1>7. CASE ~("EMPTY" \in n.flags /\ getPrepaidBytes(n) > 0) /\ ("EMPTY" \in n.flags \/ IsError(Notice(l)))
  <2>1. Checked(i, l) = PrepareKickout(m) BY <1>2, <1>7
  <2>2. /\ IsInfo(PrepareKickout(m)) /\ SameBytes(m, PrepareKickout(m))
        /\ PrepareKickout(m).flags = n.flags \cup {"FATAL_ERROR"}
    BY <1>3, KickKeeps
  <2> QED BY <1>3, <2>1, <2>2 DEF SameBytes, n
<1>8. CASE ~("EMPTY" \in n.flags \/ IsError(Notice(l)))
  <2>1. Checked(i, l) = SoftLimitChecked(h) BY <1>2, <1>8
  <2>2. /\ IsInfo(SoftLimitChecked(h)) /\ SameBytes(h, SoftLimitChecked(h))
        /\ h.flags \subseteq SoftLimitChecked(h).flags
        /\ SoftLimitChecked(h).flags \subseteq h.flags \cup {"SENT_CC_REQUEST"}
    BY <1>5, SoftLimitKeeps
  <2> QED BY <1>3, <1>4, <1>5, <1>8, <2>1, <2>2 DEF SameBytes, n
<1> QED BY <1>6, <1>7, <1>8

(* The other things that happen to the records.                            *)
LEMMA CountedKeeps ==
  ASSUME NEW i, IsInfo(i)
  PROVE  /\ IsInfo(Counted(i)) /\ Counted(i).flags = i.flags
         /\ Counted(i).transferred = (i.transferred + 1) % Word /\ Counted(i).confirmed = i.confirmed
<1> DEFINE t == (i.transferred + 1) % Word
           k == (i.packets + 1) % PacketsBeforeCheck
<1>1. Counted(i) = [i EXCEPT !.transferred = t, !.packets = k] BY DEF Counted
<1> HIDE DEF k, t
<1>2. Counted(i) = [flags |-> i.flags, transferred |-> t, confirmed |-> i.confirmed,
                    toConfirm |-> i.toConfirm, packets |-> k, late |-> i.late]
  BY <1>1 DEF IsInfo
<1> QED BY <1>2 DEF IsInfo, t

(* A cost confirmation that is refused ends a login, nothing else.         *)
LEMMA RefusedKeeps ==
  ASSUME NEW i, IsInfo(i)
  PROVE  /\ IsInfo(Refused(i)) /\ SameBytes(i, Refused(i))
         /\ Refused(i).flags \ {"LOGIN_FAILED"} \subseteq i.flags
         /\ i.flags \ {"LOGIN_NOT_FINISHED"} \subseteq Refused(i).flags
<1>1. CASE "LOGIN_NOT_FINISHED" \notin i.flags BY <1>1 DEF Refused, SameBytes
<1>2. CASE "LOGIN_NOT_FINISHED" \in i.flags
  <2> DEFINE f == (i.flags \ {"LOGIN_NOT_FINISHED"}) \cup {"LOGIN_FAILED"}
  <2>1. Refused(i) = [i EXCEPT !.flags = f] BY <1>2 DEF Refused
  <2>2. f \ {"LOGIN_FAILED"} \subseteq i.flags /\ i.flags \ {"LOGIN_NOT_FINISHED"} \subseteq f
    OBVIOUS
  <2> HIDE DEF f
  <2>3. Refused(i) = [flags |-> f, transferred |-> i.transferred, confirmed |-> i.confirmed,
                      toConfirm |-> i.toConfirm, packets |-> i.packets, late |-> i.late]
    BY <2>1 DEF IsInfo
  <2> QED BY <2>2, <2>3 DEF IsInfo, SameBytes
<1> QED BY <1>1, <1>2

(* One that is accepted takes back requests and limits.                    *)
LEMMA ConfirmedKeeps ==
  ASSUME NEW i, IsInfo(i)
  PROVE  /\ IsInfo(Confirmed(i)) /\ SameBytes(i, Confirmed(i))
         /\ Confirmed(i).flags \subseteq i.flags
         /\ i.flags \ {"SENT_CC_REQUEST", "LOGIN_NOT_FINISHED", "HARD_LIMIT", "SKIP_SETTLEMENT"}
              \subseteq Confirmed(i).flags
<1> DEFINE f == i.flags \ {"SENT_CC_REQUEST", "LOGIN_NOT_FINISHED"}
           j == [i EXCEPT !.toConfirm = 0, !.flags = f]
<1>1. IsInfo(j) /\ SameBytes(i, j) /\ j.flags = f
  <2> DEFINE k == [i EXCEPT !.toConfirm = 0]
  <2>1. IsInfo(k) /\ SameBytes(i, k) /\ k.flags = i.flags BY DEF IsInfo, SameBytes
  <2>2. j = [k EXCEPT !.flags = f] OBVIOUS
  <2> HIDE DEF f, j, k
  <2>3. j = [flags |-> f, transferred |-> k.transferred, confirmed |-> k.confirmed,
             toConfirm |-> k.toConfirm, packets |-> k.packets, late |-> k.late]
    BY <2>1, <2>2 DEF IsInfo
  <2> QED BY <2>1, <2>3 DEF IsInfo, SameBytes
<1>2. \/ Confirmed(i) = [j EXCEPT !.flags = @ \ {"HARD_LIMIT"}, !.late = FALSE]
      \/ Confirmed(i) = [j EXCEPT !.flags = @ \ {"SKIP_SETTLEMENT"}]
  BY DEF Confirmed
<1> HIDE DEF j
<1>3. CASE Confirmed(i) = [j EXCEPT !.flags = @ \ {"HARD_LIMIT"}, !.late = FALSE]
  <2>1. Confirmed(i) = [flags |-> j.flags \ {"HARD_LIMIT"}, transferred |-> j.transferred,
                        confirmed |-> j.confirmed, toConfirm |-> j.toConfirm,
                        packets |-> j.packets, late |-> FALSE]
    BY <1>1, <1>3 DEF IsInfo
  <2> QED BY <1>1, <2>1 DEF IsInfo, SameBytes
<1>4. CASE Confirmed(i) = [j EXCEPT !.flags = @ \ {"SKIP_SETTLEMENT"}]
  <2>1. Confirmed(i) = [flags |-> j.flags \ {"SKIP_SETTLEMENT"}, transferred |-> j.transferred,
                        confirmed |-> j.confirmed, toConfirm |-> j.toConfirm,
                        packets |-> j.packets, late |-> j.late]
    BY <1>1, <1>4 DEF IsInfo
  <2> QED BY <1>1, <2>1 DEF IsInfo, SameBytes
<1> QED BY <1>2, <1>3, <1>4

(* A result is added to those in the login table that nobody has read.     *)
LEMMA UpdatedKeeps ==
  ASSUME NEW l, IsLogin(l), NEW e
  PROVE  /\ IsLogin(Updated(l, e)) /\ l.flags \subseteq Updated(l, e).flags
         /\ Updated(l, e).confirmed \in {l.confirmed, e.confirmed}
         /\ Updated(l, e).removes \subseteq l.removes \cup e.removes
<1> DEFINE c == IF l.confirmed < e.confirmed THEN e.confirmed ELSE l.confirmed
<1>1. CASE ~l.live BY <1>1 DEF Updated
<1>2. CASE l.live
  <2>1. Updated(l, e) = [live |-> l.live, flags |-> l.flags \cup e.flags,
                         removes |-> l.removes \cup e.removes, confirmed |-> c]
    BY <1>2 DEF Updated, IsLogin
  <2>2. c \in {l.confirmed, e.confirmed} OBVIOUS
  <2> HIDE DEF c
  <2> QED BY <2>1, <2>2 DEF IsLogin
<1> QED BY <1>1, <1>2

(* A packet takes back the one flag it has looked at.                      *)
LEMMA NoticeTakenKeeps ==
  ASSUME NEW l, IsLogin(l)
  PROVE  /\ IsLogin(NoticeTaken(l)) /\ NoticeTaken(l).confirmed \in {l.confirmed, 0}
         /\ NoticeTaken(l).flags = l.flags \ ({Notice(l)} \ {"EMPTY"})
         /\ NoticeTaken(l).removes = l.removes
<1> DEFINE c == IF Notice(l) = "OUTDATED" /\ db.cc.settled THEN 0 ELSE l.confirmed
<1>1. NoticeTaken(l) = [l EXCEPT !.flags = @ \ ({Notice(l)} \ {"EMPTY"}), !.confirmed = c]
  BY DEF NoticeTaken
<1>2. c \in {l.confirmed, 0} OBVIOUS
<1> HIDE DEF c
<1>3. NoticeTaken(l) = [live |-> l.live, flags |-> l.flags \ ({Notice(l)} \ {"EMPTY"}),
                        removes |-> l.removes, confirmed |-> c]
  BY <1>1 DEF IsLogin
<1> QED BY <1>2, <1>3 DEF IsLogin

-----------------------------------------------------------------------------
(* What the login table says of an account.                                *)

(* While its user is online, an account is only taken for empty if its     *)
(* entry in the login table says so.                                       *)
FlagsFit ==
  /\ IsInfo(info) /\ IsLogin(loginEntry)
  /\ phase = "online" /\ "EMPTY" \in info.flags => "EMPTY" \in loginEntry.flags

(* A settlement only adds to what the login table says.                    *)
LEMMA SettleKeepsLogin ==
  ASSUME IsLogin(loginEntry), NEW t \in Settlers, Settle(t)
  PROVE  /\ IsLogin(loginEntry') /\ loginEntry.flags \subseteq loginEntry'.flags
         /\ \/ loginEntry' = loginEntry
            \/ settler[t] = "apply" /\ loginEntry' = Updated(loginEntry, entry[t])
<1>1. \/ loginEntry' = loginEntry
      \/ settler[t] = "apply" /\ loginEntry' = Updated(loginEntry, entry[t])
  BY DEF Settle, Ask, AskInVain, Answer, WakeSpuriously, WaitAgain, GoOn, Apply, Finish, accounts
<1> QED BY <1>1, UpdatedKeeps

(* The bytes that are to be confirmed are set.                             *)
LEMMA NewTarget ==
  ASSUME NEW i, IsInfo(i), NEW c, NEW r, r = [i EXCEPT !.toConfirm = c]
  PROVE  IsInfo(r) /\ SameBytes(i, r) /\ r.flags = i.flags
BY DEF IsInfo, SameBytes

(* The login starts with the balance of the database.                      *)
LEMMA BalanceKeeps ==
  ASSUME Balance
  PROVE  /\ IsInfo(info') /\ IsLogin(loginEntry') /\ loginEntry'.flags = {}
         /\ loginEntry'.removes = {} /\ loginEntry'.confirmed = 0
         /\ InitialFlags \ {"WAITING"} \subseteq info'.flags
         /\ LET paid    == IF db.cc = NoCC THEN 0 ELSE db.cc.bytes
                prepaid == IF db.prepaid > 0 /\ paid >= db.prepaid THEN db.prepaid ELSE 0
            IN  info'.confirmed = paid /\ info'.transferred = paid - prepaid
<1> DEFINE paid    == IF db.cc = NoCC THEN 0 ELSE db.cc.bytes
           prepaid == IF db.prepaid > 0 /\ paid >= db.prepaid THEN db.prepaid ELSE 0
           flags   == (InitialFlags \ (IF db.cc.settled THEN {"WAITING"} ELSE {})) \cup StatusFlags
           skips   == prepaid > 0 /\ StatusFlags = {}
           given   == flags \cup (IF skips THEN {"SKIP_SETTLEMENT"} ELSE {})
           open    == paid - prepaid
           due     == PrepaidInterval - prepaid + paid
           fresh   == [NoInfo EXCEPT !.confirmed = paid, !.transferred = open, !.flags = given]
<1>1. InitialFlags \ {"WAITING"} \subseteq given OBVIOUS
<1>2. info' = IF db.cc = NoCC THEN sendCCRequest(fresh) ELSE [fresh EXCEPT !.toConfirm = due]
  BY DEF Balance
<1>3. loginEntry' = [live |-> TRUE, flags |-> {}, removes |-> {}, confirmed |-> 0]
  BY DEF Balance, NoLogin
<1>4. info'.confirmed = paid /\ info'.transferred = open
      /\ IsInfo(info') /\ given \subseteq info'.flags
  <2>1. fresh = [NoInfo EXCEPT !.confirmed = paid, !.transferred = open, !.flags = given]
    OBVIOUS
  <2> HIDE DEF paid, open, due, given, fresh
  <2>2. IsInfo(fresh) /\ fresh.flags = given /\ fresh.transferred = open /\ fresh.confirmed = paid
    BY <2>1 DEF IsInfo, NoInfo
  <2>3. LET r == [fresh EXCEPT !.toConfirm = due] IN
        IsInfo(r) /\ SameBytes(fresh, r) /\ r.flags = fresh.flags
    BY <2>2, NewTarget
  <2>4. CASE db.cc = NoCC BY <1>2, <2>2, <2>4, SendKeeps DEF SameBytes
  <2>5. CASE db.cc # NoCC BY <1>2, <2>2, <2>3, <2>5 DEF SameBytes
  <2> QED BY <2>4, <2>5
<1> HIDE DEF given
<1>5. InitialFlags \ {"WAITING"} \subseteq info'.flags BY <1>1, <1>4
<1>6. IsLogin(loginEntry') /\ loginEntry'.flags = {} /\ loginEntry'.removes = {}
      /\ loginEntry'.confirmed = 0
  BY <1>3 DEF IsLogin
<1> QED BY <1>4, <1>5, <1>6

(* What is left of a settlement, a packet and a cost confirmation.         *)
LEMMA TrafficKeepsFit ==
  ASSUME FlagsFit, [TrafficNext]_trafficVars PROVE FlagsFit'
<1> USE DEF FlagsFit
<1>1. CASE Balance BY <1>1, BalanceKeeps DEF Balance
<1>2. CASE EndExchange \/ NothingToSettle
  BY <1>2 DEF EndExchange, NothingToSettle, settlementVars, accounts
<1>3. CASE FinishLogin
  <2> DEFINE empty == "BLOCKED" \notin FinishedFlags /\ "EMPTY" \in FinishedFlags
             moved == IF empty THEN info.confirmed ELSE info.transferred
  <2>1. info' = [info EXCEPT !.flags = FinishedFlags, !.transferred = moved]
    BY <1>3 DEF FinishLogin
  <2>2. loginEntry' = loginEntry \/ loginEntry' = [loginEntry EXCEPT !.confirmed = info.confirmed]
    BY <1>3 DEF FinishLogin
  <2>3. phase' = "online" => "EMPTY" \notin FinishedFlags
    BY <1>3 DEF FinishLogin
  <2>4. IsLogin(loginEntry') BY <2>2 DEF IsLogin
  <2> HIDE DEF moved
  <2>5. info' = [flags |-> FinishedFlags, transferred |-> moved, confirmed |-> info.confirmed,
                 toConfirm |-> info.toConfirm, packets |-> info.packets, late |-> info.late]
    BY <2>1 DEF IsInfo
  <2> QED BY <2>3, <2>4, <2>5 DEF IsInfo
<1>4. CASE Packet
  <2> DEFINE c == Counted(info)
  <2>1. IsInfo(c) /\ c.flags = info.flags BY CountedKeeps
  <2>2. phase = "online" /\ phase' = phase BY <1>4 DEF Packet
  <2>3. CASE Unchecked(c) BY <1>4, <2>1, <2>2, <2>3 DEF Packet
  <2>4. CASE ~Unchecked(c)
    <3>1. info' = Checked(c, loginEntry) /\ loginEntry' = NoticeTaken(loginEntry)
      BY <1>4, <2>4 DEF Packet
    <3> HIDE DEF c
    <3>2. /\ IsInfo(info')
          /\ "EMPTY" \in info'.flags => "EMPTY" \in c.flags \/ Notice(loginEntry) = "EMPTY"
      <4> PICK n, r : n = Noticed(c, loginEntry) /\ r = Checked(c, loginEntry) OBVIOUS
      <4>1. IsInfo(r) /\ r.flags \subseteq n.flags \cup {"HARD_LIMIT", "SENT_CC_REQUEST", "FATAL_ERROR"}
        BY ONLY <2>1, CheckedKeeps, n = Noticed(c, loginEntry) /\ r = Checked(c, loginEntry)
      <4>2. "EMPTY" \in n.flags => "EMPTY" \in c.flags \/ Notice(loginEntry) = "EMPTY"
        BY ONLY <2>1, NoticedKeeps, n = Noticed(c, loginEntry) /\ r = Checked(c, loginEntry)
      <4> QED BY ONLY <3>1, <4>1, <4>2, n = Noticed(c, loginEntry) /\ r = Checked(c, loginEntry)
    <3>3. /\ IsLogin(loginEntry')
          /\ "EMPTY" \in loginEntry.flags => "EMPTY" \in loginEntry'.flags
      BY <3>1, NoticeTakenKeeps
    <3>4. Notice(loginEntry) = "EMPTY" => "EMPTY" \in loginEntry.flags
      BY DEF Notice
    <3> QED BY <2>1, <2>2, <3>2, <3>3, <3>4
  <2> QED BY <2>3, <2>4
<1>5. CASE TimePasses
  BY <1>5, LateKeeps DEF TimePasses, settlementVars, accounts
<1>6. CASE Close
  BY <1>6 DEF Close, NoInfo, NoLogin, IsInfo, IsLogin
<1>7. ASSUME NEW bytes \in 1..MaxBytes, HandleCC(bytes) PROVE FlagsFit'
  <2>1. UNCHANGED <<loginEntry, phase>> BY <1>7 DEF HandleCC
  <2> DEFINE k == [info EXCEPT !.confirmed = bytes]
  <2>2. IsInfo(k) /\ k.flags = info.flags BY DEF IsInfo
  <2>3. info' = Refused(info) \/ info' = Confirmed(info) \/ info' = Confirmed(k)
    BY <1>7 DEF HandleCC, RefuseCC, AcceptCC
  <2> HIDE DEF k
  <2>4. IsInfo(info') /\ info'.flags \ {"LOGIN_FAILED"} \subseteq info.flags
    BY <2>2, <2>3, RefusedKeeps, ConfirmedKeeps
  <2> QED BY <2>1, <2>4
<1>8. ASSUME NEW t \in Settlers, SettleInPhase(t) PROVE FlagsFit'
  <2>1. Settle(t) /\ info' = info /\ (phase' = phase \/ phase' = "settled")
    BY <1>8 DEF SettleInPhase, Settle
  <2> QED BY <2>1, SettleKeepsLogin
<1>9. CASE UNCHANGED trafficVars BY <1>9 DEF trafficVars, settlementVars, accounts
<1> QED BY <1>1, <1>2, <1>3, <1>4, <1>5, <1>6, <1>7, <1>8, <1>9 DEF TrafficNext

(* No step forgets a verdict but that which ends the connection.           *)
LEMMA VerdictStep ==
  ASSUME FlagsFit, [TrafficNext]_trafficVars,
         NEW f \in {"BLOCKED", "EMPTY", "INVALID", "UNKNOWN"},
         f \in loginEntry.flags, loginEntry'.live
  PROVE  f \in loginEntry'.flags \/ "FATAL_ERROR" \in info'.flags \/ phase' # phase
<1> USE DEF FlagsFit
<1>1. CASE Balance \/ EndExchange \/ NothingToSettle \/ FinishLogin \/ Close
  BY <1>1 DEF Balance, EndExchange, NothingToSettle, FinishLogin, Close
<1>2. CASE TimePasses BY <1>2 DEF TimePasses, settlementVars, accounts
<1>3. ASSUME NEW bytes \in 1..MaxBytes, HandleCC(bytes) PROVE loginEntry' = loginEntry
  BY <1>3 DEF HandleCC
<1>4. ASSUME NEW t \in Settlers, SettleInPhase(t) PROVE f \in loginEntry'.flags
  <2>1. Settle(t) BY <1>4 DEF SettleInPhase, Settle
  <2> QED BY <2>1, SettleKeepsLogin
<1>5. CASE Packet
  <2> DEFINE c == Counted(info)
             n == Noticed(c, loginEntry)
  <2>1. IsInfo(c) /\ c.flags = info.flags BY CountedKeeps
  <2>2. CASE Unchecked(c) BY <1>5, <2>2 DEF Packet
  <2>3. CASE ~Unchecked(c)
    <3>1. phase = "online" /\ info' = Checked(c, loginEntry) /\ loginEntry' = NoticeTaken(loginEntry)
      BY <1>5, <2>3 DEF Packet
    <3>2. loginEntry'.flags = loginEntry.flags \ ({Notice(loginEntry)} \ {"EMPTY"})
      BY <3>1, NoticeTakenKeeps
    <3>3. CASE f # Notice(loginEntry) \/ f = "EMPTY" BY <3>2, <3>3
    <3>4. CASE f = Notice(loginEntry) /\ f # "EMPTY"
      (* The account is not empty, or that would have been looked at first. *)
      <4>1. IsError(Notice(loginEntry)) BY <3>4 DEF IsError
      <4>2. "EMPTY" \notin loginEntry.flags BY <3>4 DEF Notice
      <4> HIDE DEF c
      <4>3. "EMPTY" \notin n.flags
        BY <2>1, <3>1, <3>4, <4>2, NoticedKeeps
      <4>4. IsError(Notice(loginEntry)) /\ "EMPTY" \notin n.flags
              => "FATAL_ERROR" \in Checked(c, loginEntry).flags
        BY <2>1, CheckedKeeps
      <4> QED BY <3>1, <4>1, <4>3, <4>4
    <3> QED BY <3>3, <3>4
  <2> QED BY <2>2, <2>3
<1>6. CASE UNCHANGED trafficVars BY <1>6 DEF trafficVars, settlementVars, accounts
<1> QED BY <1>1, <1>2, <1>3, <1>4, <1>5, <1>6 DEF TrafficNext

(* Whatever a settlement finds out about an account, its user is told, or  *)
(* cut off, by a packet of his: no other result, and no packet that takes  *)
(* notice of another one, makes the first mix forget it.                   *)
THEOREM VerdictsAreKept == TrafficSpec => NoVerdictLost
<1>1. TrafficInit => FlagsFit
  BY DEF TrafficInit, SettlementInit, FlagsFit, NoInfo, NoLogin, IsInfo, IsLogin
<1>2. FlagsFit /\ [TrafficNext]_trafficVars => FlagsFit'
  BY TrafficKeepsFit
<1> DEFINE Kept == \A f \in {"BLOCKED", "EMPTY", "INVALID", "UNKNOWN"} :
                     f \in loginEntry.flags /\ loginEntry'.live =>
                       f \in loginEntry'.flags \/ "FATAL_ERROR" \in info'.flags
                         \/ phase' # phase
<1>3. FlagsFit /\ [TrafficNext]_trafficVars => [Kept]_trafficVars
  BY VerdictStep
<1>4. TrafficSpec => [][Kept]_trafficVars
  <2> HIDE DEF Kept
  <2> QED BY <1>1, <1>2, <1>3, PTL DEF TrafficSpec
<1> QED BY <1>4 DEF NoVerdictLost

-----------------------------------------------------------------------------
(* The prepaid bytes, a signed number made of two that wrap.               *)

(* A number not far from 0, modulo W.                                      *)
LEMMA ModNear ==
  ASSUME NEW W \in Nat \ {0}, NEW a \in Int
  PROVE  /\ 0 <= a /\ a < W => a % W = a
         /\ W <= a /\ a < 2 * W => a % W = a - W
         /\ -W <= a /\ a < 0 => a % W = a + W
<1>1. 0 <= a /\ a < W => a % W = a BY Z3
<1>2. W <= a /\ a < 2 * W => a % W = a - W BY Z3
<1>3. -W <= a /\ a < 0 => a % W = a + W BY Z3
<1> QED BY <1>1, <1>2, <1>3

Counts(i) == i.transferred \in 0..(Word - 1) /\ i.confirmed \in 0..MaxBytes

(* The words are wide enough.                                              *)
LEMMA WordWide ==
  /\ Word \in Nat \ {0} /\ MaxBytes \in Nat /\ PrepaidInterval \in Nat \ {0}
  /\ 2 * MaxBytes < Word /\ 2 * PrepaidInterval < Word
  /\ 2 * (MaxBytes + PrepaidInterval) < Word
BY SettlementAssumption, TrafficAssumption

(* The remainders that the counters need.                                  *)
LEMMA WordTurns ==
  ASSUME NEW a \in Int
  PROVE  /\ 0 <= a /\ a < Word => a % Word = a
         /\ Word <= a /\ a < 2 * Word => a % Word = a - Word
         /\ -Word <= a /\ a < 0 => a % Word = a + Word
BY WordWide, ModNear

(* A number is known by its remainder, if it is small enough.              *)
LEMMA OneTurn ==
  ASSUME NEW W \in Nat, NEW p \in Int, NEW q \in Int, NEW d \in Int,
         -W <= 2 * p, 2 * p < W, -W <= 2 * q, 2 * q < W,
         d \in {q, q + W, q - W}, d \in {p, p + W, p - W}
  PROVE  q = p
OBVIOUS

(* A difference of counters, after one of them has been counted on, ...    *)
LEMMA TurnCounted ==
  ASSUME NEW W \in Nat, NEW p \in Int, NEW c \in Int, NEW t \in Int, NEW x \in Int,
         -W <= 2 * p, 2 * p < W, 0 <= c, c < W, 0 <= t, t < W,
         c - t \in {p, p + W, p - W}, x = t + 1 \/ (t + 1 = W /\ x = 0)
  PROVE  c - x \in {p - 1, p - 1 + W, p - 1 - W}
OBVIOUS

(* ... and after both have been moved.                                     *)
LEMMA TurnMoved ==
  ASSUME NEW W \in Nat, NEW p \in Int, NEW x \in Int, NEW c \in Int, NEW t \in Int,
         NEW b \in Int, NEW m \in Int, m = t + b - c, x \in {m, m - W, m + W},
         c - t \in {p, p + W, p - W}, -W < b - x, b - x < W, -W <= 2 * p, 2 * p < W
  PROVE  b - x \in {p, p + W, p - W}
OBVIOUS

(* They are the difference of the counters, but for a turn of the words.   *)
LEMMA PrepaidHas ==
  ASSUME NEW i, Counts(i)
  PROVE  LET p == getPrepaidBytes(i)
             d == i.confirmed - i.transferred
         IN  p \in Int /\ -Word <= 2 * p /\ 2 * p < Word /\ d \in {p, p + Word, p - Word}
<1> DEFINE d == i.confirmed - i.transferred
           e == d % Word
<1>1. d \in Int /\ -Word < d /\ d < Word BY WordWide DEF Counts
<1>2. getPrepaidBytes(i) = IF 2 * e >= Word THEN e - Word ELSE e BY DEF getPrepaidBytes
<1>3. (d >= 0 /\ e = d) \/ (d < 0 /\ e = d + Word)
  <2> HIDE DEF d, e
  <2>1. e = d % Word BY DEF e
  <2>2. CASE d >= 0 BY <1>1, <2>1, <2>2, WordTurns
  <2>3. CASE d < 0 BY <1>1, <2>1, <2>3, WordWide, WordTurns
  <2> QED BY <1>1, <2>2, <2>3
<1> HIDE DEF d, e
<1> QED BY <1>1, <1>2, <1>3, WordWide DEF d

(* A difference of the counters that is small enough is the balance.       *)
LEMMA PrepaidIs ==
  ASSUME NEW i, Counts(i), NEW p \in Int, -Word <= 2 * p, 2 * p < Word,
         i.confirmed - i.transferred \in {p, p + Word, p - Word}
  PROVE  getPrepaidBytes(i) = p
<1> DEFINE q == getPrepaidBytes(i)
           d == i.confirmed - i.transferred
<1>1. q \in Int /\ -Word <= 2 * q /\ 2 * q < Word /\ d \in {q, q + Word, q - Word}
  BY PrepaidHas
<1>2. d \in {p, p + Word, p - Word} OBVIOUS
<1>3. d \in Int /\ -Word <= 2 * p /\ 2 * p < Word /\ Word \in Nat BY <1>1, WordWide
<1> HIDE DEF d, q
<1>4. q = p BY <1>1, <1>2, <1>3, OneTurn
<1> QED BY <1>4 DEF q

(* A packet costs one byte (bytes are counted in packets).                 *)
LEMMA CountTurns ==
  ASSUME NEW t \in 0..(Word - 1)
  PROVE  LET x == (t + 1) % Word IN
         x \in 0..(Word - 1) /\ (x = t + 1 \/ (t + 1 = Word /\ x = 0))
<1> DEFINE x == (t + 1) % Word
<1>1. t + 1 \in Int /\ 0 <= t + 1 /\ t + 1 <= Word BY WordWide
<1>2. t + 1 < Word => x = t + 1 BY <1>1, WordTurns
<1>3. t + 1 = Word => x = t + 1 - Word BY <1>1, WordWide, WordTurns
<1> HIDE DEF x
<1>6. x \in 0..(Word - 1) /\ (x = t + 1 \/ (t + 1 = Word /\ x = 0))
  BY <1>1, <1>2, <1>3, WordWide
<1> QED BY <1>6 DEF x

(* The balance is less by one then.                                        *)
LEMMA PacketCosts ==
  ASSUME NEW i, Counts(i), getPrepaidBytes(i) > -PrepaidInterval, NEW j,
         j.confirmed = i.confirmed, j.transferred \in 0..(Word - 1),
         \/ j.transferred = i.transferred + 1
         \/ i.transferred + 1 = Word /\ j.transferred = 0
  PROVE  Counts(j) /\ getPrepaidBytes(j) = getPrepaidBytes(i) - 1
<1> DEFINE p == getPrepaidBytes(i)
           c == i.confirmed
           t == i.transferred
           x == j.transferred
<1>1. /\ p \in Int /\ -Word <= 2 * p /\ 2 * p < Word
      /\ c - t \in {p, p + Word, p - Word}
  BY PrepaidHas
<1>2. Counts(j) BY DEF Counts
<1>3. p > -PrepaidInterval OBVIOUS
<1>4. x = t + 1 \/ (t + 1 = Word /\ x = 0) OBVIOUS
<1>5. /\ c \in Int /\ 0 <= c /\ c < Word /\ t \in Int /\ 0 <= t /\ t < Word /\ x \in Int
      /\ Word \in Nat
  BY WordWide DEF Counts
<1>6. j.confirmed = c OBVIOUS
<1> HIDE DEF p, c, t, x
<1>7. c - x \in {p - 1, p - 1 + Word, p - 1 - Word}
  BY <1>1, <1>4, <1>5, TurnCounted
<1>8. -Word <= 2 * (p - 1) /\ 2 * (p - 1) < Word /\ p - 1 \in Int
  BY <1>1, <1>3, WordWide
<1>9. j.confirmed - j.transferred \in {p - 1, p - 1 + Word, p - 1 - Word}
  BY <1>6, <1>7 DEF x
<1>10. getPrepaidBytes(j) = p - 1 BY <1>2, <1>8, <1>9, PrepaidIs
<1> QED BY <1>2, <1>10 DEF p

(* Moved to another cost confirmation, the balance stays what it is.       *)
LEMMA MoveTurns ==
  ASSUME NEW m \in Int, -Word <= m, m < 2 * Word, NEW x, x = m % Word
  PROVE  x \in 0..(Word - 1) /\ x \in {m, m - Word, m + Word}
<1>1. CASE 0 <= m /\ m < Word
  <2>1. x = m BY <1>1, WordTurns
  <2> QED BY <1>1, <2>1, WordWide
<1>2. CASE Word <= m
  <2>1. m % Word = m - Word BY <1>2, WordTurns
  <2>2. x = m - Word BY <2>1
  <2> QED BY <1>2, <2>2, WordWide
<1>3. CASE m < 0
  <2>1. m % Word = m + Word BY <1>3, WordTurns
  <2>2. x = m + Word BY <2>1
  <2> QED BY <1>3, <2>2, WordWide
<1> QED BY <1>1, <1>2, <1>3, WordWide

(* The balance is the same then.                                           *)
LEMMA MovedKeepsCredit ==
  ASSUME NEW i, Counts(i), NEW b \in 0..MaxBytes, NEW j,
         j.confirmed = b, j.transferred = (i.transferred + b - i.confirmed) % Word
  PROVE  Counts(j) /\ getPrepaidBytes(j) = getPrepaidBytes(i)
<1> DEFINE p == getPrepaidBytes(i)
           c == i.confirmed
           t == i.transferred
           x == j.transferred
           m == t + b - c
<1>1. /\ p \in Int /\ -Word <= 2 * p /\ 2 * p < Word
      /\ c - t \in {p, p + Word, p - Word}
  BY PrepaidHas
<1>2. c \in Int /\ 0 <= c /\ c <= MaxBytes /\ t \in Int /\ 0 <= t /\ t < Word
  BY WordWide DEF Counts
<1>3. x = m % Word OBVIOUS
<1>4. j.confirmed = b OBVIOUS
<1> HIDE DEF p, c, t, x
<1>5. m \in Int /\ -Word <= m /\ m < 2 * Word BY <1>2, WordWide
<1>6. x \in 0..(Word - 1) /\ x \in {m, m - Word, m + Word}
  <2> HIDE DEF m
  <2> QED BY <1>3, <1>5, MoveTurns
<1>7. Counts(j) BY <1>4, <1>6 DEF Counts, x
<1>8. b \in Int /\ x \in Int /\ -Word < b - x /\ b - x < Word /\ Word \in Nat BY <1>6, WordWide
<1>9. m = t + b - c OBVIOUS
<1> HIDE DEF m
<1>10. b - x \in {p, p + Word, p - Word} BY <1>1, <1>2, <1>5, <1>6, <1>8, <1>9, TurnMoved
<1>11. j.confirmed - j.transferred \in {p, p + Word, p - Word} BY <1>4, <1>10 DEF x
<1>12. getPrepaidBytes(j) = p BY <1>1, <1>7, <1>11, PrepaidIs
<1> QED BY <1>7, <1>12 DEF p

(* What is left of an empty account is not negative.                       *)
LEMMA LeftIsPositive ==
  ASSUME NEW i, Counts(i), NEW b \in 0..MaxBytes, NEW j, j.confirmed = b,
         j.transferred = IF b < i.transferred THEN b ELSE i.transferred
  PROVE  Counts(j) /\ getPrepaidBytes(j) >= 0
<1>1. j.transferred \in 0..b BY DEF Counts
<1>2. Counts(j) BY <1>1, WordWide DEF Counts
<1> DEFINE p == b - j.transferred
<1>3. p \in Int /\ 0 <= p /\ -Word <= 2 * p /\ 2 * p < Word BY <1>1, WordWide
<1>4. getPrepaidBytes(j) = p
  <2>1. j.confirmed - j.transferred = p OBVIOUS
  <2> HIDE DEF p
  <2> QED BY <1>2, <1>3, <2>1, PrepaidIs
<1> QED BY <1>2, <1>3, <1>4

(* The balance of a login.                                                 *)
LEMMA BalanceIs ==
  ASSUME NEW b \in 0..MaxBytes, NEW x \in 0..b, NEW j, j.confirmed = b, j.transferred = b - x
  PROVE  Counts(j) /\ getPrepaidBytes(j) = x
<1>1. Counts(j) BY WordWide DEF Counts
<1>2. x \in Int /\ -Word <= 2 * x /\ 2 * x < Word /\ j.confirmed - j.transferred = x BY WordWide
<1> QED BY <1>1, <1>2, PrepaidIs

(* More confirmed, more prepaid, as long as the words do not wrap.         *)
LEMMA ConfirmedMore ==
  ASSUME NEW i, Counts(i), 2 * (getPrepaidBytes(i) + MaxBytes - i.confirmed) < Word,
         NEW b \in 0..MaxBytes, b >= i.confirmed,
         NEW j, j.confirmed = b, j.transferred = i.transferred
  PROVE  Counts(j) /\ getPrepaidBytes(j) >= getPrepaidBytes(i)
<1> DEFINE p == getPrepaidBytes(i)
           q == p + b - i.confirmed
<1>1. /\ p \in Int /\ -Word <= 2 * p /\ 2 * p < Word
      /\ i.confirmed - i.transferred \in {p, p + Word, p - Word}
  BY PrepaidHas
<1>2. Counts(j) BY DEF Counts
<1>3. 2 * (p + MaxBytes - i.confirmed) < Word OBVIOUS
<1> HIDE DEF p
<1>4. q \in Int /\ q >= p /\ -Word <= 2 * q /\ 2 * q < Word
  BY <1>1, <1>3, WordWide DEF Counts
<1>5. j.confirmed - j.transferred \in {q, q + Word, q - Word} BY <1>1, WordWide DEF Counts
<1> HIDE DEF q
<1>6. getPrepaidBytes(j) = q BY <1>2, <1>4, <1>5, PrepaidIs
<1> QED BY <1>2, <1>4, <1>6 DEF p

-----------------------------------------------------------------------------
(* What the database, the results on their way and the login table hold.   *)

Statuses == {"ok", "EMPTY", "BLOCKED"}
Removed  == {"WAITING"} \cup Statuses

EntryType ==
  [flags : SUBSET {"EMPTY", "OUTDATED", "BLOCKED", "INVALID", "UNKNOWN"}, removes : SUBSET Removed,
   confirmed : 0..MaxBytes, diff : Int, stored : Statuses]

RowFits(d) ==
  /\ IsRow(d)
  /\ d.cc # NoCC => d.cc.bytes \in 1..MaxBytes
  /\ d.status \in Statuses /\ d.prepaid \in Int

(* The parts of a row are replaced one at a time.                          *)
LEMMA RowStatus ==
  ASSUME NEW d, RowFits(d), NEW s \in Statuses
  PROVE  RowFits(storeAccountStatus(d, s))
<1>1. storeAccountStatus(d, s) = [cc |-> d.cc, status |-> s, prepaid |-> d.prepaid]
  BY DEF storeAccountStatus, RowFits, IsRow
<1> QED BY <1>1 DEF RowFits, IsRow

(* The prepaid bytes are replaced.                                         *)
LEMMA RowPrepaid ==
  ASSUME NEW d, RowFits(d), NEW n \in Int
  PROVE  RowFits([d EXCEPT !.prepaid = n])
<1>1. [d EXCEPT !.prepaid = n] = [cc |-> d.cc, status |-> d.status, prepaid |-> n]
  BY DEF RowFits, IsRow
<1> QED BY <1>1 DEF RowFits, IsRow

(* The cost confirmation is replaced, ...                                  *)
LEMMA RowCC ==
  ASSUME NEW d, RowFits(d), NEW c, IsCC(c), c # NoCC => c.bytes \in 1..MaxBytes
  PROVE  RowFits([d EXCEPT !.cc = c])
<1>1. [d EXCEPT !.cc = c] = [cc |-> c, status |-> d.status, prepaid |-> d.prepaid]
  BY DEF RowFits, IsRow
<1>2. IsRow([d EXCEPT !.cc = c]) BY RowWithCC DEF RowFits
<1> HIDE DEF CCType
<1> QED BY <1>1, <1>2 DEF RowFits

(* ... by one that the user has signed, ...                                *)
LEMMA RowStored ==
  ASSUME NEW d, RowFits(d), NEW b \in 1..MaxBytes
  PROVE  RowFits(storeCostConfirmation(d, b))
<1>1. IsCC(CC(b)) /\ CC(b).bytes = b BY SettlementAssumption, CCTypes DEF CC
<1> QED BY <1>1, RowCC DEF storeCostConfirmation

(* ... or by none.                                                         *)
LEMMA RowDeleted == ASSUME NEW d, RowFits(d) PROVE RowFits(deleteCC(d))
BY CCTypes, RowCC DEF deleteCC

(* It is marked as settled and is the same otherwise.                      *)
LEMMA CCMarked ==
  ASSUME NEW k \in CCType, NEW c, c = [k EXCEPT !.settled = TRUE]
  PROVE  c \in CCType /\ c.bytes = k.bytes
BY DEF CCType

(* So is its row.                                                          *)
LEMMA RowMarked ==
  ASSUME NEW d, RowFits(d), NEW b \in Nat PROVE RowFits(markAsSettled(d, b))
<1>1. CASE d.cc.bytes # b BY <1>1 DEF markAsSettled
<1>2. CASE d.cc.bytes = b
  <2> DEFINE c == [d.cc EXCEPT !.settled = TRUE]
  <2>1. markAsSettled(d, b) = [d EXCEPT !.cc = c] BY <1>2 DEF markAsSettled
  <2>2. d.cc \in CCType /\ d.cc # NoCC BY <1>2, SettlementAssumption DEF RowFits, IsRow, NoCC
  <2>3. c = [d.cc EXCEPT !.settled = TRUE] OBVIOUS
  <2> HIDE DEF c
  <2>4. IsCC(c) /\ c.bytes = b BY <1>2, <2>2, <2>3, CCMarked, SettlementAssumption DEF IsCC
  <2>5. b \in 1..MaxBytes BY <1>2, <2>2 DEF RowFits
  <2> QED BY <2>1, <2>4, <2>5, RowCC
<1> QED BY <1>1, <1>2

(* An answer of the payment instance leaves a row in order, ...            *)
LEMMA RowRecorded ==
  ASSUME NEW d, RowFits(d), NEW v \in Verdict, NEW bytes \in Nat
  PROVE  RowFits(Recorded(d, v, bytes))
<1>1. CASE v.code = "ok" BY <1>1, RowMarked DEF Recorded
<1>2. CASE v.code = "accountEmpty"
  <2>1. Recorded(d, v, bytes) = markAsSettled(storeAccountStatus(d, "EMPTY"), bytes)
    BY <1>2 DEF Recorded
  <2> QED BY <2>1, RowStatus, RowMarked DEF Statuses
<1>3. CASE v.code = "outdated" /\ v.bytes # NoBytes
  <2>1. v.bytes \in 1..MaxBytes BY <1>3 DEF Verdict
  <2>2. Recorded(d, v, bytes) = markAsSettled(storeCostConfirmation(d, v.bytes), v.bytes)
    BY <1>3 DEF Recorded
  <2>3. v.bytes \in Nat BY <2>1, SettlementAssumption
  <2> QED BY <2>1, <2>2, <2>3, RowStored, RowMarked
<1>4. CASE v.code = "blocked"
  <2>1. Recorded(d, v, bytes) = deleteCC(storeAccountStatus(d, "BLOCKED"))
    BY <1>4 DEF Recorded
  <2> QED BY <2>1, RowStatus, RowDeleted DEF Statuses
<1>5. CASE v.code \in {"keyNotFound", "other"} BY <1>5, RowDeleted DEF Recorded
<1>6. CASE \/ v.code \in {"noAnswer", "databaseError", "internalError"}
           \/ v.code = "outdated" /\ v.bytes = NoBytes
  BY <1>6 DEF Recorded
<1>7. v.code \in {"ok", "noAnswer", "databaseError", "keyNotFound", "blocked",
                  "internalError", "other", "accountEmpty", "outdated"}
  BY DEF Verdict
<1> QED BY <1>1, <1>2, <1>3, <1>4, <1>5, <1>6, <1>7

(* ... and so does the commit of its result.                               *)
LEMMA RowCommitted ==
  ASSUME NEW d, RowFits(d), NEW e \in EntryType PROVE RowFits(Committed(d, e))
<1> DEFINE n == Committed(d, e).prepaid
           s == Committed(d, e).status
<1>1. n \in Int
  <2>1. n = IF e.flags \cap {"INVALID", "UNKNOWN"} # {} THEN 0
            ELSE IF e.diff > 0 /\ d.prepaid > 0 THEN Less(d.prepaid, e.diff)
            ELSE d.prepaid
    BY DEF Committed
  <2>2. d.prepaid \in Int /\ e.diff \in Int BY DEF RowFits, EntryType
  <2>3. Less(d.prepaid, e.diff) \in Int BY <2>2 DEF Less
  <2> HIDE DEF n
  <2> QED BY <2>1, <2>2, <2>3
<1>2. s \in Statuses BY DEF Committed, RowFits, Statuses
<1>3. Committed(d, e) = [cc |-> d.cc, status |-> s, prepaid |-> n] BY DEF Committed
<1>4. IsRow(Committed(d, e)) BY CommitKeepsCC DEF RowFits
<1> HIDE DEF n, s
<1> QED BY <1>1, <1>2, <1>3, <1>4 DEF RowFits

(* The results of settlements.                                             *)
LEMMA EntrySettled ==
  ASSUME NEW v \in Verdict, NEW bytes \in Nat, NEW s \in Statuses
  PROVE  SettleEntry(v, bytes, s) \in EntryType
<1> DEFINE e == SettleEntry(v, bytes, s)
<1>1. e.flags \in SUBSET {"EMPTY", "OUTDATED", "BLOCKED", "INVALID", "UNKNOWN"} BY DEF SettleEntry
<1>2. e.removes \in SUBSET Removed BY DEF SettleEntry, Removed
<1>3. v.bytes = NoBytes \/ v.bytes \in 1..MaxBytes BY DEF Verdict
<1>4. e.confirmed \in 0..MaxBytes
  <2>1. e.confirmed = IF v.bytes = NoBytes THEN 0 ELSE v.bytes BY DEF SettleEntry
  <2> HIDE DEF e
  <2> QED BY <1>3, <2>1, SettlementAssumption
<1>5. e.diff \in Int
  <2>1. e.diff = IF v.code = "accountEmpty" /\ v.bytes # NoBytes THEN Less(bytes, v.bytes) ELSE 0
    BY DEF SettleEntry
  <2>2. v.bytes # NoBytes => Less(bytes, v.bytes) \in Int
    BY <1>3, SettlementAssumption DEF Less
  <2> HIDE DEF e
  <2> QED BY <2>1, <2>2
<1>6. e = [flags |-> e.flags, removes |-> e.removes, confirmed |-> e.confirmed,
           diff |-> e.diff, stored |-> s]
  BY DEF SettleEntry
<1> HIDE DEF e
<1>7. e \in EntryType BY <1>1, <1>2, <1>4, <1>5, <1>6 DEF EntryType
<1> QED BY <1>7 DEF e

(* A result that clears the status stays one.                              *)
LEMMA EntryCleared ==
  ASSUME NEW e \in EntryType PROVE WithClearedStatus(e) \in EntryType
<1>1. CASE ~ClearsStatus(e) BY <1>1 DEF WithClearedStatus
<1>2. CASE ClearsStatus(e)
  <2>1. WithClearedStatus(e) = [e EXCEPT !.removes = e.removes \cup {e.stored}]
    BY <1>2 DEF WithClearedStatus
  <2>2. e.removes \cup {e.stored} \in SUBSET Removed BY DEF EntryType, Removed
  <2> QED BY <2>1, <2>2 DEF EntryType
<1> QED BY <1>1, <1>2

(* There is a result that says nothing.                                    *)
LEMMA EntryNone == NoSettleEntry \in EntryType
BY SettlementAssumption DEF NoSettleEntry, EntryType, Statuses

StoreFits ==
  /\ RowFits(db) /\ entry \in [Settlers -> EntryType]
  /\ loginEntry.confirmed \in 0..MaxBytes /\ loginEntry.removes \in SUBSET Removed

(* No settlement spoils what is stored, ...                                *)
LEMMA SettleKeepsStore ==
  ASSUME SeenInv, IsLogin(loginEntry), StoreFits, NEW t \in Settlers, Settle(t)
  PROVE  StoreFits'
<1> USE DEF StoreFits
<1>1. CASE Answer(t)
  <2>1. settler[t] = "asking" /\ loginEntry' = loginEntry BY <1>1 DEF Answer
  <2>2. asked[t] \in Nat BY <2>1 DEF SeenInv
  <2> DEFINE d(v) == Recorded(db, v, asked[t])
             e(v) == SettleEntry(v, asked[t], db.status)
  <2>3. PICK v \in Verdicts :
          \/ db' = Committed(d(v), e(v)) /\ entry' = [entry EXCEPT ![t] = WithClearedStatus(e(v))]
          \/ db' = d(v) /\ entry' = [entry EXCEPT ![t] = e(v)]
    BY <1>1 DEF Answer
  <2>4. v \in Verdict /\ db.status \in Statuses BY VerdictAssumption DEF RowFits
  <2>5. RowFits(d(v)) /\ e(v) \in EntryType BY <2>2, <2>4, RowRecorded, EntrySettled
  <2> HIDE DEF d, e
  <2>6. RowFits(db') BY <2>3, <2>5, RowCommitted
  <2>7. \E x \in EntryType : entry' = [entry EXCEPT ![t] = x] BY <2>3, <2>5, EntryCleared
  <2>8. entry' \in [Settlers -> EntryType] BY <2>7
  <2> QED BY <2>1, <2>6, <2>8 DEF RowFits, IsRow
<1>2. CASE GoOn(t)
  <2>1. /\ db' = db \/ db' = Committed(db, entry[t])
        /\ entry' = [entry EXCEPT ![t] = WithClearedStatus(entry[t])] /\ loginEntry' = loginEntry
    BY <1>2 DEF GoOn
  <2>2. entry[t] \in EntryType OBVIOUS
  <2>3. RowFits(db') BY <2>1, <2>2, RowCommitted
  <2>4. entry' \in [Settlers -> EntryType] BY <2>1, <2>2, EntryCleared
  <2> QED BY <2>1, <2>3, <2>4 DEF RowFits, IsRow
<1>3. CASE Apply(t)
  <2>1. /\ db' = db /\ loginEntry' = Updated(loginEntry, entry[t])
        /\ entry' = [entry EXCEPT ![t] = NoSettleEntry]
    BY <1>3 DEF Apply
  <2>2. entry[t].confirmed \in 0..MaxBytes /\ entry[t].removes \in SUBSET Removed BY DEF EntryType
  <2>3. /\ loginEntry'.confirmed \in {loginEntry.confirmed, entry[t].confirmed}
        /\ loginEntry'.removes \subseteq loginEntry.removes \cup entry[t].removes
    BY <2>1, UpdatedKeeps
  <2>4. loginEntry'.confirmed \in 0..MaxBytes /\ loginEntry'.removes \in SUBSET Removed
    BY <2>2, <2>3
  <2>5. entry' \in [Settlers -> EntryType] BY <2>1, EntryNone
  <2> QED BY <2>1, <2>4, <2>5 DEF RowFits, IsRow
<1>4. CASE Ask(t) \/ AskInVain(t) \/ WakeSpuriously(t) \/ WaitAgain(t) \/ Finish(t)
  <2>1. UNCHANGED <<db, entry, loginEntry>>
    BY <1>4 DEF Ask, AskInVain, WakeSpuriously, WaitAgain, Finish, accounts
  <2> QED BY <2>1 DEF RowFits, IsRow
<1> QED BY <1>1, <1>2, <1>3, <1>4 DEF Settle

(* The balance that is stored is a number.                                 *)
LEMMA BalanceStoredFits ==
  ASSUME StoreFits, IsInfo(info), Counts(info) PROVE StoredBalance \in Int
<1> DEFINE i == IF "EMPTY" \in loginEntry.flags THEN [info EXCEPT !.confirmed = loginEntry.confirmed]
                ELSE info
           p == getPrepaidBytes(i)
<1>1. Counts(i)
  <2>1. Counts(info) OBVIOUS
  <2>2. Counts([info EXCEPT !.confirmed = loginEntry.confirmed])
    BY DEF Counts, IsInfo, StoreFits
  <2> QED BY <2>1, <2>2
<1>2. StoredBalance = IF p > PrepaidInterval THEN 0 ELSE p BY DEF StoredBalance
<1> HIDE DEF i
<1>3. p \in Int BY <1>1, PrepaidHas
<1> HIDE DEF p
<1> QED BY <1>2, <1>3

(* ... and nothing else does.                                              *)
LEMMA TrafficKeepsStore ==
  ASSUME SeenInv, FlagsFit, StoreFits, Counts(info), [TrafficNext]_trafficVars
  PROVE  StoreFits'
<1> USE DEF StoreFits, FlagsFit
<1>1. CASE Balance
  <2>1. UNCHANGED <<db, entry>> BY <1>1 DEF Balance
  <2>2. loginEntry'.confirmed = 0 /\ loginEntry'.removes = {} BY <1>1, BalanceKeeps
  <2> QED BY <2>1, <2>2, SettlementAssumption DEF RowFits, IsRow
<1>2. CASE EndExchange \/ NothingToSettle \/ TimePasses \/ UNCHANGED trafficVars
  <2>1. UNCHANGED <<db, entry, loginEntry>>
    BY <1>2 DEF EndExchange, NothingToSettle, TimePasses, trafficVars, settlementVars, accounts
  <2> QED BY <2>1 DEF RowFits, IsRow
<1>3. CASE FinishLogin
  <2>1. UNCHANGED <<db, entry>> BY <1>3 DEF FinishLogin
  <2>2. loginEntry' = loginEntry \/ loginEntry' = [loginEntry EXCEPT !.confirmed = info.confirmed]
    BY <1>3 DEF FinishLogin
  <2>3. loginEntry'.confirmed \in {loginEntry.confirmed, info.confirmed}
        /\ loginEntry'.removes = loginEntry.removes
    BY <2>2 DEF IsLogin
  <2> QED BY <2>1, <2>3 DEF RowFits, IsRow, Counts
<1>4. CASE Packet
  <2>1. UNCHANGED <<db, entry>> /\ loginEntry' \in {loginEntry, NoticeTaken(loginEntry)}
    BY <1>4 DEF Packet
  <2>2. loginEntry'.confirmed \in {loginEntry.confirmed, 0}
        /\ loginEntry'.removes = loginEntry.removes
    BY <2>1, NoticeTakenKeeps
  <2> QED BY <2>1, <2>2, SettlementAssumption DEF RowFits, IsRow
<1>5. CASE Close
  <2>1. /\ entry' = entry /\ loginEntry' = NoLogin
        /\ db' = [db EXCEPT !.prepaid = StoredBalance]
    BY <1>5 DEF Close
  <2>2. RowFits(db') BY <2>1, RowPrepaid, BalanceStoredFits
  <2> QED BY <2>1, <2>2, SettlementAssumption DEF NoLogin, RowFits, IsRow
<1>6. ASSUME NEW bytes \in 1..MaxBytes, HandleCC(bytes) PROVE StoreFits'
  <2>1. UNCHANGED <<entry, loginEntry>> /\ (db' = db \/ db' = storeCostConfirmation(db, bytes))
    BY <1>6 DEF HandleCC, RefuseCC, AcceptCC
  <2>2. RowFits(db') BY <2>1, RowStored
  <2> QED BY <2>1, <2>2 DEF RowFits, IsRow
<1>7. ASSUME NEW t \in Settlers, SettleInPhase(t) PROVE StoreFits'
  <2>1. Settle(t) BY <1>7 DEF SettleInPhase, Settle
  <2> QED BY <2>1, SettleKeepsStore
<1> QED BY <1>1, <1>2, <1>3, <1>4, <1>5, <1>6, <1>7 DEF TrafficNext

-----------------------------------------------------------------------------
(* What a user may owe.                                                    *)

Owes ==
  /\ Counts(info)
  /\ phase # "away" => "TIMEOUT_STARTED" \in info.flags
  /\ phase \in {"exchange", "settling", "settled"} => getPrepaidBytes(info) >= 0
  /\ phase = "online" =>
       /\ getPrepaidBytes(info) >= -PrepaidInterval
       /\ "FATAL_ERROR" \in info.flags \/ getPrepaidBytes(info) > -PrepaidInterval

(* All that is still to be confirmed fits into the words as well: the      *)
(* bytes transferred have not been set back that far below zero.           *)
CreditFits == 2 * (getPrepaidBytes(info) + MaxBytes - info.confirmed) < Word

(* A packet that is let through leaves the user within his interval,       *)
(* or he is kicked out.                                                    *)
LEMMA PacketKeepsOwes ==
  ASSUME FlagsFit, StoreFits, Owes, Packet PROVE Owes'
<1> DEFINE c == Counted(info)
           n == Noticed(c, loginEntry)
<1> USE DEF Owes
<1>1. /\ phase = "online" /\ phase' = phase /\ "FATAL_ERROR" \notin info.flags
      /\ getPrepaidBytes(info) > -PrepaidInterval /\ "TIMEOUT_STARTED" \in info.flags
  BY DEF Packet
<1>2. /\ IsInfo(c) /\ c.flags = info.flags /\ c.confirmed = info.confirmed
      /\ c.transferred = (info.transferred + 1) % Word
  BY CountedKeeps DEF FlagsFit
<1>3. info' = Checked(c, loginEntry)
  BY <1>1, <1>2 DEF Packet, Unchecked
<1>4. Counts(c) /\ getPrepaidBytes(c) = getPrepaidBytes(info) - 1
  <2> HIDE DEF c
  <2>1. info.transferred \in 0..(Word - 1) BY DEF Counts
  <2>2. /\ c.transferred \in 0..(Word - 1)
        /\ \/ c.transferred = info.transferred + 1
           \/ info.transferred + 1 = Word /\ c.transferred = 0
    BY <1>2, <2>1, CountTurns
  <2> QED BY <1>1, <1>2, <2>2, PacketCosts
<1>5. getPrepaidBytes(info) \in Int BY PrepaidHas
<1> DEFINE p == getPrepaidBytes(info)
           q == getPrepaidBytes(n)
           r == Checked(c, loginEntry)
<1>6. p - 1 >= -PrepaidInterval
  <2> HIDE DEF p
  <2> QED BY <1>1, <1>5, WordWide DEF p
<1> HIDE DEF c
<1>7. Counts(n) /\ q >= -PrepaidInterval
  <2>1. loginEntry.confirmed \in 0..MaxBytes BY DEF StoreFits
  <2>2. CASE SameBytes(c, n)
    <3>1. q = p - 1 BY <1>4, <2>2, SameCredit
    <3>2. Counts(n) BY <1>4, <2>2 DEF Counts, SameBytes
    <3> QED BY <1>6, <3>1, <3>2
  <2>3. CASE /\ n.confirmed = loginEntry.confirmed
             /\ n.transferred = (c.transferred + loginEntry.confirmed - c.confirmed) % Word
    <3>1. Counts(n) /\ q = p - 1 BY <1>4, <2>1, <2>3, MovedKeepsCredit
    <3> QED BY <1>6, <3>1
  <2>4. CASE /\ n.confirmed = loginEntry.confirmed
             /\ n.transferred = IF loginEntry.confirmed < c.transferred THEN loginEntry.confirmed
                                ELSE c.transferred
    <3>1. Counts(n) /\ q >= 0 BY <1>4, <2>1, <2>4, LeftIsPositive
    <3>2. q \in Int BY <3>1, PrepaidHas
    <3> HIDE DEF q
    <3> QED BY <3>1, <3>2, WordWide
  <2> QED BY <1>2, <2>2, <2>3, <2>4, NoticedKeeps
<1>8. "TIMEOUT_STARTED" \in n.flags
  <2>1. "TIMEOUT_STARTED" \notin loginEntry.removes BY DEF StoreFits, Removed, Statuses
  <2> QED BY <1>1, <1>2, <2>1, NoticedKeeps
<1>9. q \in Int BY <1>7, PrepaidHas
<1>10. /\ SameBytes(n, r) /\ n.flags \ {"HARD_LIMIT"} \subseteq r.flags
       /\ \/ q > 0 \/ q > HardLimit
          \/ ~(-q >= PrepaidInterval)
          \/ "FATAL_ERROR" \in r.flags
  BY <1>2, CheckedKeeps
<1>11. Counts(r) /\ getPrepaidBytes(r) = q
  BY <1>7, <1>10, SameCredit DEF Counts, SameBytes
<1>12. "FATAL_ERROR" \in r.flags \/ q > -PrepaidInterval
  <2> HIDE DEF q, r
  <2>1. q > 0 \/ q > HardLimit \/ ~(-q >= PrepaidInterval) => q > -PrepaidInterval
    BY <1>9, WordWide, TrafficAssumption
  <2> QED BY <1>10, <2>1
<1>13. "TIMEOUT_STARTED" \in r.flags BY <1>8, <1>10
<1> HIDE DEF q, r, n
<1>14. /\ Counts(info') /\ getPrepaidBytes(info') = q
       /\ "TIMEOUT_STARTED" \in info'.flags /\ ("FATAL_ERROR" \in info'.flags \/ q > -PrepaidInterval)
  BY <1>3, <1>11, <1>12, <1>13 DEF r
<1>15. getPrepaidBytes(info)' = getPrepaidBytes(info') /\ Counts(info)' = Counts(info')
  BY DEF getPrepaidBytes, Counts
<1> QED BY <1>1, <1>7, <1>14, <1>15

(* The login begins with what was prepaid.                                 *)
LEMMA BalanceKeepsOwes ==
  ASSUME StoreFits, Balance PROVE Owes'
<1> DEFINE paid    == IF db.cc = NoCC THEN 0 ELSE db.cc.bytes
           prepaid == IF db.prepaid > 0 /\ paid >= db.prepaid THEN db.prepaid ELSE 0
<1>1. /\ info'.confirmed = paid /\ info'.transferred = paid - prepaid
      /\ InitialFlags \ {"WAITING"} \subseteq info'.flags
  BY BalanceKeeps
<1>2. paid \in 0..MaxBytes
  <2>1. db.cc # NoCC => db.cc.bytes \in 1..MaxBytes BY DEF StoreFits, RowFits
  <2> QED BY <2>1, SettlementAssumption
<1>3. db.prepaid \in Int BY DEF StoreFits, RowFits
<1> HIDE DEF paid
<1>4. prepaid \in 0..paid BY <1>2, <1>3
<1> HIDE DEF prepaid
<1>5. Counts(info') /\ getPrepaidBytes(info') = prepaid BY <1>1, <1>2, <1>4, BalanceIs
<1>6. prepaid >= 0 BY <1>2, <1>4
<1>7. "TIMEOUT_STARTED" \in info'.flags BY <1>1 DEF InitialFlags
<1>8. phase' = "exchange" BY DEF Balance
<1>9. getPrepaidBytes(info)' = getPrepaidBytes(info') /\ Counts(info)' = Counts(info')
  BY DEF getPrepaidBytes, Counts
<1> QED BY <1>5, <1>6, <1>7, <1>8, <1>9 DEF Owes

(* A cost confirmation never makes the user owe more.                      *)
LEMMA ConfirmationKeepsOwes ==
  ASSUME FlagsFit, Owes, CreditFits, NEW bytes \in 1..MaxBytes, HandleCC(bytes) PROVE Owes'
<1> USE DEF FlagsFit
<1> DEFINE k == [info EXCEPT !.confirmed = bytes]
           p == getPrepaidBytes(info)
<1>1. phase' = phase /\ phase \in {"exchange", "online"} BY DEF HandleCC
<1>2. \/ info' = Refused(info) \/ info' = Confirmed(info)
      \/ info' = Confirmed(k) /\ bytes >= info.confirmed
  <2>1. \/ info' = Refused(info) \/ info' = Confirmed(info)
        \/ info' = Confirmed(k) /\ IsStored(bytes)
    BY DEF HandleCC, RefuseCC, AcceptCC
  <2>2. IsStored(bytes) => bytes >= info.confirmed
    <3>1. info.confirmed \in Int BY DEF Owes, Counts
    <3> QED BY <3>1 DEF IsStored
  <2> QED BY <2>1, <2>2
<1>3. IsInfo(k) /\ k.flags = info.flags /\ k.transferred = info.transferred /\ k.confirmed = bytes
  BY DEF IsInfo
<1> HIDE DEF k
<1>4. /\ IsInfo(info')
      /\ info.flags \ {"SENT_CC_REQUEST", "LOGIN_NOT_FINISHED", "HARD_LIMIT", "SKIP_SETTLEMENT"}
           \subseteq info'.flags
      /\ \/ SameBytes(info, info')
         \/ SameBytes(k, info') /\ bytes >= info.confirmed
  BY <1>2, <1>3, RefusedKeeps, ConfirmedKeeps
<1>5. Counts(info) /\ p \in Int BY PrepaidHas DEF Owes
<1>6. Counts(info') /\ getPrepaidBytes(info') >= p
  <2>1. CASE SameBytes(info, info')
    <3>1. getPrepaidBytes(info') = p BY <2>1, SameCredit
    <3>2. Counts(info') BY <1>5, <2>1 DEF Counts, SameBytes
    <3> HIDE DEF p
    <3> QED BY <1>5, <3>1, <3>2
  <2>2. CASE SameBytes(k, info') /\ bytes >= info.confirmed
    <3>1. info'.confirmed = bytes /\ info'.transferred = info.transferred
      BY <1>3, <2>2 DEF SameBytes
    <3>2. bytes \in 0..MaxBytes BY SettlementAssumption
    <3> QED BY <1>5, <2>2, <3>1, <3>2, ConfirmedMore DEF CreditFits
  <2> QED BY <1>4, <2>1, <2>2
<1>7. getPrepaidBytes(info') \in Int BY <1>6, PrepaidHas
<1>8. getPrepaidBytes(info)' = getPrepaidBytes(info') /\ Counts(info)' = Counts(info')
  BY DEF getPrepaidBytes, Counts
<1> DEFINE q == getPrepaidBytes(info')
<1>9. /\ phase # "away" => "TIMEOUT_STARTED" \in info.flags
      /\ phase \in {"exchange", "settling", "settled"} => p >= 0
      /\ phase = "online" =>
           p >= -PrepaidInterval /\ ("FATAL_ERROR" \in info.flags \/ p > -PrepaidInterval)
  BY DEF Owes
<1>10. q >= p /\ q \in Int BY <1>6, <1>7
<1> HIDE DEF p, q
<1>11. /\ p >= 0 => q >= 0
       /\ p >= -PrepaidInterval => q >= -PrepaidInterval
       /\ p > -PrepaidInterval => q > -PrepaidInterval
  BY <1>5, <1>10, WordWide
<1>12. /\ "TIMEOUT_STARTED" \in info'.flags
       /\ "FATAL_ERROR" \in info.flags => "FATAL_ERROR" \in info'.flags
  BY <1>1, <1>4, <1>9
<1>13. getPrepaidBytes(info)' = q /\ Counts(info') BY <1>6, <1>8 DEF q
<1> QED BY <1>1, <1>8, <1>9, <1>11, <1>12, <1>13 DEF Owes

(* The login comes to its end with what it began with.                     *)
LEMMA LoginKeepsOwes ==
  ASSUME FlagsFit, StoreFits, Owes, FinishLogin PROVE Owes'
<1> DEFINE empty == "BLOCKED" \notin FinishedFlags /\ "EMPTY" \in FinishedFlags
           moved == IF empty THEN info.confirmed ELSE info.transferred
           p     == getPrepaidBytes(info)
<1>1. /\ info' = [info EXCEPT !.flags = FinishedFlags, !.transferred = moved]
      /\ phase = "settled" /\ phase' \in {"online", "closing"}
      /\ phase' = "online" => ~empty
  BY DEF FinishLogin
<1>2. Counts(info) /\ p >= 0 /\ "TIMEOUT_STARTED" \in info.flags BY <1>1 DEF Owes
<1>3. "TIMEOUT_STARTED" \in FinishedFlags
  BY <1>2 DEF FinishedFlags, StoreFits, Removed, Statuses
<1>4. moved \in 0..(Word - 1) /\ (~empty => moved = info.transferred)
  BY <1>2, WordWide DEF Counts
<1> HIDE DEF moved, empty
<1>5. info' = [flags |-> FinishedFlags, transferred |-> moved, confirmed |-> info.confirmed,
               toConfirm |-> info.toConfirm, packets |-> info.packets, late |-> info.late]
  BY <1>1 DEF FlagsFit, IsInfo
<1>6. info'.flags = FinishedFlags /\ info'.transferred = moved /\ info'.confirmed = info.confirmed
  BY <1>5
<1>7. Counts(info') BY <1>2, <1>4, <1>6 DEF Counts
<1>8. phase' = "online" => getPrepaidBytes(info') = p BY <1>1, <1>4, <1>6, SameCredit DEF SameBytes
<1>9. p \in Int BY <1>2, PrepaidHas
<1>10. p >= 0 BY <1>2
<1> HIDE DEF p
<1>11. p >= -PrepaidInterval /\ p > -PrepaidInterval BY <1>9, <1>10, WordWide
<1>12. getPrepaidBytes(info)' = getPrepaidBytes(info') /\ Counts(info)' = Counts(info')
  BY DEF getPrepaidBytes, Counts
<1> QED BY <1>1, <1>3, <1>6, <1>7, <1>8, <1>11, <1>12 DEF Owes

(* Nobody online owes more than a prepaid interval, as long as the words   *)
(* do not wrap.                                                            *)
LEMMA TrafficKeepsOwes ==
  ASSUME FlagsFit, StoreFits, Owes, CreditFits, [TrafficNext]_trafficVars PROVE Owes'
<1>1. CASE Balance BY <1>1, BalanceKeepsOwes
<1>2. CASE FinishLogin BY <1>2, LoginKeepsOwes
<1>3. CASE Packet BY <1>3, PacketKeepsOwes
<1>4. ASSUME NEW bytes \in 1..MaxBytes, HandleCC(bytes) PROVE Owes'
  BY <1>4, ConfirmationKeepsOwes
<1>5. CASE Close
  <2>1. phase' = "away" /\ info' = NoInfo BY <1>5 DEF Close
  <2> QED BY <2>1, WordWide DEF Owes, Counts, NoInfo
<1>6. CASE TimePasses
  <2>1. phase' = phase /\ SameBytes(info, info') /\ info'.flags = info.flags
    BY <1>6, LateKeeps DEF TimePasses, FlagsFit
  <2>2. getPrepaidBytes(info)' = getPrepaidBytes(info)
    <3>1. getPrepaidBytes(info') = getPrepaidBytes(info) BY <2>1, SameCredit
    <3> QED BY <3>1 DEF getPrepaidBytes
  <2> QED BY <2>1, <2>2 DEF Owes, Counts, SameBytes
<1>7. ASSUME info' = info,
             \/ phase' = phase
             \/ phase \in {"exchange", "settling"} /\ phase' \in {"settling", "settled"}
      PROVE  Owes'
  <2>1. getPrepaidBytes(info)' = getPrepaidBytes(info) /\ Counts(info)' = Counts(info)
    BY <1>7 DEF getPrepaidBytes, Counts
  <2> QED BY <1>7, <2>1 DEF Owes
<1>8. CASE EndExchange \/ NothingToSettle
  <2>1. info' = info /\ phase \in {"exchange", "settling"} /\ phase' \in {"settling", "settled"}
    BY <1>8 DEF EndExchange, NothingToSettle
  <2> QED BY <1>7, <2>1
<1>9. ASSUME NEW t \in Settlers, SettleInPhase(t) PROVE Owes'
  <2>1. info' = info /\ (phase' = phase \/ (phase = "settling" /\ phase' = "settled"))
    BY <1>9 DEF SettleInPhase
  <2> QED BY <1>7, <2>1
<1>10. CASE UNCHANGED trafficVars
  <2>1. info' = info /\ phase' = phase BY <1>10 DEF trafficVars
  <2> QED BY <1>7, <2>1
<1> QED BY <1>1, <1>2, <1>3, <1>4, <1>5, <1>6, <1>8, <1>9, <1>10 DEF TrafficNext

(* The unpaid bytes of a user who is online stay within one prepaid        *)
(* interval, whatever he confirms, whatever settlements find out, in any   *)
(* order, as long as the byte counters do not wrap (CreditFits).           *)
THEOREM UnpaidStaysBounded == TrafficSpec /\ []CreditFits => []UnpaidBounded
<1> DEFINE I == SeenInv /\ FlagsFit /\ StoreFits /\ Owes
<1>1. TrafficInit => I
  <2> SUFFICES ASSUME TrafficInit PROVE I OBVIOUS
  <2>1. SettlementInit /\ phase = "away" /\ info = NoInfo BY DEF TrafficInit
  <2>2. SeenInv BY <2>1, SeenStart
  <2>3. FlagsFit BY <2>1 DEF SettlementInit, FlagsFit, NoInfo, NoLogin, IsInfo, IsLogin
  <2>4. RowFits(db) BY <2>1, <2>2 DEF SettlementInit, SeenInv, RowFits, Statuses
  <2>5. entry \in [Settlers -> EntryType] BY <2>1, EntryNone DEF SettlementInit
  <2>6. loginEntry.confirmed \in 0..MaxBytes /\ loginEntry.removes \in SUBSET Removed
    BY <2>1, SettlementAssumption DEF SettlementInit, NoLogin
  <2>7. Owes BY <2>1, WordWide DEF Owes, Counts, NoInfo
  <2> QED BY <2>2, <2>3, <2>4, <2>5, <2>6, <2>7 DEF StoreFits
<1>2. I /\ CreditFits /\ [TrafficNext]_trafficVars => I'
  <2> SUFFICES ASSUME I, CreditFits, [TrafficNext]_trafficVars PROVE I' OBVIOUS
  <2>1. SeenInv' BY TrafficKeepsSeen
  <2>2. FlagsFit' BY TrafficKeepsFit
  <2>3. StoreFits' BY TrafficKeepsStore DEF Owes
  <2>4. Owes' BY TrafficKeepsOwes
  <2> QED BY <2>1, <2>2, <2>3, <2>4
<1>3. I => UnpaidBounded
  <2> SUFFICES ASSUME I, phase = "online" PROVE -getPrepaidBytes(info) <= PrepaidInterval
    BY DEF UnpaidBounded
  <2> DEFINE p == getPrepaidBytes(info)
  <2>1. p >= -PrepaidInterval /\ p \in Int BY PrepaidHas DEF Owes
  <2> HIDE DEF p
  <2>2. -p <= PrepaidInterval BY <2>1, WordWide
  <2> QED BY <2>2 DEF p
<1> HIDE DEF I
<1> QED BY <1>1, <1>2, <1>3, PTL DEF TrafficSpec
===============================================================================

------------------------------ MODULE Settlement ------------------------------
(***************************************************************************)
(* Settlement transactions of the first mix (PAYMENT builds): the          *)
(* settlement thread and every login thread send the cost confirmations    *)
(* the users have signed to the payment instance and apply its answers,    *)
(* first to the database of the mix and then to the table of the accounts  *)
(* that are logged in.                                                     *)
(*                                                                         *)
(* A transaction holds m_pSettlementMutex from the moment it reads the     *)
(* database until it has the answers.  The table is changed without it, so *)
(* transactions whose answers are there take a wait number and go on in    *)
(* that order.  A section under the mutex that waits for nothing outside   *)
(* the process is one action; the dialogue with the payment instance is    *)
(* the time a thread is "asking".                                          *)
(*                                                                         *)
(* One account is modelled: its row in each table of the database and, if  *)
(* its user is logged in, its entry in m_currentAccountsHashtable.  Bytes  *)
(* are counted in mix packets.                                             *)
(***************************************************************************)
EXTENDS Integers, Sequences

CONSTANTS
  Settlers,         (* the settlement thread and the login threads         *)
  Verdicts,         (* answers of the payment instance, see Verdict        *)
  MaxBytes,         (* bound: bytes a cost confirmation is for             *)
  MaxNr,            (* bound: wait numbers                                 *)
  NoBytes

ASSUME SettlementAssumption ==
  /\ MaxBytes \in Nat /\ MaxNr \in Nat
  /\ NoBytes \notin Nat

(* An answer, and the bytes that come with it: those confirmed so far of   *)
(* an account that is empty, those of the payment instance's own cost      *)
(* confirmation where the mix has sent an older one.                       *)
Verdict ==
  [code : {"ok", "noAnswer", "databaseError", "keyNotFound", "blocked",
           "internalError", "other"}, bytes : {NoBytes}]
  \cup [code : {"accountEmpty", "outdated"}, bytes : {NoBytes} \cup (1..MaxBytes)]

ASSUME VerdictAssumption == Verdicts \subseteq Verdict

VARIABLES
  nextSettleNr,  (* m_nextSettleNr                                         *)
  settleWaitNr,  (* m_settleWaitNr                                         *)
  settler,       (* where the transaction of a thread is                   *)
  myWaitNr,      (* myWaitNr of each thread                                *)
  asked,         (* the bytes of the cost confirmation a thread settles    *)
  entry,         (* the SettleEntry a thread has to apply                  *)
  db,            (* the account in the database: the cost confirmation     *)
                 (* (COSTCONFIRMATIONS), its status (ACCOUNTSTATUS) and    *)
                 (* its prepaid bytes (PREPAIDAMOUNTS)                     *)
  loginEntry,         (* its entry in m_currentAccountsHashtable                *)
  answered,      (* history: threads whose answers are yet to be applied   *)
                 (* to that entry, in the order the answers came           *)
  seen           (* history: the payment instance has seen the cost        *)
                 (* confirmation that is in the database                   *)

tickets        == <<nextSettleNr, settleWaitNr, settler, myWaitNr, answered>>
accounts       == <<asked, entry, db, loginEntry, seen>>
settlementVars == <<tickets, accounts>>

NoCC    == [bytes |-> NoBytes, settled |-> FALSE]
NoSettleEntry == [flags |-> {}, removes |-> {}, confirmed |-> 0, diff |-> 0, stored |-> "ok"]
NoLogin == [live |-> FALSE, flags |-> {}, removes |-> {}, confirmed |-> 0]

SettlementInit ==
  /\ nextSettleNr = 0 /\ settleWaitNr = 0
  /\ settler = [t \in Settlers |-> "idle"]
  /\ myWaitNr = [t \in Settlers |-> 0]
  /\ asked = [t \in Settlers |-> NoBytes]
  /\ entry = [t \in Settlers |-> NoSettleEntry]
  /\ db = [cc |-> NoCC, status |-> "ok", prepaid |-> 0]
  /\ loginEntry = NoLogin
  /\ answered = <<>> /\ seen = FALSE

SettlementMutexFree == \A t \in Settlers : settler[t] # "asking"

-----------------------------------------------------------------------------
(* The database.                                                           *)

CC(bytes) == [bytes |-> bytes, settled |-> FALSE]

(* Variant: the account is marked whatever confirmation it has by now.     *)
MarkAccountAsSettled(d, bytes) ==
  IF d.cc # NoCC THEN [d EXCEPT !.cc.settled = TRUE] ELSE d

(* Only a cost confirmation for so many bytes.                             *)
markAsSettled(d, bytes) ==
  IF d.cc.bytes = bytes THEN [d EXCEPT !.cc.settled = TRUE] ELSE d

storeCostConfirmation(d, bytes) == [d EXCEPT !.cc = CC(bytes)]
storeAccountStatus(d, s)        == [d EXCEPT !.status = s]
deleteCC(d)                     == [d EXCEPT !.cc = NoCC]
Less(a, b)                      == IF a > b THEN a - b ELSE 0

(* __handleSettleResult(): what an answer does to the database at once ... *)
Recorded(d, v, bytes) ==
  CASE v.code = "ok"           -> markAsSettled(d, bytes)
    [] v.code = "accountEmpty" -> markAsSettled(storeAccountStatus(d, "EMPTY"), bytes)
    [] v.code = "outdated" /\ v.bytes # NoBytes ->
         markAsSettled(storeCostConfirmation(d, v.bytes), v.bytes)
    [] v.code = "blocked"      -> deleteCC(storeAccountStatus(d, "BLOCKED"))
    [] v.code \in {"keyNotFound", "other"} -> deleteCC(d)
    [] OTHER                   -> d

(* ... and the entry it leaves to be applied.  AUTH_SETTLED_ONCE, which    *)
(* nothing copies from the login table, is left out.                       *)
SettleEntry(v, bytes, stored) ==
  [flags     |-> CASE v.code = "accountEmpty" -> {"EMPTY"}
                   [] v.code = "outdated"     -> IF v.bytes = NoBytes THEN {} ELSE {"OUTDATED"}
                   [] v.code = "blocked"      -> {"BLOCKED"}
                   [] v.code = "keyNotFound"  -> {"INVALID"}
                   [] v.code \in {"internalError", "other"} -> {"UNKNOWN"}
                   [] OTHER                   -> {},
   removes   |-> IF v.code \in {"ok", "noAnswer", "databaseError", "accountEmpty", "outdated"}
                 THEN {"WAITING"} ELSE {},
   confirmed |-> IF v.bytes = NoBytes THEN 0 ELSE v.bytes,
   diff      |-> IF v.code = "accountEmpty" /\ v.bytes # NoBytes THEN Less(bytes, v.bytes) ELSE 0,
   stored    |-> stored]

ClearsStatus(e) == e.flags \cap {"EMPTY", "BLOCKED", "INVALID"} = {} /\ e.stored # "ok"

(* __commitSettlementToDatabase()                                          *)
Committed(d, e) ==
  [cc      |-> d.cc,
   status  |-> IF ClearsStatus(e) THEN "ok" ELSE d.status,
   prepaid |-> IF e.flags \cap {"INVALID", "UNKNOWN"} # {} THEN 0
               ELSE IF e.diff > 0 /\ d.prepaid > 0 THEN Less(d.prepaid, e.diff)
               ELSE d.prepaid]

WithClearedStatus(e) ==
  IF ClearsStatus(e) THEN [e EXCEPT !.removes = @ \cup {e.stored}] ELSE e

-----------------------------------------------------------------------------
(* __newSettlementTransaction()                                            *)

Goes(t, place) == settler' = [settler EXCEPT ![t] = place]

(* Nothing unsettled: the transaction is over and has changed nothing.     *)
Ask(t) ==
  /\ settler[t] = "idle" /\ SettlementMutexFree
  /\ db.cc # NoCC /\ ~db.cc.settled
  /\ settleWaitNr < MaxNr \/ nextSettleNr = settleWaitNr
  /\ Goes(t, "asking")
  /\ asked' = [asked EXCEPT ![t] = db.cc.bytes]
  /\ UNCHANGED <<nextSettleNr, settleWaitNr, myWaitNr, answered, entry, db, loginEntry, seen>>

(* No connection to the payment instance, or it refuses the lot.           *)
AskInVain(t) ==
  /\ settler[t] = "asking"
  /\ Goes(t, "idle")
  /\ asked' = [asked EXCEPT ![t] = NoBytes]
  /\ UNCHANGED <<nextSettleNr, settleWaitNr, myWaitNr, answered, entry, db, loginEntry, seen>>

(* No one has a number: begin anew, and go on at once.                     *)
TakeTurn(t) ==
  /\ nextSettleNr = settleWaitNr
  /\ nextSettleNr' = 0 /\ settleWaitNr' = 1
  /\ myWaitNr' = [myWaitNr EXCEPT ![t] = 0]
  /\ Goes(t, "apply")

TakeNumber(t) ==
  /\ nextSettleNr # settleWaitNr
  /\ myWaitNr' = [myWaitNr EXCEPT ![t] = settleWaitNr]
  /\ settleWaitNr' = settleWaitNr + 1
  /\ Goes(t, "waiting")
  /\ UNCHANGED nextSettleNr

Answer(t) ==
  /\ settler[t] = "asking"
  /\ \E v \in Verdicts :
       LET e == SettleEntry(v, asked[t], db.status)
           d == Recorded(db, v, asked[t]) IN
       /\ seen' = (seen \/ d.cc.bytes \in {asked[t], v.bytes} \ {NoBytes})
       /\ \/ TakeTurn(t) /\ db' = Committed(d, e)
             /\ entry' = [entry EXCEPT ![t] = WithClearedStatus(e)]
          \/ TakeNumber(t) /\ db' = d
             /\ entry' = [entry EXCEPT ![t] = e]
  /\ answered' = Append(answered, t)
  /\ asked' = [asked EXCEPT ![t] = NoBytes]
  /\ UNCHANGED loginEntry

(* wait() may return although nobody has signalled.                        *)
WakeSpuriously(t) ==
  /\ settler[t] = "waiting"
  /\ Goes(t, "woken")
  /\ UNCHANGED <<nextSettleNr, settleWaitNr, myWaitNr, answered, accounts>>

WaitAgain(t) ==
  /\ settler[t] = "woken" /\ SettlementMutexFree
  /\ myWaitNr[t] # nextSettleNr
  /\ Goes(t, "waiting")
  /\ UNCHANGED <<nextSettleNr, settleWaitNr, myWaitNr, answered, accounts>>

(* Variant: a thread that has been woken does not look again.              *)
GoOnWithoutLooking(t) ==
  /\ settler[t] = "woken" /\ SettlementMutexFree
  /\ db' \in {db, Committed(db, entry[t])}
  /\ entry' = [entry EXCEPT ![t] = WithClearedStatus(entry[t])]
  /\ Goes(t, "apply")
  /\ UNCHANGED <<nextSettleNr, settleWaitNr, myWaitNr, answered, asked, loginEntry, seen>>

(* Its turn.  The queries of a new connection to the database may fail.    *)
GoOn(t) ==
  /\ settler[t] = "woken" /\ SettlementMutexFree
  /\ myWaitNr[t] = nextSettleNr
  /\ db' \in {db, Committed(db, entry[t])}
  /\ entry' = [entry EXCEPT ![t] = WithClearedStatus(entry[t])]
  /\ Goes(t, "apply")
  /\ UNCHANGED <<nextSettleNr, settleWaitNr, myWaitNr, answered, asked, loginEntry, seen>>

(* The place of a thread in a sequence, and the sequence without it.       *)
Place(s, t) == CHOOSE i \in 1..Len(s) : s[i] = t
Without(s, t) ==
  [j \in 1..(Len(s) - 1) |-> IF j < Place(s, t) THEN s[j] ELSE s[j + 1]]

(* Variant: the latest result replaces those not looked at yet.            *)
UpdatedAnew(l, e) ==
  IF ~l.live THEN l
  ELSE [l EXCEPT !.flags = e.flags, !.removes = e.removes,
                 !.confirmed = IF @ < e.confirmed THEN e.confirmed ELSE @]

(* __commitSettlementToLoginTable()                                        *)
Updated(l, e) ==
  IF ~l.live THEN l
  ELSE [l EXCEPT !.flags = @ \cup e.flags, !.removes = @ \cup e.removes,
                 !.confirmed = IF @ < e.confirmed THEN e.confirmed ELSE @]

Apply(t) ==
  /\ settler[t] = "apply"
  /\ loginEntry' = Updated(loginEntry, entry[t])
  /\ entry' = [entry EXCEPT ![t] = NoSettleEntry]
  /\ answered' = Without(answered, t)
  /\ Goes(t, "finish")
  /\ UNCHANGED <<nextSettleNr, settleWaitNr, myWaitNr, asked, db, seen>>

(* signal() wakes some thread that waits, whatever its number.             *)
Signalled ==
  LET waiting == {u \in Settlers : settler[u] = "waiting"} IN
  IF waiting = {} THEN {settler}
  ELSE {[settler EXCEPT ![u] = "woken"] : u \in waiting}

Finish(t) ==
  /\ settler[t] = "finish" /\ SettlementMutexFree
  /\ nextSettleNr' = nextSettleNr + 1
  /\ \E s \in Signalled : settler' = [s EXCEPT ![t] = "idle"]
  /\ UNCHANGED <<settleWaitNr, myWaitNr, answered, accounts>>

Settle(t) ==
  \/ Ask(t) \/ AskInVain(t) \/ Answer(t) \/ WakeSpuriously(t)
  \/ WaitAgain(t) \/ GoOn(t) \/ Apply(t) \/ Finish(t)

-----------------------------------------------------------------------------
(* The rest of the mix, as far as a settlement can tell: the user of the   *)
(* account confirms more bytes, logs in and goes.                          *)

Confirm(bytes) ==
  /\ db' = storeCostConfirmation(db, bytes)
  /\ seen' = FALSE
  /\ UNCHANGED <<tickets, asked, entry, loginEntry>>

LogInOrOut ==
  /\ loginEntry' = IF loginEntry.live THEN NoLogin ELSE [NoLogin EXCEPT !.live = TRUE]
  /\ UNCHANGED <<tickets, asked, entry, db, seen>>

SettlementNext ==
  \/ \E t \in Settlers : Settle(t)
  \/ \E bytes \in 1..MaxBytes : Confirm(bytes)
  \/ LogInOrOut

SettlementSpec == SettlementInit /\ [][SettlementNext]_settlementVars

(* The dialogue with the payment instance ends, and a thread that wants    *)
(* the mutex gets it in the end, although others may be faster every now   *)
(* and then; nobody has to be woken without a signal.                      *)
FairSettlement ==
  /\ SettlementSpec
  /\ \A t \in Settlers :
       /\ WF_settlementVars(AskInVain(t) \/ Answer(t) \/ Apply(t))
       /\ SF_settlementVars(WaitAgain(t) \/ GoOn(t))
       /\ SF_settlementVars(Finish(t))

-----------------------------------------------------------------------------
(* Answers reach the login table in the order in which the payment         *)
(* instance gave them, however the threads are woken and overtake each     *)
(* other between the two locks.                                            *)
AppliedInOrder ==
  \A t \in Settlers : settler[t] = "apply" => Head(answered) = t

(* Only a cost confirmation the payment instance has seen is marked as     *)
(* settled, although users go on confirming during the dialogue.           *)
SettledIsSeen ==
  db.cc.settled => seen

(* A transaction that waits for its turn gets it.                          *)
EverySettlementEnds ==
  \A t \in Settlers : settler[t] = "waiting" ~> settler[t] = "idle"
===============================================================================

---------------------------- MODULE AccountTraffic ----------------------------
(***************************************************************************)
(* What the first mix lets a user transfer for what he has paid (PAYMENT   *)
(* builds): the packets of a connection are counted against the cost       *)
(* confirmations its user has signed, while settlement transactions of     *)
(* other threads settle them and leave their results in the login table.   *)
(*                                                                         *)
(* The account of module Settlement logs in, transfers and goes, again and *)
(* again.  A connection is handled by its login thread until it is online  *)
(* and by the main loop then, in sections under the mutex of its           *)
(* accounting information or of the login table: each is one action.  The  *)
(* login thread settles the account itself, as one of the Settlers; what   *)
(* it does to find out whose account it is belongs to module AccountLogin. *)
(*                                                                         *)
(* Bytes are counted in packets; transferredBytes and confirmedBytes are   *)
(* unsigned and wrap at Word.                                              *)
(***************************************************************************)
EXTENDS Settlement

CONSTANTS
  LoginThread,         (* the settler that is the login thread             *)
  PrepaidInterval,     (* getPrepaidInterval()                             *)
  SoftLimit, HardLimit,   (* m_iSoftLimitBytes, m_iHardLimitBytes          *)
  PacketsBeforeCheck,  (* PACKETS_BEFORE_NEXT_CHECK                        *)
  Word                 (* the number of values of an UINT64                *)

ASSUME TrafficAssumption ==
  /\ LoginThread \in Settlers
  /\ PrepaidInterval \in Nat \ {0} /\ PacketsBeforeCheck \in Nat \ {0}
  /\ HardLimit \in Nat /\ SoftLimit \in Nat /\ HardLimit <= SoftLimit
  /\ SoftLimit <= PrepaidInterval
  /\ Word \in Nat /\ Word > 2 * (MaxBytes + PrepaidInterval)

VARIABLES
  phase,   (* where the connection is                                      *)
  info     (* pAccountingInfo: authFlags, transferredBytes, confirmedBytes,*)
           (* bytesToConfirm, sessionPackets modulo PacketsBeforeCheck, and*)
           (* late: HARD_LIMIT_TIMEOUT has passed since lastHardLimitSeconds*)

trafficVars == <<settlementVars, phase, info>>

NoInfo == [flags |-> {}, transferred |-> 0, confirmed |-> 0, toConfirm |-> 0,
           packets |-> 0, late |-> FALSE]

TrafficInit == SettlementInit /\ phase = "away" /\ info = NoInfo

(* The difference as a signed number.                                      *)
getPrepaidBytes(i) ==
  LET d == (i.confirmed - i.transferred) % Word IN
  IF 2 * d >= Word THEN d - Word ELSE d

sendCCRequest(i) ==
  [i EXCEPT !.flags = @ \cup {"SENT_CC_REQUEST"},
            !.toConfirm = IF "EMPTY" \in i.flags THEN @
                          ELSE (PrepaidInterval + i.transferred) % Word]

-----------------------------------------------------------------------------
(* The login.                                                              *)

(* initTableEntry() and handleAccountCertificate().  Nothing ever resets   *)
(* AUTH_TIMEOUT_STARTED.                                                   *)
InitialFlags ==
  {"TIMEOUT_STARTED", "HARD_LIMIT", "WAITING", "SENT_CC_REQUEST", "LOGIN_NOT_FINISHED"}

StatusFlags == {db.status} \ {"ok"}

(* The end of handleChallengeResponse(): the balance is taken from the     *)
(* database and the user is asked to fill it up.                           *)
Balance ==
  /\ phase = "away" /\ phase' = "exchange"
  /\ loginEntry' = [NoLogin EXCEPT !.live = TRUE]
  /\ LET paid    == IF db.cc = NoCC THEN 0 ELSE db.cc.bytes
         prepaid == IF db.prepaid > 0 /\ paid >= db.prepaid THEN db.prepaid ELSE 0
         flags   == (InitialFlags \ (IF db.cc.settled THEN {"WAITING"} ELSE {})) \cup StatusFlags
         skips   == prepaid > 0 /\ StatusFlags = {}
         fresh   == [NoInfo EXCEPT !.confirmed = paid, !.transferred = paid - prepaid,
                       !.flags = flags \cup (IF skips THEN {"SKIP_SETTLEMENT"} ELSE {})] IN
     info' = IF db.cc = NoCC THEN sendCCRequest(fresh)
             ELSE [fresh EXCEPT !.toConfirm = PrepaidInterval - prepaid + paid]
  /\ UNCHANGED <<tickets, asked, entry, db, seen>>

(* The login thread and the main loop hand cost confirmations to           *)
(* handleCostConfirmation_internal().                                      *)
CCIgnored ==
  \/ "EMPTY" \in info.flags /\ "LOGIN_NOT_FINISHED" \notin info.flags
  \/ "SENT_CC_REQUEST" \notin info.flags

CCTooHigh(bytes) == bytes > (info.transferred + PrepaidInterval) % Word

(* processJapMessageLoginHelper(): after an answer other than ERR_OK the   *)
(* login has failed.                                                       *)
Refused(i) ==
  IF "LOGIN_NOT_FINISHED" \in i.flags
  THEN [i EXCEPT !.flags = (@ \ {"LOGIN_NOT_FINISHED"}) \cup {"LOGIN_FAILED"}]
  ELSE i

RefuseCC(bytes) ==
  /\ \/ CCIgnored
     \/ CCTooHigh(bytes)
     \/ bytes < info.confirmed /\ "LOGIN_NOT_FINISHED" \in info.flags
  /\ info' = Refused(info)
  /\ UNCHANGED <<db, seen>>

(* What is confirmed already is not stored again, unless nothing has been  *)
(* transferred since.                                                      *)
IsStored(bytes) ==
  \/ bytes > info.confirmed
  \/ bytes = info.confirmed /\ getPrepaidBytes(info) = PrepaidInterval

Confirmed(i) ==
  LET rest == [i EXCEPT !.toConfirm = 0,
                        !.flags = @ \ {"SENT_CC_REQUEST", "LOGIN_NOT_FINISHED"}] IN
  IF i.confirmed >= i.toConfirm
  THEN [rest EXCEPT !.flags = @ \ {"HARD_LIMIT"}, !.late = FALSE]
  ELSE [rest EXCEPT !.flags = @ \ {"SKIP_SETTLEMENT"}]

AcceptCC(bytes) ==
  /\ ~CCIgnored /\ ~CCTooHigh(bytes)
  /\ bytes < info.confirmed => "LOGIN_NOT_FINISHED" \notin info.flags
  /\ \/ /\ IsStored(bytes)
        /\ db' = storeCostConfirmation(db, bytes) /\ seen' = FALSE
        /\ info' = Confirmed([info EXCEPT !.confirmed = bytes])
     \/ (* not stored, or refused by the database *)
        info' = Confirmed(info) /\ UNCHANGED <<db, seen>>

HandleCC(bytes) ==
  /\ phase = "exchange" => "LOGIN_NOT_FINISHED" \in info.flags
  /\ phase \in {"exchange", "online"}
  /\ RefuseCC(bytes) \/ AcceptCC(bytes)
  /\ UNCHANGED <<tickets, asked, entry, loginEntry, phase>>

(* The messages of the login are exchanged: settle, unless the balance     *)
(* was good enough before.                                                 *)
EndExchange ==
  /\ phase = "exchange"
  /\ info.flags \cap {"LOGIN_NOT_FINISHED", "LOGIN_FAILED"} = {}
  /\ phase' = IF "SKIP_SETTLEMENT" \in info.flags THEN "settled" ELSE "settling"
  /\ UNCHANGED <<settlementVars, info>>

(* newSettlementTransaction() finds nothing to settle: it does not wait    *)
(* for transactions of other threads that are on their way.                *)
NothingToSettle ==
  /\ phase = "settling" /\ SettlementMutexFree
  /\ settler[LoginThread] = "idle"
  /\ db.cc = NoCC \/ db.cc.settled
  /\ phase' = "settled"
  /\ UNCHANGED <<settlementVars, info>>

(* finishLoginProcess().  The status of the account in the database is an  *)
(* error code, and its bits are set as if they were flags: that of a       *)
(* blocked account has the bit of AUTH_WAITING_FOR_FIRST_SETTLED_CC, that  *)
(* of an empty one none that matters.                                      *)
CodeAsFlags == IF db.status = "BLOCKED" THEN {"WAITING"} ELSE {}

FinishedFlags ==
  (((info.flags \ {"SKIP_SETTLEMENT", "LOGIN_NOT_FINISHED"}) \cup CodeAsFlags) \ loginEntry.removes)
    \cup (loginEntry.flags \cap {"INVALID", "EMPTY", "BLOCKED", "UNKNOWN"})

FinishLogin ==
  /\ phase = "settled" /\ settler[LoginThread] = "idle"
  /\ LET empty == "BLOCKED" \notin FinishedFlags /\ "EMPTY" \in FinishedFlags IN
     /\ info' = [info EXCEPT !.flags = FinishedFlags,
                             !.transferred = IF empty THEN info.confirmed ELSE @]
     /\ loginEntry' = IF empty THEN [loginEntry EXCEPT !.confirmed = info.confirmed] ELSE loginEntry
     /\ phase' = IF FinishedFlags \cap {"BLOCKED", "EMPTY", "INVALID", "UNKNOWN"} = {}
                 THEN "online" ELSE "closing"
  /\ UNCHANGED <<tickets, asked, entry, db, seen>>

-----------------------------------------------------------------------------
(* handleJapPacket_internal().                                             *)

Counted(i) ==
  [i EXCEPT !.transferred = (@ + 1) % Word,
            !.packets = (@ + 1) % PacketsBeforeCheck]

(* Most packets are only counted, as long as nothing is outstanding.       *)
Unchecked(i) ==
  /\ i.flags \cap {"TIMEOUT_STARTED", "HARD_LIMIT", "EMPTY", "WAITING"} = {}
  /\ i.packets # 0

(* The first of the flags in the login entry that is looked at.            *)
Notice(l) ==
  IF "OUTDATED" \in l.flags THEN "OUTDATED"
  ELSE IF "EMPTY" \in l.flags THEN "EMPTY"
  ELSE IF "INVALID" \in l.flags THEN "INVALID"
  ELSE IF "BLOCKED" \in l.flags THEN "BLOCKED"
  ELSE IF "UNKNOWN" \in l.flags THEN "UNKNOWN"
  ELSE "none"

(* The payment instance has a newer cost confirmation than the mix: both   *)
(* counters are moved to it, once it is the one in the database.           *)
FixOutdated(i, l) ==
  IF ~db.cc.settled THEN i
  ELSE [i EXCEPT !.transferred = (@ + l.confirmed - i.confirmed) % Word,
                 !.confirmed = l.confirmed,
                 !.flags = @ \cup {"SENT_CC_REQUEST"}]

(* What is left of an empty account may be used up.                        *)
TakeEmpty(i, l) ==
  IF "EMPTY" \in i.flags THEN i
  ELSE [i EXCEPT !.flags = @ \cup {"EMPTY"},
                 !.confirmed = l.confirmed,
                 !.transferred = IF l.confirmed < @ THEN l.confirmed ELSE @]

Noticed(i, l) ==
  LET kept == [i EXCEPT !.flags = @ \ l.removes] IN
  CASE Notice(l) = "OUTDATED" -> FixOutdated(kept, l)
    [] Notice(l) = "EMPTY"    -> TakeEmpty(kept, l)
    [] OTHER                  -> kept

(* The flag is taken back, but for that of an empty account.               *)
NoticeTaken(l) ==
  [l EXCEPT !.flags = @ \ ({Notice(l)} \ {"EMPTY"}),
            !.confirmed = IF Notice(l) = "OUTDATED" /\ db.cc.settled THEN 0 ELSE @]

PrepareKickout(i) == [i EXCEPT !.flags = @ \cup {"FATAL_ERROR"}]

Overdue(i) ==
  \/ i.late /\ getPrepaidBytes(i) <= 0
  \/ -getPrepaidBytes(i) >= PrepaidInterval

(* Variant: a user who has been asked to confirm is given time without end.*)
HardLimitCheckedLate(i) ==
  LET j == IF "HARD_LIMIT" \in i.flags THEN i
           ELSE [i EXCEPT !.flags = @ \cup {"HARD_LIMIT"}, !.late = FALSE] IN
  IF getPrepaidBytes(i) > HardLimit THEN [i EXCEPT !.flags = @ \ {"HARD_LIMIT"}]
  ELSE IF j.late /\ getPrepaidBytes(i) <= 0 THEN PrepareKickout([j EXCEPT !.late = TRUE])
  ELSE IF "SENT_CC_REQUEST" \in j.flags THEN j ELSE sendCCRequest(j)

HardLimitChecked(i) ==
  LET j == IF "HARD_LIMIT" \in i.flags THEN i
           ELSE [i EXCEPT !.flags = @ \cup {"HARD_LIMIT"}, !.late = FALSE] IN
  IF getPrepaidBytes(i) > HardLimit THEN [i EXCEPT !.flags = @ \ {"HARD_LIMIT"}]
  ELSE IF Overdue(j) THEN PrepareKickout([j EXCEPT !.late = TRUE])
  ELSE IF "SENT_CC_REQUEST" \in j.flags THEN j ELSE sendCCRequest(j)

SoftLimitChecked(i) ==
  IF getPrepaidBytes(i) <= SoftLimit /\ i.flags \cap {"SENT_CC_REQUEST", "FATAL_ERROR"} = {}
  THEN sendCCRequest(i) ELSE i

IsError(notice) == notice \in {"INVALID", "BLOCKED", "UNKNOWN"}

(* A user whose account is empty goes on until his prepaid bytes are gone. *)
Checked(i, l) ==
  LET n == Noticed(i, l)
      m == IF "EMPTY" \in n.flags THEN [n EXCEPT !.late = FALSE] ELSE n IN
  IF "EMPTY" \in n.flags /\ getPrepaidBytes(n) > 0 THEN m
  ELSE IF "EMPTY" \in n.flags \/ IsError(Notice(l)) THEN PrepareKickout(m)
  ELSE SoftLimitChecked(HardLimitChecked(m))

(* A data packet, up or down.  After a fatal error none is let through,    *)
(* and control messages are not counted.                                   *)
Packet ==
  /\ phase = "online" /\ "FATAL_ERROR" \notin info.flags
  /\ LET counted == Counted(info) IN
     /\ info'  = IF Unchecked(counted) THEN counted ELSE Checked(counted, loginEntry)
     /\ loginEntry' = IF Unchecked(counted) THEN loginEntry ELSE NoticeTaken(loginEntry)
  /\ UNCHANGED <<tickets, asked, entry, db, seen, phase>>

TimePasses ==
  /\ phase # "away" /\ ~info.late
  /\ info' = [info EXCEPT !.late = TRUE]
  /\ UNCHANGED <<settlementVars, phase>>

(* cleanupTableEntry(): the prepaid bytes are kept for the next login.     *)
StoredBalance ==
  LET i == IF "EMPTY" \in loginEntry.flags THEN [info EXCEPT !.confirmed = loginEntry.confirmed] ELSE info
      p == getPrepaidBytes(i) IN
  IF p > PrepaidInterval THEN 0 ELSE p

(* The connection goes, in any phase but while its login thread settles.   *)
Close ==
  /\ phase \in {"exchange", "closing", "online"}
  /\ db' = [db EXCEPT !.prepaid = StoredBalance]
  /\ loginEntry' = NoLogin
  /\ phase' = "away" /\ info' = NoInfo
  /\ UNCHANGED <<tickets, asked, entry, seen>>

-----------------------------------------------------------------------------
(* The login thread settles once, in its phase.                            *)
SettleInPhase(t) ==
  IF t = LoginThread /\ settler[t] = "idle"
  THEN phase = "settling" /\ Ask(t) /\ phase' = "settled" /\ UNCHANGED info
  ELSE Settle(t) /\ UNCHANGED <<phase, info>>

TrafficNext ==
  \/ Balance \/ EndExchange \/ NothingToSettle \/ FinishLogin
  \/ Packet \/ TimePasses \/ Close
  \/ \E bytes \in 1..MaxBytes : HandleCC(bytes)
  \/ \E t \in Settlers : SettleInPhase(t)

TrafficSpec == TrafficInit /\ [][TrafficNext]_trafficVars

-----------------------------------------------------------------------------
(* A user who is online never has transferred more than a prepaid interval *)
(* beyond what he has confirmed, whatever settlements do to the counters.  *)
UnpaidBounded ==
  phase = "online" => -getPrepaidBytes(info) <= PrepaidInterval

(* That an account is blocked, empty, unknown or at fault stays in the     *)
(* login table, whatever other results come in, until a packet of its user *)
(* has been the last one, or he has gone.                                  *)
NoVerdictLost ==
  [][\A f \in {"BLOCKED", "EMPTY", "INVALID", "UNKNOWN"} :
        f \in loginEntry.flags /\ loginEntry'.live =>
          f \in loginEntry'.flags \/ "FATAL_ERROR" \in info'.flags \/ phase' # phase]_trafficVars
===============================================================================

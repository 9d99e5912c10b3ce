------------------------- MODULE AccountLoginProofs -------------------------
(***************************************************************************)
(* Type correctness of the login, and that an account is used by one       *)
(* connection at a time and keeps its prepaid bytes.  The argument: who    *)
(* uses an account is in the slot that owns the account's login entry      *)
(* (SessionOwns), a thread that takes the entry over remembers this slot   *)
(* as long as the entry is the one it took (TakeKnowsOwner), and it is     *)
(* woken up, or does not sleep, only once the slot has been emptied        *)
(* (ReplaceIsAlone).  Entries do not come back: a connection creates at    *)
(* most one.                                                               *)
(***************************************************************************)
EXTENDS AccountLogin, TLAPS

(* A connection whose login has not been finished is in its slot, which    *)
(* the main loop does not know of.                                         *)
InLogin == {"added", "registered", "cert", "paying", "failing", "drop"} \cup Takeover

Placed ==
  /\ \A c \in Conns : pc[c] \in InLogin =>
       slot[c] \in Slots /\ table[slot[c]] = c /\ slot[c] \notin listed
  /\ \A s \in Slots : table[s] # None =>
       slot[table[s]] = s /\ pc[table[s]] \notin {"idle", "gone"}
  /\ \A s \in listed : table[s] # None

(* Who has come to the challenge has named an account.                     *)
Named ==
  /\ \A c \in Conns : pc[c] \in {"cert"} \cup Takeover => account[c] \in Accounts
  /\ \A c \in accountOK : account[c] \in Accounts /\ pc[c] \notin {"idle", "added", "registered", "cert"}

(* A login entry has an owner, and its creator is past its own challenge:  *)
(* it will not create another one.                                         *)
EntryKnown ==
  \A a \in Accounts : login[a].by # None =>
    login[a].owner \in Slots /\ pc[login[a].by] \in Afterwards

(* Who uses an account is in the slot that owns its login entry.           *)
SessionOwns ==
  \A c \in sessions :
    /\ c \in accountOK
    /\ slot[c] \in Slots /\ table[slot[c]] = c
    /\ login[account[c]].by # None
    /\ login[account[c]].owner = slot[c]

(* As long as the entry is the one a thread has taken over, its owner is   *)
(* the slot the thread remembers.                                          *)
TakeKnowsOwner ==
  \A c \in Conns : pc[c] \in Takeover =>
    /\ c \in accountOK
    /\ take[c].entry \in Conns /\ take[c].owner \in Slots
    /\ pc[take[c].entry] \in Afterwards
    /\ login[account[c]].by = take[c].entry => login[account[c]].owner = take[c].owner

(* Who is about to replace the entry it has taken over is alone.           *)
ReplaceIsAlone ==
  \A c \in Conns : pc[c] = "replace" /\ login[account[c]].by = take[c].entry =>
    \A d \in sessions : account[d] # account[c]

(* The check looks at listed slots only; a mix that has deleted its login  *)
(* pool has no login going on.                                             *)
LoopKnows ==
  /\ todo \subseteq listed
  /\ main # "check" => todo = {}
  /\ main \in {"removal", "done"} => \A c \in Conns : pc[c] \in Ended

Core == Placed /\ Named /\ EntryKnown /\ SessionOwns /\ TakeKnowsOwner /\ ReplaceIsAlone
(* The inductive invariant.                                                *)
IInv == TypeOK /\ Core /\ LoopKnows

(* The initial states satisfy the invariant.                               *)
LEMMA InitIInv == Init => IInv
<1> SUFFICES ASSUME Init PROVE IInv
  OBVIOUS
<1> USE LoginAssumption DEF Init
<1>1. TypeOK
  <2>1. login \in [Accounts -> [by : Conns \cup {None}, owner : Slots \cup {None},
                               ongoing : BOOLEAN]]
    BY DEF NoEntry
  <2>2. take \in [Conns -> [entry : Conns \cup {None}, owner : Slots \cup {None},
                           victim : Conns \cup {None}]]
    BY DEF NoTake
  <2>3. pc \in [Conns -> BeforeOwn \cup Afterwards]
    BY DEF BeforeOwn, Afterwards
  <2>4. retries \in [Slots -> 0..MaxRetries]
    <3>1. 0 \in 0..MaxRetries
      OBVIOUS
    <3>2. QED
      BY <3>1
  <2>5. /\ slot \in [Conns -> Slots \cup {None}]
        /\ account \in [Conns -> Accounts \cup {None}]
        /\ table \in [Slots -> Conns \cup {None}]
        /\ stored \in [Accounts -> Conns \cup {None}]
    OBVIOUS
  <2>6. /\ kicked \subseteq Slots /\ listed \subseteq Slots /\ todo \subseteq Slots
        /\ accountOK \subseteq Conns /\ sessions \subseteq Conns
        /\ main = "loop" /\ crashed \in BOOLEAN
    OBVIOUS
  <2>7. QED
    BY <2>1, <2>2, <2>3, <2>4, <2>5, <2>6 DEF TypeOK
<1>2. Placed /\ Named
  BY DEF Placed, Named, InLogin, Takeover
<1>3. EntryKnown /\ SessionOwns
  BY DEF EntryKnown, SessionOwns, NoEntry
<1>4. TakeKnowsOwner /\ ReplaceIsAlone
  BY DEF TakeKnowsOwner, ReplaceIsAlone, Takeover
<1>5. LoopKnows
  BY DEF LoopKnows
<1>6. QED
  BY <1>1, <1>2, <1>3, <1>4, <1>5 DEF IInv, Core

-----------------------------------------------------------------------------
(* Removing an entry preserves type correctness.                           *)
LEMMA RemoveType ==
  ASSUME TypeOK, NEW s \in Slots, Remove(s), main' = main, todo' \subseteq todo
  PROVE  TypeOK'
<1> DEFINE places == IF pc[table[s]] \in {"online", "drop"}
                     THEN [pc EXCEPT ![table[s]] = "gone"] ELSE pc
<1>1. places \in [Conns -> BeforeOwn \cup Afterwards]
  BY DEF TypeOK, Afterwards
<1>2. pc' \in [Conns -> BeforeOwn \cup Afterwards]
  <2>1. SignalCleanup(s, places)
    BY DEF Remove
  <2>2. QED
    BY <1>1, <2>1 DEF SignalCleanup, Waiting, BeforeOwn, Takeover
<1>3. login' \in [Accounts -> [by : Conns \cup {None}, owner : Slots \cup {None},
                              ongoing : BOOLEAN]]
  BY DEF TypeOK, Remove, CleanupTableEntry, NoEntry
<1>4. stored' \in [Accounts -> Conns \cup {None}] /\ sessions' \subseteq Conns
  BY DEF TypeOK, Remove, CleanupTableEntry
<1>5. QED
  BY <1>2, <1>3, <1>4 DEF TypeOK, Remove

(* A step of a login thread preserves type correctness.                    *)
LEMMA ThreadType ==
  ASSUME IInv, NEW c \in Conns, Add(c) \/ ThreadStep(c) PROVE TypeOK'
<1> USE LoginAssumption DEF IInv, TypeOK, Goto, BeforeOwn, Takeover, Afterwards, conn, acct, loop
<1>1. CASE Add(c)
  BY <1>1 DEF Add
<1>2. CASE InitTableEntry(c)
  BY <1>2 DEF InitTableEntry
<1>3. CASE AccountCertificate(c)
  BY <1>3 DEF AccountCertificate
<1>4. CASE Fail(c)
  BY <1>4 DEF Fail
<1>5. CASE Challenge(c)
  <2> DEFINE a == account[c]
  <2>0. a \in Accounts /\ slot[c] \in Slots
    BY <1>5 DEF Challenge, Core, Named, Placed, InLogin
  <2>1. CASE login[a].by = None /\ CreateLoginEntry(c) /\ UNCHANGED take
    BY <1>5, <2>0, <2>1 DEF Challenge, CreateLoginEntry
  <2>2. CASE Goto(c, "failing") /\ UNCHANGED <<login, take, sessions>>
    BY <1>5, <2>2 DEF Challenge
  <2>3. CASE /\ SetLoginOngoing(a, TRUE)
             /\ take' = [take EXCEPT ![c] =
                           [entry |-> login[a].by, owner |-> login[a].owner,
                            victim |-> None]]
             /\ Goto(c, "takeover") /\ UNCHANGED sessions
    BY <1>5, <2>0, <2>3 DEF Challenge, SetLoginOngoing
  <2>4. QED
    BY <1>5, <2>1, <2>2, <2>3 DEF Challenge
<1>6. CASE ForceKickout(c)
  <2>1. take[c].owner \in Slots
    BY <1>6 DEF ForceKickout, Core, TakeKnowsOwner
  <2>2. CASE Crash
    BY <2>2 DEF Crash
  <2>3. CASE Goto(c, "replace") /\ UNCHANGED <<conn, acct, loop, crashed>>
    BY <2>3
  <2>4. CASE Goto(c, "sleep")
    <3>1. take' \in [Conns -> [entry : Conns \cup {None}, owner : Slots \cup {None},
                              victim : Conns \cup {None}]]
      BY <1>6, <2>1, <2>4 DEF ForceKickout, Crash
    <3>2. QED
      BY <1>6, <2>1, <2>4, <3>1 DEF ForceKickout, Crash
  <2>5. QED
    BY <1>6, <2>2, <2>3, <2>4 DEF ForceKickout
<1>7. CASE Wait(c)
  BY <1>7 DEF Wait
<1>8. CASE Replace(c)
  <2>1. account[c] \in Accounts /\ slot[c] \in Slots
    BY <1>8 DEF Replace, Core, Named, Placed, InLogin
  <2>2. CASE Crash
    BY <2>2 DEF Crash
  <2>3. CASE CreateLoginEntry(c)
    BY <1>8, <2>1, <2>3 DEF Replace, CreateLoginEntry, Crash
  <2>4. QED
    BY <1>8, <2>2, <2>3 DEF Replace
<1>9. CASE PushTimeout(c)
  <2>1. slot[c] \in Slots
    BY <1>9 DEF PushTimeout, Core, Placed, InLogin
  <2>2. QED
    BY <1>9, <2>1 DEF PushTimeout
<1>10. CASE UnlockLogin(c)
  <2>1. login' \in [Accounts -> [by : Conns \cup {None}, owner : Slots \cup {None},
                                ongoing : BOOLEAN]]
    <3> DEFINE a == account[table[slot[c]]]
    <3>1. CASE login' = login
      BY <3>1
    <3>2. CASE SetLoginOngoing(a, FALSE) /\ a \in Accounts
      BY <3>2 DEF SetLoginOngoing
    <3>3. CASE SetLoginOngoing(a, FALSE) /\ a \notin Accounts
      BY <3>3 DEF SetLoginOngoing
    <3>4. QED
      BY <1>10, <3>1, <3>2, <3>3 DEF UnlockLogin, ResetLoginOngoing
  <2>2. QED
    BY <1>10, <2>1 DEF UnlockLogin
<1>11. CASE Register(c)
  <2>1. CASE Goto(c, "online") /\ UNCHANGED <<conn, acct, loop, crashed>>
    BY <2>1
  <2>2. CASE Crash
    BY <2>2 DEF Crash
  <2>3. QED
    BY <1>11, <2>1, <2>2 DEF Register
<1>12. CASE Drop(c)
  <2>1. slot[c] \in Slots
    BY <1>12 DEF Drop, Core, Placed, InLogin
  <2>2. QED
    BY <1>12, <2>1, RemoveType DEF Drop
<1>13. QED
  BY <1>1, <1>2, <1>3, <1>4, <1>5, <1>6, <1>7, <1>8, <1>9, <1>10, <1>11, <1>12 DEF ThreadStep

(* A step of the main thread preserves type correctness.                   *)
LEMMA MainType ==
  ASSUME IInv, MainStep PROVE TypeOK'
<1> USE DEF IInv, TypeOK, conn, acct, loop
<1>1. CASE StartCheck \/ EndCheck \/ Restart \/ DeletePool
  BY <1>1 DEF StartCheck, EndCheck, Restart, DeletePool
<1>2. CASE RemoveLeft
  <2>1. CASE main' = "done" /\ UNCHANGED <<pc, conn, acct, crashed>>
    BY <1>2, <2>1 DEF RemoveLeft
  <2>2. CASE \E s \in Slots : Remove(s) /\ UNCHANGED main
    BY <1>2, <2>2, RemoveType DEF RemoveLeft
  <2>3. QED
    BY <1>2, <2>1, <2>2 DEF RemoveLeft
<1>3. ASSUME NEW s \in Slots, CheckOne(s) PROVE TypeOK'
  <2>1. CASE UNCHANGED <<pc, conn, acct, crashed>>
    BY <1>3, <2>1 DEF CheckOne
  <2>2. CASE /\ retries[s] > 0 /\ retries' = [retries EXCEPT ![s] = @ - 1]
             /\ UNCHANGED <<pc, slot, table, kicked, listed, acct, crashed>>
    <3>1. retries' \in [Slots -> 0..MaxRetries]
      BY <2>2, LoginAssumption
    <3>2. QED
      BY <1>3, <2>2, <3>1 DEF CheckOne
  <2>3. CASE Remove(s)
    BY <1>3, <2>3, RemoveType DEF CheckOne
  <2>4. QED
    BY <1>3, <2>1, <2>2, <2>3 DEF CheckOne
<1>4. ASSUME NEW s \in Slots, CloseLive(s) PROVE TypeOK'
  BY <1>4, RemoveType DEF CloseLive
<1>5. ASSUME NEW s \in Slots, KickByAccounting(s) PROVE TypeOK'
  BY <1>5 DEF KickByAccounting
<1>6. QED
  BY <1>1, <1>2, <1>3, <1>4, <1>5 DEF MainStep

-----------------------------------------------------------------------------
(* Steps of a login thread that touch no login entry.                      *)
LEMMA QuietCore ==
  ASSUME IInv, NEW c \in Conns,
         Add(c) \/ InitTableEntry(c) \/ AccountCertificate(c) \/ Fail(c) \/ Wait(c)
           \/ PushTimeout(c) \/ Register(c)
  PROVE  Core'
<1> USE LoginAssumption DEF IInv, TypeOK, Core, Goto, conn, acct, loop
<1> DEFINE Quiet == Add(c) \/ InitTableEntry(c) \/ AccountCertificate(c) \/ Fail(c)
                      \/ Wait(c) \/ PushTimeout(c) \/ Register(c)
<1>1. UNCHANGED <<login, accountOK, take, sessions>>
  BY DEF Add, InitTableEntry, AccountCertificate, Fail, Wait, PushTimeout, Register, Crash
<1>2. /\ \A d \in Conns : d # c => pc'[d] = pc[d] /\ account'[d] = account[d] /\ slot'[d] = slot[d]
      /\ pc'[c] \in Takeover => pc[c] \in Takeover /\ account'[c] = account[c]
      /\ pc[c] \in Afterwards => pc'[c] \in Afterwards
      /\ c \in accountOK => account'[c] = account[c] /\ slot'[c] = slot[c]
                           /\ pc'[c] \notin {"idle", "added", "registered", "cert", "replace"}
  BY DEF Add, InitTableEntry, AccountCertificate, Fail, Wait, PushTimeout, Register, Crash,
         Takeover, Afterwards, Named
<1>3. Placed'
  <2>1. CASE Add(c)
    <3>1. PICK s \in Slots : /\ table[s] = None
                             /\ slot' = [slot EXCEPT ![c] = s]
                             /\ table' = [table EXCEPT ![s] = c]
      BY <2>1 DEF Add
    <3>2. s \notin listed /\ listed' = listed
      BY <2>1, <3>1 DEF Add, Placed
    <3>3. pc[c] = "idle" /\ pc' = [pc EXCEPT ![c] = "added"]
      BY <2>1 DEF Add
    <3>4. ASSUME NEW d \in Conns, pc'[d] \in InLogin
          PROVE  slot'[d] \in Slots /\ table'[slot'[d]] = d /\ slot'[d] \notin listed'
      BY <3>1, <3>2, <3>3, <3>4 DEF Placed, InLogin
    <3>5. ASSUME NEW t \in Slots, table'[t] # None
          PROVE  slot'[table'[t]] = t /\ pc'[table'[t]] \notin {"idle", "gone"}
      BY <3>1, <3>3, <3>5 DEF Placed
    <3>6. \A t \in listed' : table'[t] # None
      BY <3>1, <3>2 DEF Placed
    <3>7. QED
      BY <3>4, <3>5, <3>6 DEF Placed
  <2>2. CASE PushTimeout(c)
    <3>1. /\ listed' = listed \cup {slot[c]} /\ pc' = [pc EXCEPT ![c] = "unlock"]
          /\ slot' = slot /\ table' = table /\ pc[c] = "paying"
      BY <2>2 DEF PushTimeout
    <3>2. QED
      BY <3>1 DEF Placed, InLogin, Takeover
  <2>3. CASE ~Add(c) /\ ~PushTimeout(c)
    <3>1. slot' = slot /\ table' = table /\ listed' = listed
      BY <2>3 DEF InitTableEntry, AccountCertificate, Fail, Wait, Register, Crash
    <3>2. /\ pc'[c] \in InLogin => pc[c] \in InLogin
          /\ pc[c] \notin {"idle", "gone"} => pc'[c] \notin {"idle", "gone"}
      BY <2>3 DEF InitTableEntry, AccountCertificate, Fail, Wait, Register, Crash,
                  InLogin, Takeover
    <3>3. QED
      BY <1>2, <3>1, <3>2 DEF Placed
  <2>4. QED
    BY <2>1, <2>2, <2>3
<1>4. Named'
  <2>1. pc'[c] \in {"cert"} \cup Takeover => account'[c] \in Accounts
    BY DEF Add, InitTableEntry, AccountCertificate, Fail, Wait, PushTimeout, Register,
           Crash, Takeover, Named
  <2>2. QED
    BY <1>1, <1>2, <2>1 DEF Named
<1>5. EntryKnown'
  BY <1>1, <1>2 DEF EntryKnown
<1>6. SessionOwns'
  <2>1. \A t \in Slots : table[t] # None => table'[t] = table[t]
    BY DEF Add, InitTableEntry, AccountCertificate, Fail, Wait, PushTimeout, Register, Crash
  <2>2. QED
    BY <1>1, <1>2, <2>1 DEF SessionOwns
<1>7. TakeKnowsOwner'
  <2>1. TakeKnowsOwner
    OBVIOUS
  <2>2. SUFFICES ASSUME NEW d \in Conns, pc'[d] \in Takeover
                 PROVE  /\ d \in accountOK' /\ take'[d].entry \in Conns /\ take'[d].owner \in Slots
                        /\ pc'[take'[d].entry] \in Afterwards
                        /\ login'[account'[d]].by = take'[d].entry
                             => login'[account'[d]].owner = take'[d].owner
    BY DEF TakeKnowsOwner
  <2>3. pc[d] \in Takeover /\ account'[d] = account[d]
    BY ONLY <1>2, <2>2, d \in Conns
  <2>4. /\ d \in accountOK /\ take[d].entry \in Conns /\ take[d].owner \in Slots
        /\ pc[take[d].entry] \in Afterwards
        /\ login[account[d]].by = take[d].entry => login[account[d]].owner = take[d].owner
    BY ONLY <2>1, <2>3, d \in Conns DEF TakeKnowsOwner
  <2>5. pc'[take[d].entry] \in Afterwards
    BY ONLY <1>2, <2>4
  <2>6. QED
    BY ONLY <1>1, <2>3, <2>4, <2>5
<1>8. ReplaceIsAlone'
  <2>1. pc'[c] = "replace" => pc[c] = "replace"
    BY DEF Add, InitTableEntry, AccountCertificate, Fail, Wait, PushTimeout, Register, Crash
  <2>2. \A d \in sessions : account'[d] = account[d]
    BY <1>2 DEF SessionOwns
  <2>3. QED
    BY <1>1, <1>2, <2>1, <2>2 DEF ReplaceIsAlone, Takeover
<1>9. QED
  BY <1>3, <1>4, <1>5, <1>6, <1>7, <1>8

(* A thread goes on while the entries keep their creators and owners.      *)
LEMMA KeepCore ==
  ASSUME IInv, NEW c \in Conns, NEW place,
         Goto(c, place),
         \/ pc[c] = "cert" /\ place \in {"failing", "takeover"}
         \/ pc[c] = "takeover" /\ place \in {"sleep", "replace"}
         \/ pc[c] = "unlock" /\ place = "register"
         \/ pc[c] = "failing" /\ place = "drop",
         UNCHANGED <<slot, table, listed, account, sessions>>,
         accountOK' = accountOK \/ (pc[c] = "cert" /\ accountOK' = accountOK \cup {c}),
         \A a \in Accounts : login'[a].by = login[a].by /\ login'[a].owner = login[a].owner,
         \A d \in Conns : d # c => take'[d] = take[d],
         place \in Takeover =>
           /\ c \in accountOK'
           /\ take'[c].entry \in Conns /\ take'[c].owner \in Slots
           /\ pc[take'[c].entry] \in Afterwards
           /\ login[account[c]].by = take'[c].entry
                => login[account[c]].owner = take'[c].owner,
         place = "replace" /\ login[account[c]].by = take'[c].entry =>
           \A d \in sessions : account[d] # account[c]
  PROVE  Core'
<1> USE DEF IInv, TypeOK, Core, Goto
<1>1. pc' = [pc EXCEPT ![c] = place] /\ pc \in [Conns -> BeforeOwn \cup Afterwards]
  OBVIOUS
<1>2. Placed'
  BY <1>1 DEF Placed, InLogin, Takeover
<1>3. Named'
  BY <1>1 DEF Named, Takeover
<1>4. \A d \in Conns : pc[d] \in Afterwards => pc'[d] \in Afterwards
  BY <1>1 DEF Afterwards, Takeover
<1>5. EntryKnown'
  BY <1>4 DEF EntryKnown
<1>6. SessionOwns'
  BY DEF SessionOwns, Named
<1>7. TakeKnowsOwner'
  <2>1. ASSUME NEW d \in Conns, pc'[d] \in Takeover
        PROVE  account[d] \in Accounts
    BY <1>1, <2>1 DEF Named, Takeover
  <2>2. ASSUME NEW d \in Conns, d # c, pc'[d] \in Takeover
        PROVE  pc[d] \in Takeover
    BY <1>1, <2>2
  <2>3. QED
    BY <1>1, <1>4, <2>1, <2>2 DEF TakeKnowsOwner
<1>8. ReplaceIsAlone'
  <2>1. ASSUME NEW d \in Conns, pc'[d] = "replace"
        PROVE  account[d] \in Accounts
    BY <1>1, <2>1 DEF Named, Takeover
  <2>2. QED
    BY <1>1, <2>1 DEF ReplaceIsAlone
<1>9. QED
  BY <1>2, <1>3, <1>5, <1>6, <1>7, <1>8

(* A thread creates its login entry: at the time no other connection uses  *)
(* the account.                                                            *)
LEMMA CreateCore ==
  ASSUME IInv, NEW c \in Conns,
         pc[c] \in {"cert", "replace"},
         CreateLoginEntry(c),
         accountOK' = accountOK \cup {c},
         UNCHANGED <<conn, account, take>>,
         \A d \in sessions : account[d] # account[c]
  PROVE  Core'
<1> USE DEF IInv, TypeOK, Core, Goto, conn
<1>1. /\ pc' = [pc EXCEPT ![c] = "paying"] /\ sessions' = sessions \cup {c}
      /\ login' = [login EXCEPT ![account[c]] =
                     [by |-> c, owner |-> slot[c], ongoing |-> TRUE]]
  BY DEF CreateLoginEntry
<1>2. account[c] \in Accounts /\ slot[c] \in Slots /\ table[slot[c]] = c
  BY DEF Named, Placed, InLogin, Takeover
<1>3. Placed' /\ Named'
  <2>1. Placed'
    BY <1>1 DEF Placed, InLogin, Takeover
  <2>2. Named'
    BY <1>1, <1>2 DEF Named, Takeover
  <2>3. QED
    BY <2>1, <2>2
<1>4. /\ login'[account[c]].by = c /\ login'[account[c]].owner = slot[c]
      /\ \A a \in Accounts : a # account[c] => login'[a] = login[a]
  BY <1>1, <1>2
<1>5. EntryKnown'
  BY <1>1, <1>2, <1>4 DEF EntryKnown, Afterwards
<1>6. SessionOwns'
  <2>1. \A d \in sessions : login'[account[d]] = login[account[d]]
    BY <1>4 DEF SessionOwns, Named
  <2>2. QED
    BY <1>1, <1>2, <1>4, <2>1, LoginAssumption DEF SessionOwns
<1>7. ASSUME NEW d \in Conns, pc'[d] \in Takeover
      PROVE  /\ pc[d] = pc'[d] /\ d # c /\ account[d] \in Accounts
             /\ take[d].entry # c /\ pc[take[d].entry] \in Afterwards
             /\ account[d] = account[c] => login'[account[d]].by # take[d].entry
             /\ account[d] # account[c] => login'[account[d]] = login[account[d]]
  BY <1>1, <1>4, <1>7 DEF TakeKnowsOwner, Takeover, Afterwards, Named
<1>8. TakeKnowsOwner'
  BY <1>1, <1>7 DEF TakeKnowsOwner, Afterwards
<1>9. ReplaceIsAlone'
  BY <1>1, <1>7 DEF ReplaceIsAlone, Takeover
<1>10. QED
  BY <1>3, <1>5, <1>6, <1>8, <1>9

(* The steps of a login thread that look at the login entries.             *)
LEMMA EntryCore ==
  ASSUME IInv, NEW c \in Conns,
         Challenge(c) \/ ForceKickout(c) \/ Replace(c) \/ UnlockLogin(c)
  PROVE  Core'
<1> USE DEF IInv, TypeOK, Core, Goto, conn, acct, loop
<1>0. CASE Crash
  BY <1>0 DEF Crash, Placed, Named, EntryKnown, SessionOwns, TakeKnowsOwner, ReplaceIsAlone
<1>1. CASE Challenge(c)
  <2> DEFINE a == account[c]
  <2>0. pc[c] = "cert" /\ a \in Accounts /\ slot[c] \in Slots
    BY <1>1 DEF Challenge, Named, Placed, InLogin
  <2>1. CASE login[a].by = None /\ CreateLoginEntry(c) /\ UNCHANGED take
    <3>1. \A d \in sessions : account[d] # a
      BY <2>1 DEF SessionOwns
    <3>2. QED
      BY <1>1, <2>0, <2>1, <3>1, CreateCore DEF Challenge
  <2>2. CASE Goto(c, "failing") /\ UNCHANGED <<login, take, sessions>>
    <3>1. "failing" \notin Takeover
      BY DEF Takeover
    <3>2. QED
      BY <1>1, <2>0, <2>2, <3>1, KeepCore DEF Challenge
  <2>3. CASE /\ login[a].by # None /\ SetLoginOngoing(a, TRUE)
             /\ take' = [take EXCEPT ![c] =
                           [entry |-> login[a].by, owner |-> login[a].owner,
                            victim |-> None]]
             /\ Goto(c, "takeover") /\ UNCHANGED sessions
    <3>1. \A b \in Accounts : login'[b].by = login[b].by /\ login'[b].owner = login[b].owner
      BY <2>3 DEF SetLoginOngoing
    <3>2. /\ take'[c].entry = login[a].by /\ take'[c].owner = login[a].owner
          /\ \A d \in Conns : d # c => take'[d] = take[d]
      BY <2>3
    <3>3. login[a].by \in Conns /\ login[a].owner \in Slots /\ pc[login[a].by] \in Afterwards
      BY <2>0, <2>3 DEF EntryKnown
    <3>4. accountOK' = accountOK \cup {c} /\ UNCHANGED <<slot, table, listed, account, sessions>>
      BY <1>1, <2>3 DEF Challenge
    <3>5. QED
      BY <2>0, <2>3, <3>1, <3>2, <3>3, <3>4, KeepCore
  <2>4. QED
    BY <1>1, <2>1, <2>2, <2>3 DEF Challenge
<1>2. CASE ForceKickout(c) /\ ~Crash
  <2> DEFINE s == take[c].owner
  <2>0. /\ pc[c] = "takeover" /\ c \in accountOK /\ s \in Slots /\ take[c].entry \in Conns
        /\ pc[take[c].entry] \in Afterwards
        /\ login[account[c]].by = take[c].entry => login[account[c]].owner = s
    BY <1>2 DEF ForceKickout, TakeKnowsOwner, Takeover
  <2>1. CASE table[s] = None /\ Goto(c, "replace") /\ UNCHANGED <<conn, acct, loop, crashed>>
    <3>1. login[account[c]].by = take[c].entry => \A d \in sessions : account[d] # account[c]
      BY <2>0, <2>1, LoginAssumption DEF SessionOwns
    <3>2. QED
      BY <2>0, <2>1, <3>1, KeepCore
  <2>2. CASE /\ take' = [take EXCEPT ![c] =
                           [entry |-> @.entry, owner |-> s, victim |-> table[s]]]
             /\ Goto(c, "sleep")
             /\ UNCHANGED <<slot, table, listed, account, login, accountOK, sessions>>
    <3>1. take'[c].entry = take[c].entry /\ take'[c].owner = s
      BY <2>2
    <3>2. \A d \in Conns : d # c => take'[d] = take[d]
      BY <2>2
    <3>3. QED
      BY <2>0, <2>2, <3>1, <3>2, KeepCore
  <2>3. QED
    BY <1>2, <2>1, <2>2 DEF ForceKickout
<1>3. CASE Replace(c) /\ ~Crash
  <2>1. /\ pc[c] = "replace" /\ c \in accountOK
        /\ \A d \in sessions : account[d] # account[c]
    BY <1>3 DEF Replace, ReplaceIsAlone, TakeKnowsOwner, Takeover
  <2>2. QED
    BY <1>3, <2>1, CreateCore DEF Replace
<1>4. CASE UnlockLogin(c)
  <2>1. \A a \in Accounts : login'[a].by = login[a].by /\ login'[a].owner = login[a].owner
    BY <1>4 DEF UnlockLogin, ResetLoginOngoing, SetLoginOngoing
  <2>2. "register" \notin Takeover /\ "drop" \notin Takeover
    BY DEF Takeover
  <2>3. QED
    BY <1>4, <2>1, <2>2, KeepCore DEF UnlockLogin
<1>5. QED
  BY <1>0, <1>1, <1>2, <1>3, <1>4

-----------------------------------------------------------------------------
(* What a removal does: who waited for the slot may be woken up, the entry *)
(* of an account either stays or disappears together with its owner.       *)
LEMMA RemoveEffect ==
  ASSUME IInv, NEW s \in Slots, Remove(s), table[s] # None,
         pc[table[s]] \in {"drop", "unlock", "register", "online"}
  PROVE  /\ \A d \in Conns :
              \/ pc'[d] = pc[d] /\ (d = table[s] => pc[d] \in {"unlock", "register"})
              \/ d = table[s] /\ pc[d] \in {"drop", "online"} /\ pc'[d] = "gone"
              \/ pc[d] = "asleep" /\ take[d].owner = s /\ pc'[d] = "replace" /\ d # table[s]
         /\ \A a \in Accounts :
              \/ login'[a] = login[a]
              \/ login'[a] = NoEntry /\ login[a].owner = s
<1> USE DEF IInv, TypeOK, Core
<1> DEFINE c == table[s]
           places == IF pc[c] \in {"online", "drop"} THEN [pc EXCEPT ![c] = "gone"] ELSE pc
<1>1. /\ c \in Conns /\ places \in [Conns -> BeforeOwn \cup Afterwards]
      /\ \A d \in Conns : d # c => places[d] = pc[d]
      /\ places[c] = "gone" \/ (places[c] = pc[c] /\ pc[c] \in {"unlock", "register"})
  BY DEF Afterwards
<1>2. SignalCleanup(s, places)
  BY DEF Remove
<1>3. pc' = places \/ \E w \in Conns : /\ pc[w] = "asleep" /\ take[w].owner = s
                                       /\ pc' = [places EXCEPT ![w] = "replace"]
  BY <1>2 DEF SignalCleanup, Waiting
<1>4. \A d \in Conns :
         \/ pc'[d] = pc[d] /\ (d = c => pc[d] \in {"unlock", "register"})
         \/ d = c /\ pc[d] \in {"drop", "online"} /\ pc'[d] = "gone"
         \/ pc[d] = "asleep" /\ take[d].owner = s /\ pc'[d] = "replace" /\ d # c
  BY <1>1, <1>3
<1>5. \A a \in Accounts : login'[a] = login[a] \/ (login'[a] = NoEntry /\ login[a].owner = s)
  BY DEF Remove, CleanupTableEntry
<1>6. QED
  BY <1>4, <1>5

(* A removal preserves the invariant: the only connection that could be    *)
(* using the account a woken thread waits for was the one removed.         *)
LEMMA RemoveCore ==
  ASSUME IInv, NEW s \in Slots, Remove(s), table[s] # None,
         pc[table[s]] \in {"drop", "unlock", "register", "online"}
  PROVE  Core'
<1> USE LoginAssumption DEF IInv, TypeOK, Core
<1> DEFINE c == table[s]
<1>1. /\ \A d \in Conns :
           \/ pc'[d] = pc[d] /\ (d = c => pc[d] \in {"unlock", "register"})
           \/ d = c /\ pc[d] \in {"drop", "online"} /\ pc'[d] = "gone"
           \/ pc[d] = "asleep" /\ take[d].owner = s /\ pc'[d] = "replace" /\ d # c
      /\ \A a \in Accounts :
           \/ login'[a] = login[a]
           \/ login'[a] = NoEntry /\ login[a].owner = s
  BY RemoveEffect
<1>2. /\ table' = [table EXCEPT ![s] = None] /\ listed' = listed \ {s}
      /\ sessions' = sessions \ {c}
      /\ UNCHANGED <<slot, account, accountOK, take>>
  BY DEF Remove, CleanupTableEntry
<1>3. c \in Conns /\ slot[c] = s
  BY DEF Placed
<1>4. Placed'
  <2>1. ASSUME NEW d \in Conns, pc'[d] \in InLogin
        PROVE  slot[d] \in Slots /\ table'[slot[d]] = d /\ slot[d] \notin listed'
    <3>1. pc[d] \in InLogin /\ d # c
      BY <1>1, <2>1 DEF InLogin, Takeover
    <3>2. slot[d] \in Slots /\ table[slot[d]] = d /\ slot[d] \notin listed
      BY <3>1 DEF Placed
    <3>3. QED
      BY <1>2, <3>1, <3>2
  <2>2. ASSUME NEW t \in Slots, table'[t] # None
        PROVE  slot[table'[t]] = t /\ pc'[table'[t]] \notin {"idle", "gone"}
    <3>1. t # s /\ table'[t] = table[t]
      BY <1>2, <2>2
    <3>2. slot[table[t]] = t /\ pc[table[t]] \notin {"idle", "gone"} /\ table[t] \in Conns
      BY <2>2, <3>1 DEF Placed
    <3>3. table[t] # c
      BY <1>3, <3>1, <3>2
    <3>4. QED
      BY <1>1, <3>1, <3>2, <3>3
  <2>3. \A t \in listed' : table'[t] # None
    BY <1>2 DEF Placed
  <2>4. QED
    BY <1>2, <2>1, <2>2, <2>3 DEF Placed
<1>5. Named'
  BY <1>1, <1>2 DEF Named, Takeover
<1>6. \A d \in Conns : pc[d] \in Afterwards => pc'[d] \in Afterwards
  BY <1>1 DEF Afterwards
<1>7. EntryKnown'
  BY <1>1, <1>6 DEF EntryKnown, NoEntry
<1>8. ASSUME NEW d \in sessions'
      PROVE  /\ slot[d] # s /\ table'[slot[d]] = d
             /\ login'[account[d]] = login[account[d]]
  <2>1. d \in sessions /\ d # c
    BY <1>2
  <2>2. slot[d] # s
    BY <2>1 DEF SessionOwns
  <2>3. table'[slot[d]] = d
    BY <1>2, <2>1, <2>2 DEF SessionOwns
  <2>4. login'[account[d]] = login[account[d]]
    BY <1>1, <2>1, <2>2 DEF SessionOwns, Named
  <2>5. QED
    BY <2>2, <2>3, <2>4
<1>9. SessionOwns'
  BY <1>2, <1>8 DEF SessionOwns
<1>10. ASSUME NEW d \in Conns, pc'[d] \in Takeover
       PROVE  /\ pc[d] \in Takeover /\ account[d] \in Accounts
              /\ login'[account[d]].by = take[d].entry
                   => login'[account[d]] = login[account[d]]
  <2>1. pc[d] \in Takeover
    BY <1>1, <1>10 DEF Takeover
  <2>2. account[d] \in Accounts /\ take[d].entry \in Conns
    BY <2>1 DEF Named, TakeKnowsOwner
  <2>3. QED
    BY <1>1, <2>1, <2>2 DEF NoEntry
<1>11. TakeKnowsOwner'
  BY <1>2, <1>6, <1>10 DEF TakeKnowsOwner
<1>12. ReplaceIsAlone'
  <2> SUFFICES ASSUME NEW d \in Conns, pc'[d] = "replace",
                      login'[account[d]].by = take[d].entry,
                      NEW e \in sessions', account[e] = account[d]
               PROVE  FALSE
    BY <1>2 DEF ReplaceIsAlone
  <2>1. login[account[d]].by = take[d].entry /\ pc[d] \in Takeover
    BY <1>10 DEF Takeover
  <2>2. e \in sessions /\ slot[e] # s
    BY <1>2, <1>8
  <2>3. pc[d] # "replace"
    BY <2>1, <2>2 DEF ReplaceIsAlone
  <2>4. take[d].owner = s
    BY <1>1, <2>3
  <2>5. login[account[e]].owner = slot[e]
    BY <2>2 DEF SessionOwns
  <2>6. QED
    BY <2>1, <2>2, <2>4, <2>5 DEF TakeKnowsOwner
<1>13. QED
  BY <1>4, <1>5, <1>7, <1>9, <1>11, <1>12

-----------------------------------------------------------------------------
(* A step of a login thread preserves the invariant.                       *)
LEMMA ThreadIInv ==
  ASSUME IInv, NEW c \in Conns, Add(c) \/ ThreadStep(c) PROVE IInv'
<1>1. TypeOK'
  BY ThreadType
<1>2. Core'
  <2>1. CASE Drop(c)
    <3>1. slot[c] \in Slots /\ table[slot[c]] = c /\ pc[c] = "drop" /\ c # None
      BY <2>1, LoginAssumption DEF Drop, IInv, Core, Placed, InLogin
    <3>2. QED
      BY <2>1, <3>1, RemoveCore DEF Drop
  <2>2. CASE ~Drop(c)
    BY <2>2, QuietCore, EntryCore DEF ThreadStep
  <2>3. QED
    BY <2>1, <2>2
<1>3. LoopKnows'
  <2> USE DEF IInv, TypeOK, LoopKnows
  <2>1. main' = main /\ main \notin {"removal", "done"}
    <3>1. CASE Add(c)
      BY <3>1 DEF Add, loop
    <3>2. CASE ThreadStep(c)
      <4>1. main' = main /\ pc[c] \notin Ended
        BY <3>2 DEF ThreadStep, InitTableEntry, AccountCertificate, Fail, Challenge,
             ForceKickout, Wait, Replace, PushTimeout, UnlockLogin, Register, Drop,
             Crash, loop, Ended
      <4>2. QED
        BY <4>1
    <3>3. QED
      BY <3>1, <3>2
  <2>2. CASE PushTimeout(c)
    BY <2>1, <2>2 DEF PushTimeout
  <2>3. CASE Drop(c)
    <3>1. slot[c] \notin listed
      BY <2>3 DEF Drop, Core, Placed, InLogin
    <3>2. QED
      BY <2>1, <2>3, <3>1 DEF Drop, Remove, loop
  <2>4. CASE ~PushTimeout(c) /\ ~Drop(c)
    <3>1. listed' = listed /\ todo' = todo
      BY <2>4 DEF ThreadStep, Add, InitTableEntry, AccountCertificate, Fail, Challenge,
           ForceKickout, Wait, Replace, UnlockLogin, Register, Crash, conn, loop
    <3>2. QED
      BY <2>1, <3>1
  <2>5. QED
    BY <2>2, <2>3, <2>4
<1>4. QED
  BY <1>1, <1>2, <1>3 DEF IInv

(* The main thread only removes connections that are past their login.     *)
LEMMA MainRemoves ==
  ASSUME IInv, NEW s \in Slots, table[s] # None,
         s \in listed \/ Online(s) \/ main \in {"removal", "done"}
  PROVE  pc[table[s]] \in {"drop", "unlock", "register", "online"}
<1> USE DEF IInv, TypeOK, Core
<1>1. table[s] \in Conns /\ slot[table[s]] = s /\ pc[table[s]] \notin {"idle", "gone"}
  BY DEF Placed
<1>2. CASE s \in listed
  <2>1. pc[table[s]] \notin InLogin
    BY <1>1, <1>2 DEF Placed
  <2>2. QED
    BY <1>1, <2>1 DEF InLogin, BeforeOwn, Afterwards
<1>3. CASE Online(s)
  BY <1>3 DEF Online
<1>4. CASE main \in {"removal", "done"}
  BY <1>1, <1>4 DEF LoopKnows, Ended, Placed
<1>5. QED
  BY <1>2, <1>3, <1>4

(* A step of the main thread preserves the invariant.                      *)
LEMMA MainIInv ==
  ASSUME IInv, MainStep PROVE IInv'
<1> USE DEF IInv
<1>1. TypeOK'
  BY MainType
<1>2. ASSUME UNCHANGED <<pc, conn, acct>> PROVE Core'
  BY <1>2 DEF Core, conn, acct, Placed, Named, EntryKnown, SessionOwns, TakeKnowsOwner,
              ReplaceIsAlone
<1>3. CASE StartCheck \/ EndCheck \/ Restart \/ DeletePool
  <2>1. UNCHANGED <<pc, conn, acct>>
    BY <1>3 DEF StartCheck, EndCheck, Restart, DeletePool
  <2>2. LoopKnows'
    BY <1>3 DEF StartCheck, EndCheck, Restart, DeletePool, LoopKnows, conn, acct
  <2>3. QED
    BY <1>1, <1>2, <2>1, <2>2
<1>4. CASE RemoveLeft
  <2>1. CASE UNCHANGED <<pc, conn, acct>>
    <3>1. LoopKnows'
      BY <1>4, <2>1 DEF RemoveLeft, LoopKnows, conn
    <3>2. QED
      BY <1>1, <1>2, <2>1, <3>1
  <2>2. CASE \E s \in Slots : table[s] # None /\ Remove(s) /\ UNCHANGED main
    <3>1. PICK s \in Slots : table[s] # None /\ Remove(s) /\ UNCHANGED main
      BY <2>2
    <3>2. pc[table[s]] \in {"drop", "unlock", "register", "online"}
      BY <1>4, <3>1, MainRemoves DEF RemoveLeft
    <3>3. \A d \in Conns : pc[d] \in Ended
      BY <1>4 DEF RemoveLeft, LoopKnows
    <3>4. \A d \in Conns : pc'[d] \in Ended
      BY <3>1, <3>2, <3>3, RemoveEffect DEF Ended
    <3>5. todo = {} /\ todo' = {}
      BY <1>4 DEF RemoveLeft, LoopKnows
    <3>6. QED
      BY <1>1, <3>1, <3>2, <3>4, <3>5, RemoveCore DEF LoopKnows
  <2>3. QED
    BY <1>4, <2>1, <2>2 DEF RemoveLeft
<1>5. ASSUME NEW s \in Slots, CheckOne(s) PROVE IInv'
  <2>1. s \in listed /\ table[s] # None
    BY <1>5 DEF CheckOne, LoopKnows, Core, Placed
  <2>2. LoopKnows'
    BY <1>5 DEF CheckOne, LoopKnows, Remove, conn
  <2>3. CASE Remove(s)
    <3>1. pc[table[s]] \in {"drop", "unlock", "register", "online"}
      BY <2>1, MainRemoves
    <3>2. QED
      BY <1>1, <2>1, <2>2, <2>3, <3>1, RemoveCore
  <2>4. CASE UNCHANGED <<pc, slot, table, kicked, listed, acct>>
    BY <1>1, <2>2, <2>4 DEF Core, acct, Placed, Named, EntryKnown, SessionOwns,
                            TakeKnowsOwner, ReplaceIsAlone
  <2>5. QED
    BY <1>5, <2>3, <2>4 DEF CheckOne, conn
<1>6. ASSUME NEW s \in Slots, CloseLive(s) PROVE IInv'
  <2>1. table[s] # None /\ pc[table[s]] = "online" /\ Remove(s) /\ UNCHANGED loop
    BY <1>6 DEF CloseLive, Online
  <2>2. LoopKnows'
    BY <1>6, <2>1 DEF CloseLive, LoopKnows, Remove, loop
  <2>3. QED
    BY <1>1, <2>1, <2>2, RemoveCore
<1>7. ASSUME NEW s \in Slots, KickByAccounting(s) PROVE IInv'
  <2>1. UNCHANGED <<pc, slot, table, listed, acct, loop>>
    BY <1>7 DEF KickByAccounting
  <2>2. QED
    BY <1>1, <2>1 DEF LoopKnows, loop, Core, acct, Placed, Named, EntryKnown, SessionOwns,
                      TakeKnowsOwner, ReplaceIsAlone
<1>8. QED
  BY <1>3, <1>4, <1>5, <1>6, <1>7 DEF MainStep

-----------------------------------------------------------------------------
(* The invariant is inductive.                                             *)
THEOREM Invariance == Spec => []IInv
<1>1. IInv /\ [Next]_vars => IInv'
  <2> SUFFICES ASSUME IInv, [Next]_vars PROVE IInv'
    OBVIOUS
  <2>1. ASSUME NEW c \in Conns, Add(c) \/ ThreadStep(c) PROVE IInv'
    BY <2>1, ThreadIInv
  <2>2. CASE MainStep
    BY <2>2, MainIInv
  <2>3. CASE UNCHANGED vars
    BY <2>3 DEF vars, conn, acct, loop, IInv, TypeOK, LoopKnows, Core, Placed, Named,
                EntryKnown, SessionOwns, TakeKnowsOwner, ReplaceIsAlone
  <2>4. QED
    BY <2>1, <2>2, <2>3 DEF Next
<1>2. QED
  BY InitIInv, <1>1, PTL DEF Spec

(* Type correctness, for any number of connections, slots and accounts.    *)
THEOREM TypeCorrect == Spec => []TypeOK
BY Invariance, PTL DEF IInv

(* Who uses an account owns its login entry and is in the slot the entry   *)
(* names, whatever takeovers and closings there have been.                 *)
THEOREM SessionsOwnTheirEntry == Spec => []HolderOwnsEntry
<1>1. IInv => HolderOwnsEntry
  BY DEF IInv, Core, SessionOwns, HolderOwnsEntry
<1>2. QED
  BY Invariance, <1>1, PTL

(* No two connections use the prepaid bytes of one account.                *)
THEOREM AccountsAreExclusive == Spec => []OneSession
<1>1. IInv => OneSession
  BY DEF IInv, Core, SessionOwns, OneSession
<1>2. QED
  BY Invariance, <1>1, PTL

(* The prepaid bytes of a connection are stored when it is removed, on     *)
(* every path, a takeover included.                                        *)
THEOREM PrepaidBytesAreStored == Spec => BalanceStored
<1>1. ASSUME IInv, [Next]_vars PROVE [\A c \in sessions \ sessions' : stored'[account[c]] = c]_vars
  <2> SUFFICES ASSUME NEW c \in sessions \ sessions' PROVE stored'[account[c]] = c
    OBVIOUS
  <2>1. ASSUME NEW s \in Slots, Remove(s) PROVE stored'[account[c]] = c
    <3>1. c = table[s]
      BY <2>1 DEF Remove, CleanupTableEntry
    <3>2. /\ c \in accountOK /\ login[account[c]].by # None
          /\ login[account[c]].owner = slot[c] /\ slot[c] = s
          /\ account[c] \in Accounts
      BY <1>1, <3>1, LoginAssumption DEF IInv, TypeOK, Core, SessionOwns, Placed, Named
    <3>3. QED
      BY <1>1, <2>1, <3>1, <3>2 DEF Remove, CleanupTableEntry, IInv, TypeOK
  <2>2. CASE sessions \subseteq sessions'
    BY <2>2
  <2>3. ASSUME NEW d \in Conns, Add(d) \/ ThreadStep(d) PROVE stored'[account[c]] = c
    <3>1. CASE Drop(d)
      <4>1. slot[d] \in Slots
        BY <1>1, <3>1 DEF Drop, IInv, Core, Placed, InLogin
      <4>2. QED
        BY <2>1, <3>1, <4>1 DEF Drop
    <3>2. CASE ~Drop(d)
      <4>1. sessions \subseteq sessions'
        BY <2>3, <3>2 DEF ThreadStep, Add, InitTableEntry, AccountCertificate, Fail, Challenge,
          ForceKickout, Wait, Replace, CreateLoginEntry, PushTimeout, UnlockLogin, Register,
          Crash, acct
      <4>2. QED
        BY <2>2, <4>1
    <3>3. QED
      BY <3>1, <3>2
  <2>4. CASE MainStep
    <3>1. CASE \E s \in Slots : Remove(s)
      BY <2>1, <3>1
    <3>2. CASE ~\E s \in Slots : Remove(s)
      <4>1. sessions' = sessions
        BY <2>4, <3>2 DEF MainStep, StartCheck, EndCheck, Restart, DeletePool, RemoveLeft,
          CheckOne, CloseLive, KickByAccounting, acct
      <4>2. QED
        BY <2>2, <4>1
    <3>3. QED
      BY <3>1, <3>2
  <2>5. CASE UNCHANGED vars
    BY <2>2, <2>5 DEF vars, acct
  <2>6. QED
    BY <1>1, <2>3, <2>4, <2>5 DEF Next
<1>2. QED
  BY Invariance, <1>1, PTL DEF Spec, BalanceStored

-----------------------------------------------------------------------------
(* A locked account whose connection is there is being logged in by that   *)
(* connection, or taken over by another one.                               *)
Logging == {"paying", "unlock", "failing"}

Held(a) ==
  \/ pc[login[a].by] \in Logging /\ account[login[a].by] = a
  \/ \E c \in Conns : account[c] = a /\ pc[c] \in Takeover

LockHasHolder ==
  \A a \in Accounts : login[a].ongoing =>
    login[a].by # None /\ (table[login[a].owner] = login[a].by => Held(a))

(* What holds of an entry that is locked.                                  *)
LEMMA LockedEntry ==
  ASSUME IInv, LockHasHolder, NEW a \in Accounts, login[a].ongoing
  PROVE  /\ login[a].by \in Conns /\ login[a].owner \in Slots
         /\ pc[login[a].by] \in Afterwards
         /\ table[login[a].owner] = login[a].by => slot[login[a].by] = login[a].owner /\ Held(a)
BY LoginAssumption DEF IInv, TypeOK, Core, LockHasHolder, EntryKnown, Placed

(* A step that locks nothing, puts nobody who is past the challenge into a *)
(* slot, and takes no holder of a locked account away.                     *)
LEMMA KeepLock ==
  ASSUME IInv, LockHasHolder,
         \A a \in Accounts : login'[a] = login[a] \/ ~login'[a].ongoing,
         \A s \in Slots : \A d \in Conns :
           table'[s] = d => table[s] = d \/ pc[d] \notin Afterwards,
         \A d \in Conns : pc[d] \in Takeover => pc'[d] \in Takeover /\ account'[d] = account[d],
         \A d \in Conns : pc[d] \in Logging /\ table'[slot[d]] = d =>
           \/ pc'[d] \in Logging /\ account'[d] = account[d]
           \/ \A a \in Accounts : account[d] = a /\ login[a].by = d /\ login[a].owner = slot[d]
                => ~login'[a].ongoing
  PROVE  LockHasHolder'
<1> SUFFICES ASSUME NEW a \in Accounts, login'[a].ongoing
             PROVE  login'[a].by # None /\ (table'[login'[a].owner] = login'[a].by => Held(a)')
  BY DEF LockHasHolder
<1>1. login'[a] = login[a] /\ login[a].ongoing
  OBVIOUS
<1>2. login[a].by \in Conns /\ login[a].owner \in Slots /\ login[a].by # None
      /\ pc[login[a].by] \in Afterwards
  BY <1>1, LockedEntry DEF LockHasHolder
<1>3. ASSUME table'[login[a].owner] = login[a].by PROVE Held(a)'
  <2>1. table[login[a].owner] = login[a].by
    BY <1>2, <1>3
  <2>2. slot[login[a].by] = login[a].owner /\ Held(a)
    BY <1>1, <2>1, LockedEntry
  <2>3. CASE pc[login[a].by] \in Logging /\ account[login[a].by] = a
    BY <1>1, <1>2, <1>3, <2>2, <2>3 DEF Held
  <2>4. CASE \E c \in Conns : account[c] = a /\ pc[c] \in Takeover
    BY <2>4 DEF Held
  <2>5. QED
    BY <2>2, <2>3, <2>4 DEF Held
<1>4. QED
  BY <1>1, <1>2, <1>3

(* A removal keeps it: who is removed is in its slot no more.              *)
LEMMA RemoveLock ==
  ASSUME IInv, LockHasHolder, NEW s \in Slots, Remove(s), table[s] # None,
         pc[table[s]] \in {"drop", "unlock", "register", "online"}
  PROVE  LockHasHolder'
<1>1. \A a \in Accounts : login'[a] = login[a] \/ ~login'[a].ongoing
  BY RemoveEffect DEF NoEntry
<1>2. table' = [table EXCEPT ![s] = None] /\ account' = account
  BY DEF Remove
<1>3. \A t \in Slots : \A d \in Conns : table'[t] = d => table[t] = d
  BY <1>2, LoginAssumption DEF IInv, TypeOK
<1>4. ASSUME NEW d \in Conns, pc[d] \in Takeover
      PROVE  pc'[d] \in Takeover
  BY <1>4, RemoveEffect DEF Takeover
<1>5. ASSUME NEW d \in Conns, pc[d] \in Logging
      PROVE  pc'[d] \in Logging
  BY <1>5, RemoveEffect DEF Logging
<1>6. QED
  BY <1>1, <1>2, <1>3, <1>4, <1>5, KeepLock

(* A step of a login thread keeps it.                                      *)
LEMMA ThreadLock ==
  ASSUME IInv, LockHasHolder, NEW c \in Conns, Add(c) \/ ThreadStep(c)
  PROVE  LockHasHolder'
<1> USE DEF Goto
<1>0. /\ pc \in [Conns -> BeforeOwn \cup Afterwards] /\ account \in [Conns -> Accounts \cup {None}]
      /\ table \in [Slots -> Conns \cup {None}] /\ slot \in [Conns -> Slots \cup {None}]
      /\ DOMAIN login = Accounts
  BY DEF IInv, TypeOK
<1>1. CASE Add(c)
  <2>1. PICK s \in Slots : table' = [table EXCEPT ![s] = c]
    BY <1>1 DEF Add
  <2>2. pc[c] = "idle" /\ pc' = [pc EXCEPT ![c] = "added"] /\ UNCHANGED <<account, login>>
    BY <1>1 DEF Add, acct
  <2>3. pc[c] \notin Takeover \cup Logging \cup Afterwards
    BY <2>2 DEF Takeover, Logging, Afterwards
  <2>4. \A t \in Slots : \A d \in Conns : table'[t] = d => table[t] = d \/ pc[d] \notin Afterwards
    BY <1>0, <2>1, <2>3
  <2>5. \A d \in Conns : d # c => pc'[d] = pc[d]
    BY <2>2
  <2>6. QED
    BY <2>2, <2>3, <2>4, <2>5, KeepLock
<1>2. CASE InitTableEntry(c) \/ AccountCertificate(c)
  <2>1. pc[c] \in {"added", "registered"} /\ UNCHANGED <<table, login>>
    BY <1>2 DEF InitTableEntry, AccountCertificate, conn, acct
  <2>2. \A d \in Conns : d # c => pc'[d] = pc[d] /\ account'[d] = account[d]
    BY <1>0, <1>2 DEF InitTableEntry, AccountCertificate, acct
  <2>3. pc[c] \notin Takeover \cup Logging
    BY <2>1 DEF Takeover, Logging
  <2>4. QED
    BY <2>1, <2>2, <2>3, KeepLock
<1>3. CASE Fail(c) \/ PushTimeout(c)
  <2>1. UNCHANGED <<table, login, account>> /\ pc[c] \in {"registered", "cert", "paying"}
    BY <1>3 DEF Fail, PushTimeout, conn, acct
  <2>2. \A d \in Conns : pc'[d] = IF d = c THEN (IF Fail(c) THEN "failing" ELSE "unlock") ELSE pc[d]
    BY <1>0, <1>3 DEF Fail, PushTimeout
  <2>3. pc[c] \notin Takeover /\ pc'[c] \in Logging
    BY <2>1, <2>2 DEF Takeover, Logging
  <2>4. QED
    BY <2>1, <2>2, <2>3, KeepLock
<1>4. CASE ForceKickout(c) \/ Wait(c)
  <2>1. UNCHANGED <<table, login, account>> /\ pc[c] \in Takeover
    BY <1>4 DEF ForceKickout, Wait, Crash, conn, acct, Takeover
  <2>2. pc[c] \notin Logging
    BY <2>1 DEF Takeover, Logging
  <2>3. (\A d \in Conns : d # c => pc'[d] = pc[d]) /\ pc'[c] \in Takeover
    BY <1>0, <1>4, <2>1 DEF ForceKickout, Wait, Crash, Takeover
  <2>4. QED
    BY <2>1, <2>2, <2>3, KeepLock
<1>5. ASSUME CreateLoginEntry(c), UNCHANGED <<table, account>>, pc[c] \in {"cert", "replace"}
      PROVE  LockHasHolder'
  <2> DEFINE b == account[c]
  <2>1. /\ b \in Accounts /\ c # None
        /\ pc' = [pc EXCEPT ![c] = "paying"]
        /\ login' = [login EXCEPT ![b] = [by |-> c, owner |-> slot[c], ongoing |-> TRUE]]
    BY <1>5, LoginAssumption DEF CreateLoginEntry, IInv, Core, Named, Takeover
  <2>2. ASSUME NEW a \in Accounts, login'[a].ongoing
        PROVE  login'[a].by # None /\ (table'[login'[a].owner] = login'[a].by => Held(a)')
    <3>1. CASE a = b
      <4>1. login'[a].by = c /\ pc'[c] = "paying" /\ account'[c] = a
        BY <1>0, <1>5, <2>1, <3>1
      <4>2. QED
        BY <2>1, <4>1 DEF Held, Logging
    <3>2. CASE a # b
      <4>1. login'[a] = login[a] /\ login[a].ongoing
        BY <1>0, <2>1, <2>2, <3>2
      <4>2. login[a].by # None /\ (table[login[a].owner] = login[a].by => Held(a))
        BY <4>1 DEF LockHasHolder
      <4>3. \A d \in Conns : account[d] = a => pc'[d] = pc[d]
        BY <1>0, <2>1, <3>2
      <4>4. login[a].by \in Conns
        BY <4>1, LockedEntry
      <4>5. ASSUME Held(a) PROVE Held(a)'
        BY <1>5, <4>1, <4>3, <4>4, <4>5 DEF Held
      <4>6. QED
        BY <1>5, <4>1, <4>2, <4>5
    <3>3. QED
      BY <3>1, <3>2
  <2>3. QED
    BY <2>2 DEF LockHasHolder
<1>6. CASE Replace(c)
  <2>1. CASE CreateLoginEntry(c)
    BY <1>5, <1>6, <2>1 DEF Replace, conn, acct, Crash
  <2>2. CASE Crash
    BY <2>2 DEF Crash, conn, acct, LockHasHolder, Held
  <2>3. QED
    BY <1>6, <2>1, <2>2 DEF Replace
<1>7. CASE Challenge(c)
  <2> DEFINE b == account[c]
  <2>0. pc[c] = "cert" /\ UNCHANGED <<table, account>> /\ b \in Accounts
        /\ pc[c] \notin Takeover \cup Logging
    BY <1>7 DEF Challenge, conn, IInv, Core, Named, Takeover, Logging
  <2>1. CASE CreateLoginEntry(c)
    BY <1>5, <2>0, <2>1
  <2>2. CASE Goto(c, "failing") /\ UNCHANGED login
    <3>1. \A d \in Conns : d # c => pc'[d] = pc[d]
      BY <2>2
    <3>2. QED
      BY <2>0, <2>2, <3>1, KeepLock
  <2>3. CASE login[b].by # None /\ SetLoginOngoing(b, TRUE) /\ Goto(c, "takeover")
    <3>1. /\ \A d \in Conns : d # c => pc'[d] = pc[d]
          /\ pc'[c] \in Takeover /\ account'[c] = b
      BY <1>0, <2>0, <2>3 DEF Takeover
    <3>2. \A a \in Accounts : /\ login'[a].by = login[a].by /\ login'[a].owner = login[a].owner
                              /\ a # b => login'[a] = login[a]
      BY <1>0, <2>3 DEF SetLoginOngoing, IInv, TypeOK
    <3>3. ASSUME NEW a \in Accounts, login'[a].ongoing
          PROVE  login'[a].by # None /\ (table'[login'[a].owner] = login'[a].by => Held(a)')
      <4>1. CASE a = b
        <5>1. Held(a)'
          BY <3>1, <4>1 DEF Held
        <5>2. QED
          BY <2>3, <3>2, <4>1, <5>1
      <4>2. CASE a # b
        <5>1. login'[a] = login[a] /\ login[a].ongoing
          BY <3>2, <3>3, <4>2
        <5>2. login[a].by # None /\ (table[login[a].owner] = login[a].by => Held(a))
          BY <5>1 DEF LockHasHolder
        <5>3. \A d \in Conns : pc[d] \in Takeover \cup Logging => pc'[d] = pc[d]
          BY <2>0, <3>1
        <5>4. login[a].by \in Conns
          BY <5>1, LockedEntry
        <5>5. ASSUME Held(a) PROVE Held(a)'
          BY <2>0, <5>1, <5>3, <5>4, <5>5 DEF Held
        <5>6. QED
          BY <2>0, <5>1, <5>2, <5>5
      <4>3. QED
        BY <4>1, <4>2
    <3>4. QED
      BY <3>3 DEF LockHasHolder
  <2>4. QED
    BY <1>7, <2>1, <2>2, <2>3 DEF Challenge
<1>8. CASE UnlockLogin(c)
  <2>1. UNCHANGED <<table, account>> /\ pc[c] \in {"unlock", "failing"}
    BY <1>8 DEF UnlockLogin, conn
  <2>2. \A d \in Conns : d # c => pc'[d] = pc[d]
    BY <1>0, <1>8 DEF UnlockLogin
  <2>3. pc[c] \notin Takeover
    BY <2>1 DEF Takeover
  <2>4. \A a \in Accounts : login'[a] = login[a] \/ ~login'[a].ongoing
    BY <1>0, <1>8 DEF UnlockLogin, ResetLoginOngoing, SetLoginOngoing
  <2>5. ASSUME NEW a \in Accounts, account[c] = a, login[a].by = c, login[a].owner = slot[c],
               table[slot[c]] = c
        PROVE  ~login'[a].ongoing
    BY <1>0, <1>8, <2>5, LoginAssumption DEF UnlockLogin, ResetLoginOngoing, SetLoginOngoing
  <2>6. QED
    BY <2>1, <2>2, <2>3, <2>4, <2>5, KeepLock
<1>9. CASE Register(c)
  <2>1. UNCHANGED <<table, account, login>> /\ pc[c] = "register"
    BY <1>9 DEF Register, Crash, conn, acct
  <2>2. \A d \in Conns : d # c => pc'[d] = pc[d]
    BY <1>0, <1>9 DEF Register, Crash
  <2>3. pc[c] \notin Takeover \cup Logging
    BY <2>1 DEF Takeover, Logging
  <2>4. QED
    BY <2>1, <2>2, <2>3, KeepLock
<1>10. CASE Drop(c)
  <2>1. slot[c] \in Slots /\ table[slot[c]] = c /\ pc[c] = "drop" /\ c # None
    BY <1>10, LoginAssumption DEF Drop, IInv, Core, Placed, InLogin
  <2>2. QED
    BY <1>10, <2>1, RemoveLock DEF Drop
<1>11. QED
  BY <1>1, <1>2, <1>3, <1>4, <1>6, <1>7, <1>8, <1>9, <1>10 DEF ThreadStep

(* A step of the main thread keeps it.                                     *)
LEMMA MainLock ==
  ASSUME IInv, LockHasHolder, MainStep PROVE LockHasHolder'
<1>1. ASSUME UNCHANGED <<pc, table, account, login>> PROVE LockHasHolder'
  BY <1>1 DEF LockHasHolder, Held
<1>2. ASSUME NEW s \in Slots, Remove(s), table[s] # None,
             s \in listed \/ Online(s) \/ main \in {"removal", "done"}
      PROVE  LockHasHolder'
  BY <1>2, MainRemoves, RemoveLock
<1>3. CASE StartCheck \/ EndCheck \/ Restart \/ DeletePool
  BY <1>1, <1>3 DEF StartCheck, EndCheck, Restart, DeletePool, conn, acct
<1>4. CASE RemoveLeft
  BY <1>1, <1>2, <1>4 DEF RemoveLeft, conn, acct
<1>5. ASSUME NEW s \in Slots, CheckOne(s) PROVE LockHasHolder'
  <2>1. s \in listed /\ table[s] # None
    BY <1>5 DEF CheckOne, IInv, LoopKnows, Core, Placed
  <2>2. CASE Remove(s)
    BY <1>2, <2>1, <2>2
  <2>3. CASE ~Remove(s)
    BY <1>1, <1>5, <2>3 DEF CheckOne, conn, acct
  <2>4. QED
    BY <2>2, <2>3
<1>6. ASSUME NEW s \in Slots, CloseLive(s) PROVE LockHasHolder'
  BY <1>2, <1>6 DEF CloseLive, Online
<1>7. ASSUME NEW s \in Slots, KickByAccounting(s) PROVE LockHasHolder'
  BY <1>1, <1>7 DEF KickByAccounting, acct
<1>8. QED
  BY <1>3, <1>4, <1>5, <1>6, <1>7 DEF MainStep

(* An account stays locked only while a thread is at work on a login of    *)
(* it, or the connection that logged it in has gone: nobody is kept out by *)
(* a connection that is there and done.                                    *)
THEOREM NobodyIsLockedOut == Spec => []AccountNotLocked
<1>1. Init => LockHasHolder
  BY DEF Init, LockHasHolder, NoEntry
<1>2. IInv /\ LockHasHolder /\ [Next]_vars => LockHasHolder'
  <2> SUFFICES ASSUME IInv, LockHasHolder, [Next]_vars PROVE LockHasHolder'
    OBVIOUS
  <2>1. ASSUME NEW c \in Conns, Add(c) \/ ThreadStep(c) PROVE LockHasHolder'
    BY <2>1, ThreadLock
  <2>2. CASE MainStep
    BY <2>2, MainLock
  <2>3. CASE UNCHANGED vars
    BY <2>3 DEF vars, conn, acct, LockHasHolder, Held
  <2>4. QED
    BY <2>1, <2>2, <2>3 DEF Next
<1>3. IInv /\ LockHasHolder => AccountNotLocked
  <2> SUFFICES ASSUME IInv, LockHasHolder, NEW a \in Accounts,
                      login[a].ongoing, table[login[a].owner] = login[a].by
               PROVE  \E c \in Conns :
                        /\ account[c] = a
                        /\ pc[c] \in Takeover \cup {"paying", "unlock", "failing"}
    BY DEF AccountNotLocked
  <2>1. login[a].by \in Conns /\ Held(a)
    BY LockedEntry
  <2>2. QED
    BY <2>1 DEF Held, Logging
<1>4. QED
  BY Invariance, <1>1, <1>2, <1>3, PTL DEF Spec
=============================================================================

---------------------------- MODULE AccountLogin ----------------------------
(***************************************************************************)
(* The login of a paying user at the first mix (PAYMENT builds): an        *)
(* account may be used by one connection at a time, so a login thread that *)
(* finds its account in use has the older connection kicked out, waits     *)
(* until the main loop has closed it and only then reads what is left of   *)
(* the account's prepaid bytes.                                            *)
(*                                                                         *)
(* Login threads (doUserLogin_internal) and the main loop of the first mix *)
(* share the connection list, one preallocated entry per socket number (a  *)
(* slot), the hash table of accounts in use, and the login mutex.          *)
(* Sections under the mutex of the list or of the hash table call nothing  *)
(* that waits for another thread, and are one action each; the login mutex *)
(* is not among them: it is held by a thread between kicking a connection  *)
(* and going to sleep and by the main loop while it checks the connections,*)
(* but not where the main loop closes a connection that is dead.           *)
(*                                                                         *)
(* A login entry is known by the connection that created it.  The model    *)
(* stops at the first use of an object that has been deleted (crashed).    *)
(* wait() is taken to return only when it is signalled: the code does not  *)
(* look again whether the older connection is gone.                        *)
(***************************************************************************)
EXTENDS Naturals

CONSTANTS
  Conns,            (* connections; a user who comes back is a new one     *)
  Slots,            (* socket numbers, the entries of m_HashTable          *)
  Accounts,
  AccountsOf,       (* the accounts a client can answer the challenge of   *)
  MaxRetries,       (* MAX_KICKOUT_RETRIES                                 *)
  None

ASSUME LoginAssumption ==
  /\ AccountsOf \in [Conns -> SUBSET Accounts]
  /\ MaxRetries \in Nat
  /\ None \notin Conns
  /\ None \notin Slots
  /\ None \notin Accounts

VARIABLES
  pc,         (* where the login thread of a connection is                 *)
  account,    (* accountNumber: the account a connection shows a           *)
              (* certificate of                                            *)
  slot,       (* the slot of a connection                                  *)
  table,      (* m_HashTable: the connection in a slot                     *)
  kicked,     (* slots whose bRecoverTimeout is FALSE                      *)
  listed,     (* slots in the timeout list                                 *)
  retries,    (* kickoutSendRetries                                        *)
  login,      (* m_currentAccountsHashtable                                *)
  accountOK,  (* connections with AUTH_ACCOUNT_OK                          *)
  take,       (* the login entry a thread takes over, its owner and        *)
              (* the connection that was kicked out for it                 *)
  sessions,   (* connections that have read the account's prepaid bytes    *)
              (* and whose own count has not been stored yet               *)
  stored,     (* history: the connection whose prepaid bytes were stored   *)
              (* for an account last                                       *)
  main,       (* where the main thread of the first mix is                 *)
  todo,       (* slots the running checkUserConnections() has yet to see   *)
  crashed     (* an object has been used after its deletion                *)

conn  == <<slot, table, kicked, listed, retries>>
acct  == <<account, login, accountOK, take, sessions, stored>>
loop  == <<main, todo>>
vars  == <<pc, conn, acct, loop, crashed>>

NoEntry == [by |-> None, owner |-> None, ongoing |-> FALSE]
NoTake  == [entry |-> None, owner |-> None, victim |-> None]

(* The places a login thread can be at; "online" and "gone" are those of a *)
(* connection whose thread has ended.                                      *)
Takeover  == {"takeover", "sleep", "asleep", "replace"}
BeforeOwn == {"idle", "added", "registered", "cert"} \cup Takeover
Afterwards == {"paying", "unlock", "register", "online", "failing", "drop", "gone"}
Ended     == {"idle", "online", "gone"}

Init ==
  /\ pc = [c \in Conns |-> "idle"]
  /\ account = [c \in Conns |-> None]
  /\ slot = [c \in Conns |-> None]
  /\ table = [s \in Slots |-> None]
  /\ kicked = {} /\ listed = {}
  /\ retries = [s \in Slots |-> 0]
  /\ login = [a \in Accounts |-> NoEntry]
  /\ accountOK = {} /\ sessions = {}
  /\ take = [c \in Conns |-> NoTake]
  /\ stored = [a \in Accounts |-> None]
  /\ main = "loop" /\ todo = {}
  /\ crashed = FALSE

(* m_pmutexLogin is held by a thread that has kicked a connection and not  *)
(* yet gone to sleep, and by the main loop during its check.               *)
LoginMutexFree == main # "check" /\ \A c \in Conns : pc[c] # "sleep"

Goto(c, place) == pc' = [pc EXCEPT ![c] = place]

(* A deleted object is used: nothing is promised any more.                 *)
Crash == crashed' = TRUE /\ UNCHANGED <<pc, conn, acct, loop>>

-----------------------------------------------------------------------------
(* CAFirstMixChannelList::remove().                                        *)

(* Variant: the prepaid bytes are stored where the entry is deleted.      *)
CleanupStoringLess(s) ==
  LET c == table[s]
      a == account[c]
      last == c \in accountOK /\ login[a].by # None /\ login[a].owner = s
                /\ ~login[a].ongoing IN
  /\ stored' = IF last THEN [stored EXCEPT ![a] = c] ELSE stored
  /\ login' = IF last THEN [login EXCEPT ![a] = NoEntry] ELSE login
  /\ sessions' = sessions \ {c}

(* cleanupTableEntry(): only the owner of the login entry stores the       *)
(* prepaid bytes and deletes the entry, unless a login thread has taken it.*)
CleanupTableEntry(s) ==
  LET c == table[s]
      a == account[c]
      owns == c \in accountOK /\ login[a].by # None /\ login[a].owner = s IN
  /\ stored' = IF owns THEN [stored EXCEPT ![a] = c] ELSE stored
  /\ login' = IF owns /\ ~login[a].ongoing THEN [login EXCEPT ![a] = NoEntry] ELSE login
  /\ sessions' = sessions \ {c}

Waiting(s) == {w \in Conns : pc[w] = "asleep" /\ take[w].owner = s}

SignalCleanup(s, places) ==
  IF Waiting(s) = {} THEN pc' = places
                     ELSE \E w \in Waiting(s) : pc' = [places EXCEPT ![w] = "replace"]

(* The entry is reset, its control channels are deleted and with them the  *)
(* accounting data, and one thread waiting for this slot is woken up.      *)
(* An online connection, or one whose login failed, is gone with its       *)
(* entry; a login thread that has not finished goes on without it.         *)
Remove(s) ==
  LET c == table[s] IN
  /\ CleanupTableEntry(s)
  /\ table' = [table EXCEPT ![s] = None]
  /\ kicked' = kicked \ {s}
  /\ listed' = listed \ {s}
  /\ SignalCleanup(s, IF pc[c] \in {"online", "drop"} THEN [pc EXCEPT ![c] = "gone"] ELSE pc)
  /\ UNCHANGED <<slot, retries, account, accountOK, take, crashed>>

-----------------------------------------------------------------------------
(* The login thread.                                                       *)

(* CAFirstMixChannelList::add(): the slot is that of the socket, a closed  *)
(* socket's number is given to the next one.                               *)
Add(c) ==
  /\ pc[c] = "idle"
  /\ main \notin {"removal", "done"}
  /\ \E s \in Slots :
       /\ table[s] = None
       /\ slot' = [slot EXCEPT ![c] = s]
       /\ table' = [table EXCEPT ![s] = c]
       /\ kicked' = kicked \ {s}
       /\ retries' = [retries EXCEPT ![s] = MaxRetries]
  /\ Goto(c, "added")
  /\ UNCHANGED <<listed, acct, loop, crashed>>

(* The accounting control channel is registered: initTableEntry().         *)
InitTableEntry(c) ==
  /\ pc[c] = "added"
  /\ Goto(c, "registered")
  /\ UNCHANGED <<conn, acct, loop, crashed>>

(* handleAccountCertificate(): the client says which account is its own    *)
(* and is sent a challenge.                                                *)
AccountCertificate(c) ==
  /\ pc[c] = "registered"
  /\ \E a \in AccountsOf[c] : account' = [account EXCEPT ![c] = a]
  /\ Goto(c, "cert")
  /\ UNCHANGED <<conn, login, accountOK, take, sessions, stored, loop, crashed>>

(* The client is too slow, hangs up, signs wrongly or does not pay.        *)
Fail(c) ==
  /\ pc[c] \in {"registered", "cert", "paying"}
  /\ Goto(c, "failing")
  /\ UNCHANGED <<conn, acct, loop, crashed>>

(* A login entry of its own: the thread owns the account from here on and  *)
(* reads the prepaid bytes.                                                *)
CreateLoginEntry(c) ==
  /\ login' = [login EXCEPT ![account[c]] =
                 [by |-> c, owner |-> slot[c], ongoing |-> TRUE]]
  /\ sessions' = sessions \cup {c}
  /\ Goto(c, "paying")

(* loginOngoing, under the ownerLock of the entry.                         *)
SetLoginOngoing(a, flag) ==
  login' = [login EXCEPT ![a] = [by |-> @.by, owner |-> @.owner, ongoing |-> flag]]

(* handleChallengeResponse_internal(), up to the release of the hash table *)
(* mutex: the account is free, or another thread logs it in, or it belongs *)
(* to a connection that is to be kicked out (testAndSetLoginOwner()).      *)
Challenge(c) ==
  LET a == account[c] IN
  /\ pc[c] = "cert"
  /\ accountOK' = accountOK \cup {c}
  /\ \/ /\ login[a].by = None
        /\ CreateLoginEntry(c)
        /\ UNCHANGED take
     \/ /\ login[a].by # None /\ login[a].ongoing
        /\ Goto(c, "failing")
        /\ UNCHANGED <<login, take, sessions>>
     \/ /\ login[a].by # None /\ ~login[a].ongoing
        /\ SetLoginOngoing(a, TRUE)
        /\ take' = [take EXCEPT ![c] =
                      [entry |-> login[a].by, owner |-> login[a].owner, victim |-> None]]
        /\ Goto(c, "takeover")
        /\ UNCHANGED sessions
  /\ UNCHANGED <<conn, account, stored, loop, crashed>>

(* Variant: the older connection is kicked but not waited for.            *)
ForceKickoutOnly(c) ==
  LET s == take[c].owner IN
  /\ pc[c] = "takeover"
  /\ LoginMutexFree
  /\ kicked' = IF table[s] = None THEN kicked ELSE kicked \cup {s}
  /\ Goto(c, "replace")
  /\ UNCHANGED <<slot, table, listed, retries, acct, loop, crashed>>

(* Under the login mutex: forceKickout().  The error message goes through  *)
(* the control channel of whoever is in the slot now, which has none       *)
(* before initTableEntry().                                                *)
ForceKickout(c) ==
  LET s == take[c].owner IN
  /\ pc[c] = "takeover"
  /\ LoginMutexFree
  /\ \/ /\ table[s] = None
        /\ Goto(c, "replace")
        /\ UNCHANGED <<conn, acct, loop, crashed>>
     \/ /\ table[s] # None /\ pc[table[s]] = "added"
        /\ Crash
     \/ /\ table[s] # None /\ pc[table[s]] # "added"
        /\ kicked' = kicked \cup {s}
        /\ take' = [take EXCEPT ![c] =
                      [entry |-> @.entry, owner |-> s, victim |-> table[s]]]
        /\ Goto(c, "sleep")
        /\ UNCHANGED <<slot, table, listed, retries, account, login, accountOK,
                       sessions, stored, loop, crashed>>

(* cleanupNotifier is locked, the login mutex released, wait().            *)
Wait(c) ==
  /\ pc[c] = "sleep"
  /\ Goto(c, "asleep")
  /\ UNCHANGED <<conn, acct, loop, crashed>>

(* Under the hash table mutex: the entry that was found before is removed  *)
(* and deleted, whatever has become of it, and a new one is created.       *)
Replace(c) ==
  /\ pc[c] = "replace"
  /\ \/ /\ login[account[c]].by # take[c].entry
        /\ Crash
     \/ /\ login[account[c]].by = take[c].entry
        /\ CreateLoginEntry(c)
        /\ UNCHANGED <<conn, account, accountOK, take, stored, loop, crashed>>

(* Cost confirmation, settlement and finishLoginProcess() went well:       *)
(* pushTimeoutEntry().  A check that is running may or may not get to the  *)
(* new tail of the list.                                                   *)
PushTimeout(c) ==
  /\ pc[c] = "paying"
  /\ listed' = listed \cup {slot[c]}
  /\ \/ todo' = todo
     \/ main = "check" /\ todo' = todo \cup {slot[c]}
  /\ Goto(c, "unlock")
  /\ UNCHANGED <<slot, table, kicked, retries, acct, main, crashed>>

(* Variant: the login stays locked.                                       *)
KeepLoginOngoing(s) == login' = login

(* resetLoginOngoing() for the account of whoever is in the slot.          *)
ResetLoginOngoing(s) ==
  LET a == account[table[s]] IN
  IF table[s] # None /\ a # None /\ login[a].by # None /\ login[a].owner = s
  THEN SetLoginOngoing(a, FALSE) ELSE login' = login

(* unlockLogin(), on every way out of the login.                           *)
UnlockLogin(c) ==
  /\ \/ pc[c] = "unlock" /\ Goto(c, "register")
     \/ pc[c] = "failing" /\ Goto(c, "drop")
  /\ ResetLoginOngoing(slot[c])
  /\ UNCHANGED <<conn, account, accountOK, take, sessions, stored, loop, crashed>>

(* The socket is added to the socket groups; a kicked connection may have  *)
(* been closed, and its socket deleted, before.                            *)
Register(c) ==
  /\ pc[c] = "register"
  /\ \/ /\ table[slot[c]] = c
        /\ Goto(c, "online")
        /\ UNCHANGED <<conn, acct, loop, crashed>>
     \/ table[slot[c]] # c /\ Crash

Drop(c) ==
  /\ pc[c] = "drop"
  /\ Remove(slot[c])
  /\ UNCHANGED loop

ThreadStep(c) ==
  \/ InitTableEntry(c) \/ AccountCertificate(c) \/ Fail(c) \/ Challenge(c)
  \/ ForceKickout(c) \/ Wait(c) \/ Replace(c) \/ PushTimeout(c) \/ UnlockLogin(c)
  \/ Register(c) \/ Drop(c)

-----------------------------------------------------------------------------
(* The main loop.                                                          *)

StartCheck ==
  /\ main = "loop"
  /\ LoginMutexFree
  /\ main' = "check"
  /\ todo' = listed
  /\ UNCHANGED <<pc, conn, acct, crashed>>

(* checkUserConnections(), one turn of its loop.  A connection that is to  *)
(* be kicked out gets a few passes to fetch its last control messages.     *)
CheckOne(s) ==
  /\ main = "check" /\ s \in todo
  /\ todo' = todo \ {s}
  /\ \/ /\ s \notin kicked
        /\ UNCHANGED <<pc, conn, acct, crashed>>
     \/ /\ s \notin kicked
        /\ pc[table[s]] = "online"
        /\ Remove(s)
     \/ /\ s \in kicked /\ retries[s] > 0
        /\ retries' = [retries EXCEPT ![s] = @ - 1]
        /\ UNCHANGED <<pc, slot, table, kicked, listed, acct, crashed>>
     \/ /\ s \in kicked
        /\ Remove(s)
  /\ UNCHANGED main

EndCheck ==
  /\ main = "check" /\ todo = {}
  /\ main' = "loop"
  /\ UNCHANGED <<pc, conn, acct, todo, crashed>>

Online(s) == table[s] # None /\ pc[table[s]] = "online"

(* A dead socket, a bad control message or a payment status that allows    *)
(* nothing more: closeConnection() without the login mutex.                *)
CloseLive(s) ==
  /\ main = "loop"
  /\ Online(s)
  /\ Remove(s)
  /\ UNCHANGED loop

(* HANDLE_PACKET_PREPARE_FOR_CLOSING_CONNECTION.                           *)
KickByAccounting(s) ==
  /\ main = "loop"
  /\ Online(s)
  /\ kicked' = kicked \cup {s}
  /\ UNCHANGED <<pc, slot, table, listed, retries, acct, loop, crashed>>

(* m_bRestart ends the loop; clean() deletes the login pool, which waits   *)
(* for the threads, and then the connections that are left.                *)
Restart ==
  /\ main = "loop"
  /\ main' = "clean"
  /\ UNCHANGED <<pc, conn, acct, todo, crashed>>

DeletePool ==
  /\ main = "clean"
  /\ \A c \in Conns : pc[c] \in Ended
  /\ main' = "removal"
  /\ UNCHANGED <<pc, conn, acct, todo, crashed>>

RemoveLeft ==
  /\ main = "removal"
  /\ IF \A s \in Slots : table[s] = None
     THEN main' = "done" /\ UNCHANGED <<pc, conn, acct, crashed>>
     ELSE (\E s \in Slots : table[s] # None /\ Remove(s)) /\ UNCHANGED main
  /\ UNCHANGED todo

MainStep ==
  \/ StartCheck \/ EndCheck \/ Restart \/ DeletePool \/ RemoveLeft
  \/ \E s \in Slots : CheckOne(s) \/ CloseLive(s) \/ KickByAccounting(s)

Next ==
  /\ ~crashed
  /\ \/ \E c \in Conns : Add(c) \/ ThreadStep(c)
     \/ MainStep

Spec == Init /\ [][Next]_vars

-----------------------------------------------------------------------------
(* The variables have their types.                                         *)
TypeOK ==
  /\ pc \in [Conns -> BeforeOwn \cup Afterwards]
  /\ account \in [Conns -> Accounts \cup {None}]
  /\ slot \in [Conns -> Slots \cup {None}]
  /\ table \in [Slots -> Conns \cup {None}]
  /\ kicked \subseteq Slots /\ listed \subseteq Slots /\ todo \subseteq Slots
  /\ retries \in [Slots -> 0..MaxRetries]
  /\ login \in [Accounts -> [by : Conns \cup {None}, owner : Slots \cup {None},
                             ongoing : BOOLEAN]]
  /\ accountOK \subseteq Conns /\ sessions \subseteq Conns
  /\ take \in [Conns -> [entry : Conns \cup {None}, owner : Slots \cup {None},
                         victim : Conns \cup {None}]]
  /\ stored \in [Accounts -> Conns \cup {None}]
  /\ main \in {"loop", "check", "clean", "removal", "done"}
  /\ crashed \in BOOLEAN

(* An account's prepaid bytes are in use by one connection at a time: a    *)
(* takeover never reads them before the older connection has been removed  *)
(* (handleChallengeResponse_internal).                                     *)
OneSession ==
  \A c, d \in sessions : account[c] = account[d] => c = d

(* Who uses an account is still in its slot and owns the account's login   *)
(* entry, so that its removal finds the entry and stores the prepaid bytes *)
(* (cleanupTableEntry).                                                    *)
HolderOwnsEntry ==
  \A c \in sessions :
    /\ slot[c] \in Slots /\ table[slot[c]] = c
    /\ login[account[c]].by # None
    /\ login[account[c]].owner = slot[c]

(* A session never ends without its prepaid bytes having been stored.      *)
BalanceStored ==
  [][\A c \in sessions \ sessions' : stored'[account[c]] = c]_vars

(* While the connection that logged an account in is there, the account is *)
(* locked for others only as long as a thread is at work on a login of it  *)
(* (unlockLogin on every way out).                                         *)
AccountNotLocked ==
  \A a \in Accounts :
    login[a].ongoing /\ table[login[a].owner] = login[a].by =>
      \E c \in Conns :
        /\ account[c] = a
        /\ pc[c] \in Takeover \cup {"paying", "unlock", "failing"}

(* "otherwise we might lose the signal from cleanupNotifier. This can't    *)
(* happen": who sleeps sleeps for a connection that is still there.        *)
NoLostSignal ==
  \A c \in Conns : pc[c] = "asleep" => table[take[c].owner] = take[c].victim
=============================================================================

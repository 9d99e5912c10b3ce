----------------------------- MODULE AcceptUsers -----------------------------
(***************************************************************************)
(* How connections of users come into the first mix and leave it, and what *)
(* is counted on the way: the accept thread (fm_loopAcceptUsers), the      *)
(* login threads (fm_loopDoUserLogin), the main loop, which closes         *)
(* connections, and the cleanup thread of the block list.  The counters    *)
(* are m_newConnections, m_nUser, the connections of an address            *)
(* (CAIPList) and the entries of the block list (CATempIPBlockList), each  *)
(* with a mutex of its own.                                                *)
(*                                                                         *)
(* A connection attempt is used again when it is over.  That an address is *)
(* in the block list refuses nobody: fm_loopAcceptUsers calls checkIP()    *)
(* in a branch that is never reached (its condition has been dealt with    *)
(* before), so only the number of entries matters.                         *)
(***************************************************************************)
EXTENDS Integers, FiniteSets

CONSTANTS
  Conns,        (* connection attempts                                     *)
  From,         (* From[c]: the address the attempt comes from             *)
  Privileged,   (* those of InfoServices: isAllowedToPassRestrictions()    *)
  MaxUsers,     (* getMaxNrOfUsers()                                       *)
  MaxNew,       (* MAX_CONCURRENT_NEW_CONNECTIONS                          *)
  Allowed,      (* m_allowedConnections                                    *)
  MaxBlocked,   (* entries of the block list that are taken for an attack  *)
  Payment       (* is it a build with PAYMENT?                             *)

ASSUME AcceptAssumption ==
  /\ IsFiniteSet(Conns) /\ Privileged \subseteq Conns /\ DOMAIN From = Conns
  /\ MaxUsers \in Nat \ {0} /\ MaxNew \in Nat \ {0}
  /\ Allowed \in 1..255          \* the count is a UINT8
  /\ MaxBlocked \in Nat /\ Payment \in BOOLEAN

Addresses == {From[c] : c \in Conns}

VARIABLES
  at,               (* the connection: "out", "new" (with the accept       *)
                    (* thread), "login", "listed" (in the channel list)    *)
  thread,           (* what works on its login: none, the request waits    *)
                    (* for a thread ("queued"), doUserLogin ("login"), its *)
                    (* end ("tail"), or what comes after ("done")          *)
  acc,              (* the accept thread: what it does next, for whom      *)
  newConnections,   (* m_newConnections                                    *)
  nUser,            (* m_nUser; below 0 it is a huge UINT32                *)
  ips,              (* the counts of m_pIPList, 0 is no entry              *)
  blocked,          (* m_pIPBlockList: "no" entry, one that is "valid" or  *)
                    (* one whose time is "over"                            *)
  entries           (* m_iEntries                                          *)

avars == <<at, thread, acc, newConnections, nUser, ips, blocked, entries>>

Waits == [next |-> "select"]
For(c, next) == [next |-> next, conn |-> c]
Is(c, next) == acc = For(c, next)

AInit ==
  /\ at = [c \in Conns |-> "out"] /\ thread = [c \in Conns |-> "none"]
  /\ acc = Waits
  /\ newConnections = 0 /\ nUser = 0
  /\ ips = [a \in Addresses |-> 0]
  /\ blocked = [a \in Addresses |-> "no"] /\ entries = 0

-----------------------------------------------------------------------------
(* The lists of addresses.                                                 *)

(* CAIPList::removeIP(); in PAYMENT builds the list stays empty.           *)
RemovedIP(a) == [ips EXCEPT ![a] = IF @ > 0 THEN @ - 1 ELSE 0]

(* CATempIPBlockList::insertIP(): an entry that is there stays as it is,   *)
(* also when its time is over.                                             *)
BlockInserted(a) ==
  /\ blocked' = [blocked EXCEPT ![a] = IF @ = "no" THEN "valid" ELSE @]
  /\ entries' = IF blocked[a] = "no" THEN entries + 1 ELSE entries

BlockTimeOver ==
  /\ \E a \in Addresses :
       blocked[a] = "valid" /\ blocked' = [blocked EXCEPT ![a] = "over"]
  /\ UNCHANGED <<at, thread, acc, newConnections, nUser, ips, entries>>

(* A round of the cleanup thread.                                          *)
CleanBlockList ==
  LET over == {a \in Addresses : blocked[a] = "over"} IN
  /\ over # {}
  /\ blocked' = [a \in Addresses |-> IF a \in over THEN "no" ELSE blocked[a]]
  /\ entries' = entries - Cardinality(over)
  /\ UNCHANGED <<at, thread, acc, newConnections, nUser, ips>>

-----------------------------------------------------------------------------
(* The accept thread.                                                      *)

(* With too many entries in the block list the server sockets are created  *)
(* anew; if that fails the thread ends, and the mix goes on without it.    *)
RecreateSockets ==
  /\ acc = Waits /\ entries > MaxBlocked
  /\ acc' \in {Waits, [next |-> "ended"]}
  /\ UNCHANGED <<at, thread, newConnections, nUser, ips, blocked, entries>>

(* select() and accept(), which may fail.                                  *)
AcceptConnection(c) ==
  /\ acc = Waits /\ entries <= MaxBlocked
  /\ at[c] = "out" /\ thread[c] = "none"
  /\ at' = [at EXCEPT ![c] = "new"]
  /\ newConnections' = newConnections + 1
  /\ acc' \in {For(c, "users"), For(c, "refuse")}
  /\ UNCHANGED <<thread, nUser, ips, blocked, entries>>

(* m_nUser is unsigned.                                                    *)
TooManyUsers == nUser >= MaxUsers \/ nUser < 0

TooManyNew == newConnections > MaxNew

CheckUsers(c) ==
  /\ Is(c, "users")
  /\ acc' = For(c, IF TooManyUsers /\ c \notin Privileged THEN "refuse" ELSE "new")
  /\ UNCHANGED <<at, thread, newConnections, nUser, ips, blocked, entries>>

CheckNew(c) ==
  /\ Is(c, "new")
  /\ acc' = For(c, IF TooManyNew /\ c \notin Privileged THEN "refuse" ELSE "address")
  /\ UNCHANGED <<at, thread, newConnections, nUser, ips, blocked, entries>>

(* getPeerIP() may fail; CAIPList::insertIP() refuses an address that has  *)
(* too many connections, which is then put into the block list.            *)
CountAddress(c) ==
  LET a == From[c] IN
  /\ Is(c, "address")
  /\ \/ acc' = For(c, "refuse") /\ UNCHANGED <<ips, blocked, entries>>
     \/ /\ ~Payment /\ ips[a] >= Allowed
        /\ BlockInserted(a)
        /\ acc' = For(c, "refuse") /\ UNCHANGED ips
     \/ /\ Payment \/ ips[a] < Allowed
        /\ ips' = IF Payment THEN ips ELSE [ips EXCEPT ![a] = @ + 1]
        /\ acc' = For(c, "request") /\ UNCHANGED <<blocked, entries>>
  /\ UNCHANGED <<at, thread, newConnections, nUser>>

(* addRequest() blocks while the pool is full and is never refused: the    *)
(* pool outlives the accept thread.                                        *)
RequestLogin(c) ==
  /\ Is(c, "request")
  /\ thread' = [thread EXCEPT ![c] = "queued"]
  /\ acc' = Waits
  /\ UNCHANGED <<at, newConnections, nUser, ips, blocked, entries>>

Refuse(c) ==
  /\ Is(c, "refuse")
  /\ at' = [at EXCEPT ![c] = "out"]
  /\ newConnections' = newConnections - 1
  /\ acc' = Waits
  /\ UNCHANGED <<thread, nUser, ips, blocked, entries>>

-----------------------------------------------------------------------------
(* The login threads.                                                      *)

StartLogin(c) ==
  /\ thread[c] = "queued"
  /\ thread' = [thread EXCEPT ![c] = "login"]
  /\ at' = [at EXCEPT ![c] = "login"]
  /\ UNCHANGED <<acc, newConnections, nUser, ips, blocked, entries>>

(* Variant: a login that fails leaves its address counted.                 *)
StillCounted(a) == ips

(* The count of an address after one of its logins has failed.             *)
AfterFailure(a) == RemovedIP(a)

(* doUserLogin_internal() gives up at any step; for some of them it puts   *)
(* the address into the block list.                                        *)
GiveUpLogin(c) ==
  /\ thread[c] = "login"
  /\ \/ BlockInserted(From[c])
     \/ UNCHANGED <<blocked, entries>>
  /\ at' = [at EXCEPT ![c] = "out"]
  /\ ips' = AfterFailure(From[c])
  /\ thread' = [thread EXCEPT ![c] = "done"]
  /\ UNCHANGED <<acc, newConnections, nUser>>

(* The connection is in the channel list and, with PAYMENT, in the list of *)
(* timeouts, where the main loop finds it.                                 *)
ListLogin(c) ==
  /\ thread[c] = "login"
  /\ at' = [at EXCEPT ![c] = "listed"]
  /\ thread' = [thread EXCEPT ![c] = "tail"]
  /\ UNCHANGED <<acc, newConnections, nUser, ips, blocked, entries>>

(* incUsers(), and the connection is added to the socket groups.           *)
EndLogin(c) ==
  /\ thread[c] = "tail"
  /\ nUser' = nUser + 1
  /\ thread' = [thread EXCEPT ![c] = "done"]
  /\ UNCHANGED <<at, acc, newConnections, ips, blocked, entries>>

(* decNewConnections(), in fm_loopDoUserLogin.                             *)
LoginOver(c) ==
  /\ thread[c] = "done"
  /\ newConnections' = newConnections - 1
  /\ thread' = [thread EXCEPT ![c] = "none"]
  /\ UNCHANGED <<at, acc, nUser, ips, blocked, entries>>

-----------------------------------------------------------------------------
(* closeConnection(), by the main loop: for a connection of the socket     *)
(* groups, or one of the timeout list that is kicked out.                  *)

CloseListed(c) ==
  /\ at[c] = "listed"
  /\ thread[c] # "tail" \/ Payment
  /\ ips' = RemovedIP(From[c])
  /\ nUser' = nUser - 1
  /\ at' = [at EXCEPT ![c] = "out"]
  /\ UNCHANGED <<thread, acc, newConnections, blocked, entries>>

ANext ==
  \/ \E c \in Conns :
       \/ AcceptConnection(c) \/ CheckUsers(c) \/ CheckNew(c) \/ CountAddress(c)
       \/ RequestLogin(c) \/ Refuse(c)
       \/ StartLogin(c) \/ GiveUpLogin(c) \/ ListLogin(c)
       \/ EndLogin(c) \/ LoginOver(c) \/ CloseListed(c)
  \/ RecreateSockets \/ BlockTimeOver \/ CleanBlockList

ASpec == AInit /\ [][ANext]_avars

-----------------------------------------------------------------------------
(* Properties.                                                             *)

(* Attempts m_newConnections counts, and connections CAIPList does.        *)
BeingServed == {c \in Conns : thread[c] # "none"} \cup
               {c \in Conns : acc.next \notin {"select", "ended"} /\ acc.conn = c}

OfAddress(a) == {c \in Conns :
                   /\ From[c] = a
                   /\ \/ at[c] \in {"login", "listed"} \/ thread[c] = "queued"
                      \/ Is(c, "request")}

(* The users there are, with those of connections that are already closed  *)
(* and whose login has not counted them yet.                               *)
UsersThere == Cardinality({c \in Conns : at[c] = "listed"})
              - Cardinality({c \in Conns : thread[c] = "tail"})

(* Every way a connection takes through the three kinds of threads, from a *)
(* refusal to a failed login or a kickout, leaves the four counters exact: *)
(* an address does not stay counted for connections that are gone, and the *)
(* place of a login is given back.                                         *)
CountersExact ==
  /\ newConnections = Cardinality(BeingServed)
  /\ nUser = UsersThere
  /\ \A a \in Addresses : ips[a] = IF Payment THEN 0 ELSE Cardinality(OfAddress(a))
  /\ entries = Cardinality({a \in Addresses : blocked[a] # "no"})

(* A login that has put its connection into the list works on it to its    *)
(* end; the main loop, which is said to be synchronised with the login     *)
(* threads while it closes connections, does not close it before.          *)
LoginKeepsConnection ==
  \A c \in Conns : thread[c] = "tail" => at[c] = "listed"
=============================================================================

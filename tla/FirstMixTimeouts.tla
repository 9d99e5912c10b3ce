-------------------------- MODULE FirstMixTimeouts --------------------------
(***************************************************************************)
(* The timeout list of the first mix (CAFirstMixChannelList, PAYMENT       *)
(* builds) and who works on it: the main loop, which renews the timeout of *)
(* a connection with every packet and takes all entries out and in again   *)
(* at the beginning of each turn (checkUserConnections()), and the login   *)
(* threads, which enter their connections and may force another one out.   *)
(* All of them use the list under m_Mutex, one call at a time, and read    *)
(* the flag bRecoverTimeout in one call and write it in another.           *)
(*                                                                         *)
(* An entry is the place of a socket in the hash table; it is used again   *)
(* when its connection is gone.                                            *)
(***************************************************************************)
EXTENDS Integers, FiniteSets

CONSTANTS
  Entries,      (* places of the hash table of connections                 *)
  Silent,       (* those whose users send nothing after the login          *)
  Watched,      (* those KickoutEnds is about: all are alike               *)
  Expiration,   (* EXPIRATION_TIME_SECS, in ticks                          *)
  MaxRetries,   (* MAX_KICKOUT_RETRIES                                     *)
  Nobody        (* the NULL pointer                                        *)

ASSUME TimeoutAssumption ==
  /\ Expiration \in Nat \ {0} /\ MaxRetries \in Nat
  /\ Nobody \notin Entries /\ Silent \subseteq Entries /\ Watched \subseteq Entries

VARIABLES
  conn,      (* the connection of an entry: none ("free"), one that logs   *)
             (* in ("login"), or one the main loop works for ("open")      *)
  tnext, tprev,   (* list_TimeoutHashEntries                               *)
  thead, tfoot,   (* m_listTimoutHead, m_listTimoutFoot                    *)
  left,      (* the ticks until timoutSecs                                 *)
  recover,   (* bRecoverTimeout                                            *)
  retries,   (* kickoutSendRetries                                         *)
  control,   (* pControlMessageQueue holds something                       *)
  pass       (* checkUserConnections(): where it is, the entry it has      *)
             (* popped, firstIteratorEntry and currentEntryKickoutForced   *)

listVars == <<tnext, tprev, thead, tfoot>>
tvars == <<conn, tnext, tprev, thead, tfoot, left, recover, retries, control, pass>>

Idle == [at |-> "idle", cur |-> Nobody, first |-> Nobody, forced |-> FALSE]

TInit ==
  /\ conn = [e \in Entries |-> "free"]
  /\ tnext = [e \in Entries |-> Nobody] /\ tprev = [e \in Entries |-> Nobody]
  /\ thead = Nobody /\ tfoot = Nobody
  /\ left = [e \in Entries |-> 0]
  /\ recover = [e \in Entries |-> FALSE] /\ retries = [e \in Entries |-> 0]
  /\ control = [e \in Entries |-> FALSE]
  /\ pass = Idle

-----------------------------------------------------------------------------
(* The linked list.                                                        *)

TheList == [next |-> tnext, prev |-> tprev, head |-> thead, foot |-> tfoot]

(* Variant: an entry counts as listed only if something follows it.        *)
UnlinkedUnlessLast(l, e) ==
  IF l.next[e] = Nobody /\ l.head # e THEN l
  ELSE LET n == l.next[e]
           p == l.prev[e]
           cleared == [l EXCEPT !.next[e] = Nobody, !.prev[e] = Nobody]
       IN IF l.head = e
          THEN IF l.foot = e THEN [cleared EXCEPT !.head = Nobody, !.foot = Nobody]
                             ELSE [cleared EXCEPT !.head = n]
          ELSE [cleared EXCEPT !.next[p] = n, !.prev[n] = p]

(* removeFromTimeoutList().  Who is the head is not asked for prev, and    *)
(* the new head keeps its own.                                             *)
Unlinked(l, e) ==
  LET n == l.next[e]
      p == l.prev[e]
      cleared == [l EXCEPT !.next[e] = Nobody, !.prev[e] = Nobody]
  IN IF \/ l.head = Nobody
        \/ p = Nobody /\ n = Nobody /\ l.head # e
     THEN l
     ELSE IF l.head = e
     THEN IF l.foot = e THEN [cleared EXCEPT !.head = Nobody, !.foot = Nobody]
                        ELSE [cleared EXCEPT !.head = n]
     ELSE IF n = Nobody
     THEN [cleared EXCEPT !.foot = p, !.next[p] = Nobody]
     ELSE IF p = Nobody THEN [cleared EXCEPT !.prev[n] = p]
     ELSE [cleared EXCEPT !.next[p] = n, !.prev[n] = p]

(* The end of pushTimeoutEntry_internal().                                 *)
Appended(l, e) ==
  IF l.foot = Nobody
  THEN [l EXCEPT !.prev[e] = Nobody, !.next[e] = Nobody, !.head = e, !.foot = e]
  ELSE [l EXCEPT !.next[l.foot] = e, !.prev[e] = l.foot, !.next[e] = Nobody, !.foot = e]

SetList(l) == tnext' = l.next /\ tprev' = l.prev /\ thead' = l.head /\ tfoot' = l.foot

(* Variant: the caller's knowledge is written as it is.                    *)
RecoverUnlessForced(was, forced) == ~forced

(* setKickoutForced_internal(): a forced kickout cannot be undone.         *)
RecoverAfter(was, forced) == was /\ ~forced

(* pushTimeoutEntry(): renews the timeout, whether it is forced or not.    *)
Push(e, forced) ==
  /\ left' = [left EXCEPT ![e] = Expiration]
  /\ SetList(Appended(Unlinked(TheList, e), e))
  /\ recover' = [recover EXCEPT ![e] = RecoverAfter(@, forced)]

(* remove(): the entry leaves the list and is zeroed, queues and all.      *)
RemoveConnection(e) ==
  /\ conn' = [conn EXCEPT ![e] = "free"]
  /\ SetList(Unlinked(TheList, e))
  /\ left' = [left EXCEPT ![e] = 0]
  /\ recover' = [recover EXCEPT ![e] = FALSE]
  /\ retries' = [retries EXCEPT ![e] = 0]
  /\ control' = [control EXCEPT ![e] = FALSE]

-----------------------------------------------------------------------------
(* Login threads.                                                          *)

(* add()                                                                   *)
AddConnection(e) ==
  /\ conn[e] = "free"
  /\ conn' = [conn EXCEPT ![e] = "login"]
  /\ recover' = [recover EXCEPT ![e] = TRUE]
  /\ retries' = [retries EXCEPT ![e] = MaxRetries]
  /\ UNCHANGED <<tnext, tprev, thead, tfoot, left, control, pass>>

(* doUserLogin_internal(): the entry is pushed when the login has          *)
(* succeeded, and removed when it has not.                                 *)
LoginSucceeds(e) ==
  /\ conn[e] = "login"
  /\ conn' = [conn EXCEPT ![e] = "open"]
  /\ Push(e, FALSE)
  /\ UNCHANGED <<retries, control, pass>>

LoginFails(e) ==
  /\ conn[e] = "login"
  /\ RemoveConnection(e)
  /\ UNCHANGED pass

(* forceKickout(), with or without an error message, by a thread that logs *)
(* in to the same account.                                                 *)
ForceKickout(e) ==
  /\ conn[e] # "free"
  /\ \E message \in BOOLEAN : control' = [control EXCEPT ![e] = @ \/ message]
  /\ recover' = [recover EXCEPT ![e] = RecoverAfter(@, TRUE)]
  /\ UNCHANGED <<conn, tnext, tprev, thead, tfoot, left, retries, pass>>

-----------------------------------------------------------------------------
(* The main loop, between two passes.                                      *)

(* A packet of the user, or one for the user that has been sent: the       *)
(* accounting lets the timeout be renewed, lets it be, asks to prepare a   *)
(* kickout or to close.  Control messages may be queued on the way.        *)
UserPacket(e) ==
  /\ pass.at = "idle" /\ conn[e] = "open" /\ e \notin Silent
  /\ \/ \E message \in BOOLEAN :
          /\ Push(e, FALSE)
          /\ control' = [control EXCEPT ![e] = @ \/ message]
          /\ UNCHANGED <<conn, retries>>
     \/ /\ recover' = [recover EXCEPT ![e] = FALSE]
        /\ control' = [control EXCEPT ![e] = TRUE]
        /\ UNCHANGED <<conn, tnext, tprev, thead, tfoot, left, retries>>
     \/ RemoveConnection(e)
  /\ UNCHANGED pass

(* sendToUsers() has emptied the queue of control messages.                *)
ControlSent(e) ==
  /\ pass.at = "idle" /\ conn[e] = "open" /\ control[e]
  /\ control' = [control EXCEPT ![e] = FALSE]
  /\ UNCHANGED <<conn, tnext, tprev, thead, tfoot, left, recover, retries, pass>>

(* closeConnection(): the user's socket is dead.                           *)
CloseDead(e) ==
  /\ pass.at = "idle" /\ conn[e] = "open"
  /\ RemoveConnection(e)
  /\ UNCHANGED pass

-----------------------------------------------------------------------------
(* checkUserConnections().                                                 *)

StartPass ==
  /\ pass.at = "idle" /\ thead # Nobody
  /\ pass' = [Idle EXCEPT !.at = "pop"]
  /\ UNCHANGED <<conn, tnext, tprev, thead, tfoot, left, recover, retries, control>>

(* popTimeoutEntry(true)                                                   *)
PopEntry ==
  /\ pass.at = "pop"
  /\ IF thead = Nobody
     THEN pass' = Idle /\ UNCHANGED listVars
     ELSE /\ pass' = [pass EXCEPT !.at = "look", !.cur = thead]
          /\ SetList(Unlinked(TheList, thead))
  /\ UNCHANGED <<conn, left, recover, retries, control>>

(* isKickoutForced()                                                       *)
LookForced ==
  /\ pass.at = "look"
  /\ pass' = [pass EXCEPT !.at = "judge", !.forced = ~recover[pass.cur]]
  /\ UNCHANGED <<conn, tnext, tprev, thead, tfoot, left, recover, retries, control>>

(* Whether the entry that was popped is to be closed.                      *)
Due(e) ==
  IF pass.forced THEN ~control[e] \/ retries[e] <= 0
                 ELSE left[e] = 0

(* Variant: an entry is given one more turn in every pass.                 *)
RetriesKept(e) == retries

(* An entry that is to be kicked out has had one more turn.                *)
RetriesAfter(e) == IF pass.forced THEN [retries EXCEPT ![e] = @ - 1] ELSE retries

(* The first entry again: the pass is over.                                *)
JudgeAgain ==
  /\ pass.at = "judge" /\ pass.cur = pass.first
  /\ pass' = [pass EXCEPT !.at = "last"]
  /\ UNCHANGED <<conn, tnext, tprev, thead, tfoot, left, recover, retries, control>>

(* A connection that is due is closed; another one that is to be kicked    *)
(* out is given one more turn to fetch its control messages.               *)
JudgeNew ==
  /\ pass.at = "judge" /\ pass.cur # pass.first
  /\ LET e == pass.cur IN
     IF Due(e)
     THEN /\ RemoveConnection(e)
          /\ pass' = [pass EXCEPT !.at = "pop", !.cur = Nobody]
     ELSE /\ retries' = RetriesAfter(e)
          /\ pass' = [pass EXCEPT !.at = "push",
                                  !.first = IF @ = Nobody THEN e ELSE @]
          /\ UNCHANGED <<conn, tnext, tprev, thead, tfoot, left, recover, control>>

(* pushTimeoutEntry() with what was known of the entry when it was popped. *)
PushBack ==
  /\ pass.at \in {"push", "last"}
  /\ Push(pass.cur, pass.forced)
  /\ pass' = IF pass.at = "last" THEN Idle ELSE [pass EXCEPT !.at = "pop", !.cur = Nobody]
  /\ UNCHANGED <<conn, retries, control>>

PassStep == StartPass \/ PopEntry \/ LookForced \/ JudgeAgain \/ JudgeNew \/ PushBack

(* time(NULL) goes on.                                                     *)
Tick ==
  /\ \E e \in Entries : left[e] > 0
  /\ left' = [e \in Entries |-> IF left[e] > 0 THEN left[e] - 1 ELSE 0]
  /\ UNCHANGED <<conn, tnext, tprev, thead, tfoot, recover, retries, control, pass>>

TNext ==
  \/ \E e \in Entries :
       \/ AddConnection(e) \/ LoginSucceeds(e) \/ LoginFails(e) \/ ForceKickout(e)
       \/ UserPacket(e) \/ ControlSent(e) \/ CloseDead(e)
  \/ PassStep
  \/ Tick

(* The main loop comes back to checkUserConnections() in every turn; no    *)
(* user has to send or to read anything.                                   *)
TSpec == TInit /\ [][TNext]_tvars /\ WF_tvars(PassStep) /\ WF_tvars(Tick)

-----------------------------------------------------------------------------
(* Properties.                                                             *)

(* Every open connection is in the list, except the one a pass has in      *)
(* hand; no other entry is.                                                *)
Listed == {e \in Entries : conn[e] = "open"} \ {pass.cur}

Orders == {s \in [1..Cardinality(Listed) -> Listed] :
             \A i, j \in DOMAIN s : s[i] = s[j] => i = j}

(* The list is one chain from head to foot through exactly the listed      *)
(* entries, whatever was taken out of its head, its middle and its foot;   *)
(* prev is right for all but the head, whose prev may be left over.  An    *)
(* entry outside has no neighbours, which is how the code knows that.      *)
TimeoutListWhole ==
  /\ \E s \in Orders :
       LET n == Cardinality(Listed) IN
       /\ thead = IF n = 0 THEN Nobody ELSE s[1]
       /\ tfoot = IF n = 0 THEN Nobody ELSE s[n]
       /\ \A i \in 1..(n - 1) : tnext[s[i]] = s[i + 1] /\ tprev[s[i + 1]] = s[i]
       /\ n > 0 => tnext[s[n]] = Nobody
  /\ \A e \in Entries \ Listed : tnext[e] = Nobody /\ tprev[e] = Nobody

(* A forced kickout stays forced until the connection is gone, although    *)
(* the main loop writes the flag with what it has read in another call,    *)
(* and with FALSE whenever a packet renews the timeout.                    *)
ForcedStays ==
  [][\A e \in Entries :
       conn[e] # "free" /\ ~recover[e] => conn'[e] = "free" \/ ~recover'[e]]_tvars

(* A connection that is forced out is closed, even if its user never reads *)
(* the control messages that are kept for it.                              *)
KickoutEnds ==
  \A e \in Watched : (conn[e] = "open" /\ ~recover[e]) ~> (conn[e] = "free")

(* A connection whose user sends nothing is closed when its time is over.  *)
SilentTimeOut ==
  \A e \in Silent : (conn[e] = "open") ~> (conn[e] = "free")
=============================================================================

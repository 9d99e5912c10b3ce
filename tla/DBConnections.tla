---------------------------- MODULE DBConnections ----------------------------
(***************************************************************************)
(* The connections to the accounting data base, which settlement, login    *)
(* and the accounting thread share.  getConnection() takes a free one or   *)
(* waits with a number of its own until releaseConnection() calls that     *)
(* number; both hold the lock of ms_pConnectionAvailable.                  *)
(***************************************************************************)
EXTENDS Naturals

CONSTANTS
  Borrowers,     (* threads                                                *)
  Connections    (* the MAX_DB_CONNECTIONS connections of the pool         *)

VARIABLES
  held,     (* the connections of each thread: m_owner                     *)
  asks,     (* where a thread is: idle, asleep in wait(), woken, or user   *)
  ticket,   (* myWaitNr                                                    *)
  waitNr,   (* ms_threadWaitNr                                             *)
  nextNr    (* ms_nextThreadNr                                             *)

dcvars == <<held, asks, ticket, waitNr, nextNr>>

DCInit ==
  /\ held = [t \in Borrowers |-> {}] /\ asks = [t \in Borrowers |-> "idle"]
  /\ ticket = [t \in Borrowers |-> 0] /\ waitNr = 0 /\ nextNr = 0

Available == Connections \ UNION {held[t] : t \in Borrowers}

(* One turn over the pool: a free connection, or a number.                 *)
Scan(t, issued) ==
  \/ \E c \in Available :
       /\ held' = [held EXCEPT ![t] = {c}]
       /\ asks' = [asks EXCEPT ![t] = "user"]
       /\ waitNr' = issued /\ UNCHANGED ticket
  \/ /\ Available = {}
     /\ waitNr' = issued + 1 /\ ticket' = [ticket EXCEPT ![t] = issued + 1]
     /\ asks' = [asks EXCEPT ![t] = "asleep"]
     /\ UNCHANGED held

GetConnection(t) ==
  /\ asks[t] = "idle"
  /\ Scan(t, waitNr) /\ UNCHANGED nextNr

(* Woken by the broadcast.  The last one that waited sets the numbers back *)
(* before it looks for a connection; somebody else may have been faster.   *)
ContinueOrWait(t) ==
  /\ asks[t] = "woken"
  /\ IF nextNr # ticket[t]
     THEN asks' = [asks EXCEPT ![t] = "asleep"] /\ UNCHANGED <<held, ticket, waitNr, nextNr>>
     ELSE IF waitNr = nextNr
          THEN nextNr' = 0 /\ Scan(t, 0)
          ELSE UNCHANGED nextNr /\ Scan(t, waitNr)

SomebodyWaits == waitNr # nextNr

ReleaseConnection(t) ==
  /\ asks[t] = "user"
  /\ held' = [held EXCEPT ![t] = {}]
  /\ IF SomebodyWaits
     THEN /\ nextNr' = nextNr + 1
          /\ asks' = [u \in Borrowers |->
                        IF u = t THEN "idle" ELSE IF asks[u] = "asleep" THEN "woken" ELSE asks[u]]
     ELSE /\ asks' = [asks EXCEPT ![t] = "idle"]
          /\ UNCHANGED nextNr
  /\ UNCHANGED <<ticket, waitNr>>

WakesBySpurious(t) ==
  /\ asks[t] = "asleep"
  /\ asks' = [asks EXCEPT ![t] = "woken"]
  /\ UNCHANGED <<held, ticket, waitNr, nextNr>>

DCNext ==
  \E t \in Borrowers :
    GetConnection(t) \/ ContinueOrWait(t) \/ ReleaseConnection(t) \/ WakesBySpurious(t)

DCSpec == DCInit /\ [][DCNext]_dcvars

-----------------------------------------------------------------------------
(* Every thread that waits for a connection gets its turn: it does not     *)
(* sleep on when one is free, unless a thread that was woken is about to   *)
(* look for it (the comment on ms_threadWaitNr).                           *)
TurnComes ==
  \A t \in Borrowers :
    asks[t] = "asleep" => Available = {} \/ \E u \in Borrowers : asks[u] = "woken"
=============================================================================

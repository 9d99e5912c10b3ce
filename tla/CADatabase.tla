----------------------------- MODULE CADatabase -----------------------------
(***************************************************************************)
(* CADatabase: the data base against replayed channel-open packets, and    *)
(* the maintenance thread that ages it.                                    *)
(*                                                                         *)
(* Three hash tables stand for the previous, the current and the next      *)
(* interval, measured from m_lastSwitch.  insert() runs under m_pMutex and *)
(* is one action.  The maintenance thread sleeps, reads the clock and      *)
(* m_lastSwitch without the mutex, and then rotates the tables under it:   *)
(* two actions, between which the clock may move and inserts may happen.   *)
(*                                                                         *)
(* Time is discrete (seconds).  The thread is at most Slack seconds late,  *)
(* which is a bound on Tick and the only assumption on the scheduler.      *)
(***************************************************************************)
EXTENDS Naturals

CONSTANTS
  Packets,        (* a packet is its key, the random bytes 0..9            *)
  Interval,       (* SECONDS_PER_INTERVALL                                 *)
  Tolerance,      (* FUTURE_TOLERANCE                                      *)
  Sleep,          (* the sSleep() of the maintenance loop                  *)
  Slack,          (* bound: how late the thread runs after its sleep       *)
  MaxTime         (* bound: the horizon of the clock                       *)

ASSUME TimingAssumption ==
  /\ Interval \in Nat \ {0} /\ Tolerance \in Nat /\ Sleep \in Nat
  /\ Slack \in Nat /\ MaxTime \in Nat
  /\ Sleep + Slack + Tolerance <= Interval

VARIABLES
  stamp,       (* the timestamp a packet carries                           *)
  now,         (* time(NULL)                                               *)
  lastSwitch,  (* m_lastSwitch                                             *)
  prev, curr, next,  (* the keys in m_prevDatabase, m_currDatabase, m_next...  *)
  keeper,      (* where the maintenance thread is                          *)
  wake,        (* when its sleep ends                                      *)
  accepted,    (* history: packets insert() returned E_SUCCESS for         *)
  replayed     (* history: packets it returned E_SUCCESS for again         *)

tables == <<prev, curr, next>>
dbvars == <<stamp, now, lastSwitch, tables, keeper, wake, accepted, replayed>>

DbInit ==
  /\ stamp \in [Packets -> 0..(MaxTime + Tolerance)]
  /\ now = Interval       \* m_lastSwitch - SECONDS_PER_INTERVALL is no underflow
  /\ lastSwitch = now
  /\ prev = {} /\ curr = {} /\ next = {}
  /\ keeper = "sleeping" /\ wake = now + Sleep
  /\ accepted = {} /\ replayed = {}

-----------------------------------------------------------------------------
(* insert(): which tables a timestamp selects.                             *)

Valid(t) == lastSwitch <= t + Interval /\ t <= now + Tolerance

(* A timestamp of the next interval is looked up in two tables, one of the *)
(* previous interval in two, any other in all three.                       *)
UsesPrev(t) == t < lastSwitch + Interval
UsesNext(t) == lastSwitch <= t

(* Always in this order: the previous table, the current, the next.  The   *)
(* key enters each that does not have it; the first that has it ends the   *)
(* call, and what was entered before it stays.                             *)
EntersPrev(p, t) == UsesPrev(t) /\ p \notin prev
EntersCurr(p, t) == p \notin curr /\ (UsesPrev(t) => p \notin prev)
EntersNext(p, t) == UsesNext(t) /\ p \notin next /\ EntersCurr(p, t)

Duplicate(p, t) ==
  \/ UsesPrev(t) /\ p \in prev
  \/ p \in curr
  \/ UsesNext(t) /\ p \in next

Enter(p, t) ==
  /\ prev' = prev \cup {q \in {p} : EntersPrev(q, t)}
  /\ curr' = curr \cup {q \in {p} : EntersCurr(q, t)}
  /\ next' = next \cup {q \in {p} : EntersNext(q, t)}

Accept(p, t) ==
  IF Duplicate(p, t) THEN UNCHANGED <<accepted, replayed>>
  ELSE /\ accepted' = accepted \cup {p}
       /\ replayed' = replayed \cup (accepted \cap {p})

insert(p) ==
  /\ Valid(stamp[p])
  /\ Enter(p, stamp[p])
  /\ Accept(p, stamp[p])
  /\ UNCHANGED <<stamp, now, lastSwitch, keeper, wake>>

-----------------------------------------------------------------------------
(* db_loopMaintenance.                                                     *)

SleepAgain == keeper' = "sleeping" /\ wake' = now + Sleep

(* The sleep is over; one interval has passed, or it has not.              *)
Check ==
  /\ keeper = "sleeping" /\ wake <= now
  /\ IF lastSwitch + Interval <= now
     THEN keeper' = "switch" /\ UNCHANGED wake
     ELSE SleepAgain
  /\ UNCHANGED <<stamp, now, lastSwitch, tables, accepted, replayed>>

(* Variant: the table that is cleared is the one that becomes the previous *)
(* interval.                                                               *)
RotateClearing ==
  /\ prev' = {}
  /\ curr' = next
  /\ next' = prev

(* The tables move on by one interval, however many have passed.           *)
Rotate ==
  /\ prev' = curr
  /\ curr' = next
  /\ next' = {}

nextClock ==
  /\ keeper = "switch"
  /\ lastSwitch' = lastSwitch + Interval
  /\ Rotate
  /\ SleepAgain
  /\ UNCHANGED <<stamp, now, accepted, replayed>>

Tick ==
  /\ now < MaxTime
  /\ now < wake + Slack
  /\ now' = now + 1
  /\ UNCHANGED <<stamp, lastSwitch, tables, keeper, wake, accepted, replayed>>

DbNext == (\E p \in Packets : insert(p)) \/ Check \/ nextClock \/ Tick

DbSpec == DbInit /\ [][DbNext]_dbvars

-----------------------------------------------------------------------------
(* Type correctness of the clock, the tables and the histories.            *)
DbTypeOK ==
  /\ stamp \in [Packets -> Nat]
  /\ now \in Nat /\ lastSwitch \in Nat /\ wake \in Nat
  /\ prev \subseteq Packets /\ curr \subseteq Packets /\ next \subseteq Packets
  /\ keeper \in {"sleeping", "switch"}
  /\ accepted \subseteq Packets /\ replayed \subseteq accepted

(* The purpose of the data base: no packet is accepted twice, however long *)
(* after the first time it comes again and wherever in the rotation.       *)
AcceptedOnce == replayed = {}

(* A rejected insert() may leave the key in some of the tables; still only *)
(* the keys of packets that were accepted are ever stored, so that a       *)
(* packet that was refused because of its timestamp can be accepted later. *)
OnlyAcceptedStored == prev \cup curr \cup next \subseteq accepted

(* A packet stamped by a sender with an exact clock no longer than one     *)
(* interval ago is never outside the window of timestamps, although the    *)
(* window follows the rotation and not the clock.                          *)
RecentIsValid ==
  \A t \in 0..MaxTime : t <= now /\ now <= t + Interval => Valid(t)

-----------------------------------------------------------------------------
(* The invariant behind AcceptedOnce: the rotation is never more than one  *)
(* interval behind the clock, and a packet that was accepted is in the     *)
(* table that its timestamp selects for as long as the timestamp is valid. *)

NotBehind ==
  /\ lastSwitch <= now
  /\ now <= wake + Slack
  /\ wake < lastSwitch + Interval + Sleep
  /\ keeper = "switch" => lastSwitch + Interval <= now

Remembered ==
  \A p \in accepted :
    /\ stamp[p] < lastSwitch + 2 * Interval
    /\ lastSwitch <= stamp[p] + Interval =>
         \/ stamp[p] < lastSwitch /\ p \in prev
         \/ UsesPrev(stamp[p]) /\ UsesNext(stamp[p]) /\ p \in curr
         \/ ~ UsesPrev(stamp[p]) /\ p \in next
=============================================================================

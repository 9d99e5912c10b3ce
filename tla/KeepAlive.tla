------------------------------ MODULE KeepAlive ------------------------------
(***************************************************************************)
(* The keep-alive traffic from one mix to its neighbour.  In the key       *)
(* exchange each of them offers the interval it sends at and the interval  *)
(* it waits for; both compute what they will do from the two offers.  The  *)
(* sender then sends a dummy whenever it had nothing to send for its       *)
(* interval, and the receiver restarts when it heard nothing for its own.  *)
(* Intervals are 32-bit unsigned numbers of milliseconds; here they are    *)
(* numbers of ticks below Word, and Margin ticks stand for 10000 ms.       *)
(***************************************************************************)
EXTENDS Naturals, FiniteSets, FiniteSetsExt

CONSTANTS
  Word,         (* 2^32                                                    *)
  Margin,       (* 10000                                                   *)
  SendOffers,   (* SendInterval of the mix that sends                      *)
  RecvOffers,   (* ReceiveInterval of the mix that receives                *)
  MaxDelay      (* bound: ticks a packet is on its way                     *)

ASSUME KeepAliveAssumption ==
  /\ Word \in Nat /\ Margin \in Nat /\ MaxDelay \in Nat
  /\ MaxDelay < Margin /\ Margin < Word
  /\ SendOffers \subseteq 0..(Word - 1) /\ RecvOffers \subseteq 0..(Word - 1)

VARIABLES
  sendOffer, recvOffer,   (* the two offers                                *)
  sinceSent,              (* ticks since the last packet was sent          *)
  sinceHeard,             (* ticks since the last packet was received      *)
  onTheWay,               (* the ages of the packets that are on their way *)
  broken                  (* the receiver restarts                         *)

kvars == <<sendOffer, recvOffer, sinceSent, sinceHeard, onTheWay, broken>>

Minus(x, y) == (x + Word - y) % Word
Plus(x, y)  == (x + y) % Word
Larger(x, y) == IF x > y THEN x ELSE y

(* A little smaller than the interval the receiver waits for.              *)
SendInterval(own, other) ==
  IF own > Minus(other, Margin) THEN Minus(own, Margin) ELSE own

(* Variant: the interval of the sender is not looked at.                   *)
OwnInterval(own, other) == own

(* Not smaller than the interval the sender offers, and larger if they are *)
(* close to each other.                                                    *)
RecvInterval(own, other) ==
  LET r == Larger(own, other)
  IN  IF Minus(r, Margin) < other THEN Plus(r, Margin) ELSE r

SendsEvery == SendInterval(sendOffer, recvOffer)
WaitsFor   == RecvInterval(recvOffer, sendOffer)

KInit ==
  /\ sendOffer \in SendOffers /\ recvOffer \in RecvOffers
  /\ sinceSent = 0 /\ sinceHeard = 0 /\ onTheWay = {} /\ broken = FALSE

(* Time passes unless a dummy is due, a packet has to arrive or the        *)
(* receiver has given up.                                                  *)
KTick ==
  /\ ~broken /\ sinceSent < SendsEvery /\ sinceHeard <= WaitsFor
  /\ \A a \in onTheWay : a < MaxDelay
  /\ sinceSent' = sinceSent + 1 /\ sinceHeard' = sinceHeard + 1
  /\ onTheWay' = {a + 1 : a \in onTheWay}
  /\ UNCHANGED <<sendOffer, recvOffer, broken>>

(* getOrWait() returns a packet of a user, or a dummy after the interval.  *)
SendAny ==
  /\ ~broken /\ sinceHeard <= WaitsFor
  /\ sinceSent' = 0 /\ onTheWay' = onTheWay \cup {0}
  /\ UNCHANGED <<sendOffer, recvOffer, sinceHeard, broken>>

Receive ==
  /\ ~broken /\ onTheWay # {}
  /\ onTheWay' = onTheWay \ {Max(onTheWay)}
  /\ sinceHeard' = 0
  /\ UNCHANGED <<sendOffer, recvOffer, sinceSent, broken>>

(* restart because of KeepAlive-Traffic Timeout                            *)
GivesUp ==
  /\ ~broken /\ sinceHeard > WaitsFor
  /\ broken' = TRUE
  /\ UNCHANGED <<sendOffer, recvOffer, sinceSent, sinceHeard, onTheWay>>

KNext == KTick \/ SendAny \/ Receive \/ GivesUp

KSpec == KInit /\ [][KNext]_kvars

-----------------------------------------------------------------------------
(* A connection over which packets arrive in time is not given up, however *)
(* long the users are silent: the sender sends more often than the         *)
(* receiver waits.                                                         *)
IdleLinkSurvives == ~broken
=============================================================================

----------------------------- MODULE KeyExchange -----------------------------
(***************************************************************************)
(* What the mixes of a cascade tell each other while it comes up           *)
(* (processKeyExchange), and what a user makes of it.  The steps are those *)
(* of Cascade; here they carry the key infos and the symmetric keys.       *)
(*                                                                         *)
(* The list of key infos grows from the last mix to the first, each mix    *)
(* putting its own in front.  A mix takes the first entry for that of the  *)
(* next mix and answers it with the keys of their connection, encrypted    *)
(* for the key pair in the entry and with the hash of its nonce.  The      *)
(* first mix gives the whole list to its users, who encrypt for the mixes  *)
(* in the reverse order.                                                   *)
(*                                                                         *)
(* All that a mix generates in one init() - key pair, nonce, keys of the   *)
(* connection to the next mix - is one session: a number nothing refers to *)
(* any more.  A mix may be set up with an outdated certificate of a        *)
(* neighbour, or be built from another version or with other flags.        *)
(***************************************************************************)
EXTENDS Cascade, Sequences, FiniteSets

LOCAL INSTANCE SequencesExt

CONSTANTS
  MaxSession,   (* bound: sessions of a mix that are told apart            *)
  Compatible    (* the oldest version newer ones work with, 00.08.71       *)

ASSUME KeyExchangeAssumption == MaxSession \in Nat \ {0} /\ Compatible \in Nat

VARIABLES
  version, flags,  (* MIX_VERSION and the compile flags of each mix        *)
  outdated,        (* the ends of each link, "near" and "far", that have   *)
                   (* no valid certificate of the mix at the other end     *)
  session,         (* what a mix has generated in its init(), or 0         *)
  fits,            (* resultCompatibility of a mix with the next one       *)
  list,            (* the key infos a middle mix has received              *)
  infos,           (* the key infos that wait at the near end of a link    *)
  answer,          (* the symmetric keys that wait at the far end          *)
  outKeys, inKeys, (* keys of m_pMuxOut and m_pMuxIn                       *)
  told,            (* m_xmlKeyInfoBuff of the first mix                    *)
  user             (* m_arRSA of a user: the entries, last mix first       *)

kxconf == <<version, flags, outdated>>
kxvars == <<kxconf, session, fits, list, infos, answer, outKeys, inKeys, told, user>>

NoKeys   == [send |-> <<>>, receive |-> <<>>]
NoAnswer == [session |-> 0, keys |-> 0]
Nobody   == [in |-> FALSE, layers |-> <<>>]

KXInit ==
  /\ CascadeInit
  /\ outdated \in [Links -> SUBSET {"near", "far"}]
  /\ session = [m \in Mixes |-> 0] /\ fits = [m \in Mixes |-> TRUE]
  /\ list = [m \in Mixes |-> <<>>] /\ infos = [i \in Links |-> <<>>]
  /\ answer = [i \in Links |-> NoAnswer]
  /\ outKeys = [m \in Mixes |-> NoKeys] /\ inKeys = [m \in Mixes |-> NoKeys]
  /\ told = <<>> /\ user = Nobody

-----------------------------------------------------------------------------
(* Sessions of mix m that something still refers to.                       *)
Entries == UNION {ToSet(s) : s \in {told, user.layers} \cup {list[m] : m \in Mixes}
                                     \cup {infos[i] : i \in Links}}
InUse(m) ==
  {session[m]} \cup {e.session : e \in {x \in Entries : x.mix = m}}
    \cup (IF m < N THEN {answer[m].keys} ELSE {})
    \cup (IF m > 1 THEN {answer[m - 1].session} ELSE {})

(* generateKeyPair() and getRandom().                                      *)
KBegin(m) ==
  /\ Begin(m)
  /\ \E k \in 1..MaxSession \ InUse(m) :
       /\ \A j \in 1..MaxSession \ InUse(m) : k <= j
       /\ session' = [session EXCEPT ![m] = k]
  /\ fits' = [fits EXCEPT ![m] = TRUE]
  /\ UNCHANGED <<kxconf, list, infos, answer, outKeys, inKeys, told, user>>

KConnect(m) == Connect(m) /\ UNCHANGED kxvars

(* checkCompatibility(): a newer version knows which older ones will do.   *)
(* The other mix has as many flags as this one, and all of this one's.     *)
CheckCompatibility(m, other) ==
  /\ version[m] > version[other] => version[other] >= Compatible
  /\ Cardinality(flags[other]) = Cardinality(flags[m]) /\ flags[m] \subseteq flags[other]

Entry(m) == [mix |-> m, session |-> session[m]]

(* Variant: addMixInfo() without a_bForceFirstNode.                        *)
AddMixInfoLast(m, mixes) == Append(mixes, Entry(m))

(* addMixInfo(): the own entry comes first.                                *)
AddMixInfo(m, mixes) == <<Entry(m)>> \o mixes

-----------------------------------------------------------------------------
(* The signature of the first entry is verified with the certificate this  *)
(* mix has of the next one.                                                *)
VerifiesNext(m) == "near" \notin outdated[m]

(* The 64 bytes of a key: the first half is sent with, the second received.*)
SymKeys(k) == [send |-> <<k, 1>>, receive |-> <<k, 2>>]

(* What is sent to the next mix: keys encrypted for the public key of its  *)
(* entry, and the hash of its nonce.                                       *)
Answer(m) ==
  [session |-> Head(infos[m]).session, keys |-> session[m]]

(* A middle mix looks at the compatibility of the next one, and goes on    *)
(* whatever it is; it keeps the list.                                      *)
MiddleReceivesInfo(m) ==
  /\ m > 1 /\ m < N /\ VerifiesNext(m)
  /\ ReceiveInfo(m)
  /\ fits' = [fits EXCEPT ![m] = CheckCompatibility(m, Head(infos[m]).mix)]
  /\ list' = [list EXCEPT ![m] = infos[m]]
  /\ UNCHANGED <<told, user>>

(* The first mix makes the key info for its users of the list and its own. *)
FirstReceivesInfo ==
  /\ VerifiesNext(1) /\ CheckCompatibility(1, 2)
  /\ ReceiveInfo(1)
  /\ told' = AddMixInfo(1, infos[1])
  /\ UNCHANGED <<fits, list, user>>

KReceiveInfo(m) ==
  /\ MiddleReceivesInfo(m) \/ (m = 1 /\ FirstReceivesInfo)
  /\ answer' = [answer EXCEPT ![m] = IF key'[m] THEN Answer(m) ELSE NoAnswer]
  /\ outKeys' = [outKeys EXCEPT ![m] = SymKeys(session[m])]
  /\ infos' = [infos EXCEPT ![m] = <<>>]
  /\ UNCHANGED <<kxconf, session, inKeys>>

(* The last mix begins the list, a middle mix puts itself in front.        *)
MixesFrom(m) == AddMixInfo(m, list[m])

KSendInfo(m) ==
  /\ SendInfo(m)
  /\ infos' = [infos EXCEPT ![m - 1] = IF info'[m - 1] THEN MixesFrom(m) ELSE <<>>]
  /\ list' = [list EXCEPT ![m] = <<>>]
  /\ UNCHANGED <<kxconf, session, fits, answer, outKeys, inKeys, told, user>>

(* The answer of the previous mix: its signature, the compatibility of     *)
(* both neighbours, the nonce, and whether the keys can be decrypted.      *)
AcceptsAnswer(m) ==
  /\ "far" \notin outdated[m - 1]
  /\ fits[m] /\ CheckCompatibility(m, m - 1)
  /\ answer[m - 1].session = session[m]

(* Variant: both ends send with the first half.                            *)
SameHalves(k) == SymKeys(k)

(* The halves change their roles at the other end.                         *)
OtherHalves(k) == [send |-> SymKeys(k).receive, receive |-> SymKeys(k).send]

KReceiveKey(m) ==
  /\ ReceiveKey(m)
  /\ AcceptsAnswer(m)
  /\ inKeys' = [inKeys EXCEPT ![m] = OtherHalves(answer[m - 1].keys)]
  /\ answer' = [answer EXCEPT ![m - 1] = NoAnswer]
  /\ UNCHANGED <<kxconf, session, fits, list, infos, outKeys, told, user>>

-----------------------------------------------------------------------------
(* clean(): keys, lists and, in the first mix, the users are gone.         *)
Forgets(m) ==
  /\ session' = [session EXCEPT ![m] = 0]
  /\ list' = [list EXCEPT ![m] = <<>>]
  /\ outKeys' = [outKeys EXCEPT ![m] = NoKeys]
  /\ inKeys' = [inKeys EXCEPT ![m] = NoKeys]
  /\ IF m = 1 THEN told' = <<>> /\ user' = Nobody ELSE UNCHANGED <<told, user>>
  /\ UNCHANGED <<kxconf, fits>>

(* What can no longer be received is gone.                                 *)
Drops ==
  /\ infos' = [i \in Links |-> IF info'[i] THEN infos[i] ELSE <<>>]
  /\ answer' = [i \in Links |-> IF key'[i] THEN answer[i] ELSE NoAnswer]

(* A key info or an answer that is not accepted ends init().               *)
Refuses(m) ==
  /\ \/ m < N /\ at[m] = "info" /\ info[m] /\ ~VerifiesNext(m)
     \/ m > 1 /\ at[m] = "answer" /\ key[m - 1] /\ ~AcceptsAnswer(m)
  /\ ClosesAll(m) /\ Goes(m, "sleep") /\ UNCHANGED faults

KFails(m) ==
  /\ Restarts(m) \/ OfferFails(m) \/ TimesOut(m) \/ Crash(m) \/ Refuses(m)
  /\ Forgets(m) /\ Drops

(* The first mix answers before it draws the conclusion that it does not   *)
(* fit to the next mix.                                                    *)
FirstDoesNotFit ==
  /\ at[1] = "info" /\ info[1] /\ VerifiesNext(1) /\ ~CheckCompatibility(1, 2)
  /\ near' = [near EXCEPT ![1] = "none"] /\ far' = [far EXCEPT ![1] = Hangs(@)]
  /\ info' = [info EXCEPT ![1] = FALSE]
  /\ key' = [key EXCEPT ![1] = near[1] = "live"]
  /\ answer' = [answer EXCEPT ![1] = IF key'[1] THEN Answer(1) ELSE NoAnswer]
  /\ infos' = [infos EXCEPT ![1] = <<>>]
  /\ Goes(1, "sleep") /\ Forgets(1)
  /\ UNCHANGED faults

KLoseLink(i) ==
  /\ LoseLink(i) /\ Drops
  /\ UNCHANGED <<kxconf, session, fits, list, outKeys, inKeys, told, user>>

-----------------------------------------------------------------------------
(* A user is told the list, and reads it from its end.                     *)
UserIsTold ==
  /\ at[1] = "online" /\ user = Nobody
  /\ user' = [in |-> FALSE, layers |-> Reverse(told)]
  /\ UNCHANGED <<cvars, kxconf, session, fits, list, infos, answer, outKeys, inKeys, told>>

(* His keys are encrypted for the mix of his last layer, and can be        *)
(* decrypted by the first mix.                                             *)
UserLogsIn ==
  /\ at[1] = "online" /\ user.layers # <<>> /\ ~user.in
  /\ user' = IF Last(user.layers).session = session[1] THEN [user EXCEPT !.in = TRUE] ELSE Nobody
  /\ UNCHANGED <<cvars, kxconf, session, fits, list, infos, answer, outKeys, inKeys, told>>

UserLogsOut ==
  /\ user.layers # <<>>
  /\ user' = Nobody
  /\ UNCHANGED <<cvars, kxconf, session, fits, list, infos, answer, outKeys, inKeys, told>>

KXNext ==
  \/ \E m \in Mixes : \/ KBegin(m) \/ KConnect(m) \/ KReceiveInfo(m) \/ KSendInfo(m)
                      \/ KReceiveKey(m) \/ KFails(m) \/ (StartMix(m) /\ UNCHANGED kxvars)
  \/ FirstDoesNotFit
  \/ \E i \in Links : KLoseLink(i)
  \/ UserIsTold \/ UserLogsIn \/ UserLogsOut

KXSpec == KXInit /\ [][KXNext]_<<cvars, kxvars>>

-----------------------------------------------------------------------------
(* Both ends of a connection that has been set up use the same two keys,   *)
(* each for the direction the other end uses it for, and a cascade that is *)
(* on line as a whole consists of mixes that have accepted each other,     *)
(* whatever has crashed, timed out or been refused before.                 *)
KeysAgree ==
  \A i \in Links : near[i] = "live" /\ at[i + 1] = "online" =>
    /\ inKeys[i + 1].receive = outKeys[i].send /\ outKeys[i].send # <<>>
    /\ inKeys[i + 1].send = outKeys[i].receive
    /\ at[i] = "online" =>
         /\ outdated[i] = {}
         /\ CheckCompatibility(i, i + 1) /\ CheckCompatibility(i + 1, i)

(* While the connections between the mixes last, the layers of a user who  *)
(* is logged in are those of all the mixes, in the order in which his      *)
(* packets pass them, and for key pairs the mixes still have.              *)
LayersFit ==
  user.in /\ (\A i \in Links : near[i] = "live") =>
    Reverse(user.layers) = [m \in Mixes |-> Entry(m)]
=============================================================================

-------------------------- MODULE MiddleMixChannels --------------------------
(***************************************************************************)
(* The channel table of a middle mix and the two reader threads that share *)
(* it: mm_loopReadFromMixBefore ("up", packets from the previous mix) and  *)
(* mm_loopReadFromMixAfter ("down", packets from the next mix).            *)
(*                                                                         *)
(* A channel is an entry of CAMiddleMixChannelList: the id used by the     *)
(* previous mix, the id used towards the next mix and a cipher.  Every     *)
(* operation of the list runs under its mutex.  A reader uses the cipher   *)
(* outside the mutex and protects it with CALockAble's reference count;    *)
(* the destructor of a cipher, run by remove() with the mutex held, waits  *)
(* until the count is back to one.                                         *)
(*                                                                         *)
(* A packet is its channel and its flags; payload, cryptography and the    *)
(* send queues (see MiddleMixThreads and CAQueue) are left out.  What the  *)
(* neighbours believe about the channels is kept in ghost variables, from  *)
(* the moment they send a packet or have taken one.  A mix that cannot     *)
(* decrypt the packet that opens a channel drops it and tells nobody; one  *)
(* ghost keeps which channels that happened to.                            *)
(***************************************************************************)
EXTENDS Naturals, FiniteSets

CONSTANTS
  Channels,   (* channel ids, of either side                               *)
  Ciphers,    (* the memory cells a cipher object can occupy               *)
  Flags,      (* the combinations of CHANNEL_OPEN and CHANNEL_CLOSE sent   *)
  IdReuse,    (* may a channel id be used again after its channel closed?  *)
  NoReader, NoChannel, NoCipher

ASSUME InputAssumption ==
  /\ Flags \subseteq SUBSET {"OPEN", "CLOSE"}
  /\ IdReuse \in BOOLEAN
ASSUME NoneAssumption ==
  /\ NoReader \notin {"up", "down"}
  /\ NoChannel \notin Channels
  /\ NoCipher \notin Ciphers

Reader == {"up", "down"}
Packet == [chan : Channels, flags : Flags]
Entry  == [in : Channels, out : Channels, cipher : Ciphers]

PC == {"idle", "lookup", "add", "crypt", "unlock", "signal", "remove",
       "destroy", "waiting", "enqueue", "announce"}

VARIABLES
  table,    (* m_pHashTableIn and m_pHashTableOut: the set of entries      *)
  mutex,    (* m_Mutex: the reader inside the list, or NoReader            *)
  live,     (* ciphers constructed and not yet freed                       *)
  refs,     (* m_nLockCount of every cipher                                *)
  stage,    (* where each reader is                                        *)
  pkt,      (* pMixPacket of each reader                                   *)
  mate,     (* the id the packet leaves with                               *)
  cipher,   (* pCipher of each reader                                      *)
  dying,    (* the cipher whose destructor the reader runs                 *)
  broken,   (* the process died of a use of freed memory                   *)
  prevOpen, (* ghost: ids the previous mix holds open                      *)
  nextOpen, (* ghost: out ids the next mix was told to open and has        *)
            (* neither closed nor been told to close                       *)
  usedIn,   (* ghost: ids ever opened by the previous mix                  *)
  usedOut,  (* ghost: out ids ever announced to the next mix               *)
  rejected  (* ghost: ids whose opening packet this mix dropped            *)

list  == <<table, mutex, live, refs>>
local == <<stage, pkt, mate, cipher, dying>>
ghost == <<prevOpen, nextOpen, usedIn, usedOut, rejected>>
mmvars  == <<list, local, broken, ghost>>

Ins  == {e.in  : e \in table}
Outs == {e.out : e \in table}

GoTo(t, to) == stage' = [stage EXCEPT ![t] = to]
Closes(t) == "CLOSE" \in pkt[t].flags

NoPacket == [chan |-> NoChannel, flags |-> {}]  (* before the first one *)

(* Back to the top of the loop; the locals are dead.                       *)
NextPacket(t) ==
  /\ GoTo(t, "idle")
  /\ pkt'    = [pkt    EXCEPT ![t] = NoPacket]
  /\ mate'   = [mate   EXCEPT ![t] = NoChannel]
  /\ cipher' = [cipher EXCEPT ![t] = NoCipher]
  /\ UNCHANGED dying

(* The steps between receiving a packet and having forwarded it, at which  *)
(* the reader holds a reference to its cipher.                             *)
Holding(t, c) == stage[t] \in {"crypt", "unlock"} /\ cipher[t] = c

MMInit ==
  /\ table = {} /\ live = {} /\ mutex = NoReader
  /\ refs   = [c \in Ciphers |-> 0]
  /\ stage     = [t \in Reader |-> "idle"]
  /\ pkt    = [t \in Reader |-> NoPacket]
  /\ mate   = [t \in Reader |-> NoChannel]
  /\ cipher = [t \in Reader |-> NoCipher]
  /\ dying  = [t \in Reader |-> NoCipher]
  /\ broken = FALSE
  /\ prevOpen = {} /\ nextOpen = {} /\ usedIn = {} /\ usedOut = {}
  /\ rejected = {}

-----------------------------------------------------------------------------
Opens(p) == "OPEN" \in p.flags

(* The previous mix, of the same program, has a channel open once it has   *)
(* sent its first packet, with or without the close flag, and has it no    *)
(* longer once it has sent a later one with the close flag.                *)
PrevSends(p) ==
  /\ prevOpen' = IF Opens(p) /\ p.chan \notin prevOpen THEN prevOpen \cup {p.chan}
                 ELSE IF "CLOSE" \in p.flags THEN prevOpen \ {p.chan}
                 ELSE prevOpen
  /\ usedIn' = IF Opens(p) THEN usedIn \cup {p.chan} ELSE usedIn

(* A packet arrives.  The previous mix draws a random id for every channel *)
(* it opens (without IdReuse: one it never used); the next mix only speaks *)
(* on ids announced to it (on none, if it dropped the packet that opened   *)
(* the channel), and a CLOSE from it means that it has the channel no more. *)
UpReceive(p) ==
  /\ stage["up"] = "idle"
  /\ Opens(p) => IdReuse \/ p.chan \notin usedIn
  /\ pkt' = [pkt EXCEPT !["up"] = p]
  /\ PrevSends(p)
  /\ GoTo("up", "lookup")
  /\ UNCHANGED <<list, mate, cipher, dying, broken, nextOpen, usedOut, rejected>>

DownReceive(p) ==
  /\ stage["down"] = "idle"
  /\ p.chan \in usedOut
  /\ pkt' = [pkt EXCEPT !["down"] = p]
  /\ nextOpen' = IF "CLOSE" \in p.flags THEN nextOpen \ {p.chan} ELSE nextOpen
  /\ GoTo("down", "lookup")
  /\ UNCHANGED <<list, mate, cipher, dying, broken, prevOpen, usedIn, usedOut, rejected>>

(* getInToOut: entry found; its cipher's count is taken inside the mutex.  *)
LockCipher(c) == refs' = [refs EXCEPT ![c] = @ + 1]

UpHit(e) ==
  /\ stage["up"] = "lookup" /\ mutex = NoReader
  /\ e \in table /\ e.in = pkt["up"].chan
  /\ LockCipher(e.cipher)
  /\ mate'   = [mate   EXCEPT !["up"] = e.out]
  /\ cipher' = [cipher EXCEPT !["up"] = e.cipher]
  /\ GoTo("up", "crypt")
  /\ UNCHANGED <<table, mutex, live, pkt, dying, broken, ghost>>

(* Unknown channel without the open flag: the packet is dropped.           *)
UpDrop ==
  /\ stage["up"] = "lookup" /\ mutex = NoReader
  /\ pkt["up"].chan \notin Ins
  /\ ~Opens(pkt["up"])
  /\ NextPacket("up")
  /\ UNCHANGED <<list, broken, ghost>>

(* Unknown channel with the open flag whose RSA part cannot be decrypted,  *)
(* or is found in the replay database: dropped, and nothing is sent back,  *)
(* so that the previous mix keeps the channel until its user closes it.    *)
UpReject ==
  /\ stage["up"] = "lookup" /\ mutex = NoReader
  /\ pkt["up"].chan \notin Ins
  /\ Opens(pkt["up"])
  /\ rejected' = rejected \cup {pkt["up"].chan}
  /\ NextPacket("up")
  /\ UNCHANGED <<list, broken, prevOpen, nextOpen, usedIn, usedOut>>

(* A new channel: the cipher is created before the list is entered again.  *)
UpCreate(c) ==
  /\ stage["up"] = "lookup" /\ mutex = NoReader
  /\ pkt["up"].chan \notin Ins
  /\ Opens(pkt["up"])
  /\ c \notin live
  /\ live' = live \cup {c}
  /\ refs' = [refs EXCEPT ![c] = 1]
  /\ cipher' = [cipher EXCEPT !["up"] = c]
  /\ GoTo("up", "add")
  /\ UNCHANGED <<table, mutex, pkt, mate, dying, broken, ghost>>

UnusedOut(o) == o \notin Outs

(* add(): a random outgoing id which no entry uses.                        *)
UpAdd(o) ==
  /\ stage["up"] = "add" /\ mutex = NoReader
  /\ UnusedOut(o)
  /\ IdReuse \/ o \notin usedOut
  /\ table' = table \cup {[in |-> pkt["up"].chan, out |-> o, cipher |-> cipher["up"]]}
  /\ mate' = [mate EXCEPT !["up"] = o]
  /\ GoTo("up", "announce")
  /\ UNCHANGED <<mutex, live, refs, pkt, cipher, dying, broken, ghost>>

(* getOutToIn: as getInToOut, with the outgoing id as the key.             *)
DownHit(e) ==
  /\ stage["down"] = "lookup" /\ mutex = NoReader
  /\ e \in table /\ e.out = pkt["down"].chan
  /\ LockCipher(e.cipher)
  /\ mate'   = [mate   EXCEPT !["down"] = e.in]
  /\ cipher' = [cipher EXCEPT !["down"] = e.cipher]
  /\ GoTo("down", "crypt")
  /\ UNCHANGED <<table, mutex, live, pkt, dying, broken, ghost>>

DownDrop ==
  /\ stage["down"] = "lookup" /\ mutex = NoReader
  /\ pkt["down"].chan \notin Outs
  /\ NextPacket("down")
  /\ UNCHANGED <<list, broken, ghost>>

(* Variant: the close flag is looked at before the reference is released.  *)
CryptRemovesFirst(t) ==
  /\ stage[t] = "crypt"
  /\ GoTo(t, IF Closes(t) THEN "remove" ELSE "unlock")
  /\ UNCHANGED <<list, pkt, mate, cipher, dying, broken, ghost>>

(* crypt1() upstream, crypt2() downstream: outside the mutex.              *)
Crypt(t) ==
  /\ stage[t] = "crypt"
  /\ GoTo(t, "unlock")
  /\ UNCHANGED <<list, pkt, mate, cipher, dying, broken, ghost>>

(* CALockAble::unlock(), first part: the count goes down under its lock.   *)
Unlock(t) ==
  /\ stage[t] = "unlock"
  /\ refs' = [refs EXCEPT ![cipher[t]] = IF @ > 0 THEN @ - 1 ELSE @]
  /\ GoTo(t, "signal")
  /\ UNCHANGED <<table, mutex, live, pkt, mate, cipher, dying, broken, ghost>>

(* Where a reader goes after unlock(): only a CLOSE removes the channel.   *)
AfterUnlock(t) == IF Closes(t) THEN "remove" ELSE "enqueue"

(* Does s wait in the destructor of cipher c?                              *)
Woken(s, c) == stage[s] = "waiting" /\ dying[s] = c

(* CALockAble::unlock(), second part: signal() without the lock.  It wakes *)
(* the destructor that waits for this cipher.                              *)
Signal(t) ==
  /\ stage[t] = "signal"
  /\ cipher[t] \in live
  /\ stage' = [s \in Reader |->
              IF s = t THEN AfterUnlock(t)
              ELSE IF Woken(s, cipher[t]) THEN "destroy"
              ELSE stage[s]]
  /\ UNCHANGED <<list, pkt, mate, cipher, dying, broken, ghost>>

(* The same call when the cipher was freed in between: undefined; it has   *)
(* no effect, or the process dies.                                         *)
SignalFreed(t) ==
  /\ stage[t] = "signal"
  /\ cipher[t] \notin live
  /\ \/ GoTo(t, AfterUnlock(t)) /\ UNCHANGED broken
     \/ broken' = TRUE /\ UNCHANGED stage
  /\ UNCHANGED <<list, pkt, mate, cipher, dying, ghost>>

(* Variant: both readers pass the id of the packet as it arrived.          *)
RemoveKeyArrived(t) == pkt[t].chan

(* The incoming id remove() is called with.                                *)
RemoveKey(t) == IF t = "up" THEN pkt[t].chan ELSE mate[t]

(* remove(): the channel is gone already (the other reader removed it).    *)
RemoveMiss(t) ==
  /\ stage[t] = "remove" /\ mutex = NoReader
  /\ RemoveKey(t) \notin Ins
  /\ GoTo(t, "enqueue")
  /\ UNCHANGED <<list, pkt, mate, cipher, dying, broken, ghost>>

(* Variant: the destructor is called after the mutex has been released.    *)
RemoveHitUnlocked(t, e) ==
  /\ stage[t] = "remove" /\ mutex = NoReader
  /\ e \in table /\ e.in = RemoveKey(t)
  /\ dying' = [dying EXCEPT ![t] = e.cipher]
  /\ GoTo(t, "destroy")
  /\ UNCHANGED <<table, mutex, live, refs, pkt, mate, cipher, broken, ghost>>

(* remove(): found; the destructor of its cipher runs inside the mutex.    *)
RemoveHit(t, e) ==
  /\ stage[t] = "remove" /\ mutex = NoReader
  /\ e \in table /\ e.in = RemoveKey(t)
  /\ mutex' = t
  /\ dying' = [dying EXCEPT ![t] = e.cipher]
  /\ GoTo(t, "destroy")
  /\ UNCHANGED <<table, live, refs, pkt, mate, cipher, broken, ghost>>

(* Variant: off by one in the loop of waitForDestroy().                    *)
ReferencedTwice(c) == refs[c] > 2

(* Somebody but the list refers to the cipher.                             *)
Referenced(c) == refs[c] > 1

(* waitForDestroy(): another reference exists.                             *)
DestroyWait(t) ==
  /\ stage[t] = "destroy"
  /\ Referenced(dying[t])
  /\ GoTo(t, "waiting")
  /\ UNCHANGED <<list, pkt, mate, cipher, dying, broken, ghost>>

(* pthread_cond_wait may return without a signal.                          *)
SpuriousDestroy(t) ==
  /\ stage[t] = "waiting"
  /\ GoTo(t, "destroy")
  /\ UNCHANGED <<list, pkt, mate, cipher, dying, broken, ghost>>

(* The cipher is freed, the entry unlinked from both tables.               *)
Destroy(t) ==
  /\ stage[t] = "destroy"
  /\ ~Referenced(dying[t])
  /\ live'  = live \ {dying[t]}
  /\ table' = {e \in table : e.in # RemoveKey(t)}
  /\ mutex' = NoReader
  /\ dying' = [dying EXCEPT ![t] = NoCipher]
  /\ refs' = [refs EXCEPT ![dying[t]] = 0]
  /\ GoTo(t, "enqueue")
  /\ UNCHANGED <<pkt, mate, cipher, broken, ghost>>

(* The packet is put into the send queue under the id of the other side.   *)
(* The first packet of a channel tells the next mix to open it, one with   *)
(* the close flag to end it.                                               *)
UpAnnounce ==
  /\ stage["up"] = "announce"
  /\ nextOpen' = nextOpen \cup {mate["up"]}
  /\ usedOut'  = usedOut \cup {mate["up"]}
  /\ NextPacket("up")
  /\ UNCHANGED <<list, broken, prevOpen, usedIn, rejected>>

UpEnqueue ==
  /\ stage["up"] = "enqueue"
  /\ nextOpen' = IF Closes("up") THEN nextOpen \ {mate["up"]} ELSE nextOpen
  /\ NextPacket("up")
  /\ UNCHANGED <<list, broken, prevOpen, usedIn, usedOut, rejected>>

DownEnqueue ==
  /\ stage["down"] = "enqueue"
  /\ prevOpen' = IF Closes("down") THEN prevOpen \ {mate["down"]} ELSE prevOpen
  /\ NextPacket("down")
  /\ UNCHANGED <<list, broken, nextOpen, usedIn, usedOut, rejected>>

-----------------------------------------------------------------------------
Up ==
  \/ \E p \in Packet : UpReceive(p)
  \/ \E e \in table : UpHit(e)
  \/ \E c \in Ciphers : UpCreate(c)
  \/ \E o \in Channels : UpAdd(o)
  \/ UpDrop \/ UpReject \/ UpAnnounce \/ UpEnqueue

Down ==
  \/ \E p \in Packet : DownReceive(p)
  \/ \E e \in table : DownHit(e)
  \/ DownDrop \/ DownEnqueue

UseCipher(t) == Crypt(t) \/ Unlock(t) \/ Signal(t) \/ SignalFreed(t)

RemoveChannel(t) ==
  \/ RemoveMiss(t)
  \/ \E e \in table : RemoveHit(t, e)
  \/ DestroyWait(t) \/ Destroy(t)

MMStep ==
  \/ Up \/ Down
  \/ \E t \in Reader : UseCipher(t) \/ RemoveChannel(t) \/ SpuriousDestroy(t)

(* A dead process does nothing more.                                       *)
Dead == broken /\ UNCHANGED mmvars

MMNext == (~broken /\ MMStep) \/ Dead

MMSpec == MMInit /\ [][MMNext]_mmvars

(* Both readers run on threads of their own and, other than receive a      *)
(* packet, do what they can do next.  A reader that keeps asking for the   *)
(* mutex to remove a channel gets it some day, however often the other     *)
(* one enters the list in between (SF).  No fairness of packets or of      *)
(* spurious wake-ups is assumed.                                           *)
MMFairness ==
  /\ \A t \in Reader : /\ WF_mmvars(~broken /\ UseCipher(t))
                       /\ SF_mmvars(~broken /\ RemoveChannel(t))
  /\ WF_mmvars(~broken /\ stage["up"] # "idle" /\ Up)
  /\ WF_mmvars(~broken /\ stage["down"] # "idle" /\ Down)

MMFairSpec == MMSpec /\ MMFairness

-----------------------------------------------------------------------------
(* Type correctness: every variable of the two readers, of the list and of *)
(* the ghost views stays within its range.                                 *)
MMTypeOK ==
  /\ table \in SUBSET Entry
  /\ mutex \in Reader \cup {NoReader}
  /\ live \in SUBSET Ciphers
  /\ refs \in [Ciphers -> Nat]
  /\ stage \in [Reader -> PC]
  /\ pkt \in [Reader -> Packet \cup {NoPacket}]
  /\ mate \in [Reader -> Channels \cup {NoChannel}]
  /\ cipher \in [Reader -> Ciphers \cup {NoCipher}]
  /\ dying \in [Reader -> Ciphers \cup {NoCipher}]
  /\ broken \in BOOLEAN
  /\ prevOpen \in SUBSET Channels /\ nextOpen \in SUBSET Channels
  /\ usedIn \in SUBSET Channels /\ usedOut \in SUBSET Channels
  /\ rejected \in SUBSET Channels

(* The two hash tables stay the two directions of one bijection, and every *)
(* entry owns a constructed cipher of its own: a packet of either          *)
(* direction finds at most one channel (add() and remove() of              *)
(* CAMiddleMixChannelList).                                                *)
TableConsistent ==
  /\ \A e, f \in table : e.in = f.in \/ e.out = f.out \/ e.cipher = f.cipher => e = f
  /\ \A e \in table : e.cipher \in live

(* What CALockAble promises: between lock() and unlock() of a reader the   *)
(* cipher is not destroyed, although the other reader may be running its   *)
(* destructor.                                                             *)
HeldCipherLives ==
  \A t \in Reader : stage[t] \in {"crypt", "unlock"} => cipher[t] \in live

(* The promise taken to the end of unlock(): the object is not touched     *)
(* once it is destroyed.                                                   *)
NoUseOfFreedCipher ==
  \A t \in Reader : stage[t] \in {"crypt", "unlock", "signal"} => cipher[t] \in live

(* Reader t is at one of the stages of a packet with the close flag.       *)
Closing(t, stages) == stage[t] \in stages /\ Closes(t)

(* A channel the next mix may hold open is known to the table, or the      *)
(* CLOSE that ends it there is being forwarded.                            *)
NoOrphanAtNext ==
  \A o \in nextOpen :
     o \in Outs \/ (Closing("up", {"enqueue"}) /\ mate["up"] = o)

(* A channel the previous mix holds open is known to the table, or the     *)
(* reader has just received the packet that opens it, or the CLOSE is      *)
(* being forwarded.  The only channels the previous mix is left alone with *)
(* are those whose opening packet was dropped here.                        *)
NoOrphanAtPrev ==
  \A c \in prevOpen :
     \/ c \in Ins \cup rejected
     \/ stage["up"] \in {"lookup", "add"} /\ Opens(pkt["up"]) /\ pkt["up"].chan = c
     \/ Closing("down", {"enqueue"}) /\ mate["down"] = c

NoOrphan == NoOrphanAtNext /\ NoOrphanAtPrev

Hit == {"crypt", "unlock", "signal", "remove", "destroy", "waiting"}

(* An entry is there for a channel both neighbours have been told to open, *)
(* unless one of the readers is about to announce or to remove it: entries *)
(* are not leaked, the CLOSE of the previous mix ends every one.           *)
NoLeakedEntry ==
  \A e \in table :
    /\ e.in \in prevOpen \/ (Closing("up", Hit \cup {"lookup"}) /\ pkt["up"].chan = e.in)
    /\ \/ e.out \in nextOpen
       \/ stage["up"] = "announce" /\ mate["up"] = e.out
       \/ Closing("down", Hit \cup {"lookup"}) /\ pkt["down"].chan = e.out

(* What the previous mix, the table and the next mix believe about a       *)
(* channel agrees, up to the packets the readers hold and to the opening   *)
(* packets dropped without an answer: whichever sides close a channel, in  *)
(* whichever order, no side keeps it.                                      *)
ViewsAgree == NoOrphan /\ NoLeakedEntry

(* A CLOSE for a known channel is carried out, whatever the other reader   *)
(* does at the same time with the same channel.                            *)
CloseCompletes ==
  \A t \in Reader : Closing(t, {"crypt"}) ~> (stage[t] = "idle" \/ broken)
=============================================================================

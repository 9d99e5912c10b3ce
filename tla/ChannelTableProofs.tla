------------------------- MODULE ChannelTableProofs -------------------------
(***************************************************************************)
(* Proofs about the channel tables of a middle mix (MiddleMixChannels, for *)
(* any sets of channel ids, of cipher cells and of flag combinations, with *)
(* and without reuse of ids) and of the last mix of type B (LastMixB, for  *)
(* any chains, channels and timeouts).                                     *)
(*                                                                         *)
(* HeldCipherLives is not inductive: that Destroy(t) takes no cipher away  *)
(* from the other reader follows from the exact value of the reference     *)
(* count (RefsExact), from the mutex (MutexHeld: only one destructor runs, *)
(* and no lookup meanwhile) and from the dying cipher being the one of the *)
(* entry that is about to be unlinked (DyingInTable).                      *)
(*                                                                         *)
(* ChannelsKnown speaks of sets; the proof needs to know where in which    *)
(* list a channel is (ListedOnce), that the chain the loop looks at still  *)
(* exists, and that a chain which waits for no channel has one, since only *)
(* then is there a head of the list to close (ChainsTyped).                *)
(***************************************************************************)
EXTENDS MiddleMixChannels, LastMixB, TLAPS

(* The reference reader t holds to cipher c: one, or none.                 *)
Uses(t, c) == IF Holding(t, c) THEN 1 ELSE 0

(* The count of a cipher: one for its creator and one for each user.       *)
RefsExact == \A c \in live : refs[c] = 1 + Uses("up", c) + Uses("down", c)

(* Reader t is inside the destructor of a cipher.                          *)
Destroying(t) == stage[t] \in {"destroy", "waiting"}

(* The mutex of the list is held by the one who runs a destructor.         *)
MutexHeld == \A t \in Reader : Destroying(t) <=> mutex = t

(* The cipher being destroyed still is the one of its entry.               *)
DyingInTable ==
  \A t \in Reader : Destroying(t) =>
    \E e \in table : e.in = RemoveKey(t) /\ e.cipher = dying[t]

(* The id and the cipher of a channel about to be added belong to no       *)
(* entry: only the upstream reader adds channels.                          *)
FreshChannel ==
  stage["up"] = "add" => /\ cipher["up"] \in live
                      /\ \A e \in table : /\ e.cipher # cipher["up"]
                                          /\ e.in # pkt["up"].chan

(* The locals are defined where they are used.                             *)
LocalsDefined ==
  /\ \A t \in Reader : stage[t] # "idle" => pkt[t] \in Packet
  /\ stage["up"] = "announce" => mate["up"] \in Channels

(* The inductive invariant.                                                *)
IInv ==
  /\ MMTypeOK /\ LocalsDefined
  /\ TableConsistent /\ HeldCipherLives
  /\ RefsExact /\ MutexHeld /\ DyingInTable /\ FreshChannel

(* Every conjunct holds of the empty list.                                 *)
LEMMA InitIInv == MMInit => IInv
<1> SUFFICES ASSUME MMInit PROVE IInv
  OBVIOUS
<1> USE DEF MMInit
<1>1. MMTypeOK /\ LocalsDefined
  BY NoneAssumption DEF MMTypeOK, LocalsDefined, Reader, PC
<1>2. TableConsistent /\ RefsExact
  BY DEF TableConsistent, RefsExact
<1>3. HeldCipherLives /\ DyingInTable /\ FreshChannel
  BY DEF HeldCipherLives, DyingInTable, FreshChannel, Destroying, Reader
<1>4. MutexHeld
  BY NoneAssumption DEF MutexHeld, Destroying, Reader
<1>5. QED
  BY <1>1, <1>2, <1>3, <1>4 DEF IInv

-----------------------------------------------------------------------------
(* Type correctness is inductive once the locals are defined.              *)
LEMMA NextType == IInv /\ [MMNext]_mmvars => MMTypeOK' /\ LocalsDefined'
<1> SUFFICES ASSUME IInv, [MMNext]_mmvars PROVE MMTypeOK' /\ LocalsDefined'
  OBVIOUS
<1> USE DEF MMTypeOK, LocalsDefined, list, local, ghost, GoTo, NextPacket, Reader, PC
<1> MMTypeOK /\ LocalsDefined
  BY DEF IInv
<1>1. ASSUME NEW p \in Packet, UpReceive(p) PROVE MMTypeOK' /\ LocalsDefined'
  BY <1>1 DEF UpReceive, PrevSends, Packet
<1>2. ASSUME NEW e \in table, UpHit(e) PROVE MMTypeOK' /\ LocalsDefined'
  BY <1>2 DEF UpHit, LockCipher, Entry
<1>3. ASSUME NEW c \in Ciphers, UpCreate(c) PROVE MMTypeOK' /\ LocalsDefined'
  BY <1>3 DEF UpCreate
<1>4. ASSUME NEW o \in Channels, UpAdd(o) PROVE MMTypeOK' /\ LocalsDefined'
  BY <1>4 DEF UpAdd, IInv, FreshChannel, Entry, Packet
<1>5. CASE UpDrop
  BY <1>5 DEF UpDrop, NoPacket
<1>6. CASE UpReject
  BY <1>6 DEF UpReject, NoPacket, Packet
<1>7. CASE UpAnnounce
  BY <1>7 DEF UpAnnounce, NoPacket
<1>8. CASE UpEnqueue
  BY <1>8 DEF UpEnqueue, NoPacket
<1>9. ASSUME NEW p \in Packet, DownReceive(p) PROVE MMTypeOK' /\ LocalsDefined'
  BY <1>9 DEF DownReceive
<1>10. ASSUME NEW e \in table, DownHit(e) PROVE MMTypeOK' /\ LocalsDefined'
  BY <1>10 DEF DownHit, LockCipher, Entry
<1>11. CASE DownDrop
  BY <1>11 DEF DownDrop, NoPacket
<1>12. CASE DownEnqueue
  BY <1>12 DEF DownEnqueue, NoPacket
<1>13. ASSUME NEW t \in Reader, Crypt(t) PROVE MMTypeOK' /\ LocalsDefined'
  BY <1>13 DEF Crypt
<1>14. ASSUME NEW t \in Reader, Unlock(t) PROVE MMTypeOK' /\ LocalsDefined'
  BY <1>14 DEF Unlock, IInv, HeldCipherLives
<1>15. ASSUME NEW t \in Reader, Signal(t) PROVE MMTypeOK' /\ LocalsDefined'
  BY <1>15 DEF Signal, AfterUnlock, Woken
<1>16. ASSUME NEW t \in Reader, SignalFreed(t) PROVE MMTypeOK' /\ LocalsDefined'
  <2>1. CASE GoTo(t, AfterUnlock(t)) /\ UNCHANGED broken
    BY <1>16, <2>1 DEF SignalFreed, AfterUnlock
  <2>2. CASE broken' = TRUE /\ UNCHANGED stage
    BY <1>16, <2>2 DEF SignalFreed
  <2> QED BY <1>16, <2>1, <2>2 DEF SignalFreed
<1>17. ASSUME NEW t \in Reader, RemoveMiss(t) PROVE MMTypeOK' /\ LocalsDefined'
  BY <1>17 DEF RemoveMiss
<1>18. ASSUME NEW t \in Reader, NEW e \in table, RemoveHit(t, e)
       PROVE  MMTypeOK' /\ LocalsDefined'
  BY <1>18 DEF RemoveHit, Entry
<1>19. ASSUME NEW t \in Reader, DestroyWait(t) \/ SpuriousDestroy(t)
       PROVE  MMTypeOK' /\ LocalsDefined'
  BY <1>19 DEF DestroyWait, SpuriousDestroy
<1>20. ASSUME NEW t \in Reader, Destroy(t) PROVE MMTypeOK' /\ LocalsDefined'
  BY <1>20 DEF Destroy
<1>21. CASE UNCHANGED mmvars
  BY <1>21 DEF mmvars
<1>22. QED
  BY <1>1, <1>2, <1>3, <1>4, <1>5, <1>6, <1>7, <1>8, <1>9, <1>10, <1>11, <1>12,
     <1>13, <1>14, <1>15, <1>16, <1>17, <1>18, <1>19, <1>20, <1>21
     DEF MMNext, MMStep, Dead, Up, Down, UseCipher, RemoveChannel

(* The mutex is held exactly while a destructor runs.                       *)
LEMMA NextMutex == IInv /\ [MMNext]_mmvars => MutexHeld'
<1> SUFFICES ASSUME IInv, [MMNext]_mmvars PROVE MutexHeld'
  OBVIOUS
<1> USE DEF IInv, MMTypeOK, LocalsDefined, list, local, ghost, GoTo, Reader, MutexHeld, Destroying
<1>1. ASSUME NEW p \in Packet, UpReceive(p)
      PROVE  MutexHeld'
  BY <1>1 DEF UpReceive, PrevSends
<1>2. ASSUME NEW e \in table, UpHit(e)
      PROVE  MutexHeld'
  BY <1>2 DEF UpHit, LockCipher
<1>3. ASSUME NEW c \in Ciphers, UpCreate(c)
      PROVE  MutexHeld'
  BY <1>3 DEF UpCreate
<1>4. ASSUME NEW o \in Channels, UpAdd(o)
      PROVE  MutexHeld'
  BY <1>4 DEF UpAdd, UnusedOut
<1>5. CASE UpDrop
  BY <1>5 DEF UpDrop, NextPacket
<1>6. CASE UpReject
  BY <1>6 DEF UpReject, NextPacket
<1>7. CASE UpAnnounce
  BY <1>7 DEF UpAnnounce, NextPacket
<1>8. CASE UpEnqueue
  BY <1>8 DEF UpEnqueue, NextPacket
<1>9. ASSUME NEW p \in Packet, DownReceive(p)
      PROVE  MutexHeld'
  BY <1>9 DEF DownReceive
<1>10. ASSUME NEW e \in table, DownHit(e)
      PROVE  MutexHeld'
  BY <1>10 DEF DownHit, LockCipher
<1>11. CASE DownDrop
  BY <1>11 DEF DownDrop, NextPacket
<1>12. CASE DownEnqueue
  BY <1>12 DEF DownEnqueue, NextPacket
<1>13. ASSUME NEW t \in Reader, Crypt(t)
      PROVE  MutexHeld'
  BY <1>13 DEF Crypt
<1>14. ASSUME NEW t \in Reader, Unlock(t)
      PROVE  MutexHeld'
  BY <1>14 DEF Unlock
<1>15. ASSUME NEW t \in Reader, Signal(t)
      PROVE  MutexHeld'
  BY <1>15 DEF Signal, AfterUnlock, Woken
<1>16. ASSUME NEW t \in Reader, SignalFreed(t)
      PROVE  MutexHeld'
  BY <1>16 DEF SignalFreed, AfterUnlock
<1>17. ASSUME NEW t \in Reader, RemoveMiss(t)
      PROVE  MutexHeld'
  BY <1>17 DEF RemoveMiss
<1>18. ASSUME NEW t \in Reader, NEW e \in table, RemoveHit(t, e)
      PROVE  MutexHeld'
  BY <1>18, NoneAssumption DEF RemoveHit
<1>19. ASSUME NEW t \in Reader, DestroyWait(t) \/ SpuriousDestroy(t)
      PROVE  MutexHeld'
  BY <1>19 DEF DestroyWait, SpuriousDestroy
<1>20. ASSUME NEW t \in Reader, Destroy(t)
      PROVE  MutexHeld'
  BY <1>20, NoneAssumption DEF Destroy, Referenced
<1>21. CASE UNCHANGED mmvars
  BY <1>21 DEF mmvars
<1>22. QED
  BY <1>1, <1>2, <1>3, <1>4, <1>5, <1>6, <1>7, <1>8, <1>9, <1>10, <1>11, <1>12, <1>13, <1>14, <1>15, <1>16, <1>17, <1>18, <1>19, <1>20, <1>21
     DEF MMNext, MMStep, Dead, Up, Down, UseCipher, RemoveChannel

(* Ids and ciphers stay unique, and only a cipher that leaves the table is *)
(* freed.                                                                  *)
LEMMA NextTable == IInv /\ [MMNext]_mmvars => TableConsistent'
<1> SUFFICES ASSUME IInv, [MMNext]_mmvars PROVE TableConsistent'
  OBVIOUS
<1> USE DEF IInv, MMTypeOK, LocalsDefined, list, local, ghost, GoTo, Reader, MutexHeld, Destroying, TableConsistent, FreshChannel, DyingInTable
<1>1. ASSUME NEW p \in Packet, UpReceive(p)
      PROVE  TableConsistent'
  BY <1>1 DEF UpReceive, PrevSends
<1>2. ASSUME NEW e \in table, UpHit(e)
      PROVE  TableConsistent'
  BY <1>2 DEF UpHit, LockCipher
<1>3. ASSUME NEW c \in Ciphers, UpCreate(c)
      PROVE  TableConsistent'
  BY <1>3 DEF UpCreate
<1>4. ASSUME NEW o \in Channels, UpAdd(o)
      PROVE  TableConsistent'
  BY <1>4 DEF UpAdd, UnusedOut, Outs
<1>5. CASE UpDrop
  BY <1>5 DEF UpDrop, NextPacket
<1>6. CASE UpReject
  BY <1>6 DEF UpReject, NextPacket
<1>7. CASE UpAnnounce
  BY <1>7 DEF UpAnnounce, NextPacket
<1>8. CASE UpEnqueue
  BY <1>8 DEF UpEnqueue, NextPacket
<1>9. ASSUME NEW p \in Packet, DownReceive(p)
      PROVE  TableConsistent'
  BY <1>9 DEF DownReceive
<1>10. ASSUME NEW e \in table, DownHit(e)
      PROVE  TableConsistent'
  BY <1>10 DEF DownHit, LockCipher
<1>11. CASE DownDrop
  BY <1>11 DEF DownDrop, NextPacket
<1>12. CASE DownEnqueue
  BY <1>12 DEF DownEnqueue, NextPacket
<1>13. ASSUME NEW t \in Reader, Crypt(t)
      PROVE  TableConsistent'
  BY <1>13 DEF Crypt
<1>14. ASSUME NEW t \in Reader, Unlock(t)
      PROVE  TableConsistent'
  BY <1>14 DEF Unlock
<1>15. ASSUME NEW t \in Reader, Signal(t)
      PROVE  TableConsistent'
  BY <1>15 DEF Signal, AfterUnlock, Woken
<1>16. ASSUME NEW t \in Reader, SignalFreed(t)
      PROVE  TableConsistent'
  BY <1>16 DEF SignalFreed, AfterUnlock
<1>17. ASSUME NEW t \in Reader, RemoveMiss(t)
      PROVE  TableConsistent'
  BY <1>17 DEF RemoveMiss
<1>18. ASSUME NEW t \in Reader, NEW e \in table, RemoveHit(t, e)
      PROVE  TableConsistent'
  BY <1>18 DEF RemoveHit
<1>19. ASSUME NEW t \in Reader, DestroyWait(t) \/ SpuriousDestroy(t)
      PROVE  TableConsistent'
  BY <1>19 DEF DestroyWait, SpuriousDestroy
<1>20. ASSUME NEW t \in Reader, Destroy(t)
      PROVE  TableConsistent'
  BY <1>20 DEF Destroy, Referenced
<1>21. CASE UNCHANGED mmvars
  BY <1>21 DEF mmvars
<1>22. QED
  BY <1>1, <1>2, <1>3, <1>4, <1>5, <1>6, <1>7, <1>8, <1>9, <1>10, <1>11, <1>12, <1>13, <1>14, <1>15, <1>16, <1>17, <1>18, <1>19, <1>20, <1>21
     DEF MMNext, MMStep, Dead, Up, Down, UseCipher, RemoveChannel

(* An entry stays in the list while its cipher is being destroyed, and no  *)
(* channel appears between the lookup that missed and add().               *)
LEMMA NextDying == IInv /\ [MMNext]_mmvars => DyingInTable' /\ FreshChannel'
<1> SUFFICES ASSUME IInv, [MMNext]_mmvars PROVE DyingInTable' /\ FreshChannel'
  OBVIOUS
<1> USE DEF IInv, MMTypeOK, LocalsDefined, list, local, ghost, GoTo, Reader, MutexHeld, Destroying, TableConsistent, FreshChannel, DyingInTable, RemoveKey
<1>1. ASSUME NEW p \in Packet, UpReceive(p)
      PROVE  DyingInTable' /\ FreshChannel'
  BY <1>1 DEF UpReceive, PrevSends
<1>2. ASSUME NEW e \in table, UpHit(e)
      PROVE  DyingInTable' /\ FreshChannel'
  BY <1>2 DEF UpHit, LockCipher
<1>3. ASSUME NEW c \in Ciphers, UpCreate(c)
      PROVE  DyingInTable' /\ FreshChannel'
  BY <1>3 DEF UpCreate, Ins
<1>4. ASSUME NEW o \in Channels, UpAdd(o)
      PROVE  DyingInTable' /\ FreshChannel'
  BY <1>4 DEF UpAdd, UnusedOut
<1>5. CASE UpDrop
  BY <1>5 DEF UpDrop, NextPacket
<1>6. CASE UpReject
  BY <1>6 DEF UpReject, NextPacket
<1>7. CASE UpAnnounce
  BY <1>7 DEF UpAnnounce, NextPacket
<1>8. CASE UpEnqueue
  BY <1>8 DEF UpEnqueue, NextPacket
<1>9. ASSUME NEW p \in Packet, DownReceive(p)
      PROVE  DyingInTable' /\ FreshChannel'
  BY <1>9 DEF DownReceive
<1>10. ASSUME NEW e \in table, DownHit(e)
      PROVE  DyingInTable' /\ FreshChannel'
  BY <1>10 DEF DownHit, LockCipher
<1>11. CASE DownDrop
  BY <1>11 DEF DownDrop, NextPacket
<1>12. CASE DownEnqueue
  BY <1>12 DEF DownEnqueue, NextPacket
<1>13. ASSUME NEW t \in Reader, Crypt(t)
      PROVE  DyingInTable' /\ FreshChannel'
  BY <1>13 DEF Crypt
<1>14. ASSUME NEW t \in Reader, Unlock(t)
      PROVE  DyingInTable' /\ FreshChannel'
  BY <1>14 DEF Unlock
<1>15. ASSUME NEW t \in Reader, Signal(t)
      PROVE  DyingInTable' /\ FreshChannel'
  BY <1>15 DEF Signal, AfterUnlock, Woken
<1>16. ASSUME NEW t \in Reader, SignalFreed(t)
      PROVE  DyingInTable' /\ FreshChannel'
  BY <1>16 DEF SignalFreed, AfterUnlock
<1>17. ASSUME NEW t \in Reader, RemoveMiss(t)
      PROVE  DyingInTable' /\ FreshChannel'
  BY <1>17 DEF RemoveMiss
<1>18. ASSUME NEW t \in Reader, NEW e \in table, RemoveHit(t, e)
      PROVE  DyingInTable' /\ FreshChannel'
  BY <1>18 DEF RemoveHit
<1>19. ASSUME NEW t \in Reader, DestroyWait(t) \/ SpuriousDestroy(t)
      PROVE  DyingInTable' /\ FreshChannel'
  BY <1>19 DEF DestroyWait, SpuriousDestroy
<1>20. ASSUME NEW t \in Reader, Destroy(t)
      PROVE  DyingInTable' /\ FreshChannel'
  BY <1>20 DEF Destroy, Referenced
<1>21. CASE UNCHANGED mmvars
  BY <1>21 DEF mmvars
<1>22. QED
  BY <1>1, <1>2, <1>3, <1>4, <1>5, <1>6, <1>7, <1>8, <1>9, <1>10, <1>11, <1>12, <1>13, <1>14, <1>15, <1>16, <1>17, <1>18, <1>19, <1>20, <1>21
     DEF MMNext, MMStep, Dead, Up, Down, UseCipher, RemoveChannel

(* The count is one plus the readers between lock() and unlock(); hence a  *)
(* destructor that has seen the count at one takes no reader's cipher.     *)
LEMMA NextRefs == IInv /\ [MMNext]_mmvars => RefsExact' /\ HeldCipherLives'
<1> SUFFICES ASSUME IInv, [MMNext]_mmvars PROVE RefsExact' /\ HeldCipherLives'
  OBVIOUS
<1> USE DEF IInv, MMTypeOK, LocalsDefined, list, local, ghost, GoTo, Reader, MutexHeld, Destroying, TableConsistent, FreshChannel, DyingInTable, HeldCipherLives, RefsExact, Uses, Holding
<1>1. ASSUME NEW p \in Packet, UpReceive(p)
      PROVE  RefsExact' /\ HeldCipherLives'
  BY <1>1 DEF UpReceive, PrevSends
<1>2. ASSUME NEW e \in table, UpHit(e)
      PROVE  RefsExact' /\ HeldCipherLives'
  BY <1>2 DEF UpHit, LockCipher
<1>3. ASSUME NEW c \in Ciphers, UpCreate(c)
      PROVE  RefsExact' /\ HeldCipherLives'
  BY <1>3 DEF UpCreate
<1>4. ASSUME NEW o \in Channels, UpAdd(o)
      PROVE  RefsExact' /\ HeldCipherLives'
  BY <1>4 DEF UpAdd, UnusedOut
<1>5. CASE UpDrop
  BY <1>5 DEF UpDrop, NextPacket
<1>6. CASE UpReject
  BY <1>6 DEF UpReject, NextPacket
<1>7. CASE UpAnnounce
  BY <1>7 DEF UpAnnounce, NextPacket
<1>8. CASE UpEnqueue
  BY <1>8 DEF UpEnqueue, NextPacket
<1>9. ASSUME NEW p \in Packet, DownReceive(p)
      PROVE  RefsExact' /\ HeldCipherLives'
  BY <1>9 DEF DownReceive
<1>10. ASSUME NEW e \in table, DownHit(e)
      PROVE  RefsExact' /\ HeldCipherLives'
  BY <1>10 DEF DownHit, LockCipher
<1>11. CASE DownDrop
  BY <1>11 DEF DownDrop, NextPacket
<1>12. CASE DownEnqueue
  BY <1>12 DEF DownEnqueue, NextPacket
<1>13. ASSUME NEW t \in Reader, Crypt(t)
      PROVE  RefsExact' /\ HeldCipherLives'
  BY <1>13 DEF Crypt
<1>14. ASSUME NEW t \in Reader, Unlock(t)
      PROVE  RefsExact' /\ HeldCipherLives'
  BY <1>14 DEF Unlock
<1>15. ASSUME NEW t \in Reader, Signal(t)
      PROVE  RefsExact' /\ HeldCipherLives'
  BY <1>15 DEF Signal, AfterUnlock, Woken
<1>16. ASSUME NEW t \in Reader, SignalFreed(t)
      PROVE  RefsExact' /\ HeldCipherLives'
  BY <1>16 DEF SignalFreed, AfterUnlock
<1>17. ASSUME NEW t \in Reader, RemoveMiss(t)
      PROVE  RefsExact' /\ HeldCipherLives'
  BY <1>17 DEF RemoveMiss
<1>18. ASSUME NEW t \in Reader, NEW e \in table, RemoveHit(t, e)
      PROVE  RefsExact' /\ HeldCipherLives'
  BY <1>18 DEF RemoveHit
<1>19. ASSUME NEW t \in Reader, DestroyWait(t) \/ SpuriousDestroy(t)
      PROVE  RefsExact' /\ HeldCipherLives'
  BY <1>19 DEF DestroyWait, SpuriousDestroy
<1>20. ASSUME NEW t \in Reader, Destroy(t)
      PROVE  RefsExact' /\ HeldCipherLives'
  BY <1>20 DEF Destroy, Referenced
<1>21. CASE UNCHANGED mmvars
  BY <1>21 DEF mmvars
<1>22. QED
  BY <1>1, <1>2, <1>3, <1>4, <1>5, <1>6, <1>7, <1>8, <1>9, <1>10, <1>11, <1>12, <1>13, <1>14, <1>15, <1>16, <1>17, <1>18, <1>19, <1>20, <1>21
     DEF MMNext, MMStep, Dead, Up, Down, UseCipher, RemoveChannel

(* The inductive invariant holds in every reachable state.                 *)
LEMMA Invariance == MMSpec => []IInv
<1>1. IInv /\ [MMNext]_mmvars => IInv'
  BY NextType, NextMutex, NextTable, NextDying, NextRefs DEF IInv
<1>2. QED
  BY InitIInv, <1>1, PTL DEF MMSpec

-----------------------------------------------------------------------------
(* Type correctness of the middle mix's channel table and its readers.     *)
THEOREM TypeCorrect == MMSpec => []MMTypeOK
<1>1. IInv => MMTypeOK
  BY DEF IInv
<1>2. QED
  BY Invariance, <1>1, PTL

(* CAMiddleMixChannelList: the two hash tables are one bijection between   *)
(* incoming and outgoing ids, and every entry owns a live cipher.          *)
THEOREM TableIsConsistent == MMSpec => []TableConsistent
<1>1. IInv => TableConsistent
  BY DEF IInv
<1>2. QED
  BY Invariance, <1>1, PTL

(* CALockAble: a cipher is not destroyed between a reader's lock() and the *)
(* decrement of its unlock(), although remove() does not take that lock.   *)
THEOREM HeldCiphersLive == MMSpec => []HeldCipherLives
<1>1. IInv => HeldCipherLives
  BY DEF IInv
<1>2. QED
  BY Invariance, <1>1, PTL

-----------------------------------------------------------------------------
(* The views of the neighbours, if no id is drawn twice: what a reader     *)
(* knows of its channel stays true until it has forwarded the packet,      *)
(* since nobody adds a channel with one of the two ids again.              *)

(* The stages at which a reader knows both ids of its packet's channel.    *)
Knowing == Hit \cup {"enqueue"}

InOf(t)  == IF t = "up" THEN pkt[t].chan ELSE mate[t]
OutOf(t) == IF t = "up" THEN mate[t] ELSE pkt[t].chan

(* Every id in the table has been used; the outgoing one of a channel that *)
(* is being opened is not known to the next mix yet.                       *)
IdsUsed ==
  /\ prevOpen \subseteq usedIn /\ nextOpen \subseteq usedOut
  /\ \A e \in table : /\ e.in \in usedIn
                      /\ e.out \in usedOut \/ (stage["up"] = "announce" /\ mate["up"] = e.out)
  /\ stage["up"] = "announce" => mate["up"] \in Outs \ usedOut
  /\ stage["up"] = "add" => Opens(pkt["up"])
  /\ stage["up"] \in Knowing => ~Opens(pkt["up"])
  /\ stage["down"] # "idle" => pkt["down"].chan \in usedOut

(* An id that has just been drawn belongs to no entry, the other reader    *)
(* does not know it, and the previous mix has it open.                     *)
Drawn == stage["up"] \in {"lookup", "add"} /\ Opens(pkt["up"])
DrawnIsNew ==
  Drawn => /\ pkt["up"].chan \in usedIn \cap prevOpen /\ pkt["up"].chan \notin Ins
           /\ stage["down"] \in Knowing => mate["down"] # pkt["up"].chan

(* Both ids a reader knows have been used, and belong to one entry or to   *)
(* none any more.                                                          *)
PairKept ==
  \A t \in Reader : stage[t] \in Knowing =>
    /\ InOf(t) \in usedIn /\ OutOf(t) \in usedOut
    /\ \A e \in table : e.in = InOf(t) <=> e.out = OutOf(t)

(* A reader removes a channel for a CLOSE only, and has removed it when it *)
(* forwards the CLOSE.                                                     *)
RemovedByClose ==
  \A t \in Reader :
    /\ stage[t] \in {"remove", "destroy", "waiting"} => Closes(t)
    /\ Closing(t, {"enqueue"}) => InOf(t) \notin Ins

(* Who has sent a CLOSE holds the channel closed.                          *)
ClosersKnow ==
  /\ Closing("up", Knowing \cup {"lookup"}) /\ ~Opens(pkt["up"]) => pkt["up"].chan \notin prevOpen
  /\ Closing("down", PC \ {"idle"}) => pkt["down"].chan \notin nextOpen

ViewsInv ==
  IdsUsed /\ DrawnIsNew /\ PairKept /\ RemovedByClose /\ ClosersKnow /\ NoOrphan /\ NoLeakedEntry

(* Ids stay within what has been used.                                     *)
LEMMA NextIds == ~IdReuse /\ IInv /\ ViewsInv /\ [MMNext]_mmvars => IdsUsed'
<1> SUFFICES ASSUME ~IdReuse, IInv, ViewsInv, [MMNext]_mmvars PROVE IdsUsed'
  OBVIOUS
<1> USE DEF IInv, ViewsInv, MMTypeOK, LocalsDefined, list, local, ghost, GoTo, Reader,
   PC, Opens, IdsUsed, PairKept, InOf, OutOf, Knowing, Hit, TableConsistent, Ins, Outs,
   MutexHeld, Destroying
<1>1. ASSUME NEW p \in Packet, UpReceive(p) PROVE IdsUsed'
  <2>1. /\ stage["up"] = "idle" /\ stage' = [stage EXCEPT !["up"] = "lookup"]
        /\ pkt'["down"] = pkt["down"] /\ UNCHANGED <<table, mate, nextOpen, usedOut>>
    BY <1>1 DEF UpReceive
  <2>2. prevOpen' \subseteq usedIn' /\ usedIn \subseteq usedIn'
    BY <1>1 DEF UpReceive, PrevSends
  <2>3. stage'["up"] = "lookup" /\ stage'["down"] = stage["down"]
    BY <2>1
  <2>4. \A e \in table' : e.in \in usedIn' /\ e.out \in usedOut'
    BY <2>1, <2>2
  <2>5. stage'["down"] # "idle" => pkt'["down"].chan \in usedOut'
    BY <2>1, <2>3
  <2> QED BY ONLY <2>1, <2>2, <2>3, <2>4, <2>5, nextOpen \subseteq usedOut DEF IdsUsed, Knowing, Hit
<1>2. ASSUME NEW e \in table, UpHit(e) PROVE IdsUsed'
  BY <1>2 DEF UpHit, LockCipher, Entry, Drawn, DrawnIsNew
<1>3. ASSUME NEW c \in Ciphers, UpCreate(c) PROVE IdsUsed'
  BY <1>3 DEF UpCreate, Opens
<1>4. ASSUME NEW o \in Channels, UpAdd(o) PROVE IdsUsed'
  <2> DEFINE n == [in |-> pkt["up"].chan, out |-> o, cipher |-> cipher["up"]]
  <2>1. table' = table \cup {n} /\ n.in = pkt["up"].chan /\ n.out = o
    BY <1>4 DEF UpAdd
  <2> HIDE DEF n
  <2>2. Outs' = Outs \cup {o} /\ Ins' = Ins \cup {pkt["up"].chan}
    BY <2>1
  <2>3. /\ stage' = [stage EXCEPT !["up"] = "announce"] /\ mate' = [mate EXCEPT !["up"] = o]
        /\ UNCHANGED <<pkt, prevOpen, nextOpen, usedIn, usedOut>>
        /\ stage["up"] = "add" /\ o \notin usedOut /\ pkt["up"].chan \in usedIn
    BY <1>4 DEF UpAdd, DrawnIsNew, Drawn
  <2> HIDE DEF Ins, Outs
  <2> QED BY <2>1, <2>2, <2>3
<1>5. CASE UpDrop
  BY <1>5 DEF UpDrop, Opens, NextPacket
<1>6. CASE UpReject
  BY <1>6 DEF UpReject, Opens, NextPacket
<1>7. CASE UpAnnounce
  BY <1>7 DEF UpAnnounce, NextPacket
<1>8. CASE UpEnqueue
  BY <1>8 DEF UpEnqueue, NextPacket
<1>9. ASSUME NEW p \in Packet, DownReceive(p) PROVE IdsUsed'
  BY <1>9 DEF DownReceive, Packet
<1>10. ASSUME NEW e \in table, DownHit(e) PROVE IdsUsed'
  BY <1>10 DEF DownHit, LockCipher, Entry
<1>11. CASE DownDrop
  BY <1>11 DEF DownDrop, NextPacket
<1>12. CASE DownEnqueue
  BY <1>12 DEF DownEnqueue, NextPacket
<1>13. ASSUME NEW t \in Reader, Crypt(t) PROVE IdsUsed'
  BY <1>13 DEF Crypt
<1>14. ASSUME NEW t \in Reader, Unlock(t) PROVE IdsUsed'
  BY <1>14 DEF Unlock
<1>15. ASSUME NEW t \in Reader, Signal(t) PROVE IdsUsed'
  BY <1>15 DEF Signal, AfterUnlock, Woken
<1>16. ASSUME NEW t \in Reader, SignalFreed(t) PROVE IdsUsed'
  BY <1>16 DEF SignalFreed, AfterUnlock
<1>17. ASSUME NEW t \in Reader, RemoveMiss(t) PROVE IdsUsed'
  BY <1>17 DEF RemoveMiss, RemoveKey
<1>18. ASSUME NEW t \in Reader, NEW e \in table, RemoveHit(t, e) PROVE IdsUsed'
  BY <1>18 DEF RemoveHit
<1>19. ASSUME NEW t \in Reader, DestroyWait(t) \/ SpuriousDestroy(t) PROVE IdsUsed'
  BY <1>19 DEF DestroyWait, SpuriousDestroy
<1>20. ASSUME NEW t \in Reader, Destroy(t) PROVE IdsUsed'
  BY <1>20 DEF Destroy, RemoveKey
<1>21. CASE UNCHANGED mmvars
  BY <1>21 DEF mmvars
<1> QED BY <1>1, <1>2, <1>3, <1>4, <1>5, <1>6, <1>7, <1>8, <1>9, <1>10, <1>11,
   <1>12, <1>13, <1>14, <1>15, <1>16, <1>17, <1>18, <1>19, <1>20, <1>21
     DEF MMNext, MMStep, Dead, Up, Down, UseCipher, RemoveChannel

(* Only the upstream reader adds channels, under the id it has drawn.      *)
LEMMA NextDrawn == ~IdReuse /\ IInv /\ ViewsInv /\ [MMNext]_mmvars => DrawnIsNew'
<1> SUFFICES ASSUME ~IdReuse, IInv, ViewsInv, [MMNext]_mmvars PROVE DrawnIsNew'
  OBVIOUS
<1> USE DEF IInv, ViewsInv, MMTypeOK, LocalsDefined, list, local, ghost, GoTo, Reader,
   PC, Opens, Drawn, DrawnIsNew, PairKept, InOf, OutOf, Knowing, Hit, IdsUsed, TableConsistent, Ins, Outs
<1>1. ASSUME NEW p \in Packet, UpReceive(p) PROVE DrawnIsNew'
  BY <1>1 DEF UpReceive, PrevSends, Opens, Packet
<1>2. ASSUME NEW e \in table, UpHit(e) PROVE DrawnIsNew'
  BY <1>2 DEF UpHit, LockCipher, Entry
<1>3. ASSUME NEW c \in Ciphers, UpCreate(c) PROVE DrawnIsNew'
  BY <1>3 DEF UpCreate, Opens
<1>4. ASSUME NEW o \in Channels, UpAdd(o) PROVE DrawnIsNew'
  BY <1>4 DEF UpAdd, UnusedOut, FreshChannel
<1>5. CASE UpDrop
  BY <1>5 DEF UpDrop, Opens, NextPacket
<1>6. CASE UpReject
  BY <1>6 DEF UpReject, Opens, NextPacket
<1>7. CASE UpAnnounce
  BY <1>7 DEF UpAnnounce, NextPacket
<1>8. CASE UpEnqueue
  BY <1>8 DEF UpEnqueue, NextPacket
<1>9. ASSUME NEW p \in Packet, DownReceive(p) PROVE DrawnIsNew'
  BY <1>9 DEF DownReceive, Packet
<1>10. ASSUME NEW e \in table, DownHit(e) PROVE DrawnIsNew'
  BY <1>10 DEF DownHit, LockCipher, Entry
<1>11. CASE DownDrop
  BY <1>11 DEF DownDrop, NextPacket
<1>12. CASE DownEnqueue
  BY <1>12 DEF DownEnqueue, NextPacket
<1>13. ASSUME NEW t \in Reader, Crypt(t) PROVE DrawnIsNew'
  BY <1>13 DEF Crypt
<1>14. ASSUME NEW t \in Reader, Unlock(t) PROVE DrawnIsNew'
  BY <1>14 DEF Unlock
<1>15. ASSUME NEW t \in Reader, Signal(t) PROVE DrawnIsNew'
  BY <1>15 DEF Signal, AfterUnlock, Woken
<1>16. ASSUME NEW t \in Reader, SignalFreed(t) PROVE DrawnIsNew'
  BY <1>16 DEF SignalFreed, AfterUnlock
<1>17. ASSUME NEW t \in Reader, RemoveMiss(t) PROVE DrawnIsNew'
  BY <1>17 DEF RemoveMiss, RemoveKey
<1>18. ASSUME NEW t \in Reader, NEW e \in table, RemoveHit(t, e) PROVE DrawnIsNew'
  BY <1>18 DEF RemoveHit
<1>19. ASSUME NEW t \in Reader, DestroyWait(t) \/ SpuriousDestroy(t) PROVE DrawnIsNew'
  BY <1>19 DEF DestroyWait, SpuriousDestroy
<1>20. ASSUME NEW t \in Reader, Destroy(t) PROVE DrawnIsNew'
  BY <1>20 DEF Destroy, RemoveKey
<1>21. CASE UNCHANGED mmvars
  BY <1>21 DEF mmvars
<1> QED BY <1>1, <1>2, <1>3, <1>4, <1>5, <1>6, <1>7, <1>8, <1>9, <1>10, <1>11,
   <1>12, <1>13, <1>14, <1>15, <1>16, <1>17, <1>18, <1>19, <1>20, <1>21
     DEF MMNext, MMStep, Dead, Up, Down, UseCipher, RemoveChannel

(* The ids of a packet's channel are not given to another channel.         *)
LEMMA NextPair == ~IdReuse /\ IInv /\ ViewsInv /\ [MMNext]_mmvars => PairKept'
<1> SUFFICES ASSUME ~IdReuse, IInv, ViewsInv, [MMNext]_mmvars PROVE PairKept'
  OBVIOUS
<1> USE DEF IInv, ViewsInv, MMTypeOK, LocalsDefined, list, local, ghost, GoTo, Reader,
   PC, Opens, Drawn, DrawnIsNew, PairKept, InOf, OutOf, Knowing, Hit, IdsUsed, TableConsistent, Ins, Outs
<1>1. ASSUME NEW p \in Packet, UpReceive(p) PROVE PairKept'
  BY <1>1 DEF UpReceive, PrevSends, Opens, Packet
<1>2. ASSUME NEW e \in table, UpHit(e) PROVE PairKept'
  BY <1>2 DEF UpHit, LockCipher, Entry
<1>3. ASSUME NEW c \in Ciphers, UpCreate(c) PROVE PairKept'
  BY <1>3 DEF UpCreate, Opens
<1>4. ASSUME NEW o \in Channels, UpAdd(o) PROVE PairKept'
  BY <1>4 DEF UpAdd, UnusedOut, FreshChannel
<1>5. CASE UpDrop
  BY <1>5 DEF UpDrop, Opens, NextPacket
<1>6. CASE UpReject
  BY <1>6 DEF UpReject, Opens, NextPacket
<1>7. CASE UpAnnounce
  BY <1>7 DEF UpAnnounce, NextPacket
<1>8. CASE UpEnqueue
  BY <1>8 DEF UpEnqueue, NextPacket
<1>9. ASSUME NEW p \in Packet, DownReceive(p) PROVE PairKept'
  BY <1>9 DEF DownReceive, Packet
<1>10. ASSUME NEW e \in table, DownHit(e) PROVE PairKept'
  BY <1>10 DEF DownHit, LockCipher, Entry
<1>11. CASE DownDrop
  BY <1>11 DEF DownDrop, NextPacket
<1>12. CASE DownEnqueue
  BY <1>12 DEF DownEnqueue, NextPacket
<1>13. ASSUME NEW t \in Reader, Crypt(t) PROVE PairKept'
  BY <1>13 DEF Crypt
<1>14. ASSUME NEW t \in Reader, Unlock(t) PROVE PairKept'
  BY <1>14 DEF Unlock
<1>15. ASSUME NEW t \in Reader, Signal(t) PROVE PairKept'
  BY <1>15 DEF Signal, AfterUnlock, Woken
<1>16. ASSUME NEW t \in Reader, SignalFreed(t) PROVE PairKept'
  BY <1>16 DEF SignalFreed, AfterUnlock
<1>17. ASSUME NEW t \in Reader, RemoveMiss(t) PROVE PairKept'
  BY <1>17 DEF RemoveMiss, RemoveKey
<1>18. ASSUME NEW t \in Reader, NEW e \in table, RemoveHit(t, e) PROVE PairKept'
  BY <1>18 DEF RemoveHit
<1>19. ASSUME NEW t \in Reader, DestroyWait(t) \/ SpuriousDestroy(t) PROVE PairKept'
  BY <1>19 DEF DestroyWait, SpuriousDestroy
<1>20. ASSUME NEW t \in Reader, Destroy(t) PROVE PairKept'
  BY <1>20 DEF Destroy, RemoveKey
<1>21. CASE UNCHANGED mmvars
  BY <1>21 DEF mmvars
<1> QED BY <1>1, <1>2, <1>3, <1>4, <1>5, <1>6, <1>7, <1>8, <1>9, <1>10, <1>11,
   <1>12, <1>13, <1>14, <1>15, <1>16, <1>17, <1>18, <1>19, <1>20, <1>21
     DEF MMNext, MMStep, Dead, Up, Down, UseCipher, RemoveChannel

(* Between the removal and the forwarding of the CLOSE no channel gets the id. *)
LEMMA NextRemoved == ~IdReuse /\ IInv /\ ViewsInv /\ [MMNext]_mmvars => RemovedByClose'
<1> SUFFICES ASSUME ~IdReuse, IInv, ViewsInv, [MMNext]_mmvars PROVE RemovedByClose'
  OBVIOUS
<1> USE DEF IInv, ViewsInv, MMTypeOK, LocalsDefined, list, local, ghost, GoTo, Reader,
   PC, Opens, Drawn, DrawnIsNew, RemovedByClose, PairKept, InOf, OutOf, Knowing, Hit, IdsUsed, Closing,
   Closes, Ins, MutexHeld, Destroying
<1>1. ASSUME NEW p \in Packet, UpReceive(p) PROVE RemovedByClose'
  BY <1>1 DEF UpReceive, PrevSends, Opens, Packet
<1>2. ASSUME NEW e \in table, UpHit(e) PROVE RemovedByClose'
  BY <1>2 DEF UpHit, LockCipher, Entry
<1>3. ASSUME NEW c \in Ciphers, UpCreate(c) PROVE RemovedByClose'
  BY <1>3 DEF UpCreate, Opens
<1>4. ASSUME NEW o \in Channels, UpAdd(o) PROVE RemovedByClose'
  BY <1>4 DEF UpAdd, UnusedOut, FreshChannel
<1>5. CASE UpDrop
  BY <1>5 DEF UpDrop, Opens, NextPacket
<1>6. CASE UpReject
  BY <1>6 DEF UpReject, Opens, NextPacket
<1>7. CASE UpAnnounce
  BY <1>7 DEF UpAnnounce, NextPacket
<1>8. CASE UpEnqueue
  BY <1>8 DEF UpEnqueue, NextPacket
<1>9. ASSUME NEW p \in Packet, DownReceive(p) PROVE RemovedByClose'
  BY <1>9 DEF DownReceive, Packet
<1>10. ASSUME NEW e \in table, DownHit(e) PROVE RemovedByClose'
  BY <1>10 DEF DownHit, LockCipher, Entry
<1>11. CASE DownDrop
  BY <1>11 DEF DownDrop, NextPacket
<1>12. CASE DownEnqueue
  BY <1>12 DEF DownEnqueue, NextPacket
<1>13. ASSUME NEW t \in Reader, Crypt(t) PROVE RemovedByClose'
  BY <1>13 DEF Crypt
<1>14. ASSUME NEW t \in Reader, Unlock(t) PROVE RemovedByClose'
  BY <1>14 DEF Unlock
<1>15. ASSUME NEW t \in Reader, Signal(t) PROVE RemovedByClose'
  BY <1>15 DEF Signal, AfterUnlock, Woken
<1>16. ASSUME NEW t \in Reader, SignalFreed(t) PROVE RemovedByClose'
  BY <1>16 DEF SignalFreed, AfterUnlock
<1>17. ASSUME NEW t \in Reader, RemoveMiss(t) PROVE RemovedByClose'
  BY <1>17 DEF RemoveMiss, RemoveKey
<1>18. ASSUME NEW t \in Reader, NEW e \in table, RemoveHit(t, e) PROVE RemovedByClose'
  BY <1>18 DEF RemoveHit
<1>19. ASSUME NEW t \in Reader, DestroyWait(t) \/ SpuriousDestroy(t) PROVE RemovedByClose'
  BY <1>19 DEF DestroyWait, SpuriousDestroy
<1>20. ASSUME NEW t \in Reader, Destroy(t) PROVE RemovedByClose'
  BY <1>20 DEF Destroy, RemoveKey
<1>21. CASE UNCHANGED mmvars
  BY <1>21 DEF mmvars
<1> QED BY <1>1, <1>2, <1>3, <1>4, <1>5, <1>6, <1>7, <1>8, <1>9, <1>10, <1>11,
   <1>12, <1>13, <1>14, <1>15, <1>16, <1>17, <1>18, <1>19, <1>20, <1>21
     DEF MMNext, MMStep, Dead, Up, Down, UseCipher, RemoveChannel

(* A neighbour opens no channel under an id it has closed.                 *)
LEMMA NextClosers == ~IdReuse /\ IInv /\ ViewsInv /\ [MMNext]_mmvars => ClosersKnow'
<1> SUFFICES ASSUME ~IdReuse, IInv, ViewsInv, [MMNext]_mmvars PROVE ClosersKnow'
  OBVIOUS
<1> USE DEF IInv, ViewsInv, MMTypeOK, LocalsDefined, list, local, ghost, GoTo, Reader,
   PC, Opens, Drawn, DrawnIsNew, ClosersKnow, PairKept, InOf, OutOf, IdsUsed, Knowing, Hit, Closing, Closes,
   Ins, Outs
<1>1. ASSUME NEW p \in Packet, UpReceive(p) PROVE ClosersKnow'
  BY <1>1 DEF UpReceive, PrevSends, Opens, Packet
<1>2. ASSUME NEW e \in table, UpHit(e) PROVE ClosersKnow'
  BY <1>2 DEF UpHit, LockCipher, Entry
<1>3. ASSUME NEW c \in Ciphers, UpCreate(c) PROVE ClosersKnow'
  BY <1>3 DEF UpCreate, Opens
<1>4. ASSUME NEW o \in Channels, UpAdd(o) PROVE ClosersKnow'
  BY <1>4 DEF UpAdd, UnusedOut, FreshChannel
<1>5. CASE UpDrop
  BY <1>5 DEF UpDrop, Opens, NextPacket
<1>6. CASE UpReject
  BY <1>6 DEF UpReject, Opens, NextPacket
<1>7. CASE UpAnnounce
  BY <1>7 DEF UpAnnounce, NextPacket
<1>8. CASE UpEnqueue
  BY <1>8 DEF UpEnqueue, NextPacket
<1>9. ASSUME NEW p \in Packet, DownReceive(p) PROVE ClosersKnow'
  BY <1>9 DEF DownReceive, Packet
<1>10. ASSUME NEW e \in table, DownHit(e) PROVE ClosersKnow'
  BY <1>10 DEF DownHit, LockCipher, Entry
<1>11. CASE DownDrop
  BY <1>11 DEF DownDrop, NextPacket
<1>12. CASE DownEnqueue
  BY <1>12 DEF DownEnqueue, NextPacket
<1>13. ASSUME NEW t \in Reader, Crypt(t) PROVE ClosersKnow'
  BY <1>13 DEF Crypt
<1>14. ASSUME NEW t \in Reader, Unlock(t) PROVE ClosersKnow'
  BY <1>14 DEF Unlock
<1>15. ASSUME NEW t \in Reader, Signal(t) PROVE ClosersKnow'
  BY <1>15 DEF Signal, AfterUnlock, Woken
<1>16. ASSUME NEW t \in Reader, SignalFreed(t) PROVE ClosersKnow'
  BY <1>16 DEF SignalFreed, AfterUnlock
<1>17. ASSUME NEW t \in Reader, RemoveMiss(t) PROVE ClosersKnow'
  BY <1>17 DEF RemoveMiss, RemoveKey
<1>18. ASSUME NEW t \in Reader, NEW e \in table, RemoveHit(t, e) PROVE ClosersKnow'
  BY <1>18 DEF RemoveHit
<1>19. ASSUME NEW t \in Reader, DestroyWait(t) \/ SpuriousDestroy(t) PROVE ClosersKnow'
  BY <1>19 DEF DestroyWait, SpuriousDestroy
<1>20. ASSUME NEW t \in Reader, Destroy(t) PROVE ClosersKnow'
  BY <1>20 DEF Destroy, RemoveKey
<1>21. CASE UNCHANGED mmvars
  BY <1>21 DEF mmvars
<1> QED BY <1>1, <1>2, <1>3, <1>4, <1>5, <1>6, <1>7, <1>8, <1>9, <1>10, <1>11,
   <1>12, <1>13, <1>14, <1>15, <1>16, <1>17, <1>18, <1>19, <1>20, <1>21
     DEF MMNext, MMStep, Dead, Up, Down, UseCipher, RemoveChannel

(* A removed channel is closed at both sides, or its CLOSE is being forwarded. *)
LEMMA NextOrphan == ~IdReuse /\ IInv /\ ViewsInv /\ [MMNext]_mmvars => NoOrphan'
<1> SUFFICES ASSUME ~IdReuse, IInv, ViewsInv, [MMNext]_mmvars PROVE NoOrphan'
  OBVIOUS
<1> USE DEF IInv, ViewsInv, MMTypeOK, LocalsDefined, list, local, ghost, GoTo, Reader,
   PC, Opens, NoOrphan, NoOrphanAtNext, NoOrphanAtPrev, ClosersKnow, RemovedByClose,
   PairKept, InOf, OutOf, IdsUsed, Knowing, Hit, Closing, Closes, Ins, Outs
<1>1. ASSUME NEW p \in Packet, UpReceive(p) PROVE NoOrphan'
  BY <1>1 DEF UpReceive, PrevSends, Opens, Packet
<1>2. ASSUME NEW e \in table, UpHit(e) PROVE NoOrphan'
  BY <1>2 DEF UpHit, LockCipher, Entry
<1>3. ASSUME NEW c \in Ciphers, UpCreate(c) PROVE NoOrphan'
  BY <1>3 DEF UpCreate, Opens
<1>4. ASSUME NEW o \in Channels, UpAdd(o) PROVE NoOrphan'
  <2> DEFINE n == [in |-> pkt["up"].chan, out |-> o, cipher |-> cipher["up"]]
  <2>1. table' = table \cup {n} /\ n.in = pkt["up"].chan /\ n.out = o
    BY <1>4 DEF UpAdd
  <2> HIDE DEF n
  <2>2. Outs' = Outs \cup {o} /\ Ins' = Ins \cup {pkt["up"].chan}
    BY <2>1
  <2>3. stage["up"] = "add" /\ nextOpen \subseteq Outs
    BY <1>4 DEF UpAdd
  <2>4. nextOpen' = nextOpen /\ prevOpen' = prevOpen /\ rejected' = rejected
    BY <1>4 DEF UpAdd
  <2>5. stage'["down"] = stage["down"] /\ mate'["down"] = mate["down"] /\ pkt' = pkt
    BY <1>4 DEF UpAdd
  <2> HIDE DEF Ins, Outs
  <2> QED BY <2>2, <2>3, <2>4, <2>5
<1>5. CASE UpDrop
  BY <1>5 DEF UpDrop, Opens, NextPacket
<1>6. CASE UpReject
  BY <1>6 DEF UpReject, Opens, NextPacket
<1>7. CASE UpAnnounce
  BY <1>7 DEF UpAnnounce, NextPacket
<1>8. CASE UpEnqueue
  BY <1>8 DEF UpEnqueue, NextPacket
<1>9. ASSUME NEW p \in Packet, DownReceive(p) PROVE NoOrphan'
  BY <1>9 DEF DownReceive, Packet
<1>10. ASSUME NEW e \in table, DownHit(e) PROVE NoOrphan'
  BY <1>10 DEF DownHit, LockCipher, Entry
<1>11. CASE DownDrop
  BY <1>11 DEF DownDrop, NextPacket
<1>12. CASE DownEnqueue
  BY <1>12 DEF DownEnqueue, NextPacket
<1>13. ASSUME NEW t \in Reader, Crypt(t) PROVE NoOrphan'
  BY <1>13 DEF Crypt
<1>14. ASSUME NEW t \in Reader, Unlock(t) PROVE NoOrphan'
  BY <1>14 DEF Unlock
<1>15. ASSUME NEW t \in Reader, Signal(t) PROVE NoOrphan'
  BY <1>15 DEF Signal, AfterUnlock, Woken
<1>16. ASSUME NEW t \in Reader, SignalFreed(t) PROVE NoOrphan'
  BY <1>16 DEF SignalFreed, AfterUnlock
<1>17. ASSUME NEW t \in Reader, RemoveMiss(t) PROVE NoOrphan'
  BY <1>17 DEF RemoveMiss, RemoveKey
<1>18. ASSUME NEW t \in Reader, NEW e \in table, RemoveHit(t, e) PROVE NoOrphan'
  BY <1>18 DEF RemoveHit
<1>19. ASSUME NEW t \in Reader, DestroyWait(t) \/ SpuriousDestroy(t) PROVE NoOrphan'
  BY <1>19 DEF DestroyWait, SpuriousDestroy
<1>20. ASSUME NEW t \in Reader, Destroy(t) PROVE NoOrphan'
  BY <1>20 DEF Destroy, RemoveKey
<1>21. CASE UNCHANGED mmvars
  BY <1>21 DEF mmvars
<1> QED BY <1>1, <1>2, <1>3, <1>4, <1>5, <1>6, <1>7, <1>8, <1>9, <1>10, <1>11,
   <1>12, <1>13, <1>14, <1>15, <1>16, <1>17, <1>18, <1>19, <1>20, <1>21
     DEF MMNext, MMStep, Dead, Up, Down, UseCipher, RemoveChannel

(* A channel a neighbour has closed is on its way out of the table.        *)
LEMMA NextLeaked == ~IdReuse /\ IInv /\ ViewsInv /\ [MMNext]_mmvars => NoLeakedEntry'
<1> SUFFICES ASSUME ~IdReuse, IInv, ViewsInv, [MMNext]_mmvars PROVE NoLeakedEntry'
  OBVIOUS
<1> USE DEF IInv, ViewsInv, MMTypeOK, LocalsDefined, list, local, ghost, GoTo, Reader,
   PC, Opens, Drawn, DrawnIsNew, TableConsistent, NoLeakedEntry, ClosersKnow, RemovedByClose, PairKept, InOf,
   OutOf, IdsUsed, Knowing, Hit, Closing, Closes, Ins, Outs
<1>1. ASSUME NEW p \in Packet, UpReceive(p) PROVE NoLeakedEntry'
  BY <1>1 DEF UpReceive, PrevSends, Opens, Packet
<1>2. ASSUME NEW e \in table, UpHit(e) PROVE NoLeakedEntry'
  BY <1>2 DEF UpHit, LockCipher, Entry
<1>3. ASSUME NEW c \in Ciphers, UpCreate(c) PROVE NoLeakedEntry'
  BY <1>3 DEF UpCreate, Opens
<1>4. ASSUME NEW o \in Channels, UpAdd(o) PROVE NoLeakedEntry'
  BY <1>4 DEF UpAdd, UnusedOut, FreshChannel
<1>5. CASE UpDrop
  BY <1>5 DEF UpDrop, Opens, NextPacket
<1>6. CASE UpReject
  BY <1>6 DEF UpReject, Opens, NextPacket
<1>7. CASE UpAnnounce
  BY <1>7 DEF UpAnnounce, NextPacket
<1>8. CASE UpEnqueue
  BY <1>8 DEF UpEnqueue, NextPacket
<1>9. ASSUME NEW p \in Packet, DownReceive(p) PROVE NoLeakedEntry'
  BY <1>9 DEF DownReceive, Packet
<1>10. ASSUME NEW e \in table, DownHit(e) PROVE NoLeakedEntry'
  BY <1>10 DEF DownHit, LockCipher, Entry
<1>11. CASE DownDrop
  BY <1>11 DEF DownDrop, NextPacket
<1>12. CASE DownEnqueue
  BY <1>12 DEF DownEnqueue, NextPacket
<1>13. ASSUME NEW t \in Reader, Crypt(t) PROVE NoLeakedEntry'
  BY <1>13 DEF Crypt
<1>14. ASSUME NEW t \in Reader, Unlock(t) PROVE NoLeakedEntry'
  BY <1>14 DEF Unlock
<1>15. ASSUME NEW t \in Reader, Signal(t) PROVE NoLeakedEntry'
  BY <1>15 DEF Signal, AfterUnlock, Woken
<1>16. ASSUME NEW t \in Reader, SignalFreed(t) PROVE NoLeakedEntry'
  BY <1>16 DEF SignalFreed, AfterUnlock
<1>17. ASSUME NEW t \in Reader, RemoveMiss(t) PROVE NoLeakedEntry'
  BY <1>17 DEF RemoveMiss, RemoveKey
<1>18. ASSUME NEW t \in Reader, NEW e \in table, RemoveHit(t, e) PROVE NoLeakedEntry'
  BY <1>18 DEF RemoveHit
<1>19. ASSUME NEW t \in Reader, DestroyWait(t) \/ SpuriousDestroy(t) PROVE NoLeakedEntry'
  BY <1>19 DEF DestroyWait, SpuriousDestroy
<1>20. ASSUME NEW t \in Reader, Destroy(t) PROVE NoLeakedEntry'
  BY <1>20 DEF Destroy, RemoveKey
<1>21. CASE UNCHANGED mmvars
  BY <1>21 DEF mmvars
<1> QED BY <1>1, <1>2, <1>3, <1>4, <1>5, <1>6, <1>7, <1>8, <1>9, <1>10, <1>11,
   <1>12, <1>13, <1>14, <1>15, <1>16, <1>17, <1>18, <1>19, <1>20, <1>21
     DEF MMNext, MMStep, Dead, Up, Down, UseCipher, RemoveChannel

(* The neighbours and the table hold different views of a channel only     *)
(* while a reader holds the packet that will make them agree, or after the *)
(* packet that opens it was dropped here, which the previous mix is not    *)
(* told: for any number of channels and ciphers, if random ids do not come *)
(* back.                                                                   *)
THEOREM ViewsStayTogether ==
  ASSUME ~IdReuse PROVE MMSpec => []ViewsAgree
<1>1. MMInit => ViewsInv
  BY DEF MMInit, ViewsInv, IdsUsed, Drawn, DrawnIsNew, PairKept, RemovedByClose, ClosersKnow, NoOrphan,
         NoOrphanAtNext, NoOrphanAtPrev, NoLeakedEntry, Closing, Knowing, Hit, Reader
<1>2. IInv /\ ViewsInv /\ [MMNext]_mmvars => ViewsInv'
  BY NextIds, NextDrawn, NextPair, NextRemoved, NextClosers, NextOrphan, NextLeaked DEF ViewsInv
<1>3. ViewsInv => ViewsAgree
  BY DEF ViewsInv, ViewsAgree
<1> QED BY <1>1, <1>2, <1>3, Invariance, PTL DEF MMSpec

-----------------------------------------------------------------------------
(* The chains of a last mix of type B.                                     *)

(* Which channel is in which chain, and where in its list.                 *)
At(k, i, h) == i \in DOMAIN k.channels /\ k.channels[i] = h

(* A chain that does not wait for a channel has one.                       *)
ChainsTyped ==
  \A c \in DOMAIN chain : /\ chain[c] \in Chain
                          /\ chain[c].idle = NotIdle => chain[c].channels # <<>>

(* The lists and the table, channel by channel.                            *)
ListedOnce ==
  /\ \A c \in DOMAIN chain : \A i, h : At(chain[c], i, h) => h \in DOMAIN due
  /\ \A h \in DOMAIN due : h \in opened /\ \E c \in DOMAIN chain : \E i : At(chain[c], i, h)
  /\ \A c, d \in DOMAIN chain : \A i, j, h :
       At(chain[c], i, h) /\ At(chain[d], j, h) => c = d /\ i = j

(* The chains the loop has still to look at exist.                         *)
ChainInv == ChainsTyped /\ ListedOnce /\ todo \subseteq DOMAIN chain

(* Channel by channel says what the sets say.                              *)
LEMMA ListedIsKnown == ListedOnce => ChannelsKnown
<1> SUFFICES ASSUME ListedOnce PROVE ChannelsKnown
  OBVIOUS
<1>1. DOMAIN due \subseteq opened BY DEF ListedOnce
<1>2. DOMAIN due = UNION {Members(chain[c]) : c \in DOMAIN chain}
  <2>1. ASSUME NEW h \in DOMAIN due PROVE h \in UNION {Members(chain[c]) : c \in DOMAIN chain}
    <3>1. PICK c \in DOMAIN chain : \E i : At(chain[c], i, h) BY DEF ListedOnce
    <3>2. h \in Members(chain[c]) BY <3>1 DEF At, Members
    <3> QED BY <3>2
  <2>2. ASSUME NEW c \in DOMAIN chain, NEW h \in Members(chain[c]) PROVE h \in DOMAIN due
    BY DEF ListedOnce, At, Members
  <2> QED BY <2>1, <2>2
<1>3. ASSUME NEW c \in DOMAIN chain, NEW d \in DOMAIN chain,
             NEW i \in DOMAIN chain[c].channels, NEW j \in DOMAIN chain[d].channels,
             chain[c].channels[i] = chain[d].channels[j]
      PROVE  c = d /\ i = j
  <2>1. At(chain[c], i, chain[d].channels[j]) /\ At(chain[d], j, chain[d].channels[j])
    BY <1>3 DEF At
  <2> QED BY <2>1 DEF ListedOnce
<1> QED BY <1>1, <1>2, <1>3 DEF ChannelsKnown

(* There is no channel at first.                                           *)
LEMMA ChainStart == ChainInit => ChainInv
BY DEF ChainInit, ChainInv, ChainsTyped, ListedOnce

(* Setting deadlines does not change which channels there are.             *)
LEMMA SameChannels == ASSUME NEW S, NEW f PROVE DOMAIN Immediately(S, f) = DOMAIN f
BY DEF Immediately

(* The elements of a list with one more at its end: addChannel().          *)
LEMMA AppendAt ==
  ASSUME NEW s \in Seq(ChannelIds), NEW h \in ChannelIds
  PROVE  /\ Append(s, h) \in Seq(ChannelIds) /\ Append(s, h) # <<>>
         /\ \A i, g : i \in DOMAIN Append(s, h) /\ Append(s, h)[i] = g <=>
                        (i \in DOMAIN s /\ s[i] = g) \/ (i = Len(s) + 1 /\ g = h)
OBVIOUS

(* The elements of a list without its head: a channel that was closed.     *)
LEMMA TailAt ==
  ASSUME NEW s \in Seq(ChannelIds), s # <<>>
  PROVE  /\ Tail(s) \in Seq(ChannelIds) /\ 1 \in DOMAIN s
         /\ \A i \in DOMAIN Tail(s) : i \in Nat /\ i + 1 \in DOMAIN s /\ i + 1 # 1 /\ Tail(s)[i] = s[i + 1]
         /\ \A i \in DOMAIN s : i # 1 => i - 1 \in DOMAIN Tail(s) /\ Tail(s)[i - 1] = s[i]
OBVIOUS

(* Steps that leave the lists alone.                                       *)
LEMMA ListsStay ==
  ASSUME ChainInv, DOMAIN chain' = DOMAIN chain, DOMAIN due' = DOMAIN due, opened \subseteq opened',
         \A c \in DOMAIN chain : /\ chain'[c] \in Chain /\ chain'[c].channels = chain[c].channels
                                 /\ chain'[c].idle = NotIdle => chain[c].idle = NotIdle,
         todo' \subseteq DOMAIN chain
  PROVE  ChainInv'
<1>1. ChainsTyped' BY DEF ChainInv, ChainsTyped
<1>2. \A c \in DOMAIN chain : \A i, h : At(chain'[c], i, h) <=> At(chain[c], i, h) BY DEF At
<1>3. ListedOnce'
  <2>1. ListedOnce BY DEF ChainInv
  <2>2. \A c \in DOMAIN chain' : \A i, h : At(chain[c], i, h)' <=> At(chain[c], i, h) BY <1>2 DEF At
  <2>3. \A c \in DOMAIN chain' : \A i, h : At(chain[c], i, h)' => h \in DOMAIN due'
    BY ONLY <2>1, <2>2, DOMAIN chain' = DOMAIN chain, DOMAIN due' = DOMAIN due DEF ListedOnce
  <2>4. \A h \in DOMAIN due' : h \in opened' /\ \E c \in DOMAIN chain' : \E i : At(chain[c], i, h)'
    BY ONLY <2>1, <2>2, DOMAIN chain' = DOMAIN chain, DOMAIN due' = DOMAIN due, opened \subseteq opened'
       DEF ListedOnce
  <2>5. \A c, d \in DOMAIN chain' : \A i, j, h :
          At(chain[c], i, h)' /\ At(chain[d], j, h)' => c = d /\ i = j
    BY ONLY <2>1, <2>2, DOMAIN chain' = DOMAIN chain DEF ListedOnce
  <2> QED BY ONLY <2>3, <2>4, <2>5 DEF ListedOnce, At
<1> QED BY <1>1, <1>3 DEF ChainInv

(* A channel that no mix has open joins the end of one list.               *)
LEMMA AddKeeps ==
  ASSUME ChainInv, NEW c, NEW k \in Chain, NEW h \in ChannelIds \ opened,
         NEW fast \in BOOLEAN, NEW closes \in BOOLEAN, NEW data \in BOOLEAN,
         IF c \in DOMAIN chain THEN k = chain[c] ELSE k.channels = <<>>,
         AddChannel(c, k, h, fast, closes, data), todo' = todo
  PROVE  ChainInv'
<1> DEFINE new == chain'[c]
<1>1. /\ DOMAIN chain' = DOMAIN chain \cup {c}
      /\ \A d \in DOMAIN chain' : d # c => chain'[d] = chain[d]
      /\ new \in Chain /\ new.channels = Append(k.channels, h)
      /\ DOMAIN due' = DOMAIN due \cup {h} /\ opened' = opened \cup {h} /\ h \notin DOMAIN due
  <2>1. /\ k.channels \in Seq(ChannelIds) /\ k.closed \in BOOLEAN /\ k.pending \in BOOLEAN
        /\ k.idle \in {NotIdle} \cup 0..ChainTimeout + 1
    BY DEF Chain
  <2>2. Append(k.channels, h) \in Seq(ChannelIds) BY <2>1
  <2> QED BY <2>1, <2>2, SameChannels DEF AddChannel, With, Chain
<1>2. k.channels \in Seq(ChannelIds) BY DEF Chain
<1> HIDE DEF new
<1>3. \A i, g : At(new, i, g) <=> At(k, i, g) \/ (i = Len(k.channels) + 1 /\ g = h)
  BY <1>1, <1>2, AppendAt DEF At
<1>4. \A i, g : At(k, i, g) => c \in DOMAIN chain /\ At(chain[c], i, g)
  BY DEF At
<1>5. ChainsTyped'
  BY <1>1, <1>2, AppendAt DEF ChainInv, ChainsTyped, new
<1>6. \A d \in DOMAIN chain' : \A i, g :
        At(chain'[d], i, g) =>
          \/ d \in DOMAIN chain /\ At(chain[d], i, g) /\ g # h
          \/ d = c /\ i = Len(k.channels) + 1 /\ g = h
  <2>1. \A d \in DOMAIN chain : \A i, g : At(chain[d], i, g) => g # h
    BY <1>1 DEF ChainInv, ListedOnce
  <2> QED BY <1>1, <1>3, <1>4, <2>1 DEF new
<1>7. \A d \in DOMAIN chain : \A i, g : At(chain[d], i, g) => At(chain'[d], i, g)
  <2>1. c \in DOMAIN chain => k = chain[c] OBVIOUS
  <2> QED BY <1>1, <1>3, <2>1 DEF new
<1>8. At(chain'[c], Len(k.channels) + 1, h) BY <1>3 DEF new
<1>9. ListedOnce'
  <2>1. \A d \in DOMAIN chain' : \A i, g : At(chain'[d], i, g) => g \in DOMAIN due'
    BY <1>1, <1>6 DEF ChainInv, ListedOnce
  <2>2. ASSUME NEW g \in DOMAIN due'
        PROVE  g \in opened' /\ \E d \in DOMAIN chain' : \E i : At(chain'[d], i, g)
    <3>1. CASE g = h BY <1>1, <1>8, <3>1
    <3>2. CASE g \in DOMAIN due
      <4>1. PICK d \in DOMAIN chain : \E i : At(chain[d], i, g) BY <3>2 DEF ChainInv, ListedOnce
      <4>2. \E i : At(chain'[d], i, g) BY <1>7, <4>1
      <4> QED BY <1>1, <3>2, <4>1, <4>2 DEF ChainInv, ListedOnce
    <3> QED BY <1>1, <3>1, <3>2
  <2>3. ASSUME NEW d \in DOMAIN chain', NEW e \in DOMAIN chain', NEW i, NEW j, NEW g,
               At(chain'[d], i, g), At(chain'[e], j, g)
        PROVE  d = e /\ i = j
    BY <1>6, <2>3 DEF ChainInv, ListedOnce
  <2> QED BY <2>1, <2>2, <2>3 DEF ListedOnce
<1> QED BY <1>1, <1>5, <1>9 DEF ChainInv

(* A chain that goes takes the channels of its list with it.               *)
LEMMA DestroyKeeps ==
  ASSUME ChainInv, NEW c \in DOMAIN chain, DestroyChain(c), opened' = opened, todo' = todo \ {c}
  PROVE  ChainInv'
<1>1. /\ DOMAIN chain' = DOMAIN chain \ {c} /\ \A d \in DOMAIN chain' : chain'[d] = chain[d]
      /\ DOMAIN due' = DOMAIN due \ Members(chain[c])
  BY DEF DestroyChain, Without
<1>2. \A g : g \in Members(chain[c]) <=> \E i : At(chain[c], i, g)
  BY DEF Members, At
<1>3. ChainsTyped' BY <1>1 DEF ChainInv, ChainsTyped
<1>4. ListedOnce' BY <1>1, <1>2 DEF ChainInv, ListedOnce
<1> QED BY <1>1, <1>3, <1>4 DEF ChainInv

(* The channel at the head of a list gets its CLOSE; with the last one of  *)
(* a closed chain the chain goes too.                                      *)
LEMMA CloseKeeps ==
  ASSUME ChainInv, NEW c \in DOMAIN chain, SendChannelClose(c)
  PROVE  ChainInv'
<1> DEFINE h == First(c)
           old == chain[c]
           k == IF Single(c) THEN old ELSE Closed(old)
           rest == Tail(old.channels)
<1>1. /\ old \in Chain /\ old.channels \in Seq(ChannelIds) /\ old.channels # <<>>
      /\ k \in Chain /\ k.channels = old.channels /\ k.idle = old.idle /\ k.idle = NotIdle
  BY DEF SendChannelClose, ChainInv, ChainsTyped, Chain, Closed, Idle
<1>2. /\ rest \in Seq(ChannelIds) /\ At(old, 1, h)
      /\ \A i, g : (i \in DOMAIN rest /\ rest[i] = g) => i \in Nat /\ i + 1 # 1 /\ At(old, i + 1, g)
      /\ \A i, g : At(old, i, g) /\ i # 1 => i - 1 \in DOMAIN rest /\ rest[i - 1] = g
  BY <1>1, TailAt DEF At, First
<1>a. /\ opened' = opened \ {h} /\ todo' = todo \ {c}
      /\ due' = Without(IF Single(c) THEN due ELSE Immediately(Members(k), due), {h})
      /\ chain' = IF Tail(k.channels) = <<>> /\ k.closed THEN Without(chain, {c})
                  ELSE [chain EXCEPT ![c] =
                          [k EXCEPT !.channels = Tail(k.channels),
                                    !.idle = IF Tail(k.channels) = <<>> THEN 0 ELSE @]]
  BY DEF SendChannelClose, Asks
<1>3. /\ opened' = opened \ {h} /\ DOMAIN due' = DOMAIN due \ {h} /\ todo' = todo \ {c}
      /\ chain' = IF rest = <<>> /\ k.closed THEN Without(chain, {c})
                  ELSE [chain EXCEPT ![c] =
                          [k EXCEPT !.channels = rest,
                                    !.idle = IF rest = <<>> THEN 0 ELSE @]]
  BY <1>1, <1>a, SameChannels DEF Without
<1> HIDE DEF h, k, rest
<1>4. /\ DOMAIN chain' \subseteq DOMAIN chain /\ DOMAIN chain \ {c} \subseteq DOMAIN chain'
      /\ \A d \in DOMAIN chain' : d # c => chain'[d] = chain[d]
      /\ c \in DOMAIN chain' => chain'[c] = [k EXCEPT !.channels = rest,
                                                     !.idle = IF rest = <<>> THEN 0 ELSE @]
      /\ rest # <<>> => c \in DOMAIN chain'
  BY <1>3 DEF Without
<1>5. c \in DOMAIN chain' => /\ chain'[c] \in Chain /\ chain'[c].channels = rest
                             /\ chain'[c].idle = NotIdle => rest # <<>>
  <2>1. 0 \in 0..ChainTimeout + 1 /\ NotIdle # 0 BY LastMixBAssumption
  <2>2. /\ k.closed \in BOOLEAN /\ k.pending \in BOOLEAN
        /\ k = [closed |-> k.closed, pending |-> k.pending, channels |-> k.channels, idle |-> k.idle]
    BY <1>1 DEF Chain
  <2>3. ASSUME c \in DOMAIN chain'
        PROVE  chain'[c] = [closed |-> k.closed, pending |-> k.pending, channels |-> rest,
                            idle |-> IF rest = <<>> THEN 0 ELSE NotIdle]
    BY <1>1, <1>4, <2>2, <2>3
  <2> QED BY <1>2, <2>1, <2>2, <2>3 DEF Chain
<1>6. ChainsTyped'
  BY <1>4, <1>5 DEF ChainInv, ChainsTyped
<1>7. \A d \in DOMAIN chain' : \A i, g :
        At(chain'[d], i, g) =>
          /\ d # c => At(chain[d], i, g)
          /\ d = c => i \in Nat /\ i + 1 # 1 /\ At(chain[c], i + 1, g)
  BY <1>2, <1>4, <1>5 DEF At
<1>8. ASSUME NEW d \in DOMAIN chain', NEW i, At(chain'[d], i, h) PROVE FALSE
  <2>1. d # c => At(chain[d], i, h) /\ At(chain[c], 1, h) BY <1>2, <1>7, <1>8
  <2>2. d = c => At(chain[c], i + 1, h) /\ At(chain[c], 1, h) /\ i + 1 # 1 BY <1>2, <1>7, <1>8
  <2>3. d \in DOMAIN chain BY <1>4
  <2> QED BY <2>1, <2>2, <2>3 DEF ChainInv, ListedOnce
<1>9. ASSUME NEW d \in DOMAIN chain, NEW i, NEW g, At(chain[d], i, g), g # h
      PROVE  d \in DOMAIN chain' /\ \E j : At(chain'[d], j, g)
  <2>1. CASE d # c BY <1>4, <1>9, <2>1 DEF At
  <2>2. CASE d = c
    <3>1. i # 1 BY <1>2, <1>9, <2>2 DEF At
    <3>2. i - 1 \in DOMAIN rest /\ rest[i - 1] = g BY <1>2, <1>9, <2>2, <3>1
    <3>3. rest # <<>> BY <1>2, <3>2
    <3>4. c \in DOMAIN chain' /\ At(chain'[c], i - 1, g) BY <1>4, <1>5, <3>2, <3>3 DEF At
    <3> QED BY <2>2, <3>4
  <2> QED BY <2>1, <2>2
<1>10. ListedOnce'
  <2>1. ASSUME NEW d \in DOMAIN chain', NEW i, NEW g, At(chain'[d], i, g) PROVE g \in DOMAIN due'
    <3>1. g # h BY <1>8, <2>1
    <3>2. \E j : At(chain[d], j, g) BY <1>7, <2>1
    <3> QED BY <1>3, <1>4, <3>1, <3>2 DEF ChainInv, ListedOnce
  <2>2. \A g \in DOMAIN due' : g \in opened' /\ \E d \in DOMAIN chain' : \E i : At(chain'[d], i, g)
    BY <1>3, <1>9 DEF ChainInv, ListedOnce
  <2>3. ASSUME NEW d \in DOMAIN chain', NEW e \in DOMAIN chain', NEW i, NEW j, NEW g,
               At(chain'[d], i, g), At(chain'[e], j, g)
        PROVE  d = e /\ i = j
    <3>1. d = e BY <1>4, <1>7, <2>3 DEF ChainInv, ListedOnce
    <3>2. CASE d # c BY <1>4, <1>7, <2>3, <3>1, <3>2 DEF ChainInv, ListedOnce
    <3>3. CASE d = c
      <4>1. i \in Nat /\ j \in Nat /\ At(chain[c], i + 1, g) /\ At(chain[c], j + 1, g)
        BY <1>7, <2>3, <3>1, <3>3
      <4>2. i + 1 = j + 1 BY <4>1 DEF ChainInv, ListedOnce
      <4> QED BY <3>1, <4>1, <4>2
    <3> QED BY <3>1, <3>2, <3>3
  <2> QED BY <2>1, <2>2, <2>3 DEF ListedOnce
<1>11. (todo \subseteq DOMAIN chain)'
  BY <1>3, <1>4 DEF ChainInv
<1> QED BY <1>6, <1>10, <1>11 DEF ChainInv

(* The steps of the loop that take packets.                                *)
LEMMA TakesKeep == ASSUME ChainInv, Takeup PROVE ChainInv'
<1>1. CASE TakeUseless \/ \E h \in ChannelIds : RefuseChannel(h)
  BY <1>1, ListsStay DEF TakeUseless, RefuseChannel, Takes, ChainInv, ChainsTyped
<1>2. ASSUME NEW c \in Chains, NEW h \in ChannelIds, NewChain(c, h) \/ UnknownChain(c, h)
      PROVE  ChainInv'
  <2>1. FreshChain \in Chain /\ FreshChain.channels = <<>> BY DEF FreshChain, Chain
  <2>2. c \notin DOMAIN chain /\ h \notin opened /\ todo' = todo
    BY <1>2 DEF NewChain, UnknownChain, CreateEntry, Takes
  <2>3. PICK fast, closes \in BOOLEAN : AddChannel(c, FreshChain, h, fast, closes, FALSE)
    BY <1>2 DEF NewChain, UnknownChain
  <2> QED BY <2>1, <2>2, <2>3, AddKeeps
<1>3. ASSUME NEW c \in Chains, NEW h \in ChannelIds, ContinueChain(c, h) PROVE ChainInv'
  <2>1. c \in DOMAIN chain /\ h \notin opened /\ todo' = todo /\ chain[c] \in Chain
    BY <1>3 DEF ContinueChain, Takes, ChainInv, ChainsTyped
  <2>2. PICK fast, closes, data \in BOOLEAN : AddChannel(c, chain[c], h, fast, closes, data)
    BY <1>3 DEF ContinueChain
  <2> QED BY <2>1, <2>2, AddKeeps
<1> QED BY <1>1, <1>2, <1>3 DEF Takeup

(* A write to a proxy server, done or failed, leaves the lists alone.      *)
LEMMA WritesKeep ==
  ASSUME ChainInv, NEW c, WriteUpstream(c) \/ WriteUpstreamFails(c) PROVE ChainInv'
<1>1. c \in DOMAIN chain /\ chain[c] \in Chain /\ todo' \subseteq todo
  BY DEF WriteUpstream, WriteUpstreamFails, ChainInv, ChainsTyped
<1>2. DOMAIN due' = DOMAIN due /\ opened' = opened
  BY SameChannels DEF WriteUpstream, WriteUpstreamFails
<1>3. PICK k : /\ chain' = [chain EXCEPT ![c] = k]
               /\ k \in Chain /\ k.channels = chain[c].channels /\ k.idle = chain[c].idle
  <2>1. \A b \in BOOLEAN : /\ [chain[c] EXCEPT !.pending = b] \in Chain
                           /\ [chain[c] EXCEPT !.pending = b].channels = chain[c].channels
                           /\ [chain[c] EXCEPT !.pending = b].idle = chain[c].idle
    BY <1>1 DEF Chain
  <2>2. /\ Closed(chain[c]) \in Chain /\ Closed(chain[c]).channels = chain[c].channels
        /\ Closed(chain[c]).idle = chain[c].idle
    BY <1>1 DEF Chain, Closed
  <2>3. CASE WriteUpstream(c)
    <3>1. PICK rest \in BOOLEAN : chain' = [chain EXCEPT ![c].pending = rest]
      BY <2>3 DEF WriteUpstream
    <3>2. chain' = [chain EXCEPT ![c] = [chain[c] EXCEPT !.pending = rest]] BY <3>1
    <3> QED BY <2>1, <3>2
  <2>4. CASE WriteUpstreamFails(c) BY <2>2, <2>4 DEF WriteUpstreamFails
  <2> QED BY <2>3, <2>4
<1> QED BY <1>1, <1>2, <1>3, ListsStay DEF ChainInv, ChainsTyped

(* The turns of the loop collect chains of the table.                      *)
LEMMA TurnsKeep ==
  ASSUME ChainInv, EndTakes \/ StartDown \/ SkipDown \/ EndDown PROVE ChainInv'
<1>1. UNCHANGED <<chain, due, opened>> /\ todo' \subseteq DOMAIN chain
  BY DEF EndTakes, StartDown, Asked, SkipDown, EndDown, NextRound, ChainInv
<1> QED BY <1>1, ListsStay DEF ChainInv, ChainsTyped

(* The answers of a chain.                                                 *)
LEMMA AsksKeep == ASSUME ChainInv, NEW c, Ask(c) PROVE ChainInv'
<1>1. Asks(c) BY DEF Ask, Expire, Pass, SendData, SendEmpty, ReadEnds, SendChannelClose
<1>2. c \in DOMAIN chain /\ chain[c] \in Chain /\ todo' = todo \ {c} /\ todo' \subseteq DOMAIN chain
  BY <1>1 DEF Asks, ChainInv, ChainsTyped
<1>3. CASE Expire(c)
  <2>1. DestroyChain(c) /\ opened' = opened BY <1>3 DEF Expire
  <2> QED BY <1>2, <2>1, DestroyKeeps
<1>4. CASE Pass(c) \/ SendData(c) \/ SendEmpty(c)
  <2>1. UNCHANGED <<chain, opened>> /\ DOMAIN due' = DOMAIN due
    BY <1>4 DEF Pass, SendData, SendEmpty
  <2> QED BY <1>2, <2>1, ListsStay DEF ChainInv, ChainsTyped
<1>5. CASE ReadEnds(c)
  <2>1. chain' = [chain EXCEPT ![c] = Closed(chain[c])] /\ opened' = opened /\ DOMAIN due' = DOMAIN due
    BY <1>5, SameChannels DEF ReadEnds
  <2>2. /\ Closed(chain[c]) \in Chain /\ Closed(chain[c]).channels = chain[c].channels
        /\ Closed(chain[c]).idle = chain[c].idle
    BY <1>2 DEF Chain, Closed
  <2> QED BY <1>2, <2>1, <2>2, ListsStay DEF ChainInv, ChainsTyped
<1>6. CASE SendChannelClose(c) BY <1>2, <1>6, CloseKeeps
<1> QED BY <1>3, <1>4, <1>5, <1>6 DEF Ask

(* Time passes for the chains that wait.                                   *)
LEMMA TimeKeeps == ASSUME ChainInv, ChainTick PROVE ChainInv'
<1>1. DOMAIN due' = DOMAIN due /\ DOMAIN chain' = DOMAIN chain /\ UNCHANGED <<todo, opened>>
  BY DEF ChainTick
<1>2. ASSUME NEW c \in DOMAIN chain
      PROVE  /\ chain'[c] \in Chain /\ chain'[c].channels = chain[c].channels
             /\ chain'[c].idle = NotIdle => chain[c].idle = NotIdle
  <2>1. chain[c] \in Chain BY DEF ChainInv, ChainsTyped
  <2>2. CASE Idle(c) /\ chain[c].idle <= ChainTimeout
    <3>1. chain'[c] = [chain[c] EXCEPT !.idle = chain[c].idle + 1] BY <2>2 DEF ChainTick
    <3>2. chain[c].idle \in 0..ChainTimeout + 1 BY <2>1, <2>2 DEF Chain, Idle
    <3>3. chain[c].idle + 1 \in 0..ChainTimeout + 1 BY <2>2, <3>2, LastMixBAssumption
    <3>4. chain[c].idle + 1 # NotIdle BY <3>2, LastMixBAssumption
    <3> QED BY <2>1, <3>1, <3>3, <3>4 DEF Chain
  <2>3. CASE ~(Idle(c) /\ chain[c].idle <= ChainTimeout)
    BY <2>1, <2>3 DEF ChainTick
  <2> QED BY <2>2, <2>3
<1> QED BY <1>1, <1>2, ListsStay DEF ChainInv

(* The channel table holds what the lists of the chains hold, each channel *)
(* once, and only channels the previous mixes have open, whatever the mix  *)
(* took, sent, dropped, failed to write or let expire.                     *)
THEOREM ChainTableStaysWhole == ChainSpec => []ChannelsKnown
<1>1. ChainInit => ChainInv BY ChainStart
<1>2. ChainInv /\ [ChainNext]_chainvars => ChainInv'
  <2> SUFFICES ASSUME ChainInv, [ChainNext]_chainvars PROVE ChainInv'
    OBVIOUS
  <2>1. CASE ChainLoop BY <2>1, TakesKeep, WritesKeep, TurnsKeep, AsksKeep DEF ChainLoop
  <2>2. CASE ChainTick BY <2>2, TimeKeeps
  <2>3. CASE UNCHANGED chainvars BY <2>3, ListsStay DEF chainvars, ChainInv, ChainsTyped
  <2> QED BY <2>1, <2>2, <2>3 DEF ChainNext
<1>3. ChainInv => ChannelsKnown BY ListedIsKnown DEF ChainInv
<1> QED BY <1>1, <1>2, <1>3, PTL DEF ChainSpec
=============================================================================

--------------------------- MODULE ControlChannel ---------------------------
(***************************************************************************)
(* Messages on a control channel, from sendXMLMessage() in the threads of  *)
(* one end (CAAbstractControlChannel, CAControlChannelDispatcher) to       *)
(* proccessMessage() at the other end (CASyncControlChannel).  A message   *)
(* is encrypted with a counter as its initialisation vector, preceded by   *)
(* its length, cut into the data of mix packets, and put together again;   *)
(* the receiver counts the messages it has completed and decrypts with     *)
(* that number.  The counter is taken under one mutex (m_pcsEnc), the      *)
(* packets are queued under another (m_pcsSendMsg).                        *)
(*                                                                         *)
(* Of the content of a message only its length matters here.  The channel  *)
(* is encrypted; the packets between keep their order.                     *)
(***************************************************************************)
EXTENDS Integers, Sequences, SequencesExt

CONSTANTS
  Threads,       (* threads of the sending end                             *)
  Lengths,       (* lengths of messages                                    *)
  Header,        (* bytes of the length in front of a message              *)
  Tag,           (* bytes of the authentication tag behind it              *)
  DataSize,      (* DATA_SIZE                                              *)
  MaxMessages    (* bound: messages that are sent                          *)

ASSUME ControlAssumption ==
  /\ Lengths \subseteq Nat /\ Header \in Nat \ {0} /\ Tag \in Nat
  /\ DataSize \in Nat /\ DataSize >= Header /\ MaxMessages \in Nat

VARIABLES
  encCounter,   (* m_nEncMsgCounter                                        *)
  ready,        (* the message a thread has encrypted and not yet queued   *)
  packets,      (* the packets of the channel on their way                 *)
  msgLeft,      (* m_MsgBytesLeft                                          *)
  msgBuff,      (* m_MsgBuff: the pieces it has been filled with           *)
  decCounter,   (* m_nDecMsgCounter                                        *)
  completed     (* history: the message completed last, and the counter it *)
                (* was decrypted with                                      *)

ccvars == <<encCounter, ready, packets, msgLeft, msgBuff, decCounter, completed>>

NoMessage == [nr |-> -1, len |-> 0, alone |-> TRUE]

CInit ==
  /\ encCounter = 0 /\ decCounter = 0
  /\ ready = [t \in Threads |-> NoMessage]
  /\ packets = <<>>
  /\ msgLeft = 0 /\ msgBuff = <<>>
  /\ completed = [whole |-> TRUE, message |-> NoMessage, counter |-> -1]

Waiting == {t \in Threads : ready[t] # NoMessage}

(* m_nEncMsgCounter++                                                      *)
CounterAfter(n) == n + 1

(* encryptMessage(): takes the counter.  Threads which are there together  *)
(* are marked: nothing keeps their messages in order.                      *)
Encrypt(t) ==
  /\ ready[t] = NoMessage /\ encCounter < MaxMessages
  /\ \E l \in Lengths :
       ready' = [s \in Threads |->
                   IF s = t THEN [nr |-> encCounter, len |-> l, alone |-> Waiting = {}]
                   ELSE IF s \in Waiting THEN [ready[s] EXCEPT !.alone = FALSE]
                   ELSE ready[s]]
  /\ encCounter' = CounterAfter(encCounter)
  /\ UNCHANGED <<packets, msgLeft, msgBuff, decCounter, completed>>

(* A packet holds the bytes from..to - 1 of what is sent for a message.    *)
Piece(m, from, to) == [message |-> m, from |-> from, to |-> to]

(* The pieces sendMessages() cuts a message of that many bytes into.       *)
Pieces(m, bytes) ==
  [k \in 1..((bytes + DataSize - 1) \div DataSize) |->
     Piece(m, (k - 1) * DataSize, IF k * DataSize < bytes THEN k * DataSize ELSE bytes)]

(* sendMessages(): all packets of a message, one after the other.          *)
Queue(t) ==
  /\ t \in Waiting
  /\ packets' = packets \o Pieces(ready[t], Header + ready[t].len + Tag)
  /\ ready' = [ready EXCEPT ![t] = NoMessage]
  /\ UNCHANGED <<encCounter, msgLeft, msgBuff, decCounter, completed>>

Size(p) == p.to - p.from

(* Variant: the tag is not waited for.                                     *)
LeftOfNewWithoutTag(p) == p.message.len - (Size(p) - Header)

(* What is to come after the first packet of a message.                    *)
LeftOfNew(p) == p.message.len + Tag - (Size(p) - Header)

(* What a packet brings of the message the receiver waits for: a later     *)
(* packet of a message is cut off at the end of the message.               *)
Taken(p) == IF msgLeft > 0 /\ Size(p) > msgLeft THEN [p EXCEPT !.to = p.from + msgLeft] ELSE p

LeftAfter(p) == IF msgLeft = 0 THEN LeftOfNew(p) ELSE msgLeft - Size(Taken(p))

(* The buffer is exactly one message: its pieces, without gaps.            *)
WholeMessage(buff) ==
  LET m == buff[1].message IN
  /\ buff[1].from = 0
  /\ \A k \in 1..(Len(buff) - 1) :
       buff[k + 1].message = m /\ buff[k + 1].from = buff[k].to
  /\ buff[Len(buff)].to = Header + m.len + Tag

(* proccessMessage(), for a packet of the channel: the message is decrypted*)
(* and handed on when nothing of it is missing.                            *)
Receive ==
  /\ packets # <<>>
  /\ LET p == Head(packets)
         buff == IF msgLeft = 0 THEN <<p>> ELSE Append(msgBuff, Taken(p))
     IN
     /\ msgLeft' = LeftAfter(p)
     /\ IF msgLeft' = 0
        THEN /\ completed' = [whole |-> WholeMessage(buff), message |-> buff[1].message,
                              counter |-> decCounter]
             /\ decCounter' = decCounter + 1
             /\ msgBuff' = <<>>
        ELSE /\ msgBuff' = buff
             /\ UNCHANGED <<completed, decCounter>>
  /\ packets' = Tail(packets)
  /\ UNCHANGED <<encCounter, ready>>

CNext ==
  \/ \E t \in Threads : Encrypt(t) \/ Queue(t)
  \/ Receive

CSpec == CInit /\ [][CNext]_ccvars

-----------------------------------------------------------------------------
(* Properties.                                                             *)

(* What the receiver decrypts is one whole message, whatever its length    *)
(* and however the threads alternate, and it is decrypted with the counter *)
(* it was encrypted with, unless another thread was between its two steps  *)
(* at the same time.  Messages that have overtaken each other do no harm   *)
(* to those that follow.                                                   *)
DecryptedInStep ==
  /\ completed.whole
  /\ completed.message.alone => completed.counter = completed.message.nr
=============================================================================

------------------------------- MODULE ByteFifo -------------------------------
(***************************************************************************)
(* What CAQueue promises to the threads of a mix: a first-in first-out     *)
(* stream of bytes.  The bytes of one add() enter together and in order;   *)
(* they leave in the order in which they entered, in portions the readers  *)
(* choose.                                                                 *)
(***************************************************************************)
EXTENDS Naturals, Sequences

CONSTANT Data    (* the byte strings that may be added                     *)

VARIABLES
  fifo,   (* the bytes in the queue                                        *)
  out     (* the bytes that have left it                                   *)

Init == fifo = <<>> /\ out = <<>>

Add(d) == fifo' = fifo \o d /\ UNCHANGED out

Take(n) ==
  /\ n \in 1..Len(fifo)
  /\ out'  = out \o SubSeq(fifo, 1, n)
  /\ fifo' = SubSeq(fifo, n + 1, Len(fifo))

Next == (\E d \in Data : Add(d)) \/ (\E n \in 1..Len(fifo) : Take(n))

Spec == Init /\ [][Next]_<<fifo, out>>
=============================================================================

----------------------------- MODULE ByteQueue -----------------------------
(***************************************************************************)
(* What the serial receiver promises: the bytes it accepts reach the        *)
(* kernel's console once each and in the order they came, and a byte that   *)
(* finds the queue full is dropped whole.                                   *)
(***************************************************************************)
EXTENDS Naturals, Sequences

CONSTANTS Bytes, Capacity

VARIABLES
  queue,      \* accepted and not read
  last        \* the last byte read, 0 before

vars == <<queue, last>>

Init == queue = <<>> /\ last = 0

Put(c) == Len(queue) < Capacity /\ queue' = Append(queue, c) /\ UNCHANGED last

Get == queue # <<>> /\ last' = Head(queue) /\ queue' = Tail(queue)

Next == Get \/ \E c \in Bytes : Put(c)

Spec == Init /\ [][Next]_vars
=============================================================================

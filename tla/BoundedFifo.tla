----------------------------- MODULE BoundedFifo -----------------------------
(***************************************************************************)
(* What a pipe promises its two users: a first-in first-out queue of at    *)
(* most Capacity items.  The n-th item put is the number n.                *)
(***************************************************************************)
EXTENDS Naturals, Sequences

CONSTANTS Capacity, MaxItems

VARIABLES queue, put, taken

Init == queue = <<>> /\ put = 0 /\ taken = 0

Put ==
  /\ put < MaxItems /\ Len(queue) < Capacity
  /\ put' = put + 1 /\ queue' = Append(queue, put + 1)
  /\ UNCHANGED taken

Take ==
  /\ queue # <<>>
  /\ taken' = Head(queue) /\ queue' = Tail(queue)
  /\ UNCHANGED put

Next == Put \/ Take
Spec == Init /\ [][Next]_<<queue, put, taken>>
=============================================================================

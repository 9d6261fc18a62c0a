----------------------------- MODULE FifoQueue -----------------------------
(***************************************************************************)
(* What wait_queue promises the threads that use it: elements come out one *)
(* at a time, in the order in which they went in.  The n-th element is n.  *)
(***************************************************************************)
EXTENDS Naturals, Sequences

VARIABLES items,  \* the elements in the queue
          in,     \* how many went in
          out     \* the last one that came out, 0: none

vars == <<items, in, out>>

Init == items = <<>> /\ in = 0 /\ out = 0

Put == /\ in' = in + 1
       /\ items' = Append(items, in')
       /\ UNCHANGED out

Take == /\ items # <<>>
        /\ out' = Head(items)
        /\ items' = Tail(items)
        /\ UNCHANGED in

Spec == Init /\ [][Put \/ Take]_vars
=============================================================================

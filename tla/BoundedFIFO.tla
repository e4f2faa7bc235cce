----------------------------- MODULE BoundedFIFO -----------------------------
(***************************************************************************)
(* What the naming server's admission queue promises (spec section 4.5):   *)
(* a FIFO of at most Capacity session descriptors; a producer may add one  *)
(* only while there is room, and consumers take them out in the order they *)
(* went in.  `taken' is the history of what consumers have received, so   *)
(* that a refinement also says WHICH descriptor each dequeue hands out.    *)
(***************************************************************************)
EXTENDS Naturals, Sequences

CONSTANTS Items, Capacity

VARIABLES queue, taken

Init == /\ queue = <<>>
        /\ taken = <<>>

Put(x) == /\ Len(queue) < Capacity
          /\ queue' = Append(queue, x)
          /\ UNCHANGED taken

Get == /\ queue # <<>>
       /\ taken' = Append(taken, Head(queue))
       /\ queue' = Tail(queue)

Next == (\E x \in Items : Put(x)) \/ Get

Spec == Init /\ [][Next]_<<queue, taken>>
=============================================================================

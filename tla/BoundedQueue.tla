---------------------------- MODULE BoundedQueue ----------------------------
(***************************************************************************)
(* What the send queue of the network layer promises: packets leave it     *)
(* whole, once each, in the order in which they were inserted, and no more *)
(* than Capacity of them wait in it.                                       *)
(***************************************************************************)
EXTENDS Naturals, Sequences

CONSTANTS Capacity, Item

VARIABLES inserted,   \* the packets inserted so far, oldest first
          removed     \* the packets removed so far, oldest first

vars == <<inserted, removed>>

Init == inserted = <<>> /\ removed = <<>>

Insert == /\ Len(inserted) - Len(removed) < Capacity
          /\ \E item \in Item : inserted' = Append(inserted, item)
          /\ UNCHANGED removed

Remove == /\ Len(removed) < Len(inserted)
          /\ removed' = Append(removed, inserted[Len(removed) + 1])
          /\ UNCHANGED inserted

Next == Insert \/ Remove

Spec == Init /\ [][Next]_vars
=============================================================================

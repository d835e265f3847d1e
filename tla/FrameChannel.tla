---------------------------- MODULE FrameChannel ----------------------------
(***************************************************************************)
(* What the receive path of a host promises to its service points: the     *)
(* frames the host accepts for a point reach the thread of that point once *)
(* each, whole and in the order of their arrival, and no more than         *)
(* Capacity of them are under way.                                         *)
(***************************************************************************)
EXTENDS Naturals, Sequences

CONSTANTS Points,    \* service points
          Frame,     \* the frames: id tells one from those before and after
          Capacity   \* frames of one point that may be under way

VARIABLES next,      \* the id of the next frame
          waiting,   \* for each point, the frames under way, oldest first
          taken      \* for each point, the frame its thread is busy with

vars == <<next, waiting, taken>>

Init == next = 0 /\ waiting = [p \in Points |-> <<>>] /\ taken \in [Points -> {<<>>}]

Accept(p) ==
    /\ Len(waiting[p]) < Capacity
    /\ \E f \in Frame : /\ f.to = p /\ f.id = next
                        /\ waiting' = [waiting EXCEPT ![p] = Append(@, f)]
    /\ next' = 1 - next
    /\ UNCHANGED taken

Take(p) ==
    /\ waiting[p] # <<>> /\ taken[p] = <<>>
    /\ taken' = [taken EXCEPT ![p] = Head(waiting[p])]
    /\ waiting' = [waiting EXCEPT ![p] = Tail(@)]
    /\ UNCHANGED next

Finish(p) ==
    /\ taken' = [taken EXCEPT ![p] = <<>>]
    /\ UNCHANGED <<next, waiting>>

Next == \E p \in Points : Accept(p) \/ Take(p) \/ Finish(p)

Spec == Init /\ [][Next]_vars
=============================================================================

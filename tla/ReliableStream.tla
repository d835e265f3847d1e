--------------------------- MODULE ReliableStream ---------------------------
(***************************************************************************)
(* What a connection of the transport layer promises to the two            *)
(* applications that use it: the bytes taken by send_point come out of     *)
(* recv_point on the other host once each and in the order they went in,   *)
(* whatever the network in between loses, repeats or reorders.  A byte is  *)
(* known by its position in the stream.                                    *)
(***************************************************************************)
EXTENDS Naturals, Sequences

VARIABLES sent,    \* how many bytes the sending application has handed over
          got      \* the bytes the receiving application has been given

vars == <<sent, got>>

Init == sent = 0 /\ got = <<>>

(* send_point takes some bytes. *)
Send == sent' \in Nat /\ sent' >= sent /\ UNCHANGED got

(* recv_point hands over the next k bytes of the stream. *)
Receive == /\ \E k \in 1..(sent - Len(got)) :
                got' = got \o [i \in 1..k |-> Len(got) + i - 1]
           /\ UNCHANGED sent

Next == Send \/ Receive

Spec == Init /\ [][Next]_vars
=============================================================================

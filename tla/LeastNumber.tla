---------------------------- MODULE LeastNumber -----------------------------
(***************************************************************************)
(* Every set of numbers that is not empty has a least one: the form of     *)
(* induction the proofs about walks and lists use, on a least              *)
(* counterexample.                                                         *)
(***************************************************************************)
EXTENDS WellFoundedInduction, TLAPS

Less == {p \in Nat \X Nat : p[1] < p[2]}

(* < is well-founded on Nat, as a set of pairs. *)
LEMMA LessWF == IsWellFoundedOn(Less, Nat)
  <1>1. OpToRel(<, Nat) = Less
    BY DEF OpToRel, Less
  <1> QED BY <1>1, NatLessThanWellFounded

(* A set of numbers has a least one.                                       *)
LEMMA Least ==
    ASSUME NEW T \in SUBSET Nat, T # {}
    PROVE  \E x \in T : \A y \in T : x <= y
  <1>1. PICK x \in T : \A y \in T : ~(<<y, x>> \in Less)
    BY LessWF, WFMin
  <1>2. ASSUME NEW y \in T PROVE x <= y
    <2>1. x \in Nat /\ y \in Nat
      OBVIOUS
    <2>2. <<y, x>> \in Less <=> y < x
      BY <2>1 DEF Less
    <2> QED BY <1>1, <2>1, <2>2
  <1> QED BY <1>2
=============================================================================

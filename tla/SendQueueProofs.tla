-------------------------- MODULE SendQueueProofs ---------------------------
(***************************************************************************)
(* The send queue, for every size of the ring and any threads: it          *)
(* implements BoundedQueue, and the packets that are forwarded leave it    *)
(* whole.                                                                  *)
(*                                                                         *)
(* No lock is held by both ends of the ring.  What keeps a slot from being *)
(* filled while it holds an item is a count: every slot is free, claimed   *)
(* by a thread, filled, or being given back (CountInv).                    *)
(***************************************************************************)
EXTENDS SendQueue, FiniteSets, FiniteSetTheorems, TLAPS

Waiting == Len(inserted) - Len(removed)

Filling == {t \in Threads : pc[t] \in {"fill", "unlock"}}
Claimed == {t \in Threads : pc[t] \in {"lock", "fill", "unlock"}}
Posting == {t \in Threads : pc[t] = "post"}

(* Each slot is free, claimed, filled or on its way back to the producers; *)
(* each item in the ring has been posted, will be, or is being read.       *)
CountInv ==
    /\ IsFiniteSet(Claimed) /\ IsFiniteSet(Posting)
    /\ g_sem_prod + Cardinality(Claimed) + Waiting + (IF cpc = "free" THEN 1 ELSE 0)
         = MAX_SEND_WAITING
    /\ g_sem_cons + Cardinality(Posting) + (IF cpc = "read" THEN 1 ELSE 0) = Waiting

(* prod_insert is locked while a thread is between lock and unlock.        *)
MutexInv ==
    /\ prod_insert = 1 => Filling = {}
    /\ \A s, t \in Filling : s = t

(* The slot k places after cons_vector, and the one after s.               *)
Slot(k) == IF cons_vector + k < MAX_SEND_WAITING
           THEN cons_vector + k ELSE cons_vector + k - MAX_SEND_WAITING
After(s) == IF s + 1 = MAX_SEND_WAITING THEN 0 ELSE s + 1

(* The slot after the items is where prod_vector is or goes next.          *)
PositionInv ==
    Slot(Waiting) = IF prod_insert = 1 THEN After(prod_vector) ELSE prod_vector

(* A loop over the fields of an item starts with the first of them; who is *)
(* in a call has made one.                                                 *)
FieldInv ==
    /\ \A t \in Threads : pc[t] # "idle" => calls[t] > 0
    /\ \A t \in Threads : pc[t] \notin {"set", "pass", "fill"} => fld[t] = 1
    /\ cpc # "read" => cfld = 1

Written(n) == {Fields[i] : i \in 1..(n - 1)}

(* The ring holds the items not yet removed, oldest first; *)
ItemsInv ==
    \A k \in 0..(Waiting - 1) : wait_list[Slot(k)] = inserted[Len(removed) + 1 + k]

(* then comes the one that is being filled; *)
FillInv ==
    \A t \in Filling : \A f \in Field :
        pc[t] = "unlock" \/ f \in Written(fld[t]) => wait_list[prod_vector][f] = head[t][f]

(* and the oldest is the one that is being read. *)
ReadInv ==
    cpc = "read" => \A f \in Written(cfld) : tmp[f] = inserted[Len(removed) + 1][f]

QueueInv == TypeOK /\ CountInv /\ MutexInv /\ PositionInv /\ FieldInv
            /\ ItemsInv /\ FillInv /\ ReadInv

-----------------------------------------------------------------------------
LEMMA FieldsFacts ==
    /\ Len(Fields) = 3
    /\ \A i \in 1..3 : Fields[i] \in Field
    /\ Field = {Fields[i] : i \in 1..3}
  <1>1. Fields[1] = "dest" /\ Fields[2] = "data" /\ Fields[3] = "first_dest_link"
    BY DEF Fields
  <1>2. \A i \in 1..3 : i = 1 \/ i = 2 \/ i = 3
    OBVIOUS
  <1> QED
    BY <1>1, <1>2 DEF Fields, Field

LEMMA WrittenFacts ==
    /\ Written(1) = {}
    /\ \A n \in 1..3 : \A f \in Written(n + 1) : f \in Written(n) \/ f = Fields[n]
    /\ \A f \in Field : f \in Written(3) \/ f = Fields[3]
  <1>1. Written(1) = {}
    BY DEF Written
  <1>2. ASSUME NEW n \in 1..3, NEW f \in Written(n + 1)
        PROVE  f \in Written(n) \/ f = Fields[n]
    BY DEF Written
  <1>3. Field = Written(4)
    BY FieldsFacts DEF Written
  <1>4. 3 \in 1..3 /\ 3 + 1 = 4
    OBVIOUS
  <1> QED
    BY <1>1, <1>2, <1>3, <1>4

LEMMA NextSlot ==
  ASSUME NEW s \in Slots
  PROVE  (s + 1) % MAX_SEND_WAITING = After(s) /\ After(s) \in Slots
  BY SendQueueAssumption DEF SendQueueAssumption, Slots, After

LEMMA EmptyItemIsItem == EmptyItem \in Item
  BY DEF EmptyItem, Item

Label == {"idle", "set", "pass", "claim", "lock", "fill", "unlock", "post"}

LEMMA NextFieldTypes ==
  ASSUME TypeOK, NEW t \in Threads, NEW label \in Label, NextField(t, label)
  PROVE  pc' \in [Threads -> Label] /\ fld' \in [Threads -> 1..3]
  <1>1. fld \in [Threads -> 1..3] /\ pc \in [Threads -> Label]
    BY FieldsFacts DEF TypeOK, Label
  <1>2. CASE fld[t] < 3
    <2>1. UNCHANGED pc /\ fld' = [fld EXCEPT ![t] = fld[t] + 1]
      BY <1>2, FieldsFacts DEF NextField
    <2> QED
      BY <1>1, <1>2, <2>1
  <1>3. CASE ~(fld[t] < 3)
    <2>1. pc' = [pc EXCEPT ![t] = label] /\ fld' = [fld EXCEPT ![t] = 1]
      BY <1>3, FieldsFacts DEF NextField, Goto
    <2> QED
      BY <1>1, <2>1
  <1> QED
    BY <1>2, <1>3

LEMMA TypeStep ==
  ASSUME TypeOK, FieldInv, [Next]_vars
  PROVE  TypeOK'
  <1>1. ASSUME NEW t \in Threads, Unreachable(t) PROVE TypeOK'
    BY <1>1, SendQueueAssumption DEF Unreachable, queue, semas, ring, consumer,
       history, TypeOK, SendQueueAssumption
  <1>2. ASSUME NEW t \in Threads, NetSend(t) PROVE TypeOK'
    BY <1>2, SendQueueAssumption DEF NetSend, queue, semas, ring, consumer,
       history, Goto, TypeOK, SendQueueAssumption
  <1>3. ASSUME NEW t \in Threads, SetField(t) PROVE TypeOK'
    <2>1. ThisCall(t) \in Call
      <3>1. calls[t] \in 1..MaxCalls
        <4>1. calls[t] \in 0..MaxCalls /\ MaxCalls \in Nat
          BY SendQueueAssumption DEF TypeOK, SendQueueAssumption
        <4>2. calls[t] > 0
          BY <1>3 DEF SetField, FieldInv
        <4> QED
          BY <4>1, <4>2
      <3> QED
        BY <3>1 DEF ThisCall, Call
    <2>2. Fields[fld[t]] \in Field
      BY FieldsFacts DEF TypeOK
    <2>3. wait_item' \in Item
      BY <1>3, <2>1, <2>2 DEF SetField, TypeOK, Item
    <2>4. pc' \in [Threads -> Label] /\ fld' \in [Threads -> 1..3]
      BY <1>3, NextFieldTypes DEF SetField, Label
    <2> QED
      BY <1>3, <2>3, <2>4, FieldsFacts DEF SetField, TypeOK, Label, queue, semas,
         ring, consumer, history
  <1>4. ASSUME NEW t \in Threads, PassField(t) PROVE TypeOK'
    <2>1. Fields[fld[t]] \in Field
      BY FieldsFacts DEF TypeOK
    <2>2. head' \in [Threads -> Item]
      BY <1>4, <2>1 DEF PassField, TypeOK, Item
    <2>3. pc' \in [Threads -> Label] /\ fld' \in [Threads -> 1..3]
      BY <1>4, NextFieldTypes DEF PassField, Label
    <2> QED
      BY <1>4, <2>2, <2>3, FieldsFacts DEF PassField, queue, semas, ring,
         consumer, history, NextField, Goto, TypeOK, Label
  <1>5. ASSUME NEW t \in Threads, NetResend(t) PROVE TypeOK'
    <2>1. calls' \in [Threads -> 0..MaxCalls]
      BY <1>5, SendQueueAssumption DEF NetResend, TypeOK, SendQueueAssumption
    <2>2. <<t, calls[t] + 1>> \in Call
      BY <1>5, SendQueueAssumption DEF NetResend, TypeOK, SendQueueAssumption, Call
    <2>3. head' \in [Threads -> Item]
      BY <1>5, <2>2 DEF NetResend, TypeOK, Item
    <2> QED
      BY <1>5, <2>1, <2>3 DEF NetResend, queue, semas, ring, consumer, history,
         Goto, TypeOK
  <1>6. ASSUME NEW t \in Threads, ClaimSlot(t) PROVE TypeOK'
    BY <1>6 DEF ClaimSlot, caller, ring, consumer, history, Goto, TypeOK
  <1>7. ASSUME NEW t \in Threads, LockInsert(t) PROVE TypeOK'
    BY <1>7, NextSlot DEF LockInsert, caller, semas, consumer, history, Goto, TypeOK
  <1>8. ASSUME NEW t \in Threads, FillField(t) PROVE TypeOK'
    <2>1. Fields[fld[t]] \in Field
      BY FieldsFacts DEF TypeOK
    <2>2. wait_list' \in [Slots -> Item]
      BY <1>8, <2>1 DEF FillField, TypeOK, Item
    <2>3. pc' \in [Threads -> Label] /\ fld' \in [Threads -> 1..3]
      BY <1>8, NextFieldTypes DEF FillField, Label
    <2> QED
      BY <1>8, <2>2, <2>3, FieldsFacts DEF FillField, caller, semas, consumer,
         history, NextField, Goto, TypeOK, Label
  <1>9. ASSUME NEW t \in Threads, UnlockInsert(t) PROVE TypeOK'
    BY <1>9 DEF UnlockInsert, caller, semas, ring, consumer, Goto, TypeOK
  <1>10. ASSUME NEW t \in Threads, PostItem(t) PROVE TypeOK'
    BY <1>10 DEF PostItem, caller, ring, consumer, history, Goto, TypeOK
  <1>11. CASE ClaimItem
    BY <1>11 DEF ClaimItem, caller, ring, history, TypeOK
  <1>12. CASE CopyField
    <2>1. Fields[cfld] \in Field
      BY FieldsFacts DEF TypeOK
    <2>2. tmp' \in Item
      <3>1. wait_list[cons_vector] \in Item /\ tmp \in Item
        BY DEF TypeOK
      <3>2. tmp' = [tmp EXCEPT ![Fields[cfld]] = wait_list[cons_vector][Fields[cfld]]]
        BY <1>12 DEF CopyField
      <3> QED
        BY <2>1, <3>1, <3>2 DEF Item
    <2>3. cons_vector' \in Slots /\ removed' \in Seq(Item)
      <3>1. cons_vector \in Slots /\ removed \in Seq(Item)
        BY DEF TypeOK
      <3>2. \/ UNCHANGED <<cons_vector, removed>>
            \/ /\ cons_vector' = (cons_vector + 1) % MAX_SEND_WAITING
               /\ removed' = Append(removed, tmp')
        BY <1>12 DEF CopyField
      <3> QED
        BY <2>2, <3>1, <3>2, NextSlot
    <2>4. cpc' \in {"wait", "read", "free"} /\ cfld' \in 1..Len(Fields)
      BY <1>12, FieldsFacts DEF CopyField, TypeOK
    <2> QED
      BY <1>12, <2>2, <2>3, <2>4 DEF CopyField, caller, semas, TypeOK
  <1>13. CASE FreeSlot
    BY <1>13 DEF FreeSlot, caller, ring, history, TypeOK
  <1>14. CASE UNCHANGED vars
    BY <1>14 DEF vars, queue, caller, semas, ring, consumer, history, TypeOK
  <1> QED
    BY <1>1, <1>2, <1>3, <1>4, <1>5, <1>6, <1>7, <1>8, <1>9, <1>10, <1>11, <1>12,
       <1>13, <1>14 DEF Next, Insert, Remove

LEMMA FieldStep ==
  ASSUME TypeOK, FieldInv, [Next]_vars
  PROVE  FieldInv'
  <1>1. ASSUME NEW t \in Threads, Unreachable(t) PROVE FieldInv'
    BY <1>1, FieldsFacts DEF Unreachable, queue, semas, ring, consumer, history,
       FieldInv, TypeOK
  <1>2. ASSUME NEW t \in Threads, NetSend(t) PROVE FieldInv'
    BY <1>2, FieldsFacts DEF NetSend, queue, semas, ring, consumer, history,
       Goto, FieldInv, TypeOK
  <1>3. ASSUME NEW t \in Threads, SetField(t) PROVE FieldInv'
    BY <1>3, FieldsFacts DEF SetField, queue, semas, ring, consumer, history,
       NextField, Goto, ThisCall, FieldInv, TypeOK
  <1>4. ASSUME NEW t \in Threads, PassField(t) PROVE FieldInv'
    BY <1>4, FieldsFacts DEF PassField, queue, semas, ring, consumer, history,
       NextField, Goto, FieldInv, TypeOK
  <1>5. ASSUME NEW t \in Threads, NetResend(t) PROVE FieldInv'
    BY <1>5, FieldsFacts DEF NetResend, queue, semas, ring, consumer, history,
       Goto, FieldInv, TypeOK
  <1>6. ASSUME NEW t \in Threads, ClaimSlot(t) PROVE FieldInv'
    BY <1>6, FieldsFacts DEF ClaimSlot, caller, ring, consumer, history, Goto,
       FieldInv, TypeOK
  <1>7. ASSUME NEW t \in Threads, LockInsert(t) PROVE FieldInv'
    BY <1>7, FieldsFacts DEF LockInsert, caller, semas, consumer, history, Goto,
       FieldInv, TypeOK
  <1>8. ASSUME NEW t \in Threads, FillField(t) PROVE FieldInv'
    BY <1>8, FieldsFacts DEF FillField, caller, semas, consumer, history,
       NextField, Goto, FieldInv, TypeOK
  <1>9. ASSUME NEW t \in Threads, UnlockInsert(t) PROVE FieldInv'
    BY <1>9, FieldsFacts DEF UnlockInsert, caller, semas, ring, consumer, Goto,
       FieldInv, TypeOK
  <1>10. ASSUME NEW t \in Threads, PostItem(t) PROVE FieldInv'
    BY <1>10, FieldsFacts DEF PostItem, caller, ring, consumer, history, Goto,
       FieldInv, TypeOK
  <1>11. CASE ClaimItem
    BY <1>11, FieldsFacts DEF ClaimItem, caller, ring, history, FieldInv, TypeOK
  <1>12. CASE CopyField
    BY <1>12, FieldsFacts DEF CopyField, caller, semas, FieldInv, TypeOK
  <1>13. CASE FreeSlot
    BY <1>13, FieldsFacts DEF FreeSlot, caller, ring, history, FieldInv, TypeOK
  <1>14. CASE UNCHANGED vars
    BY <1>14, FieldsFacts DEF vars, queue, caller, semas, ring, consumer,
       history, FieldInv, TypeOK
  <1> QED
    BY <1>1, <1>2, <1>3, <1>4, <1>5, <1>6, <1>7, <1>8, <1>9, <1>10, <1>11, <1>12,
       <1>13, <1>14 DEF Next, Insert, Remove

LEMMA NextFieldPc ==
  ASSUME NEW t, NEW label, NextField(t, label)
  PROVE  pc' = pc \/ pc' = [pc EXCEPT ![t] = label]
  BY DEF NextField, Goto

LEMMA SameCount ==
  ASSUME CountInv, Claimed' = Claimed, Posting' = Posting,
         UNCHANGED <<g_sem_prod, g_sem_cons, inserted, removed, cpc>>
  PROVE  CountInv'
  BY DEF CountInv, Waiting

LEMMA Sizes ==
  ASSUME TypeOK, CountInv
  PROVE  /\ g_sem_prod \in Nat /\ g_sem_cons \in Nat
         /\ Len(inserted) \in Nat /\ Len(removed) \in Nat
         /\ Cardinality(Claimed) \in Nat /\ Cardinality(Posting) \in Nat
         /\ MAX_SEND_WAITING \in Nat /\ MAX_SEND_WAITING > 0
         /\ Waiting \in 0..MAX_SEND_WAITING
  <1>1. /\ g_sem_prod \in Nat /\ g_sem_cons \in Nat
        /\ Len(inserted) \in Nat /\ Len(removed) \in Nat
    BY DEF TypeOK
  <1>2. Cardinality(Claimed) \in Nat /\ Cardinality(Posting) \in Nat
    BY FS_CardinalityType DEF CountInv
  <1>3. MAX_SEND_WAITING \in Nat /\ MAX_SEND_WAITING > 0
    BY SendQueueAssumption DEF SendQueueAssumption
  <1> QED
    BY <1>1, <1>2, <1>3 DEF CountInv, Waiting

LEMMA CountStep ==
  ASSUME TypeOK, CountInv, [Next]_vars
  PROVE  CountInv'
  <1>1. ASSUME NEW t \in Threads, Unreachable(t) PROVE CountInv'
    <2>1. Claimed' = Claimed /\ Posting' = Posting
      BY <1>1 DEF Unreachable, Claimed, Posting
    <2> QED
      BY <1>1, <2>1, SameCount DEF Unreachable, queue, semas, ring, consumer,
         history
  <1>2. ASSUME NEW t \in Threads, NetSend(t) PROVE CountInv'
    <2>1. pc[t] \notin {"lock", "fill", "unlock", "post"}
      BY <1>2 DEF NetSend
    <2>2. pc' = pc \/ pc' = [pc EXCEPT ![t] = "set"]
      BY <1>2, NextFieldPc DEF NetSend, Goto
    <2>3. Claimed' = Claimed /\ Posting' = Posting
      BY <2>1, <2>2 DEF Claimed, Posting, TypeOK
    <2> QED
      BY <1>2, <2>3, SameCount DEF NetSend, queue, semas, ring, consumer,
         history, Goto
  <1>3. ASSUME NEW t \in Threads, SetField(t) PROVE CountInv'
    <2>1. pc[t] \notin {"lock", "fill", "unlock", "post"}
      BY <1>3 DEF SetField
    <2>2. pc' = pc \/ pc' = [pc EXCEPT ![t] = "pass"]
      BY <1>3, NextFieldPc DEF SetField, Goto
    <2>3. Claimed' = Claimed /\ Posting' = Posting
      BY <2>1, <2>2 DEF Claimed, Posting, TypeOK
    <2> QED
      BY <1>3, <2>3, SameCount DEF SetField, queue, semas, ring, consumer,
         history, NextField, Goto, ThisCall
  <1>4. ASSUME NEW t \in Threads, PassField(t) PROVE CountInv'
    <2>1. pc[t] \notin {"lock", "fill", "unlock", "post"}
      BY <1>4 DEF PassField
    <2>2. pc' = pc \/ pc' = [pc EXCEPT ![t] = "claim"]
      BY <1>4, NextFieldPc DEF PassField, Goto
    <2>3. Claimed' = Claimed /\ Posting' = Posting
      BY <2>1, <2>2 DEF Claimed, Posting, TypeOK
    <2> QED
      BY <1>4, <2>3, SameCount DEF PassField, queue, semas, ring, consumer,
         history, NextField, Goto
  <1>5. ASSUME NEW t \in Threads, NetResend(t) PROVE CountInv'
    <2>1. pc[t] \notin {"lock", "fill", "unlock", "post"}
      BY <1>5 DEF NetResend
    <2>2. pc' = pc \/ pc' = [pc EXCEPT ![t] = "claim"]
      BY <1>5, NextFieldPc DEF NetResend, Goto
    <2>3. Claimed' = Claimed /\ Posting' = Posting
      BY <2>1, <2>2 DEF Claimed, Posting, TypeOK
    <2> QED
      BY <1>5, <2>3, SameCount DEF NetResend, queue, semas, ring, consumer,
         history, Goto
  <1>6. ASSUME NEW t \in Threads, ClaimSlot(t) PROVE CountInv'
    <2>1. Claimed' = Claimed \cup {t} /\ t \notin Claimed /\ Posting' = Posting
      BY <1>6 DEF ClaimSlot, Goto, Claimed, Posting, TypeOK
    <2>2. IsFiniteSet(Claimed') /\ Cardinality(Claimed') = Cardinality(Claimed) + 1
      BY <2>1, FS_AddElement DEF CountInv
    <2> QED
      BY <1>6, <2>1, <2>2, Sizes DEF ClaimSlot, caller, ring, consumer, history,
         Goto, CountInv, Waiting
  <1>7. ASSUME NEW t \in Threads, LockInsert(t) PROVE CountInv'
    <2>1. pc[t] \in {"lock", "fill"}
      BY <1>7 DEF LockInsert
    <2>2. pc' = pc \/ pc' = [pc EXCEPT ![t] = "fill"]
      BY <1>7, NextFieldPc DEF LockInsert, Goto
    <2>3. Claimed' = Claimed /\ Posting' = Posting
      BY <2>1, <2>2 DEF Claimed, Posting, TypeOK
    <2> QED
      BY <1>7, <2>3, SameCount DEF LockInsert, caller, semas, consumer, history,
         Goto
  <1>8. ASSUME NEW t \in Threads, FillField(t) PROVE CountInv'
    <2>1. pc[t] \in {"lock", "fill"}
      BY <1>8 DEF FillField
    <2>2. pc' = pc \/ pc' = [pc EXCEPT ![t] = "unlock"]
      BY <1>8, NextFieldPc DEF FillField, Goto
    <2>3. Claimed' = Claimed /\ Posting' = Posting
      BY <2>1, <2>2 DEF Claimed, Posting, TypeOK
    <2> QED
      BY <1>8, <2>3, SameCount DEF FillField, caller, semas, consumer, history,
         NextField, Goto
  <1>9. ASSUME NEW t \in Threads, UnlockInsert(t) PROVE CountInv'
    <2>1. Claimed' = Claimed \ {t} /\ t \in Claimed
      BY <1>9 DEF UnlockInsert, Goto, Claimed, TypeOK
    <2>2. Posting' = Posting \cup {t} /\ t \notin Posting
      BY <1>9 DEF UnlockInsert, Goto, Posting, TypeOK
    <2>3. IsFiniteSet(Claimed') /\ Cardinality(Claimed') = Cardinality(Claimed) - 1
      BY <2>1, FS_RemoveElement DEF CountInv
    <2>4. IsFiniteSet(Posting') /\ Cardinality(Posting') = Cardinality(Posting) + 1
      BY <2>2, FS_AddElement DEF CountInv
    <2>5. Len(inserted') = Len(inserted) + 1
      BY <1>9 DEF UnlockInsert, TypeOK
    <2>6. Waiting' = Waiting + 1
      BY <1>9, <2>5, Sizes DEF UnlockInsert, Waiting
    <2>7. UNCHANGED <<g_sem_prod, g_sem_cons, cpc>>
      BY <1>9 DEF UnlockInsert, semas, consumer
    <2>8. (g_sem_prod + Cardinality(Claimed) + Waiting
             + (IF cpc = "free" THEN 1 ELSE 0) = MAX_SEND_WAITING)'
      BY <2>3, <2>6, <2>7, Sizes DEF CountInv
    <2>9. (g_sem_cons + Cardinality(Posting)
             + (IF cpc = "read" THEN 1 ELSE 0) = Waiting)'
      BY <2>4, <2>6, <2>7, Sizes DEF CountInv
    <2> QED
      BY <2>3, <2>4, <2>8, <2>9 DEF CountInv
  <1>10. ASSUME NEW t \in Threads, PostItem(t) PROVE CountInv'
    <2>1. Claimed' = Claimed
      BY <1>10 DEF PostItem, Goto, Claimed, TypeOK
    <2>2. Posting' = Posting \ {t} /\ t \in Posting
      BY <1>10 DEF PostItem, Goto, Posting, TypeOK
    <2>3. IsFiniteSet(Posting') /\ Cardinality(Posting') = Cardinality(Posting) - 1
      BY <2>2, FS_RemoveElement DEF CountInv
    <2> QED
      BY <1>10, <2>1, <2>3, Sizes DEF PostItem, caller, ring, consumer, history,
         Goto, CountInv, Waiting
  <1>11. CASE ClaimItem
    <2>1. Claimed' = Claimed /\ Posting' = Posting
      BY <1>11 DEF ClaimItem, caller, Claimed, Posting
    <2> QED
      BY <1>11, <2>1, Sizes DEF ClaimItem, caller, ring, history, CountInv, Waiting
  <1>12. CASE CopyField
    <2>1. Claimed' = Claimed /\ Posting' = Posting
      BY <1>12 DEF CopyField, caller, Claimed, Posting
    <2>2. CASE cfld < 3
      <3>1. UNCHANGED <<g_sem_prod, g_sem_cons, inserted, removed, cpc>>
        BY <1>12, <2>2, FieldsFacts DEF CopyField, semas
      <3> QED
        BY <2>1, <3>1, SameCount
    <2>3. CASE ~(cfld < 3)
      <3>1. cpc = "read" /\ cpc' = "free" /\ removed' = Append(removed, tmp')
        BY <1>12, <2>3, FieldsFacts DEF CopyField
      <3>2. Len(removed') = Len(removed) + 1
        BY <3>1 DEF TypeOK
      <3>3. UNCHANGED <<g_sem_prod, g_sem_cons, inserted>>
        BY <1>12 DEF CopyField, semas
      <3>4. Waiting' = Waiting - 1
        BY <3>2, <3>3, Sizes DEF Waiting
      <3> QED
        BY <2>1, <3>1, <3>3, <3>4, Sizes DEF CountInv
    <2> QED
      BY <2>2, <2>3
  <1>13. CASE FreeSlot
    <2>1. Claimed' = Claimed /\ Posting' = Posting
      BY <1>13 DEF FreeSlot, caller, Claimed, Posting
    <2> QED
      BY <1>13, <2>1, Sizes DEF FreeSlot, caller, ring, history, CountInv, Waiting
  <1>14. CASE UNCHANGED vars
    <2>1. Claimed' = Claimed /\ Posting' = Posting
      BY <1>14 DEF vars, queue, caller, semas, ring, consumer, history, Claimed,
         Posting
    <2> QED
      BY <1>14, <2>1, SameCount DEF vars, queue, caller, semas, ring, consumer,
         history
  <1> QED
    BY <1>1, <1>2, <1>3, <1>4, <1>5, <1>6, <1>7, <1>8, <1>9, <1>10, <1>11, <1>12,
       <1>13, <1>14 DEF Next, Insert, Remove

LEMMA SameMutex ==
  ASSUME MutexInv, Filling' = Filling, UNCHANGED prod_insert
  PROVE  MutexInv'
  BY DEF MutexInv

LEMMA MutexStep ==
  ASSUME TypeOK, MutexInv, [Next]_vars
  PROVE  MutexInv'
  <1>1. ASSUME NEW t \in Threads, Unreachable(t) PROVE MutexInv'
    <2>1. Filling' = Filling
      BY <1>1 DEF Unreachable, queue, semas, ring, consumer, history, Filling
    <2> QED
      BY <1>1, <2>1, SameMutex DEF Unreachable, queue, semas, ring, consumer,
         history
  <1>2. ASSUME NEW t \in Threads, NetSend(t) PROVE MutexInv'
    <2>1. pc[t] \notin {"fill", "unlock"}
      BY <1>2 DEF NetSend
    <2>2. pc' = pc \/ pc' = [pc EXCEPT ![t] = "set"]
      BY <1>2, NextFieldPc DEF NetSend, Goto
    <2>3. Filling' = Filling
      BY <2>1, <2>2 DEF Filling, TypeOK
    <2> QED
      BY <1>2, <2>3, SameMutex DEF NetSend, queue, semas, ring, consumer,
         history, Goto
  <1>3. ASSUME NEW t \in Threads, SetField(t) PROVE MutexInv'
    <2>1. pc[t] \notin {"fill", "unlock"}
      BY <1>3 DEF SetField
    <2>2. pc' = pc \/ pc' = [pc EXCEPT ![t] = "pass"]
      BY <1>3, NextFieldPc DEF SetField, Goto
    <2>3. Filling' = Filling
      BY <2>1, <2>2 DEF Filling, TypeOK
    <2> QED
      BY <1>3, <2>3, SameMutex DEF SetField, queue, semas, ring, consumer,
         history, NextField, Goto, ThisCall
  <1>4. ASSUME NEW t \in Threads, PassField(t) PROVE MutexInv'
    <2>1. pc[t] \notin {"fill", "unlock"}
      BY <1>4 DEF PassField
    <2>2. pc' = pc \/ pc' = [pc EXCEPT ![t] = "claim"]
      BY <1>4, NextFieldPc DEF PassField, Goto
    <2>3. Filling' = Filling
      BY <2>1, <2>2 DEF Filling, TypeOK
    <2> QED
      BY <1>4, <2>3, SameMutex DEF PassField, queue, semas, ring, consumer,
         history, NextField, Goto
  <1>5. ASSUME NEW t \in Threads, NetResend(t) PROVE MutexInv'
    <2>1. pc[t] \notin {"fill", "unlock"}
      BY <1>5 DEF NetResend
    <2>2. pc' = pc \/ pc' = [pc EXCEPT ![t] = "claim"]
      BY <1>5, NextFieldPc DEF NetResend, Goto
    <2>3. Filling' = Filling
      BY <2>1, <2>2 DEF Filling, TypeOK
    <2> QED
      BY <1>5, <2>3, SameMutex DEF NetResend, queue, semas, ring, consumer,
         history, Goto
  <1>6. ASSUME NEW t \in Threads, ClaimSlot(t) PROVE MutexInv'
    <2>1. pc[t] \notin {"fill", "unlock"}
      BY <1>6 DEF ClaimSlot
    <2>2. pc' = pc \/ pc' = [pc EXCEPT ![t] = "lock"]
      BY <1>6, NextFieldPc DEF ClaimSlot, Goto
    <2>3. Filling' = Filling
      BY <2>1, <2>2 DEF Filling, TypeOK
    <2> QED
      BY <1>6, <2>3, SameMutex DEF ClaimSlot, caller, ring, consumer, history, Goto
  <1>7. ASSUME NEW t \in Threads, LockInsert(t) PROVE MutexInv'
    <2>1. Filling = {}
      BY <1>7 DEF LockInsert, MutexInv
    <2>2. Filling' = {t} /\ prod_insert' # 1
      BY <1>7, <2>1 DEF LockInsert, Goto, Filling, TypeOK
    <2> QED
      BY <2>2 DEF MutexInv
  <1>8. ASSUME NEW t \in Threads, FillField(t) PROVE MutexInv'
    <2>1. pc' = pc \/ pc' = [pc EXCEPT ![t] = "unlock"]
      BY <1>8, NextFieldPc DEF FillField, Goto
    <2>2. Filling' = Filling
      BY <1>8, <2>1 DEF FillField, Filling, TypeOK
    <2> QED
      BY <1>8, <2>2, SameMutex DEF FillField, caller, semas, consumer, history,
         NextField, Goto
  <1>9. ASSUME NEW t \in Threads, UnlockInsert(t) PROVE MutexInv'
    <2>1. Filling = {t}
      BY <1>9 DEF UnlockInsert, MutexInv, Filling
    <2>2. Filling' = {}
      BY <1>9, <2>1 DEF UnlockInsert, Goto, Filling, TypeOK
    <2> QED
      BY <2>2 DEF MutexInv
  <1>10. ASSUME NEW t \in Threads, PostItem(t) PROVE MutexInv'
    <2>1. pc[t] \notin {"fill", "unlock"}
      BY <1>10 DEF PostItem
    <2>2. pc' = pc \/ pc' = [pc EXCEPT ![t] = "idle"]
      BY <1>10, NextFieldPc DEF PostItem, Goto
    <2>3. Filling' = Filling
      BY <2>1, <2>2 DEF Filling, TypeOK
    <2> QED
      BY <1>10, <2>3, SameMutex DEF PostItem, caller, ring, consumer, history, Goto
  <1>11. CASE ClaimItem
    <2>1. Filling' = Filling
      BY <1>11 DEF ClaimItem, caller, ring, history, Filling
    <2> QED
      BY <1>11, <2>1, SameMutex DEF ClaimItem, caller, ring, history
  <1>12. CASE CopyField
    <2>1. Filling' = Filling
      BY <1>12 DEF CopyField, caller, semas, Filling
    <2> QED
      BY <1>12, <2>1, SameMutex DEF CopyField, caller, semas
  <1>13. CASE FreeSlot
    <2>1. Filling' = Filling
      BY <1>13 DEF FreeSlot, caller, ring, history, Filling
    <2> QED
      BY <1>13, <2>1, SameMutex DEF FreeSlot, caller, ring, history
  <1>14. CASE UNCHANGED vars
    <2>1. Filling' = Filling
      BY <1>14 DEF vars, queue, caller, semas, ring, consumer, history, Filling
    <2> QED
      BY <1>14, <2>1, SameMutex DEF vars, queue, caller, semas, ring, consumer,
         history
  <1> QED
    BY <1>1, <1>2, <1>3, <1>4, <1>5, <1>6, <1>7, <1>8, <1>9, <1>10, <1>11, <1>12,
       <1>13, <1>14 DEF Next, Insert, Remove

LEMMA SamePosition ==
  ASSUME PositionInv, UNCHANGED <<prod_insert, prod_vector, cons_vector, inserted, removed>>
  PROVE  PositionInv'
  BY DEF PositionInv, Slot, After, Waiting

LEMMA SlotFacts ==
  ASSUME TypeOK, CountInv
  PROVE  /\ \A k \in 0..MAX_SEND_WAITING : Slot(k) \in Slots
         /\ \A k \in 0..(MAX_SEND_WAITING - 1) : Slot(k + 1) = After(Slot(k))
         /\ \A j, k \in 0..MAX_SEND_WAITING :
              j < k /\ k < MAX_SEND_WAITING => Slot(j) # Slot(k)
         /\ Slot(0) = cons_vector
  <1>1. cons_vector \in 0..(MAX_SEND_WAITING - 1)
    BY DEF TypeOK, Slots
  <1>2. MAX_SEND_WAITING \in Nat \ {0}
    BY SendQueueAssumption DEF SendQueueAssumption
  <1>3. \A k \in 0..MAX_SEND_WAITING : Slot(k) \in Slots
    BY <1>1, <1>2 DEF Slot, Slots
  <1>4. \A k \in 0..(MAX_SEND_WAITING - 1) : Slot(k + 1) = After(Slot(k))
    BY <1>1, <1>2 DEF Slot, After
  <1>5. \A j, k \in 0..MAX_SEND_WAITING :
              j < k /\ k < MAX_SEND_WAITING => Slot(j) # Slot(k)
    BY <1>1, <1>2 DEF Slot
  <1>6. Slot(0) = cons_vector
    BY <1>1, <1>2 DEF Slot
  <1> QED
    BY <1>3, <1>4, <1>5, <1>6

(* Who has claimed a slot finds one. *)
LEMMA RoomToFill ==
  ASSUME TypeOK, CountInv, NEW t \in Claimed
  PROVE  Waiting < MAX_SEND_WAITING
  <1>1. Cardinality(Claimed) # 0
    BY FS_EmptySet DEF CountInv
  <1> QED
    BY <1>1, Sizes DEF CountInv

(* Who has claimed an item finds one. *)
LEMMA ItemToRead ==
  ASSUME TypeOK, CountInv, cpc = "read"
  PROVE  Waiting > 0
  BY Sizes DEF CountInv


(* The consumer has copied the last field: what follows from it. *)
LastField ==
    /\ UNCHANGED <<prod_insert, prod_vector, wait_list, inserted>>
    /\ cpc = "read" /\ cpc' = "free" /\ removed' = Append(removed, tmp')
    /\ tmp' = [tmp EXCEPT ![Fields[3]] = wait_list[cons_vector][Fields[3]]]
    /\ Waiting > 0 /\ Waiting' = Waiting - 1 /\ Len(removed') = Len(removed) + 1
    /\ \A k \in 0..(MAX_SEND_WAITING - 1) : Slot(k)' = Slot(k + 1)

LEMMA LastFieldRead ==
  ASSUME TypeOK, CountInv, CopyField, ~(cfld < 3)
  PROVE  LastField
  <1>1. cfld = 3
    BY FieldsFacts DEF TypeOK
  <1>2. /\ UNCHANGED <<prod_insert, prod_vector, wait_list, inserted>>
        /\ cpc = "read" /\ cpc' = "free" /\ removed' = Append(removed, tmp')
        /\ tmp' = [tmp EXCEPT ![Fields[3]] = wait_list[cons_vector][Fields[3]]]
        /\ cons_vector' = After(cons_vector)
    BY <1>1, FieldsFacts, NextSlot DEF CopyField, TypeOK
  <1>3. Waiting > 0
    BY <1>2, ItemToRead
  <1>4. Waiting' = Waiting - 1 /\ Len(removed') = Len(removed) + 1
    BY <1>2, Sizes DEF Waiting, TypeOK
  <1>5. ASSUME NEW k \in 0..(MAX_SEND_WAITING - 1) PROVE Slot(k)' = Slot(k + 1)
    <2>1. cons_vector \in 0..(MAX_SEND_WAITING - 1) /\ MAX_SEND_WAITING \in Nat \ {0}
      BY SendQueueAssumption DEF TypeOK, Slots, SendQueueAssumption
    <2> QED
      BY <1>2, <2>1 DEF Slot, After
  <1> QED
    BY <1>2, <1>3, <1>4, <1>5 DEF LastField

LEMMA PositionStep ==
  ASSUME TypeOK, CountInv, MutexInv, PositionInv, [Next]_vars
  PROVE  PositionInv'
  <1>1. ASSUME NEW t \in Threads, Unreachable(t) PROVE PositionInv'
    BY <1>1, SamePosition DEF Unreachable, queue, semas, ring, consumer, history
  <1>2. ASSUME NEW t \in Threads, NetSend(t) PROVE PositionInv'
    BY <1>2, SamePosition DEF NetSend, queue, semas, ring, consumer, history, Goto
  <1>3. ASSUME NEW t \in Threads, SetField(t) PROVE PositionInv'
    BY <1>3, SamePosition DEF SetField, queue, semas, ring, consumer, history,
       NextField, Goto, ThisCall
  <1>4. ASSUME NEW t \in Threads, PassField(t) PROVE PositionInv'
    BY <1>4, SamePosition DEF PassField, queue, semas, ring, consumer, history,
       NextField, Goto
  <1>5. ASSUME NEW t \in Threads, NetResend(t) PROVE PositionInv'
    BY <1>5, SamePosition DEF NetResend, queue, semas, ring, consumer, history, Goto
  <1>6. ASSUME NEW t \in Threads, ClaimSlot(t) PROVE PositionInv'
    BY <1>6, SamePosition DEF ClaimSlot, caller, ring, consumer, history, Goto
  <1>7. ASSUME NEW t \in Threads, LockInsert(t) PROVE PositionInv'
    <2>1. prod_insert = 1 /\ prod_insert' = 0 /\ prod_vector' = After(prod_vector)
      BY <1>7, NextSlot DEF LockInsert, TypeOK
    <2>2. UNCHANGED <<cons_vector, inserted, removed>>
      BY <1>7 DEF LockInsert, history
    <2> QED
      BY <2>1, <2>2 DEF PositionInv, Slot, Waiting
  <1>8. ASSUME NEW t \in Threads, FillField(t) PROVE PositionInv'
    BY <1>8, SamePosition DEF FillField, caller, semas, consumer, history,
       NextField, Goto
  <1>9. ASSUME NEW t \in Threads, UnlockInsert(t) PROVE PositionInv'
    <2>1. t \in Filling /\ t \in Claimed
      BY <1>9 DEF UnlockInsert, Filling, Claimed
    <2>2. prod_insert # 1 /\ prod_insert' = 1 /\ UNCHANGED <<prod_vector,
       cons_vector>>
      BY <1>9, <2>1 DEF UnlockInsert, MutexInv, ring
    <2>3. Waiting < MAX_SEND_WAITING
      BY <2>1, RoomToFill
    <2>4. Waiting' = Waiting + 1
      BY <1>9, Sizes DEF UnlockInsert, Waiting, TypeOK
    <2>5. Slot(Waiting + 1) = After(prod_vector)
      BY <2>2, <2>3, Sizes, SlotFacts DEF PositionInv
    <2> QED
      BY <2>2, <2>4, <2>5 DEF PositionInv, Slot, After
  <1>10. ASSUME NEW t \in Threads, PostItem(t) PROVE PositionInv'
    BY <1>10, SamePosition DEF PostItem, caller, ring, consumer, history, Goto
  <1>11. CASE ClaimItem
    BY <1>11, SamePosition DEF ClaimItem, caller, ring, history
  <1>12. CASE CopyField
    <2>1. CASE cfld < 3
      <3>1. UNCHANGED <<prod_insert, prod_vector, cons_vector, inserted, removed>>
        BY <1>12, <2>1, FieldsFacts DEF CopyField
      <3> QED
        BY <3>1, SamePosition
    <2>2. CASE ~(cfld < 3)
      <3>1. LastField
        BY <1>12, <2>2, LastFieldRead
      <3> QED
        BY <3>1, Sizes DEF LastField, PositionInv, After
    <2> QED
      BY <2>1, <2>2
  <1>13. CASE FreeSlot
    BY <1>13, SamePosition DEF FreeSlot, caller, ring, history
  <1>14. CASE UNCHANGED vars
    BY <1>14, SamePosition DEF vars, queue, caller, semas, ring, consumer, history
  <1> QED
    BY <1>1, <1>2, <1>3, <1>4, <1>5, <1>6, <1>7, <1>8, <1>9, <1>10, <1>11, <1>12,
       <1>13, <1>14 DEF Next, Insert, Remove

LEMMA SameItems ==
  ASSUME ItemsInv, UNCHANGED <<wait_list, cons_vector, inserted, removed>>
  PROVE  ItemsInv'
  BY DEF ItemsInv, Slot, Waiting

LEMMA ItemsStep ==
  ASSUME TypeOK, CountInv, MutexInv, PositionInv, FillInv, ItemsInv, [Next]_vars
  PROVE  ItemsInv'
  <1>1. ASSUME NEW t \in Threads, Unreachable(t) PROVE ItemsInv'
    BY <1>1, SameItems DEF Unreachable, queue, semas, ring, consumer, history
  <1>2. ASSUME NEW t \in Threads, NetSend(t) PROVE ItemsInv'
    BY <1>2, SameItems DEF NetSend, queue, semas, ring, consumer, history, Goto
  <1>3. ASSUME NEW t \in Threads, SetField(t) PROVE ItemsInv'
    BY <1>3, SameItems DEF SetField, queue, semas, ring, consumer, history,
       NextField, Goto, ThisCall
  <1>4. ASSUME NEW t \in Threads, PassField(t) PROVE ItemsInv'
    BY <1>4, SameItems DEF PassField, queue, semas, ring, consumer, history,
       NextField, Goto
  <1>5. ASSUME NEW t \in Threads, NetResend(t) PROVE ItemsInv'
    BY <1>5, SameItems DEF NetResend, queue, semas, ring, consumer, history, Goto
  <1>6. ASSUME NEW t \in Threads, ClaimSlot(t) PROVE ItemsInv'
    BY <1>6, SameItems DEF ClaimSlot, caller, ring, consumer, history, Goto
  <1>7. ASSUME NEW t \in Threads, LockInsert(t) PROVE ItemsInv'
    BY <1>7, SameItems DEF LockInsert, caller, semas, consumer, history, Goto
  <1>8. ASSUME NEW t \in Threads, FillField(t) PROVE ItemsInv'
    <2>1. t \in Filling /\ t \in Claimed
      BY <1>8 DEF FillField, Filling, Claimed
    <2>2. Waiting \in 0..(MAX_SEND_WAITING - 1)
      BY <2>1, RoomToFill, Sizes
    <2>3. prod_vector = Slot(Waiting)
      BY <2>1 DEF PositionInv, MutexInv
    <2>4. ASSUME NEW k \in 0..(Waiting - 1) PROVE wait_list'[Slot(k)] = wait_list[Slot(k)]
      <3>1. Slot(k) # prod_vector /\ Slot(k) \in Slots
        BY <2>2, <2>3, SlotFacts, Sizes
      <3> QED
        BY <1>8, <3>1 DEF FillField, TypeOK
    <2>5. UNCHANGED <<cons_vector, inserted, removed>>
      BY <1>8 DEF FillField, history
    <2> QED
      BY <2>4, <2>5 DEF ItemsInv, Slot, Waiting
  <1>9. ASSUME NEW t \in Threads, UnlockInsert(t) PROVE ItemsInv'
    <2>1. t \in Filling /\ t \in Claimed /\ pc[t] = "unlock"
      BY <1>9 DEF UnlockInsert, Filling, Claimed
    <2>2. Waiting \in 0..(MAX_SEND_WAITING - 1)
      BY <2>1, RoomToFill, Sizes
    <2>3. wait_list[Slot(Waiting)] = head[t]
      <3>1. prod_vector = Slot(Waiting)
        BY <2>1 DEF PositionInv, MutexInv
      <3>2. \A f \in Field : wait_list[prod_vector][f] = head[t][f]
        BY <2>1 DEF FillInv
      <3>3. wait_list[prod_vector] \in [Field -> Call \cup {Empty}]
            /\ head[t] \in [Field -> Call \cup {Empty}]
        BY DEF TypeOK, Item
      <3> QED
        BY <3>1, <3>2, <3>3
    <2>4. inserted' = Append(inserted, head[t]) /\ inserted \in Seq(Item)
      BY <1>9 DEF UnlockInsert, TypeOK
    <2>5. Waiting' = Waiting + 1 /\ UNCHANGED <<wait_list, cons_vector, removed>>
      BY <1>9, <2>4, Sizes DEF UnlockInsert, Waiting, ring
    <2>6. ASSUME NEW k \in 0..Waiting
          PROVE  wait_list[Slot(k)] = inserted'[Len(removed) + 1 + k]
      <3>1. CASE k = Waiting
        <4>1. Len(removed) + 1 + k = Len(inserted) + 1
          BY <3>1, Sizes DEF Waiting
        <4> QED
          BY <2>3, <2>4, <3>1, <4>1
      <3>2. CASE k # Waiting
        <4>1. k \in 0..(Waiting - 1) /\ Len(removed) + 1 + k \in 1..Len(inserted)
          BY <3>2, Sizes DEF Waiting
        <4> QED
          BY <2>4, <4>1 DEF ItemsInv
      <3> QED
        BY <3>1, <3>2
    <2>7. \A k : Slot(k)' = Slot(k)
      BY <2>5 DEF Slot
    <2>8. 0..(Waiting' - 1) = 0..Waiting
      BY <2>2, <2>5
    <2> QED
      BY <2>5, <2>6, <2>7, <2>8 DEF ItemsInv
  <1>10. ASSUME NEW t \in Threads, PostItem(t) PROVE ItemsInv'
    BY <1>10, SameItems DEF PostItem, caller, ring, consumer, history, Goto
  <1>11. CASE ClaimItem
    BY <1>11, SameItems DEF ClaimItem, caller, ring, history
  <1>12. CASE CopyField
    <2>1. CASE cfld < 3
      <3>1. UNCHANGED <<wait_list, cons_vector, inserted, removed>>
        BY <1>12, <2>1, FieldsFacts DEF CopyField
      <3> QED
        BY <3>1, SameItems
    <2>2. CASE ~(cfld < 3)
      <3>1. LastField
        BY <1>12, <2>2, LastFieldRead
      <3>2. ASSUME NEW k \in 0..(Waiting' - 1)
            PROVE  wait_list'[Slot(k)'] = inserted'[Len(removed') + 1 + k]
        <4>1. /\ k \in 0..(MAX_SEND_WAITING - 1) /\ k + 1 \in 0..(Waiting - 1)
              /\ Len(removed') + 1 + k = Len(removed) + 1 + (k + 1)
          BY <3>1, Sizes DEF LastField
        <4>2. wait_list[Slot(k + 1)] = inserted[Len(removed) + 1 + (k + 1)]
          BY <4>1 DEF ItemsInv
        <4> QED
          BY <3>1, <4>1, <4>2 DEF LastField
      <3> QED
        BY <3>2 DEF ItemsInv
    <2> QED
      BY <2>1, <2>2
  <1>13. CASE FreeSlot
    BY <1>13, SameItems DEF FreeSlot, caller, ring, history
  <1>14. CASE UNCHANGED vars
    BY <1>14, SameItems DEF vars, queue, caller, semas, ring, consumer, history
  <1> QED
    BY <1>1, <1>2, <1>3, <1>4, <1>5, <1>6, <1>7, <1>8, <1>9, <1>10, <1>11, <1>12,
       <1>13, <1>14 DEF Next, Insert, Remove

LEMMA SameFill ==
  ASSUME FillInv, Filling' = Filling, UNCHANGED <<wait_list, prod_vector>>,
         \A u \in Filling : pc'[u] = pc[u] /\ fld'[u] = fld[u] /\ head'[u] = head[u]
  PROVE  FillInv'
  BY DEF FillInv

LEMMA FillStep ==
  ASSUME TypeOK, MutexInv, FieldInv, FillInv, [Next]_vars
  PROVE  FillInv'
  <1>1. ASSUME NEW t \in Threads, Unreachable(t) PROVE FillInv'
    <2>1. Filling' = Filling
      BY <1>1 DEF Unreachable, queue, semas, ring, consumer, history, Filling
    <2> QED
      BY <1>1, <2>1, SameFill DEF Unreachable, queue, semas, ring, consumer, history
  <1>2. ASSUME NEW t \in Threads, NetSend(t) PROVE FillInv'
    <2>1. pc[t] \notin {"fill", "unlock"}
      BY <1>2 DEF NetSend
    <2>2. \A u \in Threads \ {t} : pc'[u] = pc[u] /\ fld'[u] = fld[u] /\ head'[u] = head[u]
      BY <1>2 DEF NetSend, queue, semas, ring, consumer, history, Goto, TypeOK
    <2>3. pc' = pc \/ pc' = [pc EXCEPT ![t] = "set"]
      BY <1>2, NextFieldPc DEF NetSend, Goto
    <2>4. Filling' = Filling /\ t \notin Filling
      BY <2>1, <2>3 DEF Filling, TypeOK
    <2>5. UNCHANGED <<wait_list, prod_vector>>
      BY <1>2 DEF NetSend, queue, semas, ring, consumer, history, Goto
    <2>6. \A u \in Filling : u \in Threads \ {t}
      BY <2>4 DEF Filling
    <2> QED
      BY <2>2, <2>4, <2>5, <2>6, SameFill
  <1>3. ASSUME NEW t \in Threads, SetField(t) PROVE FillInv'
    <2>1. pc[t] \notin {"fill", "unlock"}
      BY <1>3 DEF SetField
    <2>2. \A u \in Threads \ {t} : pc'[u] = pc[u] /\ fld'[u] = fld[u] /\ head'[u] = head[u]
      BY <1>3 DEF SetField, queue, semas, ring, consumer, history, NextField,
         Goto, ThisCall, TypeOK
    <2>3. pc' = pc \/ pc' = [pc EXCEPT ![t] = "pass"]
      BY <1>3, NextFieldPc DEF SetField, Goto
    <2>4. Filling' = Filling /\ t \notin Filling
      BY <2>1, <2>3 DEF Filling, TypeOK
    <2>5. UNCHANGED <<wait_list, prod_vector>>
      BY <1>3 DEF SetField, queue, semas, ring, consumer, history, NextField,
         Goto, ThisCall
    <2>6. \A u \in Filling : u \in Threads \ {t}
      BY <2>4 DEF Filling
    <2> QED
      BY <2>2, <2>4, <2>5, <2>6, SameFill
  <1>4. ASSUME NEW t \in Threads, PassField(t) PROVE FillInv'
    <2>1. pc[t] \notin {"fill", "unlock"}
      BY <1>4 DEF PassField
    <2>2. \A u \in Threads \ {t} : pc'[u] = pc[u] /\ fld'[u] = fld[u] /\ head'[u] = head[u]
      BY <1>4 DEF PassField, queue, semas, ring, consumer, history, NextField,
         Goto, TypeOK
    <2>3. pc' = pc \/ pc' = [pc EXCEPT ![t] = "claim"]
      BY <1>4, NextFieldPc DEF PassField, Goto
    <2>4. Filling' = Filling /\ t \notin Filling
      BY <2>1, <2>3 DEF Filling, TypeOK
    <2>5. UNCHANGED <<wait_list, prod_vector>>
      BY <1>4 DEF PassField, queue, semas, ring, consumer, history, NextField, Goto
    <2>6. \A u \in Filling : u \in Threads \ {t}
      BY <2>4 DEF Filling
    <2> QED
      BY <2>2, <2>4, <2>5, <2>6, SameFill
  <1>5. ASSUME NEW t \in Threads, NetResend(t) PROVE FillInv'
    <2>1. pc[t] \notin {"fill", "unlock"}
      BY <1>5 DEF NetResend
    <2>2. \A u \in Threads \ {t} : pc'[u] = pc[u] /\ fld'[u] = fld[u] /\ head'[u] = head[u]
      BY <1>5 DEF NetResend, queue, semas, ring, consumer, history, Goto, TypeOK
    <2>3. pc' = pc \/ pc' = [pc EXCEPT ![t] = "claim"]
      BY <1>5, NextFieldPc DEF NetResend, Goto
    <2>4. Filling' = Filling /\ t \notin Filling
      BY <2>1, <2>3 DEF Filling, TypeOK
    <2>5. UNCHANGED <<wait_list, prod_vector>>
      BY <1>5 DEF NetResend, queue, semas, ring, consumer, history, Goto
    <2>6. \A u \in Filling : u \in Threads \ {t}
      BY <2>4 DEF Filling
    <2> QED
      BY <2>2, <2>4, <2>5, <2>6, SameFill
  <1>6. ASSUME NEW t \in Threads, ClaimSlot(t) PROVE FillInv'
    <2>1. pc[t] \notin {"fill", "unlock"}
      BY <1>6 DEF ClaimSlot
    <2>2. \A u \in Threads \ {t} : pc'[u] = pc[u] /\ fld'[u] = fld[u] /\ head'[u] = head[u]
      BY <1>6 DEF ClaimSlot, caller, ring, consumer, history, Goto, TypeOK
    <2>3. pc' = pc \/ pc' = [pc EXCEPT ![t] = "lock"]
      BY <1>6, NextFieldPc DEF ClaimSlot, Goto
    <2>4. Filling' = Filling /\ t \notin Filling
      BY <2>1, <2>3 DEF Filling, TypeOK
    <2>5. UNCHANGED <<wait_list, prod_vector>>
      BY <1>6 DEF ClaimSlot, caller, ring, consumer, history, Goto
    <2>6. \A u \in Filling : u \in Threads \ {t}
      BY <2>4 DEF Filling
    <2> QED
      BY <2>2, <2>4, <2>5, <2>6, SameFill
  <1>7. ASSUME NEW t \in Threads, LockInsert(t) PROVE FillInv'
    <2>1. Filling = {}
      BY <1>7 DEF LockInsert, MutexInv
    <2>2. Filling' = {t} /\ pc'[t] = "fill"
      BY <1>7, <2>1 DEF LockInsert, Goto, Filling, TypeOK
    <2>3. fld'[t] = 1
      BY <1>7 DEF LockInsert, FieldInv
    <2> QED
      BY <2>2, <2>3, WrittenFacts DEF FillInv, Written
  <1>8. ASSUME NEW t \in Threads, FillField(t) PROVE FillInv'
    <2>1. t \in Filling /\ fld[t] \in 1..3
      BY <1>8, FieldsFacts DEF FillField, Filling, TypeOK
    <2>2. \A u \in Filling' : u = t
      <3>1. pc' = pc \/ pc' = [pc EXCEPT ![t] = "unlock"]
        BY <1>8, NextFieldPc DEF FillField, Goto
      <3>2. Filling' = Filling
        BY <1>8, <3>1 DEF FillField, Filling, TypeOK
      <3> QED
        BY <2>1, <3>2 DEF MutexInv
    <2>3. UNCHANGED <<prod_vector, head>>
      BY <1>8 DEF FillField, caller
    <2>4. /\ Fields[fld[t]] \in Field /\ prod_vector \in Slots
          /\ wait_list[prod_vector] \in [Field -> Call \cup {Empty}]
      BY FieldsFacts DEF TypeOK, Item
    <2>5. ASSUME NEW f \in Field
          PROVE  /\ f = Fields[fld[t]] => wait_list'[prod_vector][f] = head[t][f]
                 /\ f # Fields[fld[t]] => wait_list'[prod_vector][f] = wait_list[prod_vector][f]
      BY <1>8, <2>4 DEF FillField, TypeOK
    <2>6. ASSUME NEW f \in Field, pc'[t] = "unlock" \/ f \in Written(fld'[t])
          PROVE  f \in Written(fld[t]) \/ f = Fields[fld[t]]
      <3>1. CASE fld[t] < 3
        <4>1. fld'[t] = fld[t] + 1 /\ pc'[t] = "fill"
          BY <1>8, <3>1, FieldsFacts DEF FillField, NextField, TypeOK
        <4> QED
          BY <2>1, <2>6, <4>1, WrittenFacts
      <3>2. CASE ~(fld[t] < 3)
        <4>1. fld[t] = 3
          BY <2>1, <3>2
        <4> QED
          BY <4>1, WrittenFacts
      <3> QED
        BY <3>1, <3>2
    <2>7. ASSUME NEW f \in Field, pc'[t] = "unlock" \/ f \in Written(fld'[t])
          PROVE  wait_list'[prod_vector][f] = head[t][f]
      BY <2>1, <2>5, <2>6, <2>7 DEF FillInv
    <2> QED
      BY <2>2, <2>3, <2>7 DEF FillInv, Written
  <1>9. ASSUME NEW t \in Threads, UnlockInsert(t) PROVE FillInv'
    <2>1. Filling = {t}
      BY <1>9 DEF UnlockInsert, MutexInv, Filling
    <2>2. Filling' = {}
      BY <1>9, <2>1 DEF UnlockInsert, Goto, Filling, TypeOK
    <2> QED
      BY <2>2 DEF FillInv
  <1>10. ASSUME NEW t \in Threads, PostItem(t) PROVE FillInv'
    <2>1. pc[t] \notin {"fill", "unlock"}
      BY <1>10 DEF PostItem
    <2>2. \A u \in Threads \ {t} : pc'[u] = pc[u] /\ fld'[u] = fld[u] /\ head'[u] = head[u]
      BY <1>10 DEF PostItem, caller, ring, consumer, history, Goto, TypeOK
    <2>3. pc' = pc \/ pc' = [pc EXCEPT ![t] = "idle"]
      BY <1>10, NextFieldPc DEF PostItem, Goto
    <2>4. Filling' = Filling /\ t \notin Filling
      BY <2>1, <2>3 DEF Filling, TypeOK
    <2>5. UNCHANGED <<wait_list, prod_vector>>
      BY <1>10 DEF PostItem, caller, ring, consumer, history, Goto
    <2>6. \A u \in Filling : u \in Threads \ {t}
      BY <2>4 DEF Filling
    <2> QED
      BY <2>2, <2>4, <2>5, <2>6, SameFill
  <1>11. CASE ClaimItem
    <2>1. Filling' = Filling
      BY <1>11 DEF ClaimItem, caller, ring, history, Filling
    <2> QED
      BY <1>11, <2>1, SameFill DEF ClaimItem, caller, ring, history
  <1>12. CASE CopyField
    <2>1. Filling' = Filling
      BY <1>12 DEF CopyField, caller, semas, Filling
    <2> QED
      BY <1>12, <2>1, SameFill DEF CopyField, caller, semas
  <1>13. CASE FreeSlot
    <2>1. Filling' = Filling
      BY <1>13 DEF FreeSlot, caller, ring, history, Filling
    <2> QED
      BY <1>13, <2>1, SameFill DEF FreeSlot, caller, ring, history
  <1>14. CASE UNCHANGED vars
    <2>1. Filling' = Filling
      BY <1>14 DEF vars, queue, caller, semas, ring, consumer, history, Filling
    <2> QED
      BY <1>14, <2>1, SameFill DEF vars, queue, caller, semas, ring, consumer,
         history
  <1> QED
    BY <1>1, <1>2, <1>3, <1>4, <1>5, <1>6, <1>7, <1>8, <1>9, <1>10, <1>11, <1>12,
       <1>13, <1>14 DEF Next, Insert, Remove

LEMMA SameRead ==
  ASSUME ReadInv, UNCHANGED <<cpc, cfld, tmp, inserted, removed>>
  PROVE  ReadInv'
  BY DEF ReadInv, Written

LEMMA OldestItem ==
  ASSUME TypeOK, CountInv, ItemsInv, cpc = "read"
  PROVE  wait_list[cons_vector] = inserted[Len(removed) + 1]
  <1>1. 0 \in 0..(Waiting - 1) /\ Len(removed) + 1 + 0 = Len(removed) + 1
    BY ItemToRead, Sizes
  <1> QED
    BY <1>1, SlotFacts DEF ItemsInv

LEMMA ReadStep ==
  ASSUME TypeOK, CountInv, FieldInv, ItemsInv, ReadInv, [Next]_vars
  PROVE  ReadInv'
  <1>1. ASSUME NEW t \in Threads, Unreachable(t) PROVE ReadInv'
    BY <1>1, SameRead DEF Unreachable, queue, semas, ring, consumer, history
  <1>2. ASSUME NEW t \in Threads, NetSend(t) PROVE ReadInv'
    BY <1>2, SameRead DEF NetSend, queue, semas, ring, consumer, history, Goto
  <1>3. ASSUME NEW t \in Threads, SetField(t) PROVE ReadInv'
    BY <1>3, SameRead DEF SetField, queue, semas, ring, consumer, history,
       NextField, Goto, ThisCall
  <1>4. ASSUME NEW t \in Threads, PassField(t) PROVE ReadInv'
    BY <1>4, SameRead DEF PassField, queue, semas, ring, consumer, history,
       NextField, Goto
  <1>5. ASSUME NEW t \in Threads, NetResend(t) PROVE ReadInv'
    BY <1>5, SameRead DEF NetResend, queue, semas, ring, consumer, history, Goto
  <1>6. ASSUME NEW t \in Threads, ClaimSlot(t) PROVE ReadInv'
    BY <1>6, SameRead DEF ClaimSlot, caller, ring, consumer, history, Goto
  <1>7. ASSUME NEW t \in Threads, LockInsert(t) PROVE ReadInv'
    BY <1>7, SameRead DEF LockInsert, caller, semas, consumer, history, Goto
  <1>8. ASSUME NEW t \in Threads, FillField(t) PROVE ReadInv'
    BY <1>8, SameRead DEF FillField, caller, semas, consumer, history, NextField,
       Goto
  <1>9. ASSUME NEW t \in Threads, UnlockInsert(t) PROVE ReadInv'
    <2>1. UNCHANGED <<cpc, cfld, tmp, removed>>
      BY <1>9 DEF UnlockInsert, consumer
    <2>2. ASSUME cpc = "read"
          PROVE  inserted'[Len(removed) + 1] = inserted[Len(removed) + 1]
      <3>1. Len(removed) + 1 \in 1..Len(inserted)
        BY <2>2, ItemToRead, Sizes DEF Waiting
      <3> QED
        BY <1>9, <3>1 DEF UnlockInsert, TypeOK
    <2> QED
      BY <2>1, <2>2 DEF ReadInv, Written
  <1>10. ASSUME NEW t \in Threads, PostItem(t) PROVE ReadInv'
    BY <1>10, SameRead DEF PostItem, caller, ring, consumer, history, Goto
  <1>11. CASE ClaimItem
    <2>1. cfld' = 1
      BY <1>11 DEF ClaimItem, FieldInv
    <2> QED
      BY <2>1, WrittenFacts DEF ReadInv, Written
  <1>12. CASE CopyField
    <2>1. CASE cfld < 3
      <3>1. /\ cpc = "read" /\ cfld' = cfld + 1 /\ UNCHANGED <<inserted, removed>>
            /\ tmp' = [tmp EXCEPT ![Fields[cfld]] = wait_list[cons_vector][Fields[cfld]]]
        BY <1>12, <2>1, FieldsFacts DEF CopyField
      <3>2. cfld \in 1..3 /\ Fields[cfld] \in Field /\ tmp \in [Field -> Call \cup {Empty}]
        BY FieldsFacts DEF TypeOK, Item
      <3>3. wait_list[cons_vector] = inserted[Len(removed) + 1]
        BY <3>1, OldestItem
      <3>4. ASSUME NEW f \in Written(cfld')
            PROVE  tmp'[f] = inserted[Len(removed) + 1][f]
        <4>1. f \in Written(cfld) \/ f = Fields[cfld]
          BY <3>1, <3>2, WrittenFacts
        <4>2. f \in Field
          BY <3>2, <4>1, FieldsFacts DEF Written
        <4> QED
          BY <3>1, <3>2, <3>3, <4>1, <4>2 DEF ReadInv
      <3> QED
        BY <3>1, <3>4 DEF ReadInv, Written
    <2>2. CASE ~(cfld < 3)
      <3>1. cpc' = "free"
        BY <1>12, <2>2, LastFieldRead DEF LastField
      <3> QED
        BY <3>1 DEF ReadInv
    <2> QED
      BY <2>1, <2>2
  <1>13. CASE FreeSlot
    BY <1>13 DEF FreeSlot, ReadInv
  <1>14. CASE UNCHANGED vars
    BY <1>14, SameRead DEF vars, queue, caller, semas, ring, consumer, history
  <1> QED
    BY <1>1, <1>2, <1>3, <1>4, <1>5, <1>6, <1>7, <1>8, <1>9, <1>10, <1>11, <1>12,
       <1>13, <1>14 DEF Next, Insert, Remove

-----------------------------------------------------------------------------
LEMMA InitQueue == Init => QueueInv
  <1> SUFFICES ASSUME Init PROVE QueueInv
    OBVIOUS
  <1>1. MAX_SEND_WAITING \in Nat \ {0} /\ MaxCalls \in Nat /\ MaxRestarts \in Nat
    BY SendQueueAssumption DEF SendQueueAssumption
  <1>2. TypeOK
    BY <1>1, EmptyItemIsItem, FieldsFacts DEF Init, TypeOK, Slots
  <1>3. Waiting = 0
    BY DEF Init, Waiting
  <1>4. Claimed = {} /\ Posting = {} /\ Filling = {}
    BY DEF Init, Claimed, Posting, Filling
  <1>5. CountInv
    BY <1>1, <1>3, <1>4, FS_EmptySet DEF Init, CountInv
  <1>6. MutexInv /\ FieldInv /\ FillInv /\ ReadInv
    BY <1>4 DEF Init, MutexInv, FieldInv, FillInv, ReadInv
  <1>7. PositionInv
    BY <1>1, <1>3 DEF Init, PositionInv, Slot, After
  <1>8. ItemsInv
    BY <1>3 DEF ItemsInv
  <1> QED
    BY <1>2, <1>5, <1>6, <1>7, <1>8 DEF QueueInv

LEMMA QueueStep ==
  ASSUME QueueInv, [Next]_vars
  PROVE  QueueInv'
  BY TypeStep, FieldStep, CountStep, MutexStep, PositionStep, ItemsStep, FillStep, ReadStep
     DEF QueueInv

(* The counts, positions and contents of the ring agree in every state,    *)
(* however many threads insert and however long the ring is.               *)
THEOREM RingConsistent == Spec => []QueueInv
  <1>1. QueueInv /\ [Next]_vars => QueueInv'
    BY QueueStep
  <1> QED
    BY InitQueue, <1>1, PTL DEF Spec

(* Every variable keeps its type: in particular the semaphores are never   *)
(* negative and both positions stay within the ring.                       *)
THEOREM TypeCorrect == Spec => []TypeOK
  <1>1. QueueInv => TypeOK
    BY DEF QueueInv
  <1> QED
    BY RingConsistent, <1>1, PTL

-----------------------------------------------------------------------------
LEMMA CopiedItem ==
  ASSUME QueueInv, LastField, cfld = 3
  PROVE  tmp' = inserted[Len(removed) + 1]
  <1>1. wait_list[cons_vector] = inserted[Len(removed) + 1]
    BY OldestItem DEF LastField, QueueInv
  <1>2. tmp \in [Field -> Call \cup {Empty}] /\ Fields[3] \in Field
        /\ wait_list[cons_vector] \in [Field -> Call \cup {Empty}]
    BY FieldsFacts DEF QueueInv, TypeOK, Item
  <1>3. tmp' = [tmp EXCEPT ![Fields[3]] = wait_list[cons_vector][Fields[3]]]
    BY DEF LastField
  <1>4. \A f \in Field : f # Fields[3] => tmp[f] = wait_list[cons_vector][f]
    BY <1>1, WrittenFacts DEF QueueInv, ReadInv, LastField
  <1>5. \A f \in Field : tmp'[f] = wait_list[cons_vector][f]
    BY <1>2, <1>3, <1>4
  <1> QED
    BY <1>1, <1>2, <1>3, <1>5

LEMMA InsertedOrRemoved ==
  ASSUME QueueInv, [Next]_vars
  PROVE  \/ UNCHANGED <<inserted, removed>>
         \/ /\ UNCHANGED removed /\ Waiting < MAX_SEND_WAITING
            /\ \E t \in Threads : pc[t] = "unlock" /\ inserted' = Append(inserted, head[t])
         \/ /\ UNCHANGED inserted /\ Waiting > 0
            /\ removed' = Append(removed, inserted[Len(removed) + 1])
  <1>1. ASSUME NEW t \in Threads, UnlockInsert(t)
        PROVE  /\ UNCHANGED removed /\ Waiting < MAX_SEND_WAITING
               /\ pc[t] = "unlock" /\ inserted' = Append(inserted, head[t])
    <2>1. t \in Claimed
      BY <1>1 DEF UnlockInsert, Claimed
    <2> QED
      BY <1>1, <2>1, RoomToFill DEF UnlockInsert, QueueInv
  <1>2. CASE CopyField
    <2>1. CASE cfld < 3
      BY <1>2, <2>1, FieldsFacts DEF CopyField
    <2>2. CASE ~(cfld < 3)
      <3>1. LastField /\ cfld = 3
        BY <1>2, <2>2, LastFieldRead, FieldsFacts DEF QueueInv, TypeOK
      <3> QED
        BY <3>1, CopiedItem DEF LastField
    <2> QED
      BY <2>1, <2>2
  <1>3. CASE ClaimItem \/ FreeSlot \/ UNCHANGED vars
    BY <1>3 DEF ClaimItem, FreeSlot, vars, queue, history
  <1>4. ASSUME NEW t \in Threads,
               \/ Unreachable(t) \/ NetSend(t) \/ NetResend(t) \/ SetField(t)
               \/ PassField(t) \/ ClaimSlot(t) \/ LockInsert(t) \/ FillField(t)
               \/ PostItem(t)
        PROVE  UNCHANGED <<inserted, removed>>
    BY <1>4 DEF Unreachable, NetSend, NetResend, SetField, PassField, ClaimSlot,
       LockInsert, FillField, PostItem, queue, history
  <1> QED
    BY <1>1, <1>2, <1>3, <1>4 DEF Next, Insert, Remove

LEMMA QueueRefined ==
  ASSUME QueueInv, [Next]_vars
  PROVE  [Queue!Next]_<<inserted, removed>>
  <1>1. CASE UNCHANGED <<inserted, removed>>
    BY <1>1
  <1>2. CASE /\ UNCHANGED removed /\ Waiting < MAX_SEND_WAITING
             /\ \E t \in Threads : pc[t] = "unlock" /\ inserted' = Append(inserted, head[t])
    <2>1. \A t \in Threads : head[t] \in Item
      BY DEF QueueInv, TypeOK
    <2> QED
      BY <1>2, <2>1 DEF Queue!Next, Queue!Insert, Waiting
  <1>3. CASE /\ UNCHANGED inserted /\ Waiting > 0
             /\ removed' = Append(removed, inserted[Len(removed) + 1])
    <2>1. Len(removed) < Len(inserted)
      BY <1>3, Sizes DEF QueueInv, Waiting
    <2> QED
      BY <1>3, <2>1 DEF Queue!Next, Queue!Remove
  <1> QED
    BY <1>1, <1>2, <1>3, InsertedOrRemoved

(* The ring, with its semaphores, its mutex and its two positions, is a    *)
(* queue of MAX_SEND_WAITING packets: each leaves whole, once and in its   *)
(* turn, for every length of the ring and any callers.                     *)
THEOREM RingIsQueue == Spec => ImplementsQueue
  <1>1. Init => Queue!Init
    BY DEF Init, Queue!Init
  <1>2. QueueInv /\ [Next]_vars => [Queue!Next]_<<inserted, removed>>
    BY QueueRefined
  <1> QED
    BY <1>1, <1>2, RingConsistent, PTL DEF Spec, ImplementsQueue, Queue!Spec, Queue!vars

-----------------------------------------------------------------------------
(* No call of a forwarding thread has a part in the item; the fields of    *)
(* the item are all of one call, or all as they were at the start.         *)
Apart(item) == \A f \in Field : item[f] \notin Forwarders \X (1..MaxCalls)
Even(item)  == \A f, g \in Field : item[f] = item[g]

(* Who fills wait_item calls net_send, so that it and what such a thread   *)
(* passes on stay apart; net_resend fills its own item in one go.          *)
ApartInv ==
    /\ Apart(wait_item)
    /\ \A t \in Threads : pc[t] \in {"set", "pass"} => t \in Senders
    /\ \A t \in Senders : Apart(head[t])
    /\ \A t \in Forwarders : Even(head[t])

OriginInv ==
    /\ \A i \in 1..Len(inserted) : Apart(inserted[i]) \/ Even(inserted[i])
    /\ \A i \in 1..Len(removed) : Apart(removed[i]) \/ Even(removed[i])

LEMMA OriginStep ==
  ASSUME QueueInv, ApartInv, OriginInv, [Next]_vars
  PROVE  OriginInv'
  <1> DEFINE P(item) == Apart(item) \/ Even(item)
  <1>1. CASE UNCHANGED <<inserted, removed>>
    BY <1>1 DEF OriginInv, Apart, Even
  <1>2. CASE /\ UNCHANGED removed /\ Waiting < MAX_SEND_WAITING
             /\ \E t \in Threads : pc[t] = "unlock" /\ inserted' = Append(inserted, head[t])
    <2>1. PICK t \in Threads : inserted' = Append(inserted, head[t])
      BY <1>2
    <2>2. P(head[t]) /\ head[t] \in Item /\ inserted \in Seq(Item)
      BY DEF ApartInv, Threads, QueueInv, TypeOK
    <2>3. ASSUME NEW i \in 1..Len(inserted') PROVE P(inserted'[i])
      BY <2>1, <2>2 DEF OriginInv
    <2> QED
      BY <1>2, <2>3 DEF OriginInv, Apart, Even
  <1>3. CASE /\ UNCHANGED inserted /\ Waiting > 0
             /\ removed' = Append(removed, inserted[Len(removed) + 1])
    <2>1. Len(removed) + 1 \in 1..Len(inserted)
      BY <1>3, Sizes DEF QueueInv, Waiting
    <2>2. P(inserted[Len(removed) + 1]) /\ removed \in Seq(Item)
          /\ inserted[Len(removed) + 1] \in Item
      BY <2>1 DEF OriginInv, QueueInv, TypeOK
    <2>3. ASSUME NEW i \in 1..Len(removed') PROVE P(removed'[i])
      BY <1>3, <2>2 DEF OriginInv
    <2> QED
      BY <1>3, <2>3 DEF OriginInv, Apart, Even
  <1> QED
    BY <1>1, <1>2, <1>3, InsertedOrRemoved

LEMMA ApartStep ==
  ASSUME TypeOK, ApartInv, [Next]_vars
  PROVE  ApartInv'
  <1> USE SendQueueAssumption DEF SendQueueAssumption
  <1>1. ASSUME NEW t \in Threads, SetField(t) PROVE ApartInv'
    <2>1. t \in Senders /\ ThisCall(t) \notin Forwarders \X (1..MaxCalls)
      BY <1>1 DEF SetField, ApartInv, ThisCall
    <2>2. Apart(wait_item')
      BY <1>1, <2>1 DEF SetField, ApartInv, Apart, TypeOK, Item
    <2>3. \A u \in Threads : pc'[u] \in {"set", "pass"} => u \in Senders
      BY <1>1, <2>1 DEF SetField, NextField, Goto, ApartInv, TypeOK
    <2>4. head' = head
      BY <1>1 DEF SetField
    <2> QED
      BY <2>2, <2>3, <2>4 DEF ApartInv, Apart, Even
  <1>2. ASSUME NEW t \in Threads, PassField(t) PROVE ApartInv'
    <2>1. t \in Senders /\ wait_item' = wait_item
      BY <1>2 DEF PassField, ApartInv
    <2>2. /\ fld[t] \in 1..3 /\ Fields[fld[t]] \in Field
          /\ head' = [head EXCEPT ![t][Fields[fld[t]]] = wait_item[Fields[fld[t]]]]
          /\ head \in [Threads -> Item] /\ head[t] \in [Field -> Call \cup {Empty}]
      BY <1>2, FieldsFacts DEF PassField, TypeOK, Item
    <2>3. Apart(head'[t])
      BY <2>1, <2>2 DEF ApartInv, Apart
    <2>4. \A u \in Threads : u # t => head'[u] = head[u]
      BY <2>2
    <2>5. /\ \A u \in Senders : Apart(head'[u])
          /\ \A u \in Forwarders : Even(head'[u])
      BY <2>1, <2>3, <2>4 DEF ApartInv, Threads
    <2>6. \A u \in Threads : pc'[u] \in {"set", "pass"} => u \in Senders
      BY <1>2, <2>1 DEF PassField, NextField, Goto, ApartInv, TypeOK
    <2> QED
      BY <2>1, <2>5, <2>6 DEF ApartInv, Apart, Even
  <1>3. ASSUME NEW t \in Threads, NetResend(t) PROVE ApartInv'
    <2>1. t \in Forwarders /\ t \notin Senders /\ wait_item' = wait_item
      BY <1>3 DEF NetResend
    <2>2. Even(head'[t]) /\ \A u \in Threads : u # t => head'[u] = head[u]
      BY <1>3 DEF NetResend, Even, TypeOK
    <2>3. /\ \A u \in Senders : Apart(head'[u])
          /\ \A u \in Forwarders : Even(head'[u])
      BY <2>1, <2>2 DEF ApartInv, Threads
    <2>4. \A u \in Threads : pc'[u] \in {"set", "pass"} => u \in Senders
      BY <1>3 DEF NetResend, Goto, ApartInv, TypeOK
    <2> QED
      BY <2>1, <2>3, <2>4 DEF ApartInv, Apart, Even
  <1>4. ASSUME NEW t \in Threads,
               \/ Unreachable(t) \/ NetSend(t) \/ ClaimSlot(t) \/ LockInsert(t)
               \/ FillField(t) \/ UnlockInsert(t) \/ PostItem(t)
        PROVE  ApartInv'
    <2>1. UNCHANGED <<wait_item, head>>
      BY <1>4 DEF Unreachable, NetSend, ClaimSlot, LockInsert, FillField, UnlockInsert,
         PostItem, caller
    <2>2. \A u \in Threads : pc'[u] \in {"set", "pass"} => u \in Senders
      BY <1>4 DEF Unreachable, NetSend, ClaimSlot, LockInsert, FillField, UnlockInsert,
         PostItem, NextField, Goto, ApartInv, TypeOK
    <2> QED
      BY <2>1, <2>2 DEF ApartInv, Apart, Even
  <1>5. CASE Remove \/ UNCHANGED vars
    <2>1. UNCHANGED <<wait_item, head, pc>>
      BY <1>5 DEF Remove, ClaimItem, CopyField, FreeSlot, vars, caller
    <2> QED
      BY <2>1 DEF ApartInv, Apart, Even
  <1> QED
    BY <1>1, <1>2, <1>3, <1>4, <1>5 DEF Next, Insert

(* For any number of threads in net_send and in net_resend and any ring:   *)
(* the race for wait_item never reaches a packet that is forwarded.  The   *)
(* packets of net_send are not in it, since several callers do mix them.   *)
THEOREM ForwardedApart == Spec => []ForwardedWhole
  <1>1. Init => ApartInv /\ OriginInv
    <2> SUFFICES ASSUME Init PROVE ApartInv /\ OriginInv
      OBVIOUS
    <2>1. Empty \notin Forwarders \X (1..MaxCalls)
      BY DEF Empty
    <2>2. Apart(EmptyItem) /\ Even(EmptyItem)
      BY <2>1 DEF Apart, Even, EmptyItem
    <2> QED
      BY <2>2 DEF Init, ApartInv, OriginInv, Threads
  <1>2. QueueInv /\ ApartInv /\ OriginInv /\ [Next]_vars => ApartInv' /\ OriginInv'
    BY ApartStep, OriginStep DEF QueueInv
  <1>3. QueueInv /\ OriginInv => ForwardedWhole
    <2> SUFFICES ASSUME QueueInv, OriginInv, NEW i \in DOMAIN removed,
                        NEW f \in Field, NEW g \in Field,
                        removed[i][f] \in Forwarders \X (1..MaxCalls)
                 PROVE  removed[i][g] = removed[i][f]
      BY DEF ForwardedWhole
    <2>1. i \in 1..Len(removed)
      BY DEF QueueInv, TypeOK
    <2>2. Apart(removed[i]) \/ Even(removed[i])
      BY <2>1 DEF OriginInv
    <2> QED
      BY <2>2 DEF Apart, Even
  <1> QED
    BY <1>1, <1>2, <1>3, RingConsistent, PTL DEF Spec
=============================================================================

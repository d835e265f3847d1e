----------------------------- MODULE SendQueue ------------------------------
(***************************************************************************)
(* The send queue of the network layer of one host: net_send, called by    *)
(* the threads of the transport layer and by the thread that announces     *)
(* routes, net_resend, called by the thread that forwards packets, the     *)
(* ring wait_list they fill, and wait_list_remove, called by internalsend. *)
(*                                                                         *)
(* An item is what its fields hold.  A field that was written for a call   *)
(* holds that call: the fields of an item that agree describe one packet.  *)
(* "dest" stands for the header, "data" for the payload and its size, and  *)
(* "first_dest_link" for the neighbour the packet goes to.  Fields are     *)
(* written and copied one at a time, because neither the shared wait_item  *)
(* nor the reader of a slot is protected by a lock.                        *)
(*                                                                         *)
(* The two semaphores belong to the operating system: they are still there *)
(* when the program is started again, and net_init adds to g_sem_prod.     *)
(*                                                                         *)
(* A definition marked "variant" is not part of the model: it is a         *)
(* plausible mistake in the definition after it.                           *)
(***************************************************************************)
EXTENDS Integers, Sequences

CONSTANTS MAX_SEND_WAITING,  \* slots of the ring, 100
          Senders,           \* threads that call net_send
          Forwarders,        \* threads that call net_resend
          MaxCalls,          \* bound: calls of each thread
          MaxRestarts        \* bound: times the program is started again

ASSUME SendQueueAssumption ==
    /\ MAX_SEND_WAITING \in Nat \ {0}
    /\ Senders \cap Forwarders = {}
    /\ MaxCalls \in Nat
    /\ MaxRestarts \in Nat

Threads == Senders \cup Forwarders
Call    == Threads \X (1..MaxCalls)
Empty   == <<>>                            \* what a field holds at start-up
Fields  == <<"dest", "data", "first_dest_link">>
Field   == {"dest", "data", "first_dest_link"}
Item    == [Field -> Call \cup {Empty}]
Slots   == 0..(MAX_SEND_WAITING - 1)
EmptyItem == [f \in Field |-> Empty]

VARIABLES
    g_sem_prod,    \* free slots nobody has claimed
    g_sem_cons,    \* filled slots the consumer has not claimed
    prod_insert,   \* the mutex: 1 when it is free
    prod_vector,   \* the slot filled last
    cons_vector,   \* the slot to be taken next
    wait_list,     \* the ring
    wait_item,     \* the global item net_send fills
    pc,            \* where each calling thread is
    fld,           \* the field each thread is about to write or copy
    head,          \* each thread's parameter of wait_list_insert
    calls,         \* calls each thread has made
    cpc,           \* where internalsend is: "wait", "read", "free"
    cfld,          \* the field it is about to copy
    tmp,           \* its copy of the slot
    inserted,      \* history: the items inserted since the program started
    removed,       \* history: the items internalsend has been given
    restarts       \* how often the program has been started again

semas    == <<g_sem_prod, g_sem_cons>>
ring     == <<prod_vector, cons_vector, wait_list>>
consumer == <<cpc, cfld, tmp>>
history  == <<inserted, removed>>
queue    == <<semas, prod_insert, ring, consumer, history, restarts>>
caller   == <<wait_item, head, calls, restarts>>
vars     == <<queue, caller, pc, fld>>

(* The first start finds no semaphores: semget makes them with value 0 and *)
(* net_init adds MAX_SEND_WAITING to g_sem_prod.                           *)
Init ==
    /\ g_sem_prod = MAX_SEND_WAITING /\ g_sem_cons = 0
    /\ prod_insert = 1
    /\ prod_vector = MAX_SEND_WAITING - 1 /\ cons_vector = 0
    /\ wait_list = [s \in Slots |-> EmptyItem] /\ wait_item = EmptyItem
    /\ pc = [t \in Threads |-> "idle"] /\ fld = [t \in Threads |-> 1]
    /\ head = [t \in Threads |-> EmptyItem] /\ calls = [t \in Threads |-> 0]
    /\ cpc = "wait" /\ cfld = 1 /\ tmp = EmptyItem
    /\ inserted = <<>> /\ removed = <<>>
    /\ restarts = 0

(* The program is killed and started again: semget finds the semaphores as *)
(* they were left, and net_init adds MAX_SEND_WAITING once more.           *)
Restart ==
    /\ restarts < MaxRestarts
    /\ restarts' = restarts + 1
    /\ g_sem_prod' = g_sem_prod + MAX_SEND_WAITING
    /\ prod_insert' = 1
    /\ prod_vector' = MAX_SEND_WAITING - 1 /\ cons_vector' = 0
    /\ wait_list' = [s \in Slots |-> EmptyItem] /\ wait_item' = EmptyItem
    /\ pc' = [t \in Threads |-> "idle"] /\ fld' = [t \in Threads |-> 1]
    /\ head' = [t \in Threads |-> EmptyItem]
    /\ cpc' = "wait" /\ cfld' = 1 /\ tmp' = EmptyItem
    /\ inserted' = <<>> /\ removed' = <<>>
    /\ UNCHANGED <<g_sem_cons, calls>>

-----------------------------------------------------------------------------
(* The calling threads. *)

Goto(t, label) == pc' = [pc EXCEPT ![t] = label]

(* The step over the fields of an item: to "label" after the last of them. *)
NextField(t, label) ==
    IF fld[t] < Len(Fields)
    THEN fld' = [fld EXCEPT ![t] = @ + 1] /\ UNCHANGED pc
    ELSE fld' = [fld EXCEPT ![t] = 1] /\ Goto(t, label)

ThisCall(t) == <<t, calls[t]>>

(* hostreachable finds no route: net_send returns ERROR, net_resend drops. *)
Unreachable(t) ==
    /\ pc[t] = "idle" /\ calls[t] < MaxCalls
    /\ calls' = [calls EXCEPT ![t] = @ + 1]
    /\ UNCHANGED <<queue, wait_item, head, pc, fld>>

(* net_send has found the neighbour to send to. *)
NetSend(t) ==
    /\ t \in Senders
    /\ pc[t] = "idle" /\ calls[t] < MaxCalls
    /\ calls' = [calls EXCEPT ![t] = @ + 1]
    /\ Goto(t, "set")
    /\ UNCHANGED <<queue, wait_item, head, fld>>

(* net_send assigns the next field of wait_item. *)
SetField(t) ==
    /\ pc[t] = "set"
    /\ wait_item' = [wait_item EXCEPT ![Fields[fld[t]]] = ThisCall(t)]
    /\ NextField(t, "pass")
    /\ UNCHANGED <<queue, head, calls>>

(* wait_item is passed by value: its fields are copied one after another.  *)
PassField(t) ==
    /\ pc[t] = "pass"
    /\ head' = [head EXCEPT ![t][Fields[fld[t]]] = wait_item[Fields[fld[t]]]]
    /\ NextField(t, "claim")
    /\ UNCHANGED <<queue, wait_item, calls>>

(* net_resend fills an item of its own and passes that one. *)
NetResendShared(t) ==   \* variant: it fills the global wait_item too
    /\ t \in Forwarders
    /\ pc[t] = "idle" /\ calls[t] < MaxCalls
    /\ calls' = [calls EXCEPT ![t] = @ + 1]
    /\ Goto(t, "set")
    /\ UNCHANGED <<queue, wait_item, head, fld>>
NetResend(t) ==
    /\ t \in Forwarders
    /\ pc[t] = "idle" /\ calls[t] < MaxCalls
    /\ calls' = [calls EXCEPT ![t] = @ + 1]
    /\ head' = [head EXCEPT ![t] = [f \in Field |-> <<t, calls[t] + 1>>]]
    /\ Goto(t, "claim")
    /\ UNCHANGED <<queue, wait_item, fld>>

(* wait_list_insert: the thread claims a slot, *)
ClaimSlot(t) ==
    /\ pc[t] = "claim" /\ g_sem_prod > 0
    /\ g_sem_prod' = g_sem_prod - 1
    /\ Goto(t, "lock")
    /\ UNCHANGED <<g_sem_cons, prod_insert, ring, consumer, history, caller, fld>>

(* locks prod_insert and moves prod_vector on, *)
LockInsertPast(t) ==  \* variant: prod_vector runs past the end of the ring
    /\ pc[t] = "lock" /\ prod_insert = 1
    /\ prod_insert' = 0
    /\ prod_vector' = prod_vector + 1
    /\ Goto(t, "fill")
    /\ UNCHANGED <<semas, cons_vector, wait_list, consumer, history, caller, fld>>
LockInsertNot(t) ==   \* variant: without the mutex
    /\ pc[t] = "lock"
    /\ prod_vector' = (prod_vector + 1) % MAX_SEND_WAITING
    /\ Goto(t, "fill")
    /\ UNCHANGED <<semas, prod_insert, cons_vector, wait_list, consumer, history,
                   caller, fld>>
LockInsert(t) ==
    /\ pc[t] = "lock" /\ prod_insert = 1
    /\ prod_insert' = 0
    /\ prod_vector' = (prod_vector + 1) % MAX_SEND_WAITING
    /\ Goto(t, "fill")
    /\ UNCHANGED <<semas, cons_vector, wait_list, consumer, history, caller, fld>>

(* fills the slot field by field, *)
FillField(t) ==
    /\ pc[t] = "fill"
    /\ wait_list' = [wait_list EXCEPT ![prod_vector][Fields[fld[t]]] =
                                            head[t][Fields[fld[t]]]]
    /\ NextField(t, "unlock")
    /\ UNCHANGED <<semas, prod_insert, prod_vector, cons_vector, consumer, history,
                   caller>>

(* unlocks prod_insert: the item is in the ring, *)
UnlockKept(t) ==      \* variant: the mutex stays locked
    /\ pc[t] = "unlock"
    /\ inserted' = Append(inserted, head[t])
    /\ Goto(t, "post")
    /\ UNCHANGED <<semas, prod_insert, ring, consumer, removed, caller, fld>>
UnlockInsert(t) ==
    /\ pc[t] = "unlock"
    /\ prod_insert' = 1
    /\ inserted' = Append(inserted, head[t])
    /\ Goto(t, "post")
    /\ UNCHANGED <<semas, ring, consumer, removed, caller, fld>>

(* and releases one item to the consumer. *)
PostItem(t) ==
    /\ pc[t] = "post"
    /\ g_sem_cons' = g_sem_cons + 1
    /\ Goto(t, "idle")
    /\ UNCHANGED <<g_sem_prod, prod_insert, ring, consumer, history, caller, fld>>

-----------------------------------------------------------------------------
(* internalsend, in wait_list_remove: it claims an item, *)
ClaimItem ==
    /\ cpc = "wait" /\ g_sem_cons > 0
    /\ g_sem_cons' = g_sem_cons - 1
    /\ cpc' = "read"
    /\ UNCHANGED <<g_sem_prod, prod_insert, ring, cfld, tmp, history, caller, pc, fld>>

(* copies the slot field by field, moving cons_vector on after the last, *)
CopyField ==
    /\ cpc = "read"
    /\ tmp' = [tmp EXCEPT ![Fields[cfld]] = wait_list[cons_vector][Fields[cfld]]]
    /\ IF cfld < Len(Fields)
       THEN cfld' = cfld + 1 /\ UNCHANGED <<cpc, cons_vector, removed>>
       ELSE /\ cfld' = 1 /\ cpc' = "free"
            /\ cons_vector' = (cons_vector + 1) % MAX_SEND_WAITING
            /\ removed' = Append(removed, tmp')
    /\ UNCHANGED <<semas, prod_insert, prod_vector, wait_list, inserted, caller, pc, fld>>

(* and gives the slot back to the producers. *)
FreeSlot ==
    /\ cpc = "free"
    /\ g_sem_prod' = g_sem_prod + 1
    /\ cpc' = "wait"
    /\ UNCHANGED <<g_sem_cons, prod_insert, ring, cfld, tmp, history, caller, pc, fld>>

Insert(t) == \/ SetField(t)  \/ PassField(t) \/ ClaimSlot(t) \/ LockInsert(t)
             \/ FillField(t) \/ UnlockInsert(t) \/ PostItem(t)
Remove    == ClaimItem \/ CopyField \/ FreeSlot

(* The bounds on calls stop the system with every item delivered. *)
Next == \/ \E t \in Threads : \/ Unreachable(t) \/ NetSend(t) \/ NetResend(t)
                              \/ Insert(t)
        \/ Remove

Spec        == Init /\ [][Next]_vars
RestartSpec == Init /\ [][Next \/ Restart]_vars

(* The threads run; the kernel serves the waiters of a semaphore in turn,  *)
(* and the mutex is held for a few assignments only.                       *)
Fairness == /\ WF_vars(Remove)
            /\ \A t \in Threads : /\ WF_vars(Insert(t))
                                  /\ SF_vars(ClaimSlot(t))
                                  /\ SF_vars(LockInsert(t))

FairSpec == Spec /\ Fairness

-----------------------------------------------------------------------------
(* Properties. *)

TypeOK ==
    /\ g_sem_prod \in Nat /\ g_sem_cons \in Nat
    /\ prod_insert \in {0, 1}
    /\ prod_vector \in Slots /\ cons_vector \in Slots
    /\ wait_list \in [Slots -> Item] /\ wait_item \in Item
    /\ pc \in [Threads -> {"idle", "set", "pass", "claim", "lock", "fill",
                           "unlock", "post"}]
    /\ fld \in [Threads -> 1..Len(Fields)] /\ head \in [Threads -> Item]
    /\ calls \in [Threads -> 0..MaxCalls]
    /\ cpc \in {"wait", "read", "free"} /\ cfld \in 1..Len(Fields) /\ tmp \in Item
    /\ inserted \in Seq(Item) /\ removed \in Seq(Item)
    /\ restarts \in 0..MaxRestarts

(* A packet that leaves the queue is the packet of one call: its header,   *)
(* payload and neighbour belong together.  net_send fills a global item    *)
(* without a lock, so this fails as soon as two threads are in it.         *)
WholeItems ==
    \A i \in DOMAIN removed : \E c \in Call : \A f \in Field : removed[i][f] = c

(* With any number of threads in net_send at once: a packet that the host  *)
(* forwards leaves as net_resend made it, and nothing of it gets into a    *)
(* packet of the host's own.  The race for wait_item stays among those who *)
(* call net_send, though all share the ring.                               *)
ForwardedWhole ==
    \A i \in DOMAIN removed : \A f, g \in Field :
        removed[i][f] \in Forwarders \X (1..MaxCalls) => removed[i][g] = removed[i][f]

(* wait_list_remove returns what wait_list_insert put in, in that order.   *)
RemovedAsInserted ==
    /\ Len(removed) <= Len(inserted)
    /\ removed = SubSeq(inserted, 1, Len(removed))

(* The two semaphores, the mutex and the two positions make the ring a     *)
(* bounded queue, although no lock is held by both ends.                   *)
Queue == INSTANCE BoundedQueue WITH Capacity <- MAX_SEND_WAITING
ImplementsQueue == Queue!Spec

(* The data of a packet that a thread has begun to insert is sent on in    *)
(* the end.                                                                *)
EverythingLeaves ==
    \A c \in Call : (\E t \in Threads : pc[t] = "claim" /\ head[t].data = c)
                        ~> \E i \in DOMAIN removed : removed[i].data = c
=============================================================================

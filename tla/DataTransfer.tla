---------------------------- MODULE DataTransfer ----------------------------
(***************************************************************************)
(* One direction of an established connection of the transport layer:      *)
(* send_point, the send_thread of the service point with its window, the   *)
(* seg_send_thread of every segment with its retransmissions, a network    *)
(* that loses, repeats and reorders, the recv_thread of the other service  *)
(* point with its reordering list, and recv_point.                         *)
(*                                                                         *)
(* A byte of the stream is its position: the payload of a segment is the   *)
(* interval of positions that starts at "data".  Sequence numbers are      *)
(* reduced modulo MAX_SEQ_NUM where the code reduces them and modulo       *)
(* MAX_SEQ_NUM + 1 (the width of uint32_t) where it does not.              *)
(*                                                                         *)
(* A definition marked "variant" is not part of the model: it is a         *)
(* plausible mistake in the definition after it, used to see that the      *)
(* properties would notice.                                                *)
(***************************************************************************)
EXTENDS Integers, Sequences

CONSTANTS MAX_SEQ_NUM,       \* modulus of the sequence numbers, 2^32 - 1
          MAX_SEGMENT_SIZE,  \* largest payload of a segment, 512
          MessageSizes,      \* sizes of the buffers send_point copies
          window_size,       \* window of the connection, in bytes
          Isn,               \* sequence number of the sender's SYN
          RecvSizes,         \* sizes the receiving application asks for
          MaxBytes           \* bound: bytes the application sends in all

ASSUME ConstantsAssumption ==
    /\ MAX_SEQ_NUM \in Nat
    /\ MAX_SEGMENT_SIZE \in Nat \ {0}
    /\ MessageSizes \subseteq Nat
    /\ window_size \in 1..(MAX_SEQ_NUM - 1)
    /\ Isn \in 0..(MAX_SEQ_NUM - 1)
    /\ RecvSizes \subseteq Nat \ {0}
    /\ MaxBytes \in Nat

VARIABLES
    accepted,           \* bytes send_point has copied so far
    mutex_prod,         \* 1: send_point may fill send_buff
    mutex_cons,         \* 1: send_thread may take send_buff
    send_buff,          \* position of the first byte of the buffer
    send_size,          \* its size
    pc,                 \* where send_thread is: "cons", "loop", "slide" (about
                        \* to lock mutex_ack), "in_seq" (holding mutex_ack)
    left,               \* send_thread's local send_size
    send_ptr,           \* next byte of send_buff to put in a segment
    seq_num_s,          \* sequence number of the next segment
    window_ptr,         \* bytes of the window in use
    segment_send_size,  \* size of the next segment
    size_move,          \* bytes in_seq has freed
    acks,               \* expected acknowledgements, oldest first
    unsent,             \* segments whose seg_send_thread has not called net_send
    sleeping,           \* segments whose seg_send_thread is in sleep(TIMEOUT)
    net,                \* segments in flight
    ack_net,            \* acknowledgement numbers in flight
    rpc,                \* recv_thread: "idle", or "pull" inside insert_seg
    pull_ack,           \* number to acknowledge when insert_seg returns
    ret,                \* bytes insert_seg has added to segs
    seq_num_r,          \* next sequence number expected
    prev_seq_num_r,     \* lower end of the receive window
    end_seq_num_r,      \* upper end of the receive window
    segs,               \* bytes in order, not yet taken by recv_point
    segs_aux,           \* segments received ahead of seq_num_r
    got                 \* bytes recv_point has returned

app       == <<accepted, mutex_prod, mutex_cons, send_buff, send_size>>
window    == <<pc, left, send_ptr, seq_num_s, window_ptr, segment_send_size,
               size_move>>
threads   == <<unsent, sleeping>>
channel   == <<net, ack_net>>
receiver  == <<rpc, pull_ack, ret, seq_num_r, prev_seq_num_r, end_seq_num_r,
               segs, segs_aux>>
vars      == <<app, window, acks, threads, channel, receiver, got>>

segment_size == IF window_size < MAX_SEGMENT_SIZE THEN window_size
                                                  ELSE MAX_SEGMENT_SIZE

(* A segment with its payload, and what the code computes from it: the     *)
(* number that acknowledges it, reduced modulo MAX_SEQ_NUM, and the number *)
(* seg_send_thread looks up, a uint32_t that nothing reduces.              *)
AckNum(s)  == (s.seq_num + s.size) % MAX_SEQ_NUM
LookNum(s) == (s.seq_num + s.size) % (MAX_SEQ_NUM + 1)
Bytes(s)   == [i \in 1..s.size |-> s.data + i - 1]

-----------------------------------------------------------------------------
(* ack_lst.c: both functions stop at the first entry with the number, and  *)
(* a number that is not in the list counts as acknowledged.                *)
IsFirst(lst, i, n) == lst[i].seq_num = n /\ \A j \in 1..(i - 1) : lst[j].seq_num # n

set_ack_cumulative(lst, n) ==   \* variant: acknowledges all that precedes
    [i \in DOMAIN lst |->
        IF lst[i].seq_num <= n THEN [lst[i] EXCEPT !.flag = 1] ELSE lst[i]]
set_ack(lst, n) ==
    [i \in DOMAIN lst |->
        IF IsFirst(lst, i, n) THEN [lst[i] EXCEPT !.flag = 1] ELSE lst[i]]

is_set(lst, n) == \A i \in DOMAIN lst : IsFirst(lst, i, n) => lst[i].flag = 1

-----------------------------------------------------------------------------
(* The sender's SYN, or SYN+ACK, took number Isn, and acks still has the    *)
(* entry for it.  On the side that called connect_point the SYN+ACK has    *)
(* set its flag.  On the side that accepted (sync_thread) the flag is 0    *)
(* while the point may already send: the one ACK that sync_ack_thread      *)
(* sends is on its way and can be lost.                                    *)
HandshakeNum == (Isn + 1) % MAX_SEQ_NUM

HandshakeAcked == acks = <<[seq_num |-> HandshakeNum, flag |-> 1, size |-> 0]>> /\ ack_net = {}
HandshakeSent ==
    /\ acks = <<[seq_num |-> HandshakeNum, flag |-> 0, size |-> 0]>>
    /\ ack_net = {HandshakeNum}

(* The receiver learnt Isn from the SYN (sync_thread, whose expression for *)
(* prev_seq_num_r lacks a pair of parentheses) or from the SYN+ACK         *)
(* (sync_ack_thread).                                                      *)
Init ==
    /\ accepted = 0 /\ mutex_prod = 1 /\ mutex_cons = 0
    /\ send_buff = 0 /\ send_size = 0
    /\ pc = "cons" /\ left = 0 /\ send_ptr = 0
    /\ seq_num_s = HandshakeNum
    /\ window_ptr = 0 /\ segment_send_size = segment_size /\ size_move = 0
    /\ HandshakeAcked \/ HandshakeSent
    /\ unsent = {} /\ sleeping = {} /\ net = {}
    /\ rpc = "idle" /\ pull_ack = 0 /\ ret = 0
    /\ seq_num_r = HandshakeNum
    /\ prev_seq_num_r \in
         {(Isn + ((MAX_SEQ_NUM - window_size) % MAX_SEQ_NUM)) % (MAX_SEQ_NUM + 1),
          (Isn + (MAX_SEQ_NUM - window_size)) % MAX_SEQ_NUM}
    /\ end_seq_num_r = (Isn + window_size) % MAX_SEQ_NUM
    /\ segs = <<>> /\ segs_aux = {} /\ got = <<>>

-----------------------------------------------------------------------------
(* The sending host. *)

(* send_point copies the buffer and wakes send_thread. *)
SendPoint(tam) ==
    /\ mutex_prod = 1
    /\ accepted + tam <= MaxBytes
    /\ mutex_prod' = 0 /\ mutex_cons' = 1
    /\ send_buff' = accepted /\ send_size' = tam
    /\ accepted' = accepted + tam
    /\ UNCHANGED <<window, acks, threads, channel, receiver, got>>

(* send_thread takes the buffer. *)
TakeBuffer ==
    /\ pc = "cons" /\ mutex_cons = 1
    /\ mutex_cons' = 0
    /\ pc' = "loop" /\ left' = send_size /\ send_ptr' = 0
    /\ UNCHANGED <<accepted, mutex_prod, send_buff, send_size, seq_num_s,
                   window_ptr, segment_send_size, size_move, acks, threads,
                   channel, receiver, got>>

(* The size of the segment after one that left window_ptr at ptr > 0. *)
SizeAtUncapped(ptr) == segment_size   \* variant: forgets the end of the window
SizeAt(ptr) == IF ptr + segment_size > window_size THEN window_size - ptr
                                                   ELSE segment_size

(* send_thread cuts the next segment, queues the acknowledgement it        *)
(* expects, starts the thread of the segment and moves the window pointer. *)
CutSegment ==
    /\ pc = "loop" /\ left # 0
    /\ LET size == IF left < segment_send_size THEN left ELSE segment_send_size
           s    == [seq_num |-> seq_num_s, size |-> size,
                    data |-> send_buff + send_ptr]
           ptr  == (window_ptr + size) % window_size
       IN  /\ left' = left - size
           /\ send_ptr' = send_ptr + size
           /\ seq_num_s' = AckNum(s)
           /\ acks' = Append(acks, [seq_num |-> AckNum(s), flag |-> 0, size |-> size])
           /\ unsent' = unsent \cup {s}
           /\ window_ptr' = ptr
           /\ pc' = IF ptr = 0 THEN "slide" ELSE "loop"
           /\ segment_send_size' = IF ptr = 0 THEN size ELSE SizeAt(ptr)
           /\ size_move' = 0
    /\ UNCHANGED <<app, sleeping, channel, receiver, got>>

(* The window is full: send_thread spins on in_seq, which runs with        *)
(* mutex_ack held and drops the acknowledged entries at the head.          *)
LockAcks ==
    /\ pc = "slide"
    /\ pc' = "in_seq"
    /\ UNCHANGED <<app, left, send_ptr, seq_num_s, window_ptr, segment_send_size,
                   size_move, acks, threads, channel, receiver, got>>

HeadAcked == acks # <<>> /\ Head(acks).flag = 1

PopAck ==
    /\ pc = "in_seq" /\ HeadAcked
    /\ size_move' = size_move + Head(acks).size
    /\ acks' = Tail(acks)
    /\ UNCHANGED <<app, pc, left, send_ptr, seq_num_s, window_ptr,
                   segment_send_size, threads, channel, receiver, got>>

(* The size of the segment after in_seq has freed some bytes. *)
SizeAfterAny(freed) == freed             \* variant: a segment as large as the room
SizeAfter(freed) == IF freed > segment_size THEN segment_size ELSE freed

UnlockAcks ==
    /\ pc = "in_seq" /\ ~HeadAcked
    /\ IF size_move = 0
       THEN /\ pc' = "slide"
            /\ UNCHANGED <<window_ptr, segment_send_size>>
       ELSE /\ pc' = "loop"
            /\ window_ptr' = window_size - size_move
            /\ segment_send_size' = SizeAfter(size_move)
    /\ UNCHANGED <<app, left, send_ptr, seq_num_s, size_move, acks, threads,
                   channel, receiver, got>>

(* The buffer is used up: send_point may fill another. *)
BufferDone ==
    /\ pc = "loop" /\ left = 0
    /\ pc' = "cons"
    /\ mutex_prod' = 1
    /\ UNCHANGED <<accepted, mutex_cons, send_buff, send_size, left, send_ptr,
                   seq_num_s, window_ptr, segment_send_size, size_move, acks,
                   threads, channel, receiver, got>>

(* seg_send_thread: the first net_send, then one turn of the loop each     *)
(* time sleep(TIMEOUT) returns.                                            *)
FirstSend(s) ==
    /\ s \in unsent
    /\ unsent' = unsent \ {s}
    /\ sleeping' = sleeping \cup {s}
    /\ net' = net \cup {s}
    /\ UNCHANGED <<app, window, acks, ack_net, receiver, got>>

TimeoutNoResend(s) ==                 \* variant: gives up after one TIMEOUT
    /\ s \in sleeping /\ pc # "in_seq"
    /\ sleeping' = sleeping \ {s}
    /\ UNCHANGED <<app, window, acks, unsent, channel, receiver, got>>
Timeout(s) ==
    /\ s \in sleeping /\ pc # "in_seq"
    /\ IF is_set(acks, LookNum(s))
       THEN sleeping' = sleeping \ {s} /\ UNCHANGED net
       ELSE net' = net \cup {s} /\ UNCHANGED sleeping
    /\ UNCHANGED <<app, window, acks, unsent, ack_net, receiver, got>>

(* recv_thread of the sending host: an acknowledgement. *)
ReceiveAck(a) ==
    /\ a \in ack_net /\ pc # "in_seq"
    /\ ack_net' \in {ack_net \ {a}, ack_net}
    /\ acks' = set_ack(acks, a)
    /\ UNCHANGED <<app, window, threads, net, receiver, got>>

-----------------------------------------------------------------------------
(* The receiving host. *)

(* recv_thread's nested tests of the window, when it lies within the range *)
(* of the numbers and when it wraps; every branch then compares the number *)
(* with seq_num_r.                                                         *)
InWindow(n) ==
    IF prev_seq_num_r < end_seq_num_r
    THEN n >= prev_seq_num_r /\ n <= end_seq_num_r
    ELSE ~(n < prev_seq_num_r /\ n > end_seq_num_r)

IsOld(n) == n < seq_num_r

(* A segment leaves the network, or a copy of it stays behind. *)
Arrive(s) == s \in net /\ rpc = "idle" /\ net' \in {net \ {s}, net}

(* Already received: acknowledged again. *)
DropOld(s) ==                         \* variant: no second acknowledgement
    /\ Arrive(s) /\ InWindow(s.seq_num) /\ IsOld(s.seq_num)
    /\ UNCHANGED <<app, window, acks, threads, ack_net, receiver, got>>
DeliverOld(s) ==
    /\ Arrive(s) /\ InWindow(s.seq_num) /\ IsOld(s.seq_num)
    /\ ack_net' = ack_net \cup {AckNum(s)}
    /\ UNCHANGED <<app, window, acks, threads, receiver, got>>

(* The segment recv_thread waits for: insert_seg appends it to segs and    *)
(* goes on, holding mutex_r and mutex_seg, to look in segs_aux.            *)
DeliverNext(s) ==
    /\ Arrive(s) /\ InWindow(s.seq_num) /\ s.seq_num = seq_num_r
    /\ segs' = segs \o Bytes(s)
    /\ ret' = s.size
    /\ rpc' = "pull" /\ pull_ack' = AckNum(s)
    /\ UNCHANGED <<app, window, acks, threads, ack_net, seq_num_r, prev_seq_num_r,
                   end_seq_num_r, segs_aux, got>>

(* is_next: a segment of segs_aux that starts at base. *)
IsNext(s, base) == s.seq_num = base

Pull(s) ==
    /\ rpc = "pull"
    /\ s \in segs_aux /\ IsNext(s, (seq_num_r + ret) % MAX_SEQ_NUM)
    /\ segs' = segs \o Bytes(s)
    /\ segs_aux' = segs_aux \ {s}
    /\ ret' = ret + s.size
    /\ UNCHANGED <<app, window, acks, threads, channel, rpc, pull_ack, seq_num_r,
                   prev_seq_num_r, end_seq_num_r, got>>

(* The receive window around base, set after every segment taken. *)
MoveWindowForward(base) ==            \* variant: no window behind base
    /\ seq_num_r' = base
    /\ end_seq_num_r' = (base + window_size) % MAX_SEQ_NUM
    /\ prev_seq_num_r' = base
MoveWindow(base) ==
    /\ seq_num_r' = base
    /\ end_seq_num_r' = (base + window_size) % MAX_SEQ_NUM
    /\ prev_seq_num_r' = (base + (MAX_SEQ_NUM - window_size)) % MAX_SEQ_NUM

(* recv_thread reads the number to acknowledge from the segment after      *)
(* insert_seg, when recv_seg may have freed it in the other thread, or     *)
(* insert_seg_lst has because there is one with this number.  What it then *)
(* reads is taken for a number that nobody awaits, as good as no answer.   *)
AckOfFreed(a) == ack_net' \in {ack_net \cup {a}, ack_net}

(* insert_seg returns: recv_thread moves the window and acknowledges. *)
PullDone ==
    /\ rpc = "pull"
    /\ \A s \in segs_aux : ~IsNext(s, (seq_num_r + ret) % MAX_SEQ_NUM)
    /\ MoveWindow((seq_num_r + ret) % MAX_SEQ_NUM)
    /\ AckOfFreed(pull_ack)
    /\ rpc' = "idle" /\ ret' = 0 /\ pull_ack' = 0
    /\ UNCHANGED <<app, window, acks, threads, net, segs, segs_aux, got>>

(* insert_seg_lst: one segment for each sequence number. *)
insert_drop(lst, s) == lst            \* variant: acknowledged but not kept
HasNumber(lst, n) == \E t \in lst : t.seq_num = n
insert_seg_lst(lst, s) == IF HasNumber(lst, s.seq_num) THEN lst ELSE lst \cup {s}

(* A segment ahead of the one awaited is kept aside and acknowledged. *)
DeliverAhead(s) ==
    /\ Arrive(s) /\ InWindow(s.seq_num) /\ s.seq_num > seq_num_r
    /\ segs_aux' = insert_seg_lst(segs_aux, s)
    /\ MoveWindow(seq_num_r)
    /\ IF HasNumber(segs_aux, s.seq_num) THEN AckOfFreed(AckNum(s))
                                         ELSE ack_net' = ack_net \cup {AckNum(s)}
    /\ UNCHANGED <<app, window, acks, threads, rpc, pull_ack, ret, segs, got>>

(* Outside the window: dropped without an answer. *)
DeliverOutside(s) ==
    /\ Arrive(s) /\ ~InWindow(s.seq_num)
    /\ UNCHANGED <<app, window, acks, threads, ack_net, receiver, got>>

(* recv_point returns up to size bytes of segs, never waiting for more. *)
TakenKept(k) == segs                  \* variant: leaves what it copied
Taken(k) == SubSeq(segs, k + 1, Len(segs))
RecvPoint(size) ==
    /\ rpc # "pull"
    /\ segs # <<>>
    /\ LET k == IF size < Len(segs) THEN size ELSE Len(segs)
       IN  got' = got \o SubSeq(segs, 1, k) /\ segs' = Taken(k)
    /\ UNCHANGED <<app, window, acks, threads, channel, rpc, pull_ack, ret,
                   seq_num_r, prev_seq_num_r, end_seq_num_r, segs_aux>>

-----------------------------------------------------------------------------
(* Everything below the transport layer: a datagram is lost, or dropped    *)
(* because the garbler damaged it.                                         *)
LoseSegment(s) ==
    /\ s \in net /\ net' = net \ {s}
    /\ UNCHANGED <<app, window, acks, threads, ack_net, receiver, got>>

(* While send_thread holds mutex_ack an acknowledgement that has arrived   *)
(* waits in recv_thread, where nothing can lose it; one still on its way   *)
(* can as well be lost before or after.                                    *)
LoseAck(a) ==
    /\ a \in ack_net /\ pc # "in_seq" /\ ack_net' = ack_net \ {a}
    /\ UNCHANGED <<app, window, acks, threads, net, receiver, got>>

SendThread == TakeBuffer \/ CutSegment \/ LockAcks \/ PopAck \/ UnlockAcks \/ BufferDone
Deliver(s) == DeliverOld(s) \/ DeliverNext(s) \/ DeliverAhead(s) \/ DeliverOutside(s)
InsertSeg  == (\E s \in segs_aux : Pull(s)) \/ PullDone

Next ==
    \/ \E tam \in MessageSizes : SendPoint(tam)
    \/ SendThread
    \/ \E s \in unsent : FirstSend(s)
    \/ \E s \in sleeping : Timeout(s)
    \/ \E a \in ack_net : ReceiveAck(a) \/ LoseAck(a)
    \/ \E s \in net : Deliver(s) \/ LoseSegment(s)
    \/ InsertSeg
    \/ \E size \in RecvSizes : RecvPoint(size)

Spec == Init /\ [][Next]_vars

(* Threads that can run do run; one that waits for mutex_ack gets it in    *)
(* the end although send_thread locks it again and again while it spins;   *)
(* a datagram sent again and again gets through in the end.  Segments are  *)
(* told apart by their first byte.                                         *)
Fairness ==
    /\ WF_vars(SendThread)
    /\ WF_vars(InsertSeg)
    /\ \A d \in 0..(MaxBytes - 1) :
         /\ WF_vars(\E s \in unsent : s.data = d /\ FirstSend(s))
         /\ SF_vars(\E s \in sleeping : s.data = d /\ Timeout(s))
         /\ SF_vars(\E s \in net : s.data = d /\ Deliver(s))
    /\ \A n \in 0..MaxBytes : SF_vars(ReceiveAck((Isn + 1 + n) % MAX_SEQ_NUM))

FairSpec == Spec /\ Fairness

-----------------------------------------------------------------------------
Segment == [seq_num : 0..(MAX_SEQ_NUM - 1), size : 1..MAX_SEGMENT_SIZE,
            data : 0..(MaxBytes - 1)]

Entry == [seq_num : 0..(MAX_SEQ_NUM - 1), flag : {0, 1}, size : 0..MAX_SEGMENT_SIZE]

(* Every variable keeps to its range; in particular the window pointer of  *)
(* send_thread stays below the window and the next segment is never empty. *)
TypeOK ==
    /\ accepted \in 0..MaxBytes /\ mutex_prod \in {0, 1} /\ mutex_cons \in {0, 1}
    /\ send_buff \in 0..MaxBytes /\ send_size \in 0..MaxBytes
    /\ pc \in {"cons", "loop", "slide", "in_seq"}
    /\ left \in 0..MaxBytes /\ send_ptr \in 0..MaxBytes
    /\ seq_num_s \in 0..(MAX_SEQ_NUM - 1)
    /\ window_ptr \in 0..(window_size - 1)
    /\ segment_send_size \in 1..segment_size
    /\ size_move \in 0..window_size
    /\ acks \in Seq(Entry)
    /\ unsent \subseteq Segment /\ sleeping \subseteq Segment
    /\ net \subseteq Segment /\ ack_net \subseteq 0..(MAX_SEQ_NUM - 1)
    /\ rpc \in {"idle", "pull"}
    /\ pull_ack \in 0..(MAX_SEQ_NUM - 1) /\ ret \in 0..MaxBytes
    /\ seq_num_r \in 0..(MAX_SEQ_NUM - 1)
    /\ prev_seq_num_r \in 0..MAX_SEQ_NUM /\ end_seq_num_r \in 0..(MAX_SEQ_NUM - 1)
    /\ segs \in Seq(Nat) /\ segs_aux \subseteq Segment /\ got \in Seq(Nat)

Available == Len(got) + Len(segs)

HeldByte(p) ==
    \/ p < Available
    \/ \E s \in segs_aux : s.data <= p /\ p < s.data + s.size

(* The receiving host has every byte of the segment. *)
Held(s) == \A p \in s.data..(s.data + s.size - 1) : HeldByte(p)

(* seg_send_thread of s would send it again. *)
Unacked(s) == \E i \in DOMAIN acks : IsFirst(acks, i, AckNum(s)) /\ acks[i].flag = 0

(* The bytes handed to the application and the bytes lined up for it are   *)
(* the beginning of the stream: insert_seg and is_next never put a segment *)
(* twice, out of order or over another one, and nothing is made up.        *)
InOrderDelivery ==
    /\ Available <= accepted
    /\ \A i \in 1..Available : (got \o segs)[i] = i - 1

(* The sender counts a segment as acknowledged, or an acknowledgement of   *)
(* it is on its way, only when the receiving host holds all of its bytes:  *)
(* set_ack and the acknowledgements of recv_thread agree on what a number  *)
(* stands for.                                                             *)
AckedIsHeld ==
    \A s \in unsent \cup sleeping :
        (~Unacked(s) \/ AckNum(s) \in ack_net) => Held(s)

(* All the bytes not acknowledged lie within window_size bytes: the window *)
(* pointer that send_thread moves by parts, and takes back by size_move,   *)
(* counts them right.                                                      *)
UnackedWithinWindow ==
    \A s, t \in unsent \cup sleeping :
        Unacked(s) => t.data + t.size - s.data <= window_size

(* A segment that is still being sent again would be accepted or           *)
(* acknowledged again, never dropped as outside the receive window: no     *)
(* lost acknowledgement makes a segment unacknowledgeable.                 *)
UnackedAcceptable ==
    rpc = "idle" =>
        \A s \in unsent \cup sleeping : Unacked(s) => InWindow(s.seq_num)

(* A seg_send_thread stops sending its segment again only when the         *)
(* receiving host holds it.                                                *)
ResendUntilHeld == [][\A s \in sleeping : s \in sleeping' \/ Held(s)]_vars

(* The connection is a reliable stream. *)
Stream == INSTANCE ReliableStream WITH sent <- accepted, got <- got
ImplementsStream == Stream!Spec

(* The one ACK of the handshake is lost: it is not on its way, and the     *)
(* entry that waits for it is still at the head of acks.                   *)
HandshakeLost == ~is_set(acks, HandshakeNum) /\ HandshakeNum \notin ack_net

(* Every byte taken by send_point becomes available to recv_point: at once *)
(* the first window, whatever became of the handshake, and all that        *)
(* follows unless the side that accepted never gets the ACK it waits for,  *)
(* since in_seq then frees nothing.                                        *)
EverythingArrives ==
    \A n \in 1..MaxBytes :
        accepted >= n ~> Available >= n \/ (HandshakeLost /\ n > window_size)

(* send_point is not kept waiting for ever on mutex_prod, but for the same *)
(* case, and then only when a whole window has been sent.                  *)
SendPointUnblocked ==
    mutex_prod = 0 ~> mutex_prod = 1 \/ (HandshakeLost /\ accepted >= window_size)
=============================================================================

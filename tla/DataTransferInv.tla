--------------------------- MODULE DataTransferInv ---------------------------
(***************************************************************************)
(* The inductive invariant of DataTransfer for a connection whose sequence *)
(* numbers do not reach MAX_SEQ_NUM.                                       *)
(***************************************************************************)
EXTENDS DataTransfer

(* connect_point and sync_thread add window_size to rand(), so Isn is at   *)
(* least window_size, and rand() is below 2^31: the numbers stay below     *)
(* MAX_SEQ_NUM for the first 2^31 bytes of the connection or so.           *)
NoWrap ==
    /\ Isn > window_size
    /\ Isn + 1 + MaxBytes + window_size < MAX_SEQ_NUM

Base == Isn + 1

(* Positions in the stream: of the next byte to cut into a segment, of the *)
(* first byte whose acknowledgement in_seq has not taken, of the next byte *)
(* awaited by the receiver.                                                *)
snd == seq_num_s - Base
una == IF acks = <<>> THEN snd ELSE acks[1].seq_num - acks[1].size - Base
rcv == seq_num_r - Base + ret

Known == unsent \cup sleeping \cup net \cup segs_aux

SenderInv ==
    /\ mutex_prod = 1 => pc = "cons" /\ mutex_cons = 0 /\ snd = accepted
    /\ mutex_cons = 1 => pc = "cons" /\ send_buff = snd /\ accepted = send_buff + send_size
    /\ pc = "cons" => mutex_prod = 1 \/ mutex_cons = 1
    /\ pc # "cons" => send_buff + send_ptr = snd /\ snd + left = accepted
    /\ 0 <= snd /\ snd <= accepted

WindowInv ==
    /\ pc \in {"cons", "loop"} =>
         snd - una = window_ptr /\ segment_send_size + window_ptr <= window_size
    /\ pc \in {"slide", "in_seq"} => snd - una + size_move = window_size
    /\ pc = "slide" => size_move = 0

AcksInv ==
    /\ \A i \in 1..Len(acks) :
         Base <= acks[i].seq_num - acks[i].size /\ acks[i].seq_num <= seq_num_s
    /\ \A i, j \in 1..Len(acks) :
         i < j => acks[i].seq_num <= acks[j].seq_num - acks[j].size /\ acks[j].size >= 1
    /\ \A i, j \in 1..Len(acks) :
         j = i + 1 => acks[i].seq_num = acks[j].seq_num - acks[j].size
    /\ acks # <<>> => acks[Len(acks)].seq_num = seq_num_s

SegmentOK(s) == s.seq_num = Base + s.data /\ s.data + s.size <= snd

SegmentsInv ==
    /\ \A s \in Known : SegmentOK(s)
    /\ \A s, t \in Known :
         s = t \/ s.data + s.size <= t.data \/ t.data + t.size <= s.data
    /\ \A s \in Known : s.data + s.size <= rcv \/ rcv <= s.data
    /\ \A s \in Known : \A i \in 1..Len(acks) :
         acks[i].seq_num = Base + s.data + s.size => acks[i].size = s.size

(* A segment whose thread runs is still in acks, or in_seq has taken it.   *)
ThreadsInv ==
    \A s \in unsent \cup sleeping :
        \/ s.data + s.size <= una
        \/ \E i \in 1..Len(acks) : acks[i].seq_num = Base + s.data + s.size

ReceiverInv ==
    /\ Available = rcv /\ rcv <= snd /\ Base <= seq_num_r
    /\ \A s \in segs_aux : rcv <= s.data
    /\ rpc = "idle" => ret = 0 /\ \A s \in segs_aux : rcv # s.data
    /\ prev_seq_num_r <= seq_num_r - window_size
    /\ end_seq_num_r \in {seq_num_r + window_size - 1, seq_num_r + window_size}

StreamInv ==
    /\ \A i \in 1..Len(got) : got[i] = i - 1
    /\ \A i \in 1..Len(segs) : segs[i] = Len(got) + i - 1

(* Bytes first..last-1 of the stream are with the receiver. *)
HeldUpTo(first, last) == \A p \in first..(last - 1) : HeldByte(p)

EntryHeld(e) == HeldUpTo(e.seq_num - e.size - Base, e.seq_num - Base)

NumberHeld(a) ==
    /\ a <= seq_num_s
    /\ \A i \in 1..Len(acks) : acks[i].seq_num = a => EntryHeld(acks[i])

EntriesHeld == \A i \in 1..Len(acks) : acks[i].flag = 1 => EntryHeld(acks[i])

HeldInv ==
    /\ HeldUpTo(0, una)
    /\ EntriesHeld
    /\ \A a \in ack_net : NumberHeld(a)
    /\ rpc = "pull" => NumberHeld(pull_ack)

IInv ==
    /\ TypeOK /\ SenderInv /\ WindowInv /\ AcksInv /\ SegmentsInv
    /\ ThreadsInv /\ ReceiverInv /\ StreamInv /\ HeldInv
=============================================================================

------------------------- MODULE DataTransferProofs -------------------------
(***************************************************************************)
(* Proofs about DataTransfer, for every size of the window, of the         *)
(* segments and of the stream, as long as no sequence number wraps.        *)
(***************************************************************************)
EXTENDS DataTransferInv, SequenceTheorems, TLAPS

(* A number below the modulus is its own remainder. *)
LEMMA ModSmall ==
    ASSUME NEW m \in Nat, NEW x \in Nat, x < m
    PROVE  x % m = x
BY SMT

(* A number between the modulus and twice the modulus loses it once. *)
LEMMA ModOnce ==
    ASSUME NEW m \in Nat, NEW x \in Nat, m <= x, x < m + m
    PROVE  x % m = x - m
BY SMT

(* The initial state satisfies the inductive invariant. *)
LEMMA InitInv ==
    ASSUME NoWrap, Init
    PROVE  IInv
<1> USE ConstantsAssumption DEF NoWrap
<1>1. segment_size \in 1..window_size /\ segment_size <= MAX_SEGMENT_SIZE
  BY DEF segment_size
<1>2. (Isn + 1) % MAX_SEQ_NUM = Isn + 1
  BY ModSmall
<1>3. (Isn + window_size) % MAX_SEQ_NUM = Isn + window_size
  BY ModSmall
<1>4. (MAX_SEQ_NUM - window_size) % MAX_SEQ_NUM = MAX_SEQ_NUM - window_size
  BY ModSmall
<1>5. (Isn + (MAX_SEQ_NUM - window_size)) % MAX_SEQ_NUM = Isn - window_size
  BY ModOnce
<1>6. (Isn + (MAX_SEQ_NUM - window_size)) % (MAX_SEQ_NUM + 1) = Isn - window_size - 1
  BY ModOnce
<1>7. PICK f \in {0, 1} : acks = <<[seq_num |-> Base, flag |-> f, size |-> 0]>>
  BY <1>2 DEF Init, HandshakeAcked, HandshakeSent, HandshakeNum, Base
<1>n. seq_num_s = Base /\ seq_num_r = Base /\ ack_net \subseteq {Base}
      /\ Base \in 0..(MAX_SEQ_NUM - 1)
  BY <1>2 DEF Init, HandshakeAcked, HandshakeSent, HandshakeNum, Base
<1>8. acks \in Seq(Entry)
  BY <1>7, <1>n DEF Entry
<1>9. TypeOK
  BY <1>1, <1>n, <1>3, <1>4, <1>5, <1>6, <1>8 DEF Init, TypeOK
<1>10. SenderInv
  BY <1>n DEF Init, SenderInv, snd, Base
<1>11. una = 0 /\ snd = 0 /\ rcv = 0
  BY <1>n, <1>7 DEF Init, una, snd, rcv, Base
<1>12. WindowInv
  BY <1>1, <1>11 DEF Init, WindowInv
<1>13. AcksInv
  BY <1>7, <1>n DEF AcksInv, Base
<1>14. SegmentsInv /\ ThreadsInv
  BY DEF Init, SegmentsInv, ThreadsInv, Known
<1>15. ReceiverInv
  BY <1>n, <1>3, <1>4, <1>5, <1>6, <1>11 DEF Init, ReceiverInv, Available, Base
<1>16. StreamInv
  BY DEF Init, StreamInv
<1>17. HeldInv
  <2>1. HeldUpTo(0, una) /\ EntriesHeld
    BY <1>7, <1>11 DEF EntriesHeld, HeldUpTo, EntryHeld, Base
  <2>2. \A a \in ack_net : NumberHeld(a)
    BY <1>7, <1>n DEF NumberHeld, HeldUpTo, EntryHeld, Base
  <2>3. QED
    BY <2>1, <2>2 DEF Init, HeldInv
<1>18. QED
  BY <1>9, <1>10, <1>12, <1>13, <1>14, <1>15, <1>16, <1>17 DEF IInv

-----------------------------------------------------------------------------
(* A part of the invariant holds after a step that leaves alone the        *)
(* variables it speaks of.                                                 *)
LEMMA SenderFrame ==
    ASSUME SenderInv, UNCHANGED <<app, pc, send_ptr, left, seq_num_s>>
    PROVE  SenderInv'
BY DEF SenderInv, snd, app

(* Likewise the part about the window of send_thread.                      *)
LEMMA WindowFrame ==
    ASSUME WindowInv,
           UNCHANGED <<pc, seq_num_s, window_ptr, segment_send_size, size_move, acks>>
    PROVE  WindowInv'
BY DEF WindowInv, snd, una

(* Likewise the part about the expected acknowledgements.                  *)
LEMMA AcksFrame ==
    ASSUME AcksInv, UNCHANGED <<seq_num_s, acks>>
    PROVE  AcksInv'
BY DEF AcksInv

(* Likewise the part about the segments in the system.                     *)
LEMMA SegmentsFrame ==
    ASSUME SegmentsInv,
           UNCHANGED <<seq_num_s, acks, seq_num_r, ret>>,
           Known' \subseteq Known
    PROVE  SegmentsInv'
BY DEF SegmentsInv, SegmentOK, snd, rcv

(* Likewise the part about the seg_send_threads.                           *)
LEMMA ThreadsFrame ==
    ASSUME ThreadsInv, UNCHANGED <<seq_num_s, acks>>,
           unsent' \cup sleeping' \subseteq unsent \cup sleeping
    PROVE  ThreadsInv'
BY DEF ThreadsInv, una, snd

(* Likewise the part about the receive window.                             *)
LEMMA ReceiverFrame ==
    ASSUME ReceiverInv, UNCHANGED <<receiver, got, seq_num_s>>
    PROVE  ReceiverInv'
BY DEF ReceiverInv, Available, rcv, snd, receiver

(* Likewise the part about the bytes of segs and got.                      *)
LEMMA StreamFrame ==
    ASSUME StreamInv, UNCHANGED <<segs, got>>
    PROVE  StreamInv'
BY DEF StreamInv

(* Likewise the part about what has been acknowledged.                     *)
LEMMA HeldFrame ==
    ASSUME HeldInv, UNCHANGED <<acks, rpc, pull_ack, seq_num_s, segs, got, segs_aux>>,
           ack_net' \subseteq ack_net
    PROVE  HeldInv'
BY DEF HeldInv, EntriesHeld, HeldUpTo, HeldByte, Available, NumberHeld, EntryHeld, una, snd

(* Facts of arithmetic the steps share. *)
LEMMA Sizes ==
    /\ MAX_SEQ_NUM \in Nat /\ window_size \in 1..(MAX_SEQ_NUM - 1)
    /\ MAX_SEGMENT_SIZE \in Nat \ {0} /\ Isn \in 0..(MAX_SEQ_NUM - 1)
    /\ MaxBytes \in Nat /\ MessageSizes \subseteq Nat /\ RecvSizes \subseteq Nat \ {0}
    /\ segment_size \in 1..window_size /\ segment_size <= MAX_SEGMENT_SIZE
    /\ Base = Isn + 1
BY ConstantsAssumption DEF segment_size, Base

(* Positions are integers, and so are the fields of entries and segments.  *)
LEMMA Types ==
    ASSUME TypeOK
    PROVE  /\ snd \in Int /\ una \in Int /\ rcv \in Int /\ Base \in Nat
           /\ Available \in Nat
           /\ acks \in Seq(Entry)
           /\ \A i \in 1..Len(acks) : acks[i].seq_num \in Nat /\ acks[i].size \in Nat
           /\ \A s \in Known : s.seq_num \in Nat /\ s.data \in Nat /\ s.size \in Nat \ {0}
<1>1. Base \in Nat /\ snd \in Int /\ rcv \in Int
  BY Sizes DEF TypeOK, snd, rcv
<1>2. \A i \in 1..Len(acks) : acks[i].seq_num \in Nat /\ acks[i].size \in Nat
  <2>1. \A i \in 1..Len(acks) : acks[i] \in Entry
    BY SMTT(30) DEF TypeOK
  <2>2. \A x \in Entry : x.seq_num \in Nat /\ x.size \in Nat
    BY Sizes DEF Entry
  <2>3. QED
    BY <2>1, <2>2
<1>3. acks # <<>> => 1 \in 1..Len(acks)
  BY DEF TypeOK
<1>4. una \in Int
  BY <1>1, <1>2, <1>3 DEF una
<1>5. \A s \in Segment : s.seq_num \in Nat /\ s.data \in Nat /\ s.size \in Nat \ {0}
  BY Sizes DEF Segment
<1>6. QED
  BY SMTT(30), <1>1, <1>2, <1>4, <1>5 DEF TypeOK, Known, Available

(* Bytes the receiver never gives up stay held; the parts of HeldInv that  *)
(* a step leaves alone follow.                                             *)
LEMMA HeldMono ==
    ASSUME \A p \in Int : HeldByte(p) => HeldByte(p)'
    PROVE  \A a, b \in Int : HeldUpTo(a, b) => HeldUpTo(a, b)'
BY DEF HeldUpTo

(* When acks stays as it is, the parts of HeldInv about it stay true.      *)
LEMMA HeldSameAcks ==
    ASSUME TypeOK, HeldInv, UNCHANGED <<acks, seq_num_s>>,
           \A p \in Int : HeldByte(p) => HeldByte(p)'
    PROVE  /\ HeldUpTo(0, una)'
           /\ EntriesHeld'
           /\ \A a \in Int : NumberHeld(a) => NumberHeld(a)'
<1>1. una' = una /\ una \in Int
  BY Types DEF una, snd
<1>2. \A a, b \in Int : HeldUpTo(a, b) => HeldUpTo(a, b)'
  BY HeldMono
<1>3. HeldUpTo(0, una)'
  BY <1>1, <1>2 DEF HeldInv
<1>4. \A i \in 1..Len(acks) : EntryHeld(acks[i]) => EntryHeld(acks[i])'
  BY SMTT(30), <1>2, Types DEF EntryHeld, Base
<1>5. EntriesHeld'
  BY <1>4 DEF HeldInv, EntriesHeld
<1>6. QED
  BY <1>3, <1>4, <1>5 DEF NumberHeld

-----------------------------------------------------------------------------
(* send_point fills send_buff.                                             *)
LEMMA SendPointInv ==
    ASSUME NoWrap, IInv, NEW tam \in MessageSizes, SendPoint(tam)
    PROVE  IInv'
<1>1. TypeOK'
  BY Sizes DEF IInv, TypeOK, SendPoint, window, threads, channel, receiver
<1>2. SenderInv'
  BY Sizes DEF IInv, TypeOK, SenderInv, SendPoint, window, snd
<1>3. WindowInv'
  BY WindowFrame DEF IInv, SendPoint, window
<1>4. AcksInv'
  BY AcksFrame DEF IInv, SendPoint, window
<1>5. SegmentsInv'
  BY SegmentsFrame DEF IInv, SendPoint, window, threads, channel, receiver, Known
<1>6. ThreadsInv'
  BY ThreadsFrame DEF IInv, SendPoint, window, threads
<1>7. ReceiverInv'
  BY ReceiverFrame DEF IInv, SendPoint, window
<1>8. StreamInv'
  BY StreamFrame DEF IInv, SendPoint, receiver
<1>9. HeldInv'
  BY HeldFrame DEF IInv, SendPoint, window, channel, receiver
<1>10. QED
  BY <1>1, <1>2, <1>3, <1>4, <1>5, <1>6, <1>7, <1>8, <1>9 DEF IInv

(* send_thread cuts a segment and queues its expected acknowledgement.     *)
LEMMA CutSegmentInv ==
    ASSUME NoWrap, IInv, CutSegment
    PROVE  IInv'
<1>a. PICK size : size = IF left < segment_send_size THEN left ELSE segment_send_size
  OBVIOUS
<1>b. PICK s : s = [seq_num |-> seq_num_s, size |-> size, data |-> send_buff + send_ptr]
  OBVIOUS
<1>c. PICK ptr : ptr = (window_ptr + size) % window_size
  OBVIOUS
<1>d. PICK e : e = [seq_num |-> seq_num_s + size, flag |-> 0, size |-> size]
  OBVIOUS
<1>1. size \in Nat /\ size \in 1..segment_size /\ size <= left /\ size <= segment_send_size
  BY <1>a, Sizes DEF IInv, TypeOK, CutSegment
<1>2. /\ snd = send_buff + send_ptr /\ snd + left = accepted
      /\ seq_num_s = Base + snd /\ snd \in Nat /\ accepted \in 0..MaxBytes
  BY Sizes DEF IInv, TypeOK, SenderInv, CutSegment, snd
<1>3. AckNum(s) = seq_num_s + size
  <2>1. seq_num_s + size < MAX_SEQ_NUM /\ seq_num_s + size \in Nat
    BY <1>1, <1>2, Sizes DEF NoWrap, IInv, TypeOK
  <2>2. QED
    BY <1>b, <2>1, Sizes, ModSmall DEF AckNum
<1>4. /\ seq_num_s' = seq_num_s + size /\ acks' = Append(acks, e)
      /\ unsent' = unsent \cup {s} /\ window_ptr' = ptr
      /\ pc' = IF ptr = 0 THEN "slide" ELSE "loop"
      /\ segment_send_size' = IF ptr = 0 THEN size ELSE SizeAt(ptr)
      /\ size_move' = 0 /\ left' = left - size /\ send_ptr' = send_ptr + size
  BY <1>a, <1>b, <1>c, <1>d, <1>3 DEF CutSegment
<1>5. snd' = snd + size /\ snd' \in Nat /\ snd' <= accepted
  BY <1>1, <1>2, <1>4, Sizes DEF snd, IInv, TypeOK
<1>6. /\ window_ptr \in Nat
      /\ window_ptr + size \in 1..window_size /\ snd - una = window_ptr
      /\ ptr = IF window_ptr + size = window_size THEN 0 ELSE window_ptr + size
  <2>1. window_ptr \in Nat /\ window_ptr + size \in 1..window_size /\ snd - una = window_ptr
    BY <1>1, Sizes DEF IInv, TypeOK, WindowInv, CutSegment
  <2>2. CASE window_ptr + size = window_size
    BY <1>1, <1>c, <2>1, <2>2, Sizes, ModOnce
  <2>3. CASE window_ptr + size < window_size
    BY <1>1, <1>c, <2>1, <2>3, Sizes, ModSmall
  <2>4. QED
    BY <1>1, <2>1, <2>2, <2>3, Sizes
<1>7. acks \in Seq(Entry) /\ e \in Entry
  BY <1>d, <1>1, <1>2, Sizes DEF IInv, TypeOK, Entry, NoWrap
<1>8. /\ acks' \in Seq(Entry) /\ Len(acks') = Len(acks) + 1
      /\ \A i \in 1..Len(acks) : acks'[i] = acks[i]
      /\ acks'[Len(acks) + 1] = e /\ acks' # <<>>
  BY <1>4, <1>7
<1>9. una' = una /\ una \in Int
  <2>1. una \in Int
    BY Types DEF IInv
  <2>2. CASE acks = <<>>
    <3>1. acks'[1] = e /\ una = snd
      BY <1>7, <1>8, <2>2 DEF una
    <3>2. e.seq_num - e.size - Base = snd
      BY <1>d, <1>1, <1>2, Sizes
    <3>3. una' = acks'[1].seq_num - acks'[1].size - Base
      BY <1>8 DEF una, Base
    <3>4. QED
      BY <2>1, <3>1, <3>2, <3>3
  <2>3. CASE acks # <<>>
    <3>1. acks'[1] = acks[1]
      BY <1>7, <1>8, <2>3
    <3>2. una' = una
      BY <1>8, <2>3, <3>1 DEF una, Base
    <3>3. QED
      BY <2>1, <3>2
  <2>4. QED
    BY <2>2, <2>3
<1>e. \A i \in 1..Len(acks') : acks'[i].seq_num \in Nat /\ acks'[i].size \in Nat
  <2>1. \A i \in 1..Len(acks) : acks[i].seq_num \in Nat /\ acks[i].size \in Nat
    BY Types DEF IInv
  <2>2. e.seq_num \in Nat /\ e.size \in Nat
    BY <1>d, <1>1, <1>2, Sizes
  <2>3. QED
    BY <1>7, <1>8, <2>1, <2>2
<1>10. s \in Segment
  BY <1>b, <1>1, <1>2, Sizes DEF Segment, NoWrap, IInv, TypeOK
<1>11. TypeOK'
  <2>1. segment_send_size' \in 1..segment_size
    BY <1>1, <1>4, <1>6, Sizes DEF SizeAt
  <2>2. window_ptr' \in 0..(window_size - 1)
    BY <1>4, <1>6, Sizes
  <2>3. seq_num_s' \in 0..(MAX_SEQ_NUM - 1) /\ left' \in 0..MaxBytes /\ send_ptr' \in 0..MaxBytes
    BY <1>1, <1>2, <1>4, <1>5, Sizes DEF NoWrap, IInv, TypeOK
  <2>4. QED
    BY <1>4, <1>8, <1>10, <2>1, <2>2, <2>3, Sizes
    DEF IInv, TypeOK, CutSegment, app, channel, receiver
<1>12. SenderInv'
  <2>1. mutex_prod' = 0 /\ mutex_cons' = 0 /\ accepted' = accepted /\ send_buff' = send_buff
    BY DEF IInv, TypeOK, SenderInv, CutSegment, app
  <2>2. QED
    BY <1>1, <1>2, <1>4, <1>5, <2>1, Sizes DEF SenderInv, IInv, TypeOK
<1>13. WindowInv'
  <2>0. snd' - una' = window_ptr + size /\ segment_size \in Nat /\ window_size \in Nat
    BY <1>1, <1>2, <1>5, <1>6, <1>9, Sizes
  <2>1. ptr # 0 => snd' - una' = ptr /\ segment_send_size' + ptr <= window_size
    <3>1. ptr # 0 => ptr = window_ptr + size /\ ptr \in Nat /\ segment_send_size' = SizeAt(ptr)
      BY <1>1, <1>4, <1>6
    <3>2. QED
      BY <2>0, <3>1 DEF SizeAt
  <2>2. ptr = 0 => snd' - una' + size_move' = window_size
    <3>1. ptr = 0 => window_ptr + size = window_size
      BY <1>1, <1>6
    <3>2. QED
      BY <1>4, <2>0, <3>1
  <2>3. QED
    BY <1>4, <2>1, <2>2 DEF WindowInv
<1>14. AcksInv'
  <2>1. \A i \in 1..Len(acks) : Base <= acks[i].seq_num - acks[i].size /\ acks[i].seq_num <= seq_num_s
    BY DEF IInv, AcksInv
  <2>2. Base <= e.seq_num - e.size /\ e.seq_num = seq_num_s' /\ seq_num_s <= seq_num_s'
        /\ e.seq_num - e.size = seq_num_s /\ e.size >= 1
    BY SMTT(30), <1>d, <1>1, <1>2, <1>4, Sizes
  <2>3. seq_num_s \in Int /\ seq_num_s' \in Int /\ Base \in Int
    BY <1>1, <1>2, <1>4, Sizes
  <2>4. Len(acks) \in Nat /\ \A i \in 1..Len(acks') : i \in 1..Len(acks) \/ i = Len(acks) + 1
    BY <1>7, <1>8
  <2>5. \A i \in 1..Len(acks') :
          Base <= acks'[i].seq_num - acks'[i].size /\ acks'[i].seq_num <= seq_num_s'
    BY SMTT(30), <1>8, <1>e, <2>1, <2>2, <2>3, <2>4
  <2>6. \A i, j \in 1..Len(acks') :
          i < j => acks'[i].seq_num <= acks'[j].seq_num - acks'[j].size /\ acks'[j].size >= 1
    <3> SUFFICES ASSUME NEW i \in 1..Len(acks'), NEW j \in 1..Len(acks'), i < j
                 PROVE  acks'[i].seq_num <= acks'[j].seq_num - acks'[j].size /\ acks'[j].size >= 1
      OBVIOUS
    <3>1. i \in 1..Len(acks)
      BY <1>8, <2>4
    <3>2. CASE j \in 1..Len(acks)
      BY <1>8, <3>1, <3>2 DEF IInv, AcksInv
    <3>3. CASE j = Len(acks) + 1
      BY <1>8, <1>e, <2>1, <2>2, <2>3, <3>1, <3>3
    <3>4. QED
      BY <2>4, <3>2, <3>3
  <2>7. \A i, j \in 1..Len(acks') :
          j = i + 1 => acks'[i].seq_num = acks'[j].seq_num - acks'[j].size
    <3> SUFFICES ASSUME NEW i \in 1..Len(acks'), NEW j \in 1..Len(acks'), j = i + 1
                 PROVE  acks'[i].seq_num = acks'[j].seq_num - acks'[j].size
      OBVIOUS
    <3>1. i \in 1..Len(acks)
      BY <1>8, <2>4
    <3>2. CASE j \in 1..Len(acks)
      BY <1>8, <3>1, <3>2 DEF IInv, AcksInv
    <3>3. CASE j = Len(acks) + 1
      <4>1. acks # <<>> /\ i = Len(acks)
        BY <1>7, <2>4, <3>1, <3>3
      <4>2. acks'[i].seq_num = seq_num_s
        BY <1>8, <3>1, <4>1 DEF IInv, AcksInv
      <4>3. QED
        BY <1>8, <2>2, <3>3, <4>2
    <3>4. QED
      BY <2>4, <3>2, <3>3
  <2>8. QED
    BY <1>8, <2>2, <2>5, <2>6, <2>7 DEF AcksInv, Base
<1>15. /\ Known' = Known \cup {s} /\ rcv' = rcv /\ Known \subseteq Segment
       /\ \A t \in Known : t.seq_num \in Nat /\ t.data \in Nat /\ t.size \in Nat \ {0}
  BY Types, <1>4 DEF CutSegment, Known, channel, receiver, rcv, IInv, TypeOK
<1>16. SegmentsInv'
  <2>1. SegmentOK(s)' /\ \A t \in Known : SegmentOK(t)' /\ t.data + t.size <= s.data
    <3>1. \A t \in Known : t.seq_num = Base + t.data /\ t.data + t.size <= snd
      BY DEF IInv, SegmentsInv, SegmentOK
    <3>2. s.seq_num = Base + s.data /\ s.data = snd /\ s.size = size
      BY <1>b, <1>2
    <3>3. snd <= snd' /\ s.data + s.size <= snd'
      BY <1>1, <1>2, <1>5, <3>2
    <3>4. \A t \in Known : t.data + t.size <= snd'
      BY <1>2, <1>5, <1>15, <3>1, <3>3
    <3>5. SegmentOK(s)' /\ \A t \in Known : SegmentOK(t)'
      BY <3>1, <3>2, <3>3, <3>4 DEF SegmentOK, Base
    <3>6. QED
      BY <3>1, <3>2, <3>5
  <2>2. rcv <= s.data /\ rcv \in Int
    BY <1>b, <1>2, Types DEF IInv, ReceiverInv
  <2>3. \A i \in 1..Len(acks) : acks[i].seq_num <= seq_num_s /\ acks[i] \in Entry
    BY <1>7 DEF IInv, AcksInv
  <2>4. \A t \in Known' : \A i \in 1..Len(acks') :
          acks'[i].seq_num = Base + t.data + t.size => acks'[i].size = t.size
    <3> SUFFICES ASSUME NEW t \in Known', NEW i \in 1..Len(acks'),
                        acks'[i].seq_num = Base + t.data + t.size
                 PROVE  acks'[i].size = t.size
      OBVIOUS
    <3>1. CASE t \in Known /\ i \in 1..Len(acks)
      BY <1>8, <3>1 DEF IInv, SegmentsInv
    <3>2. CASE t \in Known /\ i = Len(acks) + 1
      <4>1. acks'[i].seq_num = seq_num_s + size /\ s.data = snd
        BY <1>b, <1>d, <1>2, <1>8, <3>2
      <4>2. t.data + t.size <= snd
        BY <2>1, <3>2, <4>1
      <4>3. Base + t.data + t.size < seq_num_s + size
        BY SMTT(30), <1>1, <1>2, <1>15, <3>2, <4>2, Sizes
      <4>4. QED
        BY <1>1, <1>2, <1>15, <3>2, <4>1, <4>3, Sizes
    <3>3. CASE t = s /\ i \in 1..Len(acks)
      <4>1. acks'[i].seq_num <= seq_num_s
        BY <1>8, <2>3, <3>3
      <4>2. Base + t.data + t.size = seq_num_s + size
        BY <1>b, <1>2, <3>3
      <4>3. QED
        BY <1>1, <1>2, <1>e, <4>1, <4>2, Sizes
    <3>4. CASE t = s /\ i = Len(acks) + 1
      BY <1>b, <1>d, <1>8, <3>4
    <3>5. QED
      BY <1>8, <1>15, <3>1, <3>2, <3>3, <3>4
  <2>5. QED
    BY <1>10, <1>15, <2>1, <2>2, <2>4 DEF IInv, SegmentsInv, Segment
<1>17. ThreadsInv'
  BY <1>b, <1>d, <1>2, <1>4, <1>8, <1>9 DEF ThreadsInv, IInv, CutSegment
<1>18. ReceiverInv'
  BY <1>1, <1>2, <1>5, Sizes DEF IInv, TypeOK, ReceiverInv, Available, rcv, CutSegment, receiver
<1>19. StreamInv'
  BY StreamFrame DEF IInv, CutSegment, receiver
<1>20. HeldInv'
  <2>1. \A p \in Int : HeldByte(p)' <=> HeldByte(p)
    BY DEF HeldByte, Available, CutSegment, receiver
  <2>2. \A a, b \in Int : HeldUpTo(a, b)' <=> HeldUpTo(a, b)
    BY <2>1 DEF HeldUpTo
  <2>3. HeldUpTo(0, una)'
    BY <1>9, <2>2 DEF IInv, HeldInv
  <2>4. \A i \in 1..Len(acks) : EntryHeld(acks[i]) => EntryHeld(acks[i])'
    BY SMTT(30), <1>e, <1>8, <2>2, Sizes DEF EntryHeld, Base
  <2>5. EntriesHeld'
    <3> SUFFICES ASSUME NEW i \in 1..Len(acks'), acks'[i].flag = 1
                 PROVE  EntryHeld(acks[i])'
      BY DEF EntriesHeld
    <3>1. i \in 1..Len(acks)
      BY <1>7, <1>8, <1>d
    <3>2. QED
      BY <1>8, <2>4, <3>1 DEF EntriesHeld, HeldInv, IInv
  <2>6. \A a \in Int : NumberHeld(a) => NumberHeld(a)'
    <3> SUFFICES ASSUME NEW a \in Int, NumberHeld(a) PROVE NumberHeld(a)'
      OBVIOUS
    <3>1. a <= seq_num_s /\ a < seq_num_s' /\ a <= seq_num_s'
      BY SMTT(30), <1>1, <1>2, <1>4, Sizes DEF NumberHeld
    <3>2. ASSUME NEW i \in 1..Len(acks'), acks'[i].seq_num = a
          PROVE  EntryHeld(acks[i])'
      <4>1. i \in 1..Len(acks)
        BY <1>4, <1>7, <1>8, <1>d, <3>1, <3>2
      <4>2. QED
        BY <1>8, <2>4, <3>2, <4>1 DEF NumberHeld
    <3>3. QED
      BY <3>1, <3>2 DEF NumberHeld
  <2>7. QED
    <3>1. pull_ack \in Int /\ pull_ack' = pull_ack /\ rpc' = rpc
          /\ ack_net' = ack_net /\ ack_net \subseteq Int
      BY DEF IInv, TypeOK, CutSegment, channel, receiver
    <3>2. \A a \in ack_net' : NumberHeld(a)'
      BY <2>6, <3>1 DEF IInv, HeldInv
    <3>3. rpc' = "pull" => NumberHeld(pull_ack)'
      BY <2>6, <3>1 DEF IInv, HeldInv, NumberHeld
    <3>4. QED
      BY <2>3, <2>5, <3>2, <3>3 DEF HeldInv
<1>21. QED
  BY <1>11, <1>12, <1>13, <1>14, <1>16, <1>17, <1>18, <1>19, <1>20 DEF IInv

(* send_thread takes send_buff.                                            *)
LEMMA TakeBufferInv ==
    ASSUME NoWrap, IInv, TakeBuffer
    PROVE  IInv'
<1>1. TypeOK'
  BY Sizes DEF IInv, TypeOK, TakeBuffer, app, window, threads, channel, receiver
<1>2. SenderInv'
  BY Sizes DEF IInv, TypeOK, SenderInv, TakeBuffer, snd
<1>3. WindowInv'
  BY DEF IInv, WindowInv, TakeBuffer, snd, una
<1>4. AcksInv'
  BY AcksFrame DEF IInv, TakeBuffer, window
<1>5. SegmentsInv'
  BY SegmentsFrame DEF IInv, TakeBuffer, window, threads, channel, receiver, Known
<1>6. ThreadsInv'
  BY ThreadsFrame DEF IInv, TakeBuffer, window, threads
<1>7. ReceiverInv'
  BY ReceiverFrame DEF IInv, TakeBuffer, window, receiver
<1>8. StreamInv'
  BY StreamFrame DEF IInv, TakeBuffer, receiver
<1>9. HeldInv'
  BY HeldFrame DEF IInv, TakeBuffer, window, channel, receiver
<1>10. QED
  BY <1>1, <1>2, <1>3, <1>4, <1>5, <1>6, <1>7, <1>8, <1>9 DEF IInv

(* send_thread has used up send_buff.                                      *)
LEMMA BufferDoneInv ==
    ASSUME NoWrap, IInv, BufferDone
    PROVE  IInv'
<1>1. TypeOK'
  BY Sizes DEF IInv, TypeOK, BufferDone, app, window, threads, channel, receiver
<1>2. SenderInv'
  BY Sizes, Types DEF IInv, TypeOK, SenderInv, BufferDone, snd
<1>3. WindowInv'
  BY DEF IInv, WindowInv, BufferDone, snd, una
<1>4. AcksInv'
  BY AcksFrame DEF IInv, BufferDone, window
<1>5. SegmentsInv'
  BY SegmentsFrame DEF IInv, BufferDone, window, threads, channel, receiver, Known
<1>6. ThreadsInv'
  BY ThreadsFrame DEF IInv, BufferDone, window, threads
<1>7. ReceiverInv'
  BY ReceiverFrame DEF IInv, BufferDone, window, receiver
<1>8. StreamInv'
  BY StreamFrame DEF IInv, BufferDone, receiver
<1>9. HeldInv'
  BY HeldFrame DEF IInv, BufferDone, window, channel, receiver
<1>10. QED
  BY <1>1, <1>2, <1>3, <1>4, <1>5, <1>6, <1>7, <1>8, <1>9 DEF IInv

(* send_thread locks mutex_ack.                                            *)
LEMMA LockAcksInv ==
    ASSUME NoWrap, IInv, LockAcks
    PROVE  IInv'
<1>1. TypeOK'
  BY Sizes DEF IInv, TypeOK, LockAcks, app, window, threads, channel, receiver
<1>2. SenderInv'
  BY Sizes DEF IInv, TypeOK, SenderInv, LockAcks, app, snd
<1>3. WindowInv'
  BY DEF IInv, WindowInv, LockAcks, snd, una
<1>4. AcksInv'
  BY AcksFrame DEF IInv, LockAcks, window
<1>5. SegmentsInv'
  BY SegmentsFrame DEF IInv, LockAcks, window, threads, channel, receiver, Known
<1>6. ThreadsInv'
  BY ThreadsFrame DEF IInv, LockAcks, window, threads
<1>7. ReceiverInv'
  BY ReceiverFrame DEF IInv, LockAcks, window, receiver
<1>8. StreamInv'
  BY StreamFrame DEF IInv, LockAcks, receiver
<1>9. HeldInv'
  BY HeldFrame DEF IInv, LockAcks, window, channel, receiver
<1>10. QED
  BY <1>1, <1>2, <1>3, <1>4, <1>5, <1>6, <1>7, <1>8, <1>9 DEF IInv

(* in_seq returns; the window moves by size_move.                          *)
LEMMA UnlockAcksInv ==
    ASSUME NoWrap, IInv, UnlockAcks
    PROVE  IInv'
<1>1. pc = "in_seq" /\ size_move \in 0..window_size /\ snd - una + size_move = window_size
  BY DEF IInv, TypeOK, WindowInv, UnlockAcks
<1>2. size_move # 0 => /\ window_size - size_move \in 0..(window_size - 1)
                       /\ SizeAfter(size_move) \in 1..segment_size
                       /\ SizeAfter(size_move) + (window_size - size_move) <= window_size
  BY <1>1, Sizes DEF SizeAfter
<1>3. snd' = snd /\ una' = una
  BY DEF UnlockAcks, snd, una
<1>4. TypeOK'
  BY <1>1, <1>2, Sizes DEF IInv, TypeOK, UnlockAcks, app, threads, channel, receiver
<1>5. SenderInv'
  BY <1>1, Sizes DEF IInv, TypeOK, SenderInv, UnlockAcks, app, snd
<1>6. WindowInv'
  BY SMTT(30), <1>1, <1>2, <1>3, Sizes, Types DEF IInv, WindowInv, UnlockAcks
<1>7. AcksInv'
  BY AcksFrame DEF IInv, UnlockAcks, window
<1>8. SegmentsInv'
  BY SegmentsFrame DEF IInv, UnlockAcks, window, threads, channel, receiver, Known
<1>9. ThreadsInv'
  BY ThreadsFrame DEF IInv, UnlockAcks, window, threads
<1>10. ReceiverInv'
  BY ReceiverFrame DEF IInv, UnlockAcks, window, receiver
<1>11. StreamInv'
  BY StreamFrame DEF IInv, UnlockAcks, receiver
<1>12. HeldInv'
  BY HeldFrame DEF IInv, UnlockAcks, window, channel, receiver
<1>13. QED
  BY <1>4, <1>5, <1>6, <1>7, <1>8, <1>9, <1>10, <1>11, <1>12 DEF IInv

(* A step that only moves segments between the threads that send them and  *)
(* the network, or loses datagrams, keeps the invariant.                   *)
LEMMA DatagramsInv ==
    ASSUME IInv, UNCHANGED <<app, window, acks, receiver, got>>,
           unsent' \cup sleeping' \subseteq unsent \cup sleeping,
           net' \subseteq Known, ack_net' \subseteq ack_net
    PROVE  IInv'
<1>1. Known' \subseteq Known
  BY DEF Known, receiver
<1>2. TypeOK'
  BY Sizes DEF IInv, TypeOK, Known, app, window, receiver
<1>3. SenderInv'
  BY SenderFrame DEF IInv, app, window
<1>4. WindowInv'
  BY WindowFrame DEF IInv, window
<1>5. AcksInv'
  BY AcksFrame DEF IInv, window
<1>6. SegmentsInv'
  BY <1>1, SegmentsFrame DEF IInv, window, receiver
<1>7. ThreadsInv'
  BY ThreadsFrame DEF IInv, window
<1>8. ReceiverInv'
  BY ReceiverFrame DEF IInv, window
<1>9. StreamInv'
  BY StreamFrame DEF IInv, receiver
<1>10. HeldInv'
  BY HeldFrame DEF IInv, window, receiver
<1>11. QED
  BY <1>2, <1>3, <1>4, <1>5, <1>6, <1>7, <1>8, <1>9, <1>10 DEF IInv

(* in_seq takes the acknowledged entry at the head of acks.                *)
LEMMA PopAckInv ==
    ASSUME NoWrap, IInv, PopAck
    PROVE  IInv'
<1>1. /\ acks \in Seq(Entry) /\ acks # <<>> /\ 1 \in 1..Len(acks) /\ Len(acks) \in Nat
      /\ Head(acks) = acks[1] /\ acks[1].flag = 1 /\ acks' = Tail(acks)
      /\ size_move' = size_move + acks[1].size
  <2>1. acks \in Seq(Entry) /\ acks # <<>> /\ Head(acks).flag = 1
    BY DEF IInv, TypeOK, PopAck, HeadAcked
  <2>2. Head(acks) = acks[1] /\ 1 \in 1..Len(acks) /\ Len(acks) \in Nat
    BY <2>1
  <2>3. QED
    BY <2>1, <2>2 DEF PopAck
<1>2. /\ acks' \in Seq(Entry) /\ Len(acks') = Len(acks) - 1
      /\ \A i \in 1..Len(acks') : acks'[i] = acks[i + 1] /\ i + 1 \in 1..Len(acks)
  BY <1>1
<1>3. seq_num_s' = seq_num_s /\ snd' = snd /\ rcv' = rcv /\ snd \in Int /\ una \in Int
  BY Types DEF PopAck, snd, rcv, receiver, IInv
<1>4. \A i \in 1..Len(acks) : acks[i].seq_num \in Nat /\ acks[i].size \in Nat
  BY Types DEF IInv
<1>5. una = acks[1].seq_num - acks[1].size - Base /\ una' = acks[1].seq_num - Base
  <2>1. CASE Len(acks) = 1
    <3>1. acks' = <<>> /\ acks[1].seq_num = seq_num_s
      BY <1>1, <1>2, <2>1 DEF IInv, AcksInv
    <3>2. una = acks[1].seq_num - acks[1].size - Base
      BY <1>1 DEF una
    <3>3. una' = snd
      BY <1>3, <3>1 DEF una
    <3>4. QED
      BY <3>1, <3>2, <3>3 DEF snd
  <2>2. CASE Len(acks) # 1
    <3>0. 1 \in 1..Len(acks') /\ 1 + 1 = 2
      BY <1>1, <1>2, <2>2
    <3>1. acks' # <<>> /\ acks'[1] = acks[2] /\ 2 \in 1..Len(acks)
      BY <1>2, <3>0
    <3>2. acks[1].seq_num = acks[2].seq_num - acks[2].size
      BY <1>1, <3>1 DEF IInv, AcksInv
    <3>3. una = acks[1].seq_num - acks[1].size - Base
      BY <1>1 DEF una
    <3>4. una' = acks'[1].seq_num - acks'[1].size - Base
      BY <3>1 DEF una, Base
    <3>5. QED
      BY <3>1, <3>2, <3>3, <3>4
  <2>3. QED
    BY <2>1, <2>2, Zenon
<1>6. una' = una + acks[1].size /\ una' <= snd /\ una' \in Int
  <2>1. acks[1].seq_num <= seq_num_s
    BY <1>1 DEF IInv, AcksInv
  <2>2. acks[1].seq_num \in Nat /\ acks[1].size \in Nat /\ Base \in Nat
    BY <1>1, <1>4, Sizes
  <2>3. snd = seq_num_s - Base /\ seq_num_s \in Nat
    BY Sizes DEF snd, IInv, TypeOK
  <2>4. QED
    BY <1>5, <2>1, <2>2, <2>3
<1>7. snd - una + size_move = window_size /\ size_move \in Nat /\ size_move' \in 0..window_size
      /\ snd - una' + size_move' = window_size
  <2>1. snd - una + size_move = window_size /\ size_move \in Nat /\ window_size \in Nat
    BY Sizes DEF IInv, TypeOK, WindowInv, PopAck
  <2>2. size_move' = size_move + acks[1].size /\ acks[1].size \in Nat
    BY <1>1, <1>4
  <2>3. QED
    BY <1>3, <1>6, <2>1, <2>2
<1>8. TypeOK'
  BY <1>2, <1>7, Sizes DEF IInv, TypeOK, PopAck, app, threads, channel, receiver
<1>9. SenderInv'
  BY SenderFrame DEF IInv, PopAck
<1>10. WindowInv'
  BY <1>3, <1>7 DEF WindowInv, PopAck
<1>11. AcksInv'
  <2>1. \A i \in 1..Len(acks') :
          Base <= acks'[i].seq_num - acks'[i].size /\ acks'[i].seq_num <= seq_num_s'
    BY <1>2, <1>3 DEF IInv, AcksInv
  <2>2. \A i, j \in 1..Len(acks') : i < j =>
          acks'[i].seq_num <= acks'[j].seq_num - acks'[j].size /\ acks'[j].size >= 1
    <3> SUFFICES ASSUME NEW i \in 1..Len(acks'), NEW j \in 1..Len(acks'), i < j
                 PROVE  acks'[i].seq_num <= acks'[j].seq_num - acks'[j].size
                        /\ acks'[j].size >= 1
      OBVIOUS
    <3>1. /\ acks'[i] = acks[i + 1] /\ i + 1 \in 1..Len(acks)
          /\ acks'[j] = acks[j + 1] /\ j + 1 \in 1..Len(acks) /\ i + 1 < j + 1
      BY <1>2
    <3>2. QED
      BY <3>1 DEF IInv, AcksInv
  <2>3. \A i, j \in 1..Len(acks') : j = i + 1 =>
          acks'[i].seq_num = acks'[j].seq_num - acks'[j].size
    <3> SUFFICES ASSUME NEW i \in 1..Len(acks'), NEW j \in 1..Len(acks'), j = i + 1
                 PROVE  acks'[i].seq_num = acks'[j].seq_num - acks'[j].size
      OBVIOUS
    <3>1. /\ acks'[i] = acks[i + 1] /\ i + 1 \in 1..Len(acks)
          /\ acks'[j] = acks[j + 1] /\ j + 1 \in 1..Len(acks) /\ j + 1 = (i + 1) + 1
      BY <1>2
    <3>2. QED
      BY <3>1 DEF IInv, AcksInv
  <2>4. acks' # <<>> => acks'[Len(acks')].seq_num = seq_num_s'
    BY <1>1, <1>2, <1>3 DEF IInv, AcksInv
  <2>5. QED
    BY <2>1, <2>2, <2>3, <2>4 DEF AcksInv, Base
<1>12. SegmentsInv'
  BY <1>2, <1>3 DEF IInv, SegmentsInv, SegmentOK, PopAck, Known, threads, channel, receiver
<1>13. ThreadsInv'
  <2> SUFFICES ASSUME NEW s \in unsent' \cup sleeping'
               PROVE  \/ s.data + s.size <= una'
                      \/ \E i \in 1..Len(acks') : acks'[i].seq_num = Base + s.data + s.size
    BY DEF ThreadsInv, Base
  <2>1. s \in unsent \cup sleeping /\ s \in Known /\ s.data \in Nat /\ s.size \in Nat
    BY Types DEF PopAck, threads, Known, IInv
  <2>2. CASE s.data + s.size <= una
    BY <1>1, <1>3, <1>4, <1>6, <2>1, <2>2
  <2>3. CASE \E i \in 1..Len(acks) : acks[i].seq_num = Base + s.data + s.size
    <3>1. PICK i \in 1..Len(acks) : acks[i].seq_num = Base + s.data + s.size
      BY <2>3
    <3>2. CASE i = 1
      BY SMTT(30), <1>4, <1>5, <2>1, <3>1, <3>2, Sizes
    <3>3. CASE i # 1
      <4>1. i - 1 \in 1..Len(acks') /\ acks'[i - 1] = acks[i]
        BY <1>1, <1>2, <3>3
      <4>2. QED
        BY <3>1, <4>1
    <3>4. QED
      BY <3>2, <3>3
  <2>4. QED
    BY <2>1, <2>2, <2>3 DEF IInv, ThreadsInv
<1>14. ReceiverInv'
  BY ReceiverFrame DEF IInv, PopAck
<1>15. StreamInv'
  BY StreamFrame DEF IInv, PopAck, receiver
<1>16. HeldInv'
  <2>1. \A p \in Int : HeldByte(p)' <=> HeldByte(p)
    BY DEF HeldByte, Available, PopAck, receiver
  <2>2. \A a, b \in Int : HeldUpTo(a, b)' <=> HeldUpTo(a, b)
    BY <2>1 DEF HeldUpTo
  <2>3. HeldUpTo(0, una) /\ HeldUpTo(una, una')
    BY <1>1, <1>4, <1>5 DEF IInv, HeldInv, EntriesHeld, EntryHeld
  <2>4. HeldUpTo(0, una)'
    BY <1>3, <1>6, <2>1, <2>3 DEF HeldUpTo
  <2>5. \A i \in 1..Len(acks') : EntryHeld(acks[i])' <=> EntryHeld(acks[i + 1])
    BY <1>2, <1>4, <2>2, Sizes DEF EntryHeld, Base
  <2>6. EntriesHeld'
    BY <1>2, <2>5 DEF IInv, HeldInv, EntriesHeld
  <2>7. \A a \in Int : NumberHeld(a) => NumberHeld(a)'
    BY <1>2, <1>3, <2>5 DEF NumberHeld
  <2>8. pull_ack' = pull_ack /\ rpc' = rpc /\ pull_ack \in Int /\ ack_net' = ack_net
        /\ ack_net \subseteq Int
    BY DEF PopAck, receiver, channel, IInv, TypeOK
  <2>9. rpc' = "pull" => NumberHeld(pull_ack)'
    BY <2>7, <2>8 DEF IInv, HeldInv, NumberHeld
  <2>10. \A a \in ack_net' : NumberHeld(a)'
    BY <2>7, <2>8 DEF IInv, HeldInv
  <2>11. QED
    BY <2>4, <2>6, <2>9, <2>10 DEF HeldInv
<1>17. QED
  BY <1>8, <1>9, <1>10, <1>11, <1>12, <1>13, <1>14, <1>15, <1>16 DEF IInv

(* set_ack changes flags only, and only of entries with the number.        *)
LEMMA SetAck ==
    ASSUME NEW lst \in Seq(Entry), NEW n
    PROVE  /\ set_ack(lst, n) \in Seq(Entry) /\ Len(set_ack(lst, n)) = Len(lst)
           /\ \A i \in 1..Len(lst) :
                /\ set_ack(lst, n)[i].seq_num = lst[i].seq_num
                /\ set_ack(lst, n)[i].size = lst[i].size
                /\ set_ack(lst, n)[i].flag = 1 => lst[i].flag = 1 \/ lst[i].seq_num = n
<1>1. DOMAIN lst = 1..Len(lst) /\ Len(lst) \in Nat /\ \A i \in 1..Len(lst) : lst[i] \in Entry
  OBVIOUS
<1>2. \A x \in Entry : /\ [x EXCEPT !.flag = 1] \in Entry
                       /\ [x EXCEPT !.flag = 1].seq_num = x.seq_num
                       /\ [x EXCEPT !.flag = 1].size = x.size
  BY DEF Entry
<1>3. \A i \in 1..Len(lst) : set_ack(lst, n)[i] =
        IF IsFirst(lst, i, n) THEN [lst[i] EXCEPT !.flag = 1] ELSE lst[i]
  BY <1>1 DEF set_ack
<1>4. set_ack(lst, n) \in [1..Len(lst) -> Entry]
  BY <1>1, <1>2 DEF set_ack
<1>5. set_ack(lst, n) \in Seq(Entry) /\ Len(set_ack(lst, n)) = Len(lst)
  BY <1>1, <1>4
<1>6. QED
  BY <1>1, <1>2, <1>3, <1>5 DEF IsFirst

(* An acknowledgement reaches the sender.                                  *)
LEMMA ReceiveAckInv ==
    ASSUME NoWrap, IInv, NEW a \in ack_net, ReceiveAck(a)
    PROVE  IInv'
<1>1. /\ acks \in Seq(Entry) /\ acks' \in Seq(Entry) /\ Len(acks') = Len(acks)
      /\ \A i \in 1..Len(acks) :
           /\ acks'[i].seq_num = acks[i].seq_num /\ acks'[i].size = acks[i].size
           /\ acks'[i].flag = 1 => acks[i].flag = 1 \/ acks[i].seq_num = a
  BY SetAck DEF ReceiveAck, IInv, TypeOK
<1>2. seq_num_s' = seq_num_s /\ snd' = snd /\ una' = una /\ rcv' = rcv /\ una \in Int
  <2>1. acks = <<>> <=> acks' = <<>>
    BY <1>1
  <2>2. acks # <<>> => 1 \in 1..Len(acks)
    BY <1>1
  <2>3. QED
    BY <1>1, <2>1, <2>2, Types DEF una, snd, rcv, ReceiveAck, window, receiver, IInv, Base
<1>3. TypeOK'
  BY <1>1, Sizes DEF IInv, TypeOK, ReceiveAck, app, window, threads, receiver
<1>4. SenderInv'
  BY SenderFrame DEF IInv, ReceiveAck, window
<1>5. WindowInv'
  BY <1>2 DEF IInv, WindowInv, ReceiveAck, window
<1>6. AcksInv'
  <2>1. acks' # <<>> => acks # <<>> /\ Len(acks) \in 1..Len(acks)
    BY <1>1
  <2>2. QED
    BY SMTT(30), <1>1, <1>2, <2>1 DEF IInv, AcksInv, Base
<1>7. Known' = Known
  BY DEF ReceiveAck, Known, threads, receiver
<1>8. SegmentsInv'
  BY <1>1, <1>2, <1>7 DEF IInv, SegmentsInv, SegmentOK, Base
<1>9. ThreadsInv'
  BY <1>1, <1>2 DEF IInv, ThreadsInv, ReceiveAck, threads, Base
<1>10. ReceiverInv'
  BY ReceiverFrame DEF IInv, ReceiveAck, window
<1>11. StreamInv'
  BY StreamFrame DEF IInv, ReceiveAck, receiver
<1>12. HeldInv'
  <2>1. \A p \in Int : HeldByte(p)' <=> HeldByte(p)
    BY DEF HeldByte, Available, ReceiveAck, receiver
  <2>2. \A b, c \in Int : HeldUpTo(b, c)' <=> HeldUpTo(b, c)
    BY <2>1 DEF HeldUpTo
  <2>3. HeldUpTo(0, una)'
    BY <1>2, <2>2 DEF IInv, HeldInv
  <2>4. \A i \in 1..Len(acks') : EntryHeld(acks[i])' <=> EntryHeld(acks[i])
    BY <1>1, <2>2, Types, Sizes DEF EntryHeld, Base, IInv
  <2>5. NumberHeld(a)
    BY DEF IInv, HeldInv
  <2>6. EntriesHeld'
    BY <1>1, <2>4, <2>5 DEF IInv, HeldInv, EntriesHeld, NumberHeld
  <2>7. \A b \in Int : NumberHeld(b) => NumberHeld(b)'
    BY <1>1, <1>2, <2>4 DEF NumberHeld
  <2>8. pull_ack' = pull_ack /\ rpc' = rpc /\ pull_ack \in Int
        /\ ack_net' \subseteq ack_net /\ ack_net \subseteq Int
    BY SMTT(30) DEF ReceiveAck, receiver, IInv, TypeOK
  <2>9. rpc' = "pull" => NumberHeld(pull_ack)'
    BY <2>7, <2>8 DEF IInv, HeldInv, NumberHeld
  <2>10. \A b \in ack_net' : NumberHeld(b)'
    BY <2>7, <2>8 DEF IInv, HeldInv
  <2>11. QED
    BY <2>3, <2>6, <2>9, <2>10 DEF HeldInv
<1>13. QED
  BY <1>3, <1>4, <1>5, <1>6, <1>8, <1>9, <1>10, <1>11, <1>12 DEF IInv

-----------------------------------------------------------------------------
(* What the invariant says of one segment: its acknowledgement number is   *)
(* not reduced.                                                            *)
LEMMA SegmentFacts ==
    ASSUME NoWrap, IInv, NEW s \in Known
    PROVE  /\ s.data \in Nat /\ s.size \in Nat \ {0} /\ s.seq_num = Base + s.data
           /\ s.data + s.size <= snd /\ snd \in Nat /\ snd <= MaxBytes
           /\ AckNum(s) = Base + s.data + s.size
           /\ AckNum(s) <= seq_num_s /\ AckNum(s) \in 0..(MAX_SEQ_NUM - 1)
<1>1. s.data \in Nat /\ s.size \in Nat \ {0} /\ Base \in Nat
  BY Types DEF IInv
<1>2. s.seq_num = Base + s.data /\ s.data + s.size <= snd
  BY DEF IInv, SegmentsInv, SegmentOK
<1>3. snd \in Nat /\ snd <= MaxBytes /\ seq_num_s = Base + snd
  BY Sizes DEF IInv, TypeOK, SenderInv, snd
<1>4. Base + MaxBytes < MAX_SEQ_NUM
  BY Sizes DEF NoWrap
<1>5. s.seq_num + s.size \in Nat /\ s.seq_num + s.size < MAX_SEQ_NUM
      /\ s.seq_num + s.size = Base + s.data + s.size
  BY <1>1, <1>2, <1>3, <1>4, Sizes
<1>6. AckNum(s) = Base + s.data + s.size
  BY <1>5, ModSmall, Sizes DEF AckNum
<1>7. QED
  BY <1>1, <1>2, <1>3, <1>4, <1>5, <1>6, Sizes

(* A number that acknowledges a segment the receiver holds stands only for *)
(* entries it holds.                                                       *)
LEMMA SegmentHeld ==
    ASSUME NoWrap, IInv, NEW s \in Known, UNCHANGED <<acks, seq_num_s>>,
           HeldUpTo(s.data, s.data + s.size)'
    PROVE  NumberHeld(AckNum(s))'
<1>1. AckNum(s) <= seq_num_s'
  BY SegmentFacts
<1>2. ASSUME NEW i \in 1..Len(acks), acks[i].seq_num = AckNum(s)
      PROVE  EntryHeld(acks[i])'
  <2>1. s.data \in Nat /\ s.size \in Nat /\ AckNum(s) = Base + s.data + s.size /\ Base \in Nat
    BY SegmentFacts, Sizes
  <2>2. acks[i].size = s.size
    BY <1>2, <2>1 DEF IInv, SegmentsInv
  <2>3. /\ acks[i].seq_num - acks[i].size - Base = s.data
        /\ acks[i].seq_num - Base = s.data + s.size
    BY <1>2, <2>1, <2>2
  <2>4. QED
    BY <2>3 DEF EntryHeld, Base
<1>3. QED
  BY <1>1, <1>2 DEF NumberHeld

(* Between two datagrams recv_thread waits for the number of byte rcv.     *)
LEMMA Awaited ==
    ASSUME NoWrap, IInv
    PROVE  /\ rcv \in Nat /\ rcv <= snd /\ rcv <= MaxBytes /\ Available = rcv
           /\ seq_num_r + ret = Base + rcv /\ ret \in Nat /\ seq_num_r \in Nat
           /\ rpc = "idle" => ret = 0 /\ seq_num_r = Base + rcv
           /\ (seq_num_r + ret) % MAX_SEQ_NUM = Base + rcv
<1>1. seq_num_r \in Nat /\ ret \in Nat /\ Base \in Nat /\ Available \in Nat
  BY Sizes, Types DEF IInv, TypeOK
<1>2. Available = rcv /\ rcv <= snd /\ (rpc = "idle" => ret = 0)
  BY DEF IInv, ReceiverInv
<1>3. snd \in Int /\ snd <= MaxBytes
  BY Sizes DEF IInv, TypeOK, SenderInv, snd
<1>4. seq_num_r + ret = Base + rcv
  BY <1>1 DEF rcv
<1>5. Base + rcv \in Nat /\ Base + rcv < MAX_SEQ_NUM
  BY <1>1, <1>2, <1>3, Sizes DEF NoWrap
<1>6. (seq_num_r + ret) % MAX_SEQ_NUM = Base + rcv
  BY <1>4, <1>5, ModSmall, Sizes
<1>7. QED
  BY <1>1, <1>2, <1>3, <1>4, <1>6, Sizes

(* A segment behind the one awaited is acknowledged again.                 *)
LEMMA DeliverOldInv ==
    ASSUME NoWrap, IInv, NEW s \in net, DeliverOld(s)
    PROVE  IInv'
<1>1. s \in Known /\ rpc = "idle" /\ s.seq_num < seq_num_r
  BY DEF Known, DeliverOld, Arrive, IsOld
<1>2. TypeOK'
  BY <1>1, SegmentFacts, Sizes
  DEF IInv, TypeOK, DeliverOld, Arrive, app, window, threads, channel, receiver
<1>3. SenderInv'
  BY SenderFrame DEF IInv, DeliverOld, app, window
<1>4. WindowInv'
  BY WindowFrame DEF IInv, DeliverOld, window
<1>5. AcksInv'
  BY AcksFrame DEF IInv, DeliverOld, window
<1>6. SegmentsInv'
  BY SegmentsFrame DEF IInv, DeliverOld, Arrive, window, threads, receiver, Known
<1>7. ThreadsInv'
  BY ThreadsFrame DEF IInv, DeliverOld, window, threads
<1>8. ReceiverInv'
  BY ReceiverFrame DEF IInv, DeliverOld, window, receiver
<1>9. StreamInv'
  BY StreamFrame DEF IInv, DeliverOld, receiver
<1>10. HeldInv'
  <2>1. s.data + s.size <= Available
    <3>1. s.data < rcv
      BY <1>1, SegmentFacts, Awaited, Sizes
    <3>2. s.data + s.size <= rcv \/ rcv <= s.data
      BY <1>1 DEF IInv, SegmentsInv
    <3>3. QED
      BY <1>1, <3>1, <3>2, SegmentFacts, Awaited
  <2>2. Available \in Nat /\ s.data + s.size \in Nat /\ s.data \in Nat
    BY <1>1, SegmentFacts, Awaited
  <2>3. \A p \in Int : HeldByte(p) => HeldByte(p)'
    BY DEF HeldByte, Available, DeliverOld, receiver
  <2>4. HeldUpTo(s.data, s.data + s.size)
    BY <2>1, <2>2 DEF HeldUpTo, HeldByte
  <2>5. HeldUpTo(s.data, s.data + s.size)'
    BY <2>2, <2>3, <2>4, HeldMono
  <2>6. NumberHeld(AckNum(s))'
    BY <1>1, <2>5, SegmentHeld DEF DeliverOld, window
  <2>7. /\ HeldUpTo(0, una)' /\ EntriesHeld'
        /\ \A a \in Int : NumberHeld(a) => NumberHeld(a)'
    BY <2>3, HeldSameAcks DEF IInv, DeliverOld, window
  <2>8. ack_net' = ack_net \cup {AckNum(s)} /\ ack_net \subseteq Int /\ rpc' = "idle"
    BY <1>1, Sizes DEF DeliverOld, receiver, IInv, TypeOK
  <2>9. \A a \in ack_net' : NumberHeld(a)'
    BY <2>6, <2>7, <2>8 DEF IInv, HeldInv
  <2>10. QED
    BY <2>7, <2>8, <2>9 DEF HeldInv
<1>11. QED
  BY <1>2, <1>3, <1>4, <1>5, <1>6, <1>7, <1>8, <1>9, <1>10 DEF IInv

(* The part about segments after a step that moves the byte awaited.       *)
LEMMA SegmentsMoved ==
    ASSUME SegmentsInv, UNCHANGED <<seq_num_s, acks>>, Known' \subseteq Known,
           \A t \in Known : t.data + t.size <= rcv' \/ rcv' <= t.data
    PROVE  SegmentsInv'
<1>1. snd' = snd
  BY DEF snd
<1>2. QED
  BY <1>1 DEF SegmentsInv, SegmentOK, Base

(* The payload of a segment, and a list of bytes it is appended to.        *)
LEMMA AppendBytes ==
    ASSUME NEW q \in Seq(Nat), NEW s, s.data \in Nat, s.size \in Nat
    PROVE  /\ q \o Bytes(s) \in Seq(Nat) /\ Len(q \o Bytes(s)) = Len(q) + s.size
           /\ \A i \in 1..(Len(q) + s.size) :
                (q \o Bytes(s))[i] = IF i <= Len(q) THEN q[i] ELSE s.data + (i - Len(q)) - 1
<1>1. Bytes(s) \in Seq(Nat) /\ Len(Bytes(s)) = s.size
      /\ \A i \in 1..s.size : Bytes(s)[i] = s.data + i - 1
  <2>1. Bytes(s) \in [1..s.size -> Nat]
    BY DEF Bytes
  <2>2. Bytes(s) \in Seq(Nat) /\ Len(Bytes(s)) = s.size
    BY SMTT(30), <2>1
  <2>3. QED
    BY <2>2 DEF Bytes
<1>2. /\ q \o Bytes(s) \in Seq(Nat) /\ Len(q \o Bytes(s)) = Len(q) + s.size
      /\ \A i \in 1..(Len(q) + s.size) :
           (q \o Bytes(s))[i] = IF i <= Len(q) THEN q[i] ELSE Bytes(s)[i - Len(q)]
  <2>1. /\ q \o Bytes(s) \in Seq(Nat) /\ Len(q \o Bytes(s)) = Len(q) + Len(Bytes(s))
        /\ \A i \in 1..(Len(q) + Len(Bytes(s))) :
             (q \o Bytes(s))[i] = IF i <= Len(q) THEN q[i] ELSE Bytes(s)[i - Len(q)]
    BY <1>1, ConcatProperties, Zenon
  <2>2. QED
    BY <1>1, <2>1, Zenon
<1>3. ASSUME NEW i \in 1..(Len(q) + s.size), ~(i <= Len(q))
      PROVE  i - Len(q) \in 1..s.size
  BY <1>3
<1>4. ASSUME NEW i \in 1..(Len(q) + s.size)
      PROVE  (q \o Bytes(s))[i] = IF i <= Len(q) THEN q[i] ELSE s.data + (i - Len(q)) - 1
  BY <1>1, <1>2, <1>3
<1>5. QED
  BY <1>2, <1>4

(* insert_seg appends the segment that starts at the byte awaited: the     *)
(* byte awaited moves behind it, and no other segment is cut in two.       *)
LEMMA TakeSegment ==
    ASSUME NoWrap, IInv, NEW s \in Known, s.data = rcv,
           segs' = segs \o Bytes(s), ret' = ret + s.size,
           UNCHANGED <<got, seq_num_r, seq_num_s, acks>>
    PROVE  /\ rcv' = rcv + s.size /\ rcv' <= snd' /\ Available' = rcv'
           /\ ret' \in 0..MaxBytes /\ segs' \in Seq(Nat)
           /\ StreamInv'
           /\ \A t \in Known : t.data + t.size <= rcv' \/ rcv' <= t.data
           /\ \A t \in segs_aux : t = s \/ rcv' <= t.data
           /\ HeldUpTo(s.data, s.data + s.size)'
           /\ \A p \in Int : p < Available => p < Available'
           /\ \A p \in Int : s.data <= p /\ p < s.data + s.size => p < Available'
<1>1. /\ s.data \in Nat /\ s.size \in Nat \ {0} /\ s.data + s.size <= snd
      /\ snd \in Nat /\ snd <= MaxBytes
  BY SegmentFacts
<1>2. rcv \in Nat /\ Available = rcv /\ ret \in Nat /\ seq_num_r + ret = Base + rcv
      /\ seq_num_r \in Nat
  BY Awaited
<1>3. rcv' = rcv + s.size /\ snd' = snd /\ rcv' \in Nat /\ rcv' = s.data + s.size
  BY <1>1, <1>2, Sizes DEF rcv, snd, Base
<1>4. segs \in Seq(Nat) /\ got \in Seq(Nat)
  BY DEF IInv, TypeOK
<1>5. /\ segs' \in Seq(Nat) /\ Len(segs') = Len(segs) + s.size
      /\ \A i \in 1..Len(segs') : segs'[i] = IF i <= Len(segs) THEN segs[i]
                                             ELSE s.data + (i - Len(segs)) - 1
  BY <1>1, <1>4, AppendBytes
<1>6. Len(segs) \in Nat /\ Len(got) \in Nat /\ Len(got) + Len(segs) = s.data
  BY <1>2, <1>4 DEF Available
<1>7. Available' = rcv'
  BY SMTT(30), <1>1, <1>3, <1>5, <1>6 DEF Available
<1>8. ret' \in 0..MaxBytes
  <2>1. seq_num_r >= Base
    BY DEF IInv, ReceiverInv
  <2>2. ret <= rcv /\ Base \in Nat /\ MaxBytes \in Nat
    BY <1>2, Sizes, <2>1
  <2>3. QED
    BY <1>1, <1>2, <2>2
<1>9. StreamInv'
  <2>1. \A i \in 1..Len(got) : got[i] = i - 1
    BY DEF IInv, StreamInv
  <2>2. \A i \in 1..Len(segs) : segs[i] = Len(got) + i - 1
    BY DEF IInv, StreamInv
  <2>3. ASSUME NEW i \in 1..Len(segs')
        PROVE  segs'[i] = Len(got) + i - 1
    <3>1. CASE i <= Len(segs)
      <4>1. i \in 1..Len(segs)
        BY <1>6, <3>1
      <4>2. QED
        BY <1>5, <2>2, <3>1, <4>1
    <3>2. CASE ~(i <= Len(segs))
      <4>1. segs'[i] = s.data + (i - Len(segs)) - 1
        BY <1>5, <3>2
      <4>2. i \in Int
        BY <1>1, <1>5, <1>6
      <4>3. QED
        BY <1>6, <4>1, <4>2
    <3>3. QED
      BY <3>1, <3>2
  <2>4. QED
    BY <2>1, <2>3 DEF StreamInv
<1>10. ASSUME NEW t \in Known
       PROVE  t = s \/ t.data + t.size <= rcv \/ rcv' <= t.data
  <2>1. t = s \/ s.data + s.size <= t.data \/ t.data + t.size <= s.data
    BY DEF IInv, SegmentsInv
  <2>2. QED
    BY <1>3, <2>1
<1>11. \A t \in Known : t.data + t.size <= rcv' \/ rcv' <= t.data
  <2> SUFFICES ASSUME NEW t \in Known
               PROVE  t.data + t.size <= rcv' \/ rcv' <= t.data
    OBVIOUS
  <2>1. t.data \in Nat /\ t.size \in Nat
    BY SegmentFacts
  <2>2. rcv \in Nat /\ rcv' \in Nat /\ rcv <= rcv' /\ rcv' = s.data + s.size
    BY <1>1, <1>2, <1>3
  <2>3. CASE t = s
    BY <2>2, <2>3
  <2>4. CASE t.data + t.size <= rcv
    BY <2>1, <2>2, <2>4
  <2>5. QED
    BY <1>10, <2>3, <2>4
<1>12. ASSUME NEW t \in segs_aux
       PROVE  t = s \/ rcv' <= t.data
  <2>1. t \in Known /\ rcv <= t.data
    BY DEF Known, IInv, ReceiverInv
  <2>2. t.data \in Nat /\ t.size \in Nat /\ t.size >= 1
    BY <2>1, SegmentFacts
  <2>3. rcv \in Nat
    BY <1>2
  <2>4. ~(t.data + t.size <= rcv)
    BY <2>1, <2>2, <2>3
  <2>5. QED
    BY <1>10, <2>1, <2>4
<1>13. \A p \in Int : s.data <= p /\ p < s.data + s.size => p < Available'
  BY <1>1, <1>3, <1>7
<1>14. HeldUpTo(s.data, s.data + s.size)'
  BY <1>1, <1>13 DEF HeldUpTo, HeldByte
<1>15. \A p \in Int : p < Available => p < Available'
  BY <1>1, <1>2, <1>3, <1>7
<1>16. rcv' = rcv + s.size /\ rcv' <= snd' /\ segs' \in Seq(Nat)
  BY <1>1, <1>3, <1>5
<1>17. QED
  BY <1>7, <1>8, <1>9, <1>11, <1>12, <1>13, <1>14, <1>15, <1>16

(* The segment recv_thread waits for arrives: insert_seg starts.           *)
LEMMA DeliverNextInv ==
    ASSUME NoWrap, IInv, NEW s \in net, DeliverNext(s)
    PROVE  IInv'
<1>1. s \in Known /\ rpc = "idle" /\ s.seq_num = seq_num_r /\ ret = 0
  BY DEF Known, DeliverNext, Arrive, IInv, ReceiverInv
<1>2. s.data = rcv /\ ret' = ret + s.size
  <2>1. s.seq_num = Base + s.data /\ s.data \in Nat /\ s.size \in Nat
    BY <1>1, SegmentFacts
  <2>2. s.seq_num = Base + rcv /\ rcv \in Nat /\ Base \in Nat
    BY <1>1, Awaited, Sizes
  <2>3. ret' = s.size
    BY DEF DeliverNext
  <2>4. QED
    BY <1>1, <2>1, <2>2, <2>3
<1>3. /\ rcv' = rcv + s.size /\ rcv' <= snd' /\ Available' = rcv'
      /\ ret' \in 0..MaxBytes /\ segs' \in Seq(Nat) /\ StreamInv'
      /\ \A t \in Known : t.data + t.size <= rcv' \/ rcv' <= t.data
      /\ \A t \in segs_aux : t = s \/ rcv' <= t.data
      /\ HeldUpTo(s.data, s.data + s.size)'
      /\ \A p \in Int : p < Available => p < Available'
  BY <1>1, <1>2, TakeSegment DEF DeliverNext, window
<1>4. TypeOK'
  BY <1>1, <1>3, SegmentFacts, Sizes
  DEF IInv, TypeOK, DeliverNext, Arrive, app, window, threads
<1>5. SenderInv'
  BY SenderFrame DEF IInv, DeliverNext, app, window
<1>6. WindowInv'
  BY WindowFrame DEF IInv, DeliverNext, window
<1>7. AcksInv'
  BY AcksFrame DEF IInv, DeliverNext, window
<1>8. SegmentsInv'
  BY <1>3, SegmentsMoved DEF IInv, DeliverNext, Arrive, window, threads, Known
<1>9. ThreadsInv'
  BY ThreadsFrame DEF IInv, DeliverNext, window, threads
<1>10. ReceiverInv'
  <2>1. \A t \in segs_aux' : rcv' <= t.data
    BY <1>1, <1>2, <1>3 DEF DeliverNext, IInv, ReceiverInv
  <2>2. rpc' = "pull"
    BY DEF DeliverNext
  <2>3. /\ Base <= seq_num_r' /\ prev_seq_num_r' <= seq_num_r' - window_size
        /\ end_seq_num_r' \in {seq_num_r' + window_size - 1, seq_num_r' + window_size}
    BY DEF DeliverNext, IInv, ReceiverInv
  <2>4. QED
    BY <1>3, <2>1, <2>2, <2>3 DEF ReceiverInv, Base
<1>11. HeldInv'
  <2>1. \A p \in Int : HeldByte(p) => HeldByte(p)'
    BY <1>3 DEF HeldByte, DeliverNext
  <2>2. NumberHeld(AckNum(s))'
    BY <1>1, <1>3, SegmentHeld DEF DeliverNext, window
  <2>3. /\ HeldUpTo(0, una)' /\ EntriesHeld'
        /\ \A a \in Int : NumberHeld(a) => NumberHeld(a)'
    BY <2>1, HeldSameAcks DEF IInv, DeliverNext, window
  <2>4. pull_ack' = AckNum(s) /\ ack_net' = ack_net /\ ack_net \subseteq Int
    BY DEF DeliverNext, IInv, TypeOK
  <2>5. \A a \in ack_net' : NumberHeld(a)'
    BY <2>3, <2>4 DEF IInv, HeldInv
  <2>6. NumberHeld(pull_ack)'
    BY <2>2, <2>4 DEF NumberHeld
  <2>7. QED
    BY <2>3, <2>5, <2>6 DEF HeldInv
<1>12. QED
  BY <1>3, <1>4, <1>5, <1>6, <1>7, <1>8, <1>9, <1>10, <1>11 DEF IInv

(* insert_seg takes from segs_aux the segment that follows.                *)
LEMMA PullInv ==
    ASSUME NoWrap, IInv, NEW s \in segs_aux, Pull(s)
    PROVE  IInv'
<1>1. s \in Known /\ rpc = "pull" /\ s.seq_num = (seq_num_r + ret) % MAX_SEQ_NUM
  BY DEF Known, Pull, IsNext
<1>2. s.data = rcv /\ ret' = ret + s.size
  <2>1. s.seq_num = Base + s.data /\ s.data \in Nat /\ s.size \in Nat
    BY <1>1, SegmentFacts
  <2>2. s.seq_num = Base + rcv /\ rcv \in Nat /\ Base \in Nat
    BY <1>1, Awaited, Sizes
  <2>3. ret' = ret + s.size
    BY DEF Pull
  <2>4. QED
    BY <1>1, <2>1, <2>2, <2>3
<1>3. /\ rcv' = rcv + s.size /\ rcv' <= snd' /\ Available' = rcv'
      /\ ret' \in 0..MaxBytes /\ segs' \in Seq(Nat) /\ StreamInv'
      /\ \A t \in Known : t.data + t.size <= rcv' \/ rcv' <= t.data
      /\ \A t \in segs_aux : t = s \/ rcv' <= t.data
      /\ \A p \in Int : p < Available => p < Available'
      /\ \A p \in Int : s.data <= p /\ p < s.data + s.size => p < Available'
  BY <1>1, <1>2, TakeSegment DEF Pull, window
<1>4. TypeOK'
  BY <1>3, Sizes DEF IInv, TypeOK, Pull, app, window, threads, channel
<1>5. SenderInv'
  BY SenderFrame DEF IInv, Pull, app, window
<1>6. WindowInv'
  BY WindowFrame DEF IInv, Pull, window
<1>7. AcksInv'
  BY AcksFrame DEF IInv, Pull, window
<1>8. SegmentsInv'
  BY <1>3, SegmentsMoved DEF IInv, Pull, window, threads, channel, Known
<1>9. ThreadsInv'
  BY ThreadsFrame DEF IInv, Pull, window, threads
<1>10. ReceiverInv'
  <2>1. \A t \in segs_aux' : rcv' <= t.data
    BY <1>3 DEF Pull
  <2>2. rpc' = "pull"
    BY <1>1 DEF Pull
  <2>3. /\ Base <= seq_num_r' /\ prev_seq_num_r' <= seq_num_r' - window_size
        /\ end_seq_num_r' \in {seq_num_r' + window_size - 1, seq_num_r' + window_size}
    BY DEF Pull, IInv, ReceiverInv
  <2>4. QED
    BY <1>3, <2>1, <2>2, <2>3 DEF ReceiverInv, Base
<1>11. HeldInv'
  <2>1. ASSUME NEW p \in Int, HeldByte(p)
        PROVE  HeldByte(p)'
    <3>1. CASE p < Available
      BY <1>3, <3>1 DEF HeldByte
    <3>2. CASE \E t \in segs_aux : t.data <= p /\ p < t.data + t.size
      <4>1. PICK t \in segs_aux : t.data <= p /\ p < t.data + t.size
        BY <3>2
      <4>2. CASE t = s
        BY <1>3, <4>1, <4>2 DEF HeldByte
      <4>3. CASE t # s
        BY <4>1, <4>3 DEF HeldByte, Pull
      <4>4. QED
        BY <4>2, <4>3
    <3>3. QED
      BY <2>1, <3>1, <3>2 DEF HeldByte
  <2>2. /\ HeldUpTo(0, una)' /\ EntriesHeld'
        /\ \A a \in Int : NumberHeld(a) => NumberHeld(a)'
    BY <2>1, HeldSameAcks DEF IInv, Pull, window
  <2>3. pull_ack' = pull_ack /\ pull_ack \in Int /\ ack_net' = ack_net /\ ack_net \subseteq Int
    BY DEF Pull, channel, IInv, TypeOK
  <2>4. \A a \in ack_net' : NumberHeld(a)'
    BY <2>2, <2>3 DEF IInv, HeldInv
  <2>5. NumberHeld(pull_ack)'
    BY <1>1, <2>2, <2>3 DEF IInv, HeldInv, NumberHeld
  <2>6. QED
    BY <2>2, <2>4, <2>5 DEF HeldInv
<1>12. QED
  BY <1>3, <1>4, <1>5, <1>6, <1>7, <1>8, <1>9, <1>10, <1>11 DEF IInv

(* The receive window around a number of the connection never wraps.       *)
LEMMA MoveWindowFacts ==
    ASSUME NoWrap, IInv, NEW base, base = Base + rcv, MoveWindow(base)
    PROVE  /\ seq_num_r' = base /\ base \in 0..(MAX_SEQ_NUM - 1) /\ Base <= seq_num_r'
           /\ prev_seq_num_r' = base - window_size /\ prev_seq_num_r' \in 0..MAX_SEQ_NUM
           /\ end_seq_num_r' = base + window_size
           /\ end_seq_num_r' \in 0..(MAX_SEQ_NUM - 1)
<1>1. rcv \in Nat /\ rcv <= MaxBytes /\ Base \in Nat /\ window_size \in Nat /\ MaxBytes \in Nat
      /\ MAX_SEQ_NUM \in Nat /\ Base > window_size
      /\ Base + MaxBytes + window_size < MAX_SEQ_NUM
  BY Awaited, Sizes DEF NoWrap
<1>2. base \in Nat /\ base + window_size \in Nat /\ base + window_size < MAX_SEQ_NUM
      /\ base >= window_size /\ Base <= base
  BY <1>1
<1>3. (base + window_size) % MAX_SEQ_NUM = base + window_size
  BY <1>1, <1>2, ModSmall
<1>4. (base + (MAX_SEQ_NUM - window_size)) % MAX_SEQ_NUM = base - window_size
  <2>1. base + (MAX_SEQ_NUM - window_size) \in Nat
        /\ MAX_SEQ_NUM <= base + (MAX_SEQ_NUM - window_size)
        /\ base + (MAX_SEQ_NUM - window_size) < MAX_SEQ_NUM + MAX_SEQ_NUM
    BY <1>1, <1>2
  <2>2. PICK x \in Nat : x = base + (MAX_SEQ_NUM - window_size)
    BY <2>1
  <2>3. x % MAX_SEQ_NUM = x - MAX_SEQ_NUM
    BY <1>1, <2>1, <2>2, ModOnce
  <2>4. QED
    BY <1>1, <1>2, <2>2, <2>3
<1>5. QED
  BY <1>1, <1>2, <1>3, <1>4 DEF MoveWindow

(* insert_seg returns: the window moves and the first segment is           *)
(* acknowledged.                                                           *)
LEMMA PullDoneInv ==
    ASSUME NoWrap, IInv, PullDone
    PROVE  IInv'
<1>1. rpc = "pull" /\ rpc' = "idle" /\ ret' = 0 /\ pull_ack' = 0
      /\ ack_net' \subseteq ack_net \cup {pull_ack}
      /\ MoveWindow((seq_num_r + ret) % MAX_SEQ_NUM)
      /\ UNCHANGED <<app, window, acks, threads, net, segs, segs_aux, got>>
  BY DEF PullDone, AckOfFreed
<1>2. (seq_num_r + ret) % MAX_SEQ_NUM = Base + rcv /\ rcv \in Nat /\ Base \in Nat
  BY Awaited, Sizes
<1>3. /\ seq_num_r' = Base + rcv /\ seq_num_r' \in 0..(MAX_SEQ_NUM - 1) /\ Base <= seq_num_r'
      /\ prev_seq_num_r' = seq_num_r' - window_size /\ prev_seq_num_r' \in 0..MAX_SEQ_NUM
      /\ end_seq_num_r' = seq_num_r' + window_size
      /\ end_seq_num_r' \in 0..(MAX_SEQ_NUM - 1)
  BY <1>1, <1>2, MoveWindowFacts
<1>4. rcv' = rcv
  BY <1>1, <1>2, <1>3 DEF rcv, Base
<1>5. snd' = snd /\ Available' = Available
  BY <1>1 DEF snd, Available, window
<1>6. TypeOK'
  BY SMTT(30), <1>1, <1>3, Sizes DEF IInv, TypeOK, app, window, threads
<1>7. SenderInv'
  BY <1>1, SenderFrame DEF IInv, app, window
<1>8. WindowInv'
  BY <1>1, WindowFrame DEF IInv, window
<1>9. AcksInv'
  BY <1>1, AcksFrame DEF IInv, window
<1>10. SegmentsInv'
  <2>1. Known' \subseteq Known /\ seq_num_s' = seq_num_s /\ acks' = acks
    BY <1>1 DEF threads, window, Known
  <2>2. \A t \in Known : t.data + t.size <= rcv' \/ rcv' <= t.data
    BY <1>4 DEF IInv, SegmentsInv
  <2>3. QED
    BY <2>1, <2>2, SegmentsMoved DEF IInv
<1>11. ThreadsInv'
  BY <1>1, ThreadsFrame DEF IInv, window, threads
<1>12. ReceiverInv'
  <2>1. \A s \in segs_aux' : rcv' <= s.data
    BY <1>1, <1>4 DEF IInv, ReceiverInv
  <2>2. ASSUME NEW s \in segs_aux' PROVE rcv' # s.data
    <3>1. s \in segs_aux /\ s \in Known /\ s.seq_num # Base + rcv
      BY <1>1, <1>2, <2>2 DEF PullDone, IsNext, Known
    <3>2. s.seq_num = Base + s.data
      BY <3>1, SegmentFacts
    <3>3. QED
      BY <1>4, <3>1, <3>2
  <2>3. Available' = rcv' /\ rcv' <= snd'
    BY <1>4, <1>5 DEF IInv, ReceiverInv
  <2>4. QED
    BY <1>1, <1>3, <2>1, <2>2, <2>3 DEF ReceiverInv, Base
<1>13. StreamInv'
  BY <1>1, StreamFrame DEF IInv
<1>14. HeldInv'
  <2>1. \A p \in Int : HeldByte(p) => HeldByte(p)'
    BY <1>1, <1>5 DEF HeldByte
  <2>2. /\ HeldUpTo(0, una)' /\ EntriesHeld'
        /\ \A a \in Int : NumberHeld(a) => NumberHeld(a)'
    BY <1>1, <2>1, HeldSameAcks DEF IInv, window
  <2>3. NumberHeld(pull_ack) /\ \A a \in ack_net : NumberHeld(a)
    BY <1>1 DEF IInv, HeldInv
  <2>4. ack_net' \subseteq Int /\ ack_net' \subseteq ack_net \cup {pull_ack}
    BY <1>1 DEF IInv, TypeOK
  <2>5. \A a \in ack_net' : NumberHeld(a)'
    BY <2>2, <2>3, <2>4
  <2>6. QED
    BY <1>1, <2>2, <2>5 DEF HeldInv
<1>15. QED
  BY <1>6, <1>7, <1>8, <1>9, <1>10, <1>11, <1>12, <1>13, <1>14 DEF IInv

(* A segment ahead of the one awaited is kept aside: insert_seg_lst keeps  *)
(* it, or already has it.                                                  *)
LEMMA DeliverAheadInv ==
    ASSUME NoWrap, IInv, NEW s \in net, DeliverAhead(s)
    PROVE  IInv'
<1>1. /\ s \in Known /\ rpc = "idle" /\ s.seq_num > seq_num_r
      /\ segs_aux' = insert_seg_lst(segs_aux, s) /\ MoveWindow(seq_num_r)
      /\ ack_net' \subseteq ack_net \cup {AckNum(s)} /\ net' \subseteq net
      /\ UNCHANGED <<app, window, acks, threads, rpc, pull_ack, ret, segs, got>>
  BY DEF Known, DeliverAhead, Arrive, AckOfFreed
<1>2. ret = 0 /\ seq_num_r = Base + rcv /\ rcv \in Nat /\ Base \in Nat
  BY <1>1, Awaited, Sizes
<1>3. /\ seq_num_r' = Base + rcv /\ seq_num_r' \in 0..(MAX_SEQ_NUM - 1) /\ Base <= seq_num_r'
      /\ prev_seq_num_r' = seq_num_r' - window_size /\ prev_seq_num_r' \in 0..MAX_SEQ_NUM
      /\ end_seq_num_r' = seq_num_r' + window_size
      /\ end_seq_num_r' \in 0..(MAX_SEQ_NUM - 1)
  BY <1>1, <1>2, MoveWindowFacts
<1>4. rcv' = rcv /\ snd' = snd /\ Available' = Available
  BY <1>1, <1>2, <1>3 DEF rcv, Base, snd, Available, window
<1>5. /\ s.data \in Nat /\ s.size \in Nat \ {0} /\ s.seq_num = Base + s.data
      /\ AckNum(s) \in 0..(MAX_SEQ_NUM - 1) /\ rcv < s.data
  <2>1. /\ s.data \in Nat /\ s.size \in Nat \ {0} /\ s.seq_num = Base + s.data
        /\ AckNum(s) \in 0..(MAX_SEQ_NUM - 1)
    BY <1>1, SegmentFacts
  <2>2. QED
    BY <1>1, <1>2, <2>1
<1>6. s \in segs_aux' /\ segs_aux \subseteq segs_aux' /\ segs_aux' \subseteq segs_aux \cup {s}
  <2>1. ASSUME NEW t \in segs_aux, t.seq_num = s.seq_num
        PROVE  t = s
    <3>1. t \in Known /\ t.data \in Nat /\ t.size \in Nat \ {0} /\ t.seq_num = Base + t.data
      BY SegmentFacts DEF Known
    <3>2. t.data = s.data
      BY <1>2, <1>5, <2>1, <3>1
    <3>3. t = s \/ t.data + t.size <= s.data \/ s.data + s.size <= t.data
      BY <1>1, <3>1 DEF IInv, SegmentsInv
    <3>4. QED
      BY <1>5, <3>1, <3>2, <3>3
  <2>2. QED
    BY <1>1, <2>1 DEF insert_seg_lst, HasNumber
<1>7. s \in Segment
  BY DEF IInv, TypeOK
<1>8. TypeOK'
  BY <1>1, <1>3, <1>5, <1>6, <1>7, Sizes DEF IInv, TypeOK, app, window, threads
<1>9. SenderInv'
  BY <1>1, SenderFrame DEF IInv, app, window
<1>10. WindowInv'
  BY <1>1, WindowFrame DEF IInv, window
<1>11. AcksInv'
  BY <1>1, AcksFrame DEF IInv, window
<1>12. SegmentsInv'
  <2>1. Known' \subseteq Known /\ seq_num_s' = seq_num_s /\ acks' = acks
    BY <1>1, <1>6 DEF threads, window, Known
  <2>2. \A t \in Known : t.data + t.size <= rcv' \/ rcv' <= t.data
    BY <1>4 DEF IInv, SegmentsInv
  <2>3. QED
    BY <2>1, <2>2, SegmentsMoved DEF IInv
<1>13. ThreadsInv'
  BY <1>1, ThreadsFrame DEF IInv, window, threads
<1>14. ReceiverInv'
  <2>1. \A t \in segs_aux' : rcv' <= t.data /\ rcv' # t.data
    BY <1>1, <1>2, <1>4, <1>5, <1>6 DEF IInv, ReceiverInv
  <2>2. Available' = rcv' /\ rcv' <= snd'
    BY <1>4 DEF IInv, ReceiverInv
  <2>3. QED
    BY <1>1, <1>2, <1>3, <2>1, <2>2 DEF ReceiverInv, Base
<1>15. StreamInv'
  BY <1>1, StreamFrame DEF IInv
<1>16. HeldInv'
  <2>1. \A p \in Int : HeldByte(p) => HeldByte(p)'
    BY <1>4, <1>6 DEF HeldByte
  <2>2. \A p \in Int : s.data <= p /\ p < s.data + s.size => HeldByte(p)'
    BY <1>6 DEF HeldByte
  <2>3. HeldUpTo(s.data, s.data + s.size)'
    BY <1>5, <2>2 DEF HeldUpTo
  <2>4. NumberHeld(AckNum(s))'
    BY <1>1, <2>3, SegmentHeld DEF window
  <2>5. /\ HeldUpTo(0, una)' /\ EntriesHeld'
        /\ \A a \in Int : NumberHeld(a) => NumberHeld(a)'
    BY <1>1, <2>1, HeldSameAcks DEF IInv, window
  <2>6. \A a \in ack_net : NumberHeld(a) /\ a \in Int
    BY DEF IInv, HeldInv, TypeOK
  <2>7. \A a \in ack_net' : NumberHeld(a)'
    BY <1>1, <2>4, <2>5, <2>6
  <2>8. QED
    BY <1>1, <2>5, <2>7 DEF HeldInv
<1>17. QED
  BY <1>8, <1>9, <1>10, <1>11, <1>12, <1>13, <1>14, <1>15, <1>16 DEF IInv

(* A list of bytes cut in two.                                             *)
LEMMA CutBytes ==
    ASSUME NEW q \in Seq(Nat), NEW k \in 0..Len(q)
    PROVE  /\ SubSeq(q, 1, k) \in Seq(Nat) /\ Len(SubSeq(q, 1, k)) = k
           /\ \A i \in 1..k : SubSeq(q, 1, k)[i] = q[i]
           /\ SubSeq(q, k + 1, Len(q)) \in Seq(Nat)
           /\ Len(SubSeq(q, k + 1, Len(q))) = Len(q) - k
           /\ \A i \in 1..(Len(q) - k) : SubSeq(q, k + 1, Len(q))[i] = q[k + i]
<1>1. Len(q) \in Nat /\ k \in Nat /\ k <= Len(q) /\ \A i \in 1..Len(q) : q[i] \in Nat
  OBVIOUS
<1>2. SubSeq(q, 1, k) \in Seq(Nat) /\ Len(SubSeq(q, 1, k)) = k
  BY <1>1
<1>3. \A i \in 1..k : SubSeq(q, 1, k)[i] = q[i]
  BY <1>1
<1>4. SubSeq(q, k + 1, Len(q)) \in Seq(Nat)
  BY <1>1
<1>5. Len(SubSeq(q, k + 1, Len(q))) = Len(q) - k
  BY <1>1
<1>6. \A i \in 1..(Len(q) - k) : SubSeq(q, k + 1, Len(q))[i] = q[k + i]
  BY <1>1
<1>7. QED
  BY <1>2, <1>3, <1>4, <1>5, <1>6

(* recv_point takes bytes from the front of segs.                          *)
LEMMA RecvPointInv ==
    ASSUME NoWrap, IInv, NEW size \in RecvSizes, RecvPoint(size)
    PROVE  IInv'
<1>0. segs \in Seq(Nat) /\ got \in Seq(Nat) /\ size \in Nat /\ Len(segs) \in Nat
      /\ Len(got) \in Nat
  BY Sizes DEF IInv, TypeOK
<1>a. PICK k \in 0..Len(segs) : got' = got \o SubSeq(segs, 1, k)
                                /\ segs' = SubSeq(segs, k + 1, Len(segs))
  <2>1. PICK k : k = IF size < Len(segs) THEN size ELSE Len(segs)
    OBVIOUS
  <2>2. k \in 0..Len(segs)
    BY <1>0, <2>1
  <2>3. got' = got \o SubSeq(segs, 1, k) /\ segs' = SubSeq(segs, k + 1, Len(segs))
    BY <2>1, Zenon DEF RecvPoint, Taken
  <2>4. QED
    BY <2>2, <2>3
<1>1. UNCHANGED <<app, window, acks, threads, channel, rpc, pull_ack, ret,
                  seq_num_r, prev_seq_num_r, end_seq_num_r, segs_aux>>
  BY DEF RecvPoint
<1>2. /\ segs' \in Seq(Nat) /\ Len(segs') = Len(segs) - k
      /\ \A i \in 1..(Len(segs) - k) : segs'[i] = segs[k + i]
  BY <1>0, <1>a, CutBytes
<1>3. /\ got' \in Seq(Nat) /\ Len(got') = Len(got) + k
      /\ \A i \in 1..(Len(got) + k) :
           got'[i] = IF i <= Len(got) THEN got[i] ELSE segs[i - Len(got)]
  <2>1. PICK q \in Seq(Nat) : /\ q = SubSeq(segs, 1, k) /\ Len(q) = k
                              /\ \A i \in 1..k : q[i] = segs[i]
    BY <1>0, CutBytes
  <2>2. /\ got \o q \in Seq(Nat) /\ Len(got \o q) = Len(got) + Len(q)
        /\ \A i \in 1..(Len(got) + Len(q)) :
             (got \o q)[i] = IF i <= Len(got) THEN got[i] ELSE q[i - Len(got)]
    BY <1>0, <2>1, ConcatProperties, Zenon
  <2>3. got' = got \o q
    BY <1>a, <2>1
  <2>4. ASSUME NEW i \in 1..(Len(got) + k), ~(i <= Len(got))
        PROVE  i - Len(got) \in 1..k
    BY <1>0, <2>4
  <2>5. QED
    BY <2>1, <2>2, <2>3, <2>4
<1>4. Available' = Available /\ rcv' = rcv /\ snd' = snd
  <2>1. Available' = Available
    BY <1>0, <1>2, <1>3 DEF Available
  <2>2. rcv' = rcv /\ snd' = snd
    BY <1>1 DEF rcv, snd, window
  <2>3. QED
    BY <2>1, <2>2
<1>5. TypeOK'
  BY <1>1, <1>2, <1>3, Sizes DEF IInv, TypeOK, app, window, threads, channel
<1>6. SenderInv'
  BY <1>1, SenderFrame DEF IInv, app, window
<1>7. WindowInv'
  BY <1>1, WindowFrame DEF IInv, window
<1>8. AcksInv'
  BY <1>1, AcksFrame DEF IInv, window
<1>9. SegmentsInv'
  BY <1>1, SegmentsFrame DEF IInv, window, threads, channel, Known
<1>10. ThreadsInv'
  BY <1>1, ThreadsFrame DEF IInv, window, threads
<1>11. ReceiverInv'
  BY <1>1, <1>4 DEF IInv, ReceiverInv, Base
<1>12. StreamInv'
  <2>1. \A i \in 1..Len(got) : got[i] = i - 1
    BY DEF IInv, StreamInv
  <2>2. \A i \in 1..Len(segs) : segs[i] = Len(got) + i - 1
    BY DEF IInv, StreamInv
  <2>3. ASSUME NEW i \in 1..Len(got')
        PROVE  got'[i] = i - 1
    <3>1. CASE i <= Len(got)
      <4>1. i \in 1..Len(got)
        BY <1>0, <3>1
      <4>2. QED
        BY <1>3, <2>1, <3>1, <4>1
    <3>2. CASE ~(i <= Len(got))
      <4>1. i - Len(got) \in 1..Len(segs) /\ i \in Int
        BY <1>0, <1>3, <3>2
      <4>2. segs[i - Len(got)] = Len(got) + (i - Len(got)) - 1
        BY <2>2, <4>1
      <4>3. got'[i] = segs[i - Len(got)]
        BY <1>3, <3>2
      <4>4. QED
        BY <1>0, <4>1, <4>2, <4>3
    <3>3. QED
      BY <3>1, <3>2
  <2>4. ASSUME NEW i \in 1..Len(segs')
        PROVE  segs'[i] = Len(got') + i - 1
    <3>1. k + i \in 1..Len(segs) /\ i \in 1..(Len(segs) - k) /\ i \in Int
      BY <1>0, <1>2
    <3>2. segs'[i] = Len(got) + (k + i) - 1
      BY <1>2, <2>2, <3>1
    <3>3. QED
      BY <1>0, <1>3, <3>1, <3>2
  <2>5. QED
    BY <2>3, <2>4 DEF StreamInv
<1>13. HeldInv'
  <2>1. \A p \in Int : HeldByte(p) => HeldByte(p)'
    BY <1>1, <1>4 DEF HeldByte
  <2>2. /\ HeldUpTo(0, una)' /\ EntriesHeld'
        /\ \A a \in Int : NumberHeld(a) => NumberHeld(a)'
    BY <1>1, <2>1, HeldSameAcks DEF IInv, window
  <2>3. /\ pull_ack' = pull_ack /\ rpc' = rpc /\ pull_ack \in Int
        /\ ack_net' = ack_net /\ ack_net \subseteq Int
    BY <1>1 DEF channel, IInv, TypeOK
  <2>4. \A a \in ack_net' : NumberHeld(a)'
    BY <2>2, <2>3 DEF IInv, HeldInv
  <2>5. rpc' = "pull" => NumberHeld(pull_ack)'
    BY <2>2, <2>3 DEF IInv, HeldInv, NumberHeld
  <2>6. QED
    BY <2>2, <2>4, <2>5 DEF HeldInv
<1>14. QED
  BY <1>5, <1>6, <1>7, <1>8, <1>9, <1>10, <1>11, <1>12, <1>13 DEF IInv

-----------------------------------------------------------------------------
(* Every step of the program keeps the invariant.                          *)
LEMMA NextInv ==
    ASSUME NoWrap, IInv, [Next]_vars
    PROVE  IInv'
<1>1. ASSUME NEW tam \in MessageSizes, SendPoint(tam) PROVE IInv'
  BY <1>1, SendPointInv
<1>2. CASE SendThread
  BY <1>2, TakeBufferInv, CutSegmentInv, LockAcksInv, PopAckInv, UnlockAcksInv,
     BufferDoneInv DEF SendThread
<1>3. ASSUME NEW s \in unsent, FirstSend(s) PROVE IInv'
  BY <1>3, DatagramsInv DEF FirstSend, Known
<1>4. ASSUME NEW s \in sleeping, Timeout(s) PROVE IInv'
  BY <1>4, DatagramsInv DEF Timeout, Known, threads
<1>5. ASSUME NEW a \in ack_net, ReceiveAck(a) \/ LoseAck(a) PROVE IInv'
  <2>1. CASE ReceiveAck(a)
    BY <1>5, <2>1, ReceiveAckInv
  <2>2. CASE LoseAck(a)
    BY <2>2, DatagramsInv DEF LoseAck, Known, threads
  <2>3. QED
    BY <1>5, <2>1, <2>2
<1>6. ASSUME NEW s \in net, Deliver(s) \/ LoseSegment(s) PROVE IInv'
  <2>1. CASE DeliverOld(s) \/ DeliverNext(s) \/ DeliverAhead(s)
    BY <1>6, <2>1, DeliverOldInv, DeliverNextInv, DeliverAheadInv
  <2>2. CASE DeliverOutside(s)
    BY <2>2, DatagramsInv DEF DeliverOutside, Arrive, Known, threads
  <2>3. CASE LoseSegment(s)
    BY <2>3, DatagramsInv DEF LoseSegment, Known, threads
  <2>4. QED
    BY <1>6, <2>1, <2>2, <2>3 DEF Deliver
<1>7. CASE InsertSeg
  BY <1>7, PullInv, PullDoneInv DEF InsertSeg
<1>8. ASSUME NEW size \in RecvSizes, RecvPoint(size) PROVE IInv'
  BY <1>8, RecvPointInv
<1>9. CASE UNCHANGED vars
  BY <1>9, DatagramsInv DEF vars, Known, threads, channel
<1>10. QED
  BY <1>1, <1>2, <1>3, <1>4, <1>5, <1>6, <1>7, <1>8, <1>9 DEF Next

(* The invariant of a connection whose numbers do not wrap.                *)
THEOREM Inductive ==
    ASSUME NoWrap
    PROVE  Spec => []IInv
<1>1. Init => IInv
  BY InitInv
<1>2. IInv /\ [Next]_vars => IInv'
  BY NextInv
<1>3. QED
  BY <1>1, <1>2, PTL DEF Spec

-----------------------------------------------------------------------------
(* Every variable keeps to its range: the window of send_thread never      *)
(* overflows and no sequence number is negative.                           *)
THEOREM TypeCorrect ==
    ASSUME NoWrap
    PROVE  Spec => []TypeOK
<1>1. IInv => TypeOK
  BY DEF IInv
<1>2. QED
  BY <1>1, Inductive, PTL

(* The receiving application is given the bytes of the stream in order,    *)
(* each once: insert_seg and is_next line the segments up.                 *)
THEOREM DeliveredInOrder ==
    ASSUME NoWrap
    PROVE  Spec => []InOrderDelivery
<1>1. ASSUME IInv PROVE InOrderDelivery
  <2>1. Available <= accepted /\ Available = Len(got) + Len(segs)
    <3>1. Available = rcv /\ rcv <= snd /\ snd <= accepted
      BY <1>1 DEF IInv, ReceiverInv, SenderInv
    <3>2. rcv \in Int /\ snd \in Int /\ accepted \in Int
      BY <1>1, Types, Sizes DEF IInv, TypeOK
    <3>3. QED
      BY <3>1, <3>2 DEF Available
  <2>2. got \in Seq(Nat) /\ segs \in Seq(Nat) /\ Len(got) \in Nat /\ Len(segs) \in Nat
    BY SMTT(30), <1>1 DEF IInv, TypeOK
  <2>3. \A i \in 1..(Len(got) + Len(segs)) :
          (got \o segs)[i] = IF i <= Len(got) THEN got[i] ELSE segs[i - Len(got)]
    BY <2>2, ConcatProperties
  <2>4. ASSUME NEW i \in 1..(Len(got) + Len(segs))
        PROVE  (got \o segs)[i] = i - 1
    <3>1. CASE i <= Len(got)
      <4>1. i \in 1..Len(got)
        BY <2>2, <3>1
      <4>2. QED
        BY <1>1, <2>3, <3>1, <4>1 DEF IInv, StreamInv
    <3>2. CASE ~(i <= Len(got))
      <4>1. i - Len(got) \in 1..Len(segs) /\ i \in Int
        BY <2>2, <3>2
      <4>2. segs[i - Len(got)] = Len(got) + (i - Len(got)) - 1
        BY <1>1, <4>1 DEF IInv, StreamInv
      <4>3. QED
        BY <2>2, <2>3, <3>2, <4>1, <4>2
    <3>3. QED
      BY <3>1, <3>2
  <2>5. QED
    BY <2>1, <2>4 DEF InOrderDelivery
<1>2. QED
  BY <1>1, Inductive, PTL

(* A segment whose thread runs has one entry in acks, the first with its   *)
(* number, or in_seq has taken it.                                         *)
LEMMA EntryOf ==
    ASSUME NoWrap, IInv, NEW s \in unsent \cup sleeping
    PROVE  \/ s.data + s.size <= una
           \/ \E i \in 1..Len(acks) :
                /\ IsFirst(acks, i, AckNum(s)) /\ acks[i] \in Entry
                /\ acks[i].seq_num = AckNum(s)
                /\ acks[i].seq_num - acks[i].size - Base = s.data
                /\ acks[i].seq_num - Base = s.data + s.size
<1>1. s \in Known /\ s.data \in Nat /\ s.size \in Nat /\ AckNum(s) = Base + s.data + s.size
      /\ Base \in Nat
  BY SegmentFacts, Sizes DEF Known
<1>2. SUFFICES ASSUME NEW i \in 1..Len(acks), acks[i].seq_num = Base + s.data + s.size
               PROVE  /\ IsFirst(acks, i, AckNum(s)) /\ acks[i] \in Entry
                      /\ acks[i].seq_num = AckNum(s)
                      /\ acks[i].seq_num - acks[i].size - Base = s.data
                      /\ acks[i].seq_num - Base = s.data + s.size
  BY DEF IInv, ThreadsInv
<1>3. acks[i].size = s.size
  BY <1>1, <1>2 DEF IInv, SegmentsInv
<1>4. acks \in Seq(Entry) /\ acks[i] \in Entry
  BY SMTT(30) DEF IInv, TypeOK
<1>5. ASSUME NEW j \in 1..(i - 1) PROVE acks[j].seq_num # AckNum(s)
  <2>1. j \in 1..Len(acks) /\ j < i
    BY <1>4
  <2>2. acks[j].seq_num <= acks[i].seq_num - acks[i].size /\ acks[i].size >= 1
    BY <2>1 DEF IInv, AcksInv
  <2>3. acks[j].seq_num \in Nat /\ acks[i].seq_num \in Nat /\ acks[i].size \in Nat
    BY <2>1, Types DEF IInv
  <2>4. QED
    BY <1>1, <1>2, <2>2, <2>3
<1>6. QED
  BY <1>1, <1>2, <1>3, <1>4, <1>5 DEF IsFirst

(* A segment with an entry the receiver holds, or before una, is held.     *)
LEMMA AckedHeld ==
    ASSUME NoWrap, IInv
    PROVE  AckedIsHeld
<1>1. SUFFICES ASSUME NEW s \in unsent \cup sleeping, ~Unacked(s) \/ AckNum(s) \in ack_net
               PROVE  Held(s)
  BY DEF AckedIsHeld
<1>2. s.data \in Nat /\ s.size \in Nat /\ una \in Int
  BY SegmentFacts, Types DEF Known, IInv
<1>3. CASE s.data + s.size <= una
  <2>1. \A p \in 0..(una - 1) : HeldByte(p)
    BY DEF IInv, HeldInv, HeldUpTo
  <2>2. QED
    BY <1>2, <1>3, <2>1 DEF Held
<1>4. ASSUME NEW i \in 1..Len(acks), IsFirst(acks, i, AckNum(s)), acks[i] \in Entry,
             acks[i].seq_num = AckNum(s),
             acks[i].seq_num - acks[i].size - Base = s.data,
             acks[i].seq_num - Base = s.data + s.size
      PROVE  Held(s)
  <2>1. EntryHeld(acks[i])
    <3>1. CASE AckNum(s) \in ack_net
      BY <1>4, <3>1 DEF IInv, HeldInv, NumberHeld
    <3>2. CASE ~Unacked(s)
      <4>1. i \in DOMAIN acks
        BY SMTT(30) DEF IInv, TypeOK
      <4>2. acks[i].flag = 1
        BY <1>4, <3>2, <4>1 DEF Unacked, Entry
      <4>3. QED
        BY <4>2 DEF IInv, HeldInv, EntriesHeld
    <3>3. QED
      BY <1>1, <3>1, <3>2
  <2>2. HeldUpTo(s.data, s.data + s.size)
    BY <1>4, <2>1, Zenon DEF EntryHeld
  <2>3. QED
    BY <1>2, <2>2 DEF HeldUpTo, Held
<1>5. QED
  BY <1>3, <1>4, EntryOf

(* No acknowledgement speaks of bytes the receiver does not hold, and      *)
(* set_ack notes none: the stream loses nothing.                           *)
THEOREM AcknowledgedIsHeld ==
    ASSUME NoWrap
    PROVE  Spec => []AckedIsHeld
<1>1. IInv => AckedIsHeld
  BY AckedHeld
<1>2. QED
  BY <1>1, Inductive, PTL

(* A segment not acknowledged lies behind una, within a window of it.      *)
LEMMA UnackedFacts ==
    ASSUME NoWrap, IInv, NEW s \in unsent \cup sleeping, Unacked(s)
    PROVE  /\ una <= s.data /\ s.data + s.size <= snd /\ snd - una <= window_size
           /\ s.data \in Nat /\ s.size \in Nat \ {0} /\ una \in Int /\ snd \in Nat
           /\ s.seq_num = Base + s.data
<1>1. s \in Known /\ s.data \in Nat /\ s.size \in Nat \ {0} /\ s.data + s.size <= snd
      /\ snd \in Nat /\ una \in Int /\ s.seq_num = Base + s.data
      /\ AckNum(s) = Base + s.data + s.size
  BY SegmentFacts, Types DEF Known, IInv
<1>2. acks \in Seq(Entry) /\ DOMAIN acks = 1..Len(acks)
  BY DEF IInv, TypeOK
<1>3. PICK i \in 1..Len(acks) : acks[i].seq_num = AckNum(s)
  BY <1>2 DEF Unacked, IsFirst
<1>4. acks[i].size = s.size
  BY <1>1, <1>3 DEF IInv, SegmentsInv
<1>5. 1 \in 1..Len(acks) /\ acks # <<>>
  BY <1>2
<1>6. /\ acks[1].seq_num \in Nat /\ acks[1].size \in Nat
      /\ acks[i].seq_num \in Nat /\ acks[i].size \in Nat /\ Base \in Nat
  BY <1>5, Types DEF IInv
<1>7. una = acks[1].seq_num - acks[1].size - Base
  BY <1>5 DEF una
<1>8. una <= s.data
  <2>1. CASE i = 1
    BY <1>1, <1>3, <1>4, <1>6, <1>7, <2>1
  <2>2. CASE i # 1
    <3>1. 1 < i
      BY <2>2
    <3>2. acks[1].seq_num <= acks[i].seq_num - acks[i].size
      BY <1>5, <3>1 DEF IInv, AcksInv
    <3>3. acks[i].seq_num - acks[i].size = Base + s.data
      BY <1>1, <1>3, <1>4, <1>6
    <3>4. acks[1].seq_num <= Base + s.data
      BY <3>2, <3>3
    <3>5. s.data \in Nat
      BY <1>1
    <3>6. QED
      BY <1>6, <1>7, <3>4, <3>5
  <2>3. QED
    BY <2>1, <2>2
<1>9. snd - una <= window_size
  <2>1. window_ptr \in 0..(window_size - 1) /\ size_move \in Nat /\ window_size \in Nat
        /\ pc \in {"cons", "loop", "slide", "in_seq"}
    BY Sizes DEF IInv, TypeOK
  <2>2. snd - una = window_ptr \/ snd - una + size_move = window_size
    BY <2>1 DEF IInv, WindowInv
  <2>3. QED
    BY <1>1, <2>1, <2>2
<1>10. QED
  BY <1>1, <1>8, <1>9

(* The window pointer of send_thread counts the bytes in flight right:     *)
(* they never exceed the window, whatever size_move in_seq returns.        *)
THEOREM WindowRespected ==
    ASSUME NoWrap
    PROVE  Spec => []UnackedWithinWindow
<1>1. ASSUME IInv PROVE UnackedWithinWindow
  <2>1. SUFFICES ASSUME NEW s \in unsent \cup sleeping, NEW t \in unsent \cup sleeping,
                        Unacked(s)
                 PROVE  t.data + t.size - s.data <= window_size
    BY DEF UnackedWithinWindow
  <2>2. t.data \in Nat /\ t.size \in Nat /\ t.data + t.size <= snd
    BY <1>1, SegmentFacts DEF Known
  <2>3. una <= s.data /\ snd - una <= window_size /\ s.data \in Nat /\ una \in Int
        /\ snd \in Nat
    BY <1>1, <2>1, UnackedFacts
  <2>4. window_size \in Nat
    BY Sizes
  <2>5. QED
    BY <2>2, <2>3, <2>4
<1>2. QED
  BY <1>1, Inductive, PTL

(* The receive window always takes in what the sender may send again: a    *)
(* lost acknowledgement can be had by sending the segment again.           *)
THEOREM ResentIsAnswered ==
    ASSUME NoWrap
    PROVE  Spec => []UnackedAcceptable
<1>1. ASSUME IInv PROVE UnackedAcceptable
  <2>1. SUFFICES ASSUME rpc = "idle", NEW s \in unsent \cup sleeping, Unacked(s)
                 PROVE  InWindow(s.seq_num)
    BY DEF UnackedAcceptable
  <2>2. /\ una <= s.data /\ s.data + s.size <= snd /\ snd - una <= window_size
        /\ s.data \in Nat /\ s.size \in Nat \ {0} /\ una \in Int /\ snd \in Nat
        /\ s.seq_num = Base + s.data
    BY <1>1, <2>1, UnackedFacts
  <2>3. rcv \in Nat /\ rcv <= snd /\ Available = rcv /\ seq_num_r = Base + rcv
        /\ seq_num_r \in Nat
    BY <1>1, <2>1, Awaited
  <2>4. una <= rcv
    <3>1. SUFFICES ASSUME rcv < una PROVE FALSE
      BY <2>2, <2>3
    <3>2. HeldByte(rcv)
      BY <1>1, <2>2, <2>3, <3>1 DEF IInv, HeldInv, HeldUpTo
    <3>3. PICK t \in segs_aux : t.data <= rcv /\ rcv < t.data + t.size
      BY <2>3, <3>2 DEF HeldByte
    <3>4. rcv <= t.data /\ rcv # t.data
      BY <1>1, <2>1 DEF IInv, ReceiverInv
    <3>5. t.data \in Nat
      BY <1>1, SegmentFacts DEF Known
    <3>6. QED
      BY <2>3, <3>3, <3>4, <3>5
  <2>5. /\ prev_seq_num_r \in Nat /\ end_seq_num_r \in Nat /\ window_size \in Nat \ {0}
        /\ Base \in Nat
    BY <1>1, Sizes DEF IInv, TypeOK
  <2>6. /\ prev_seq_num_r <= seq_num_r - window_size
        /\ end_seq_num_r >= seq_num_r + window_size - 1
    BY <1>1, <2>3, <2>5 DEF IInv, ReceiverInv
  <2>7. prev_seq_num_r < end_seq_num_r
    BY <2>3, <2>5, <2>6
  <2>8. prev_seq_num_r <= s.seq_num /\ s.seq_num <= end_seq_num_r
    BY <2>2, <2>3, <2>4, <2>5, <2>6
  <2>9. QED
    BY <2>2, <2>5, <2>7, <2>8 DEF InWindow
<1>2. QED
  BY <1>1, Inductive, PTL

(* A seg_send_thread gives its segment up only when the receiver holds it. *)
THEOREM RetransmissionIsEnough ==
    ASSUME NoWrap
    PROVE  Spec => ResendUntilHeld
<1>1. ASSUME IInv, [Next]_vars
      PROVE  \A s \in sleeping : s \in sleeping' \/ Held(s)
  <2>1. SUFFICES ASSUME NEW s \in sleeping, s \notin sleeping'
                 PROVE  Held(s)
    OBVIOUS
  <2>2. Timeout(s) /\ is_set(acks, LookNum(s))
    <3>1. CASE UNCHANGED vars
      BY <2>1, <3>1 DEF vars, threads
    <3>2. CASE Next
      BY <2>1, <3>2
      DEF Next, SendThread, Deliver, InsertSeg, SendPoint, TakeBuffer, CutSegment,
          LockAcks, PopAck, UnlockAcks, BufferDone, FirstSend, Timeout, ReceiveAck,
          LoseAck, DeliverOld, DeliverNext, DeliverAhead, DeliverOutside, LoseSegment,
          Pull, PullDone, RecvPoint, threads
    <3>3. QED
      BY <1>1, <3>1, <3>2
  <2>3. LookNum(s) = AckNum(s)
    <3>1. /\ s.data \in Nat /\ s.size \in Nat /\ s.seq_num = Base + s.data
          /\ s.data + s.size <= snd /\ snd \in Nat /\ snd <= MaxBytes
          /\ AckNum(s) = Base + s.data + s.size
      BY <1>1, SegmentFacts DEF Known
    <3>2. s.seq_num + s.size \in Nat /\ s.seq_num + s.size < MAX_SEQ_NUM + 1
          /\ s.seq_num + s.size = AckNum(s)
      BY <3>1, Sizes DEF NoWrap
    <3>3. QED
      BY <3>2, ModSmall, Sizes DEF LookNum
  <2>4. ~Unacked(s)
    BY <2>2, <2>3 DEF is_set, Unacked
  <2>5. QED
    BY <1>1, <2>4, AckedHeld DEF AckedIsHeld
<1>2. QED
  BY <1>1, Inductive, PTL DEF Spec, ResendUntilHeld

-----------------------------------------------------------------------------
(* recv_point hands over the next bytes of the stream, send_point adds to  *)
(* it, and no other step of either host touches it: the connection         *)
(* implements the reliable stream its header promises.                     *)
THEOREM ReliableConnection ==
    ASSUME NoWrap
    PROVE  Spec => ImplementsStream
<1>1. Init => Stream!Init
  BY DEF Init, Stream!Init
<1>2. ASSUME IInv, [Next]_vars
      PROVE  [Stream!Next]_(Stream!vars)
  <2>1. ASSUME NEW tam \in MessageSizes, SendPoint(tam)
        PROVE  Stream!Next
    <3>1. accepted \in Nat /\ tam \in Nat /\ accepted' = accepted + tam /\ got' = got
      BY <1>2, <2>1, Sizes DEF IInv, TypeOK, SendPoint
    <3>2. accepted' \in Nat /\ accepted' >= accepted
      BY <3>1
    <3>3. QED
      BY <3>1, <3>2 DEF Stream!Next, Stream!Send
  <2>2. ASSUME NEW size \in RecvSizes, RecvPoint(size)
        PROVE  Stream!Next
    <3>1. /\ segs \in Seq(Nat) /\ Len(segs) \in Nat /\ segs # <<>> /\ size \in Nat \ {0}
          /\ Len(got) \in Nat /\ accepted \in Nat
      BY <1>2, <2>2, Sizes DEF IInv, TypeOK, RecvPoint
    <3>2. PICK k : k = IF size < Len(segs) THEN size ELSE Len(segs)
      OBVIOUS
    <3>3. k \in 1..Len(segs) /\ k \in 0..Len(segs)
      <4>1. Len(segs) # 0
        BY <3>1
      <4>2. QED
        BY <3>1, <3>2, <4>1
    <3>4. got' = got \o SubSeq(segs, 1, k) /\ accepted' = accepted
      BY <2>2, <3>2, Zenon DEF RecvPoint, app
    <3>5. Len(got) + Len(segs) <= accepted
      <4>1. Available = rcv /\ rcv <= snd /\ snd <= accepted
        BY <1>2 DEF IInv, ReceiverInv, SenderInv
      <4>2. rcv \in Int /\ snd \in Int
        BY <1>2, Types DEF IInv
      <4>3. QED
        BY <3>1, <4>1, <4>2 DEF Available
    <3>6. k \in 1..(accepted - Len(got))
      BY <3>1, <3>3, <3>5
    <3>7. SubSeq(segs, 1, k) = [i \in 1..k |-> Len(got) + i - 1]
      <4>1. PICK q \in Seq(Nat) : /\ q = SubSeq(segs, 1, k) /\ Len(q) = k
                                  /\ \A i \in 1..k : q[i] = segs[i]
        BY <3>1, <3>3, CutBytes
      <4>2. \A i \in 1..k : q[i] = Len(got) + i - 1
        BY <1>2, <3>3, <4>1 DEF IInv, StreamInv
      <4>3. q = [i \in 1..k |-> q[i]]
        BY <4>1
      <4>4. QED
        BY <4>1, <4>2, <4>3
    <3>8. QED
      BY <3>4, <3>6, <3>7 DEF Stream!Next, Stream!Receive
  <2>3. \/ \E tam \in MessageSizes : SendPoint(tam)
        \/ \E size \in RecvSizes : RecvPoint(size)
        \/ UNCHANGED <<accepted, got>>
    <3>1. CASE UNCHANGED vars
      BY <3>1 DEF vars, app
    <3>2. CASE Next
      BY <3>2
      DEF Next, SendThread, Deliver, InsertSeg, TakeBuffer, CutSegment,
          LockAcks, PopAck, UnlockAcks, BufferDone, FirstSend, Timeout, ReceiveAck,
          LoseAck, DeliverOld, DeliverNext, DeliverAhead, DeliverOutside, LoseSegment,
          Pull, PullDone, app
    <3>3. QED
      BY <1>2, <3>1, <3>2
  <2>4. QED
    BY <2>1, <2>2, <2>3 DEF Stream!vars
<1>3. QED
  BY <1>1, <1>2, Inductive, PTL DEF Spec, ImplementsStream, Stream!Spec
=============================================================================

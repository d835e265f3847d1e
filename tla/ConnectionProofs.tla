-------------------------- MODULE ConnectionProofs --------------------------
(***************************************************************************)
(* Theorems about Connection.  The first part, for any number of calls of  *)
(* connect_point, says that the numbers of a connection keep to the room   *)
(* they have, and with it that every variable keeps its type.  The second  *)
(* part follows one call of connect_point, with any points, any data and   *)
(* any loss and repetition: a client that is connected has a server, and   *)
(* closing is orderly.  Neither holds for a second call through the same   *)
(* point: it can take the SYN+ACK of the first for its own.                *)
(***************************************************************************)
EXTENDS Connection, TLAPS

(* The numbers of one connection.  Point p is in the k-th: it has taken    *)
(* one number for its SYN or SYN+ACK, one for each buffer that send_thread *)
(* has cut, and one for its FIN unless it is still to send that.           *)
Fin(p) == IF flag_con[p] \in {1, 2} THEN 0 ELSE 1
Numbered(p, k) ==
    seq_num_s[p] \in Isn(k)..(Isn(k) + 1 + (sent[p] - buffered[p]) + Fin(p))

NumbersInv ==
    \A p \in Points : buffered[p] <= sent[p] /\ \E k \in 0..isns : Numbered(p, k)

(* The acknowledgement of every segment is a number too. *)
Acknowledgeable == {x \in Segment : x.seq_num + 1 \in Numbers}
SegmentsInv ==
    /\ \A p \in Points : threads[p] \cup handlers[p] \subseteq Acknowledgeable
    /\ \A m \in net : m.seg \in Acknowledgeable

ConnectionInv == TypeOK /\ NumbersInv /\ SegmentsInv

-----------------------------------------------------------------------------
(* The room of a connection, and that the rooms do not overlap.            *)
LEMMA Spans == Span \in Nat /\ Span = MaxData + 3 /\ MaxData \in Nat
  BY ConnectionAssumption DEF Span

LEMMA Times ==
  ASSUME NEW i \in Nat, NEW j \in Nat, i <= j, NEW S \in Nat
  PROVE  i * S \in Nat /\ i * S <= j * S /\ (i + 1) * S = i * S + S
<1>1. (j - i) * S >= 0  OBVIOUS
<1>2. (j - i) * S = j * S - i * S  OBVIOUS
<1>3. (i + 1) * S = i * S + S  OBVIOUS
<1>4. i * S \in Nat /\ j * S \in Nat  OBVIOUS
<1>. QED  BY <1>1, <1>2, <1>3, <1>4

LEMMA IsnFits ==
  ASSUME NEW k \in 0..MaxIsn
  PROVE  /\ Isn(k) \in Nat
         /\ \A n \in Isn(k)..(Isn(k) + Span - 1) : n \in Numbers /\ ConnOf(n) = k
<1>. DEFINE S == Span
<1>1. S \in Nat /\ S >= 3  BY Spans
<1>2. k \in Nat /\ MaxIsn \in Nat /\ k <= MaxIsn  BY ConnectionAssumption
<1>3. SUFFICES ASSUME NEW n \in k * S..(k * S + S - 1)
               PROVE  n \in 0..((MaxIsn + 1) * S - 1) /\ n \div S = k
  BY <1>1, <1>2 DEF Isn, Numbers, ConnOf
<1>. HIDE DEF S
<1>4. k * S \in Nat /\ k * S <= MaxIsn * S /\ (MaxIsn + 1) * S = MaxIsn * S + S
  BY <1>1, <1>2, Times
<1>5. n \in 0..((MaxIsn + 1) * S - 1)
  BY <1>1, <1>3, <1>4, <1>2
<1>6. n \div S = k
  BY <1>1, <1>2, <1>3, <1>4
<1>. QED  BY <1>5, <1>6

LEMMA SmallNumbers == 0 \in Numbers /\ 1 \in Numbers
<1>1. 0 \in 0..MaxIsn  BY ConnectionAssumption
<1>2. Isn(0) = 0  BY Spans DEF Isn
<1>. QED  BY <1>1, <1>2, IsnFits, Spans

LEMMA NumberedRange ==
  ASSUME ConnectionInv, NEW p \in Points, NEW k \in 0..isns, Numbered(p, k)
  PROVE  /\ k \in 0..MaxIsn /\ Isn(k) \in Nat
         /\ seq_num_s[p] \in Numbers /\ ConnOf(seq_num_s[p]) = k
         /\ (Fin(p) = 0 \/ buffered[p] > 0) => seq_num_s[p] + 1 \in Numbers
<1>1. k \in 0..MaxIsn  BY ConnectionAssumption DEF ConnectionInv, TypeOK
<1>2. sent[p] \in 0..MaxData /\ buffered[p] \in 0..MaxData /\ buffered[p] <= sent[p]
  BY DEF ConnectionInv, TypeOK, NumbersInv
<1>3. Isn(k) \in Nat /\ seq_num_s[p] \in Isn(k)..(Isn(k) + Span - 1)
  BY <1>1, <1>2, IsnFits, Spans DEF Numbered, Fin
<1>4. ASSUME Fin(p) = 0 \/ buffered[p] > 0
      PROVE  seq_num_s[p] + 1 \in Isn(k)..(Isn(k) + Span - 1)
  BY <1>2, <1>3, <1>4, Spans DEF Numbered, Fin
<1>. QED  BY <1>1, <1>3, <1>4, IsnFits

(* What the network holds after a segment was sent. *)
LEMMA Sending ==
  ASSUME NEW n, NEW p, NEW s
  PROVE  \A m \in With(n, p, s) : m \in n \/ m = [to |-> dest[p], seg |-> s]
BY DEF With

LEMMA AckSegment ==
  ASSUME NEW p \in Points, NEW n \in Numbers
  PROVE  Ack(p, n) \in Acknowledgeable
BY SmallNumbers DEF Ack, Segment, Acknowledgeable

(* Starting a seg_send_thread for the next number of a point. *)
LEMMA StartTyped ==
  ASSUME ConnectionInv, NEW p \in Points,
         NEW kind \in {"DATA", "SYN", "SYNACK", "ACK", "FIN"},
         NEW n \in Numbers, n + 1 \in Numbers, NEW ack \in Numbers,
         StartSending(p, kind, n, ack)
  PROVE  /\ acks' \in [Points -> SUBSET Numbers]
         /\ seq_num_s' \in [Points -> Numbers]
         /\ threads' \in [Points -> SUBSET Segment]
         /\ \A q \in Points : threads'[q] \subseteq Acknowledgeable
         /\ seq_num_s'[p] = n + 1
         /\ \A q \in Points \ {p} : seq_num_s'[q] = seq_num_s[q] /\ threads'[q] = threads[q]
         /\ threads'[p] = threads[p] \cup
              {[flags |-> kind, src |-> p, seq_num |-> n, ack_num |-> ack]}
<1>1. [flags |-> kind, src |-> p, seq_num |-> n, ack_num |-> ack] \in Acknowledgeable
  BY DEF Segment, Acknowledgeable
<1>. QED
  BY <1>1 DEF StartSending, ConnectionInv, TypeOK, SegmentsInv, Acknowledgeable

(* A step that changes the numbering of one point only. *)
LEMMA NumberingKept ==
  ASSUME ConnectionInv, NEW p \in Points, isns' \in Nat, isns <= isns',
         \A q \in Points \ {p} :
             /\ seq_num_s'[q] = seq_num_s[q] /\ flag_con'[q] = flag_con[q]
             /\ sent'[q] = sent[q] /\ buffered'[q] = buffered[q],
         buffered'[p] <= sent'[p],
         \E k \in 0..isns' :
             seq_num_s'[p] \in Isn(k)..(Isn(k) + 1 + (sent'[p] - buffered'[p]) + Fin(p)')
  PROVE  NumbersInv'
<1>1. isns \in Nat  BY ConnectionAssumption DEF ConnectionInv, TypeOK
<1>2. SUFFICES ASSUME NEW q \in Points, q # p
               PROVE  buffered'[q] <= sent'[q] /\ \E k \in 0..isns' : Numbered(q, k)'
  BY DEF NumbersInv, Numbered
<1>3. buffered'[q] <= sent'[q]  BY <1>2 DEF ConnectionInv, NumbersInv
<1>4. PICK k \in 0..isns : Numbered(q, k)  BY DEF ConnectionInv, NumbersInv
<1>5. k \in 0..isns'  BY <1>1
<1>6. Numbered(q, k)'  BY <1>2, <1>4 DEF Numbered, Fin
<1>. QED  BY <1>3, <1>5, <1>6

-----------------------------------------------------------------------------
(* The first invariant, action by action.                                  *)
LEMMA InitInv == Init => ConnectionInv
<1>. SUFFICES ASSUME Init PROVE ConnectionInv  OBVIOUS
<1>1. TypeOK  BY SmallNumbers, ConnectionAssumption DEF Init, TypeOK
<1>2. NumbersInv
  <2>1. Isn(0) = 0  BY Spans DEF Isn
  <2>. SUFFICES ASSUME NEW p \in Points PROVE Numbered(p, 0) /\ buffered[p] <= sent[p]
    BY ConnectionAssumption DEF NumbersInv, Init
  <2>. QED  BY <2>1 DEF Init, Numbered, Fin
<1>3. SegmentsInv  BY DEF Init, SegmentsInv
<1>. QED  BY <1>1, <1>2, <1>3 DEF ConnectionInv

LEMMA ConnectStep ==
  ASSUME ConnectionInv, NEW p \in Clients, NEW q \in Points \ {p}, Connect(p, q)
  PROVE  ConnectionInv'
<1>. DEFINE k == isns + 1
<1>1. p \in Points /\ k \in 0..MaxIsn /\ isns \in Nat
  BY ConnectionAssumption DEF Connect, ConnectionInv, TypeOK
<1>2. Isn(k) \in Nat /\ Isn(k) \in Numbers /\ Isn(k) + 1 \in Numbers
  BY <1>1, IsnFits, Spans
<1>3. StartSending(p, "SYN", Isn(k), 0)  BY DEF Connect
<1>. HIDE DEF k
<1>4. /\ acks' \in [Points -> SUBSET Numbers]
      /\ seq_num_s' \in [Points -> Numbers]
      /\ threads' \in [Points -> SUBSET Segment]
      /\ \A r \in Points : threads'[r] \subseteq Acknowledgeable
      /\ seq_num_s'[p] = Isn(k) + 1
      /\ \A r \in Points \ {p} : seq_num_s'[r] = seq_num_s[r]
  BY <1>1, <1>2, <1>3, StartTyped, SmallNumbers
<1>5. TypeOK'
  <2>1. flag_con' \in [Points -> 0..3]
    BY <1>1 DEF ConnectionInv, TypeOK, Connect
  <2>3. dest' \in [Points -> Points]  BY DEF ConnectionInv, TypeOK, Connect
  <2>2. calls' \in 0..MaxCalls /\ isns' \in 0..MaxIsn
    BY <1>1, ConnectionAssumption DEF ConnectionInv, TypeOK, Connect
  <2>. QED  BY <1>4, <2>1, <2>2, <2>3 DEF ConnectionInv, TypeOK, Connect
<1>6. SegmentsInv'
  BY <1>4 DEF ConnectionInv, SegmentsInv, Connect
<1>7. NumbersInv'
  <2>1. isns' = k /\ isns <= k /\ k \in Nat  BY <1>1 DEF Connect, k
  <2>2. \A r \in Points \ {p} :
             /\ seq_num_s'[r] = seq_num_s[r] /\ flag_con'[r] = flag_con[r]
             /\ sent'[r] = sent[r] /\ buffered'[r] = buffered[r]
    BY <1>4 DEF Connect, ConnectionInv, TypeOK
  <2>3. buffered'[p] <= sent'[p] /\ buffered'[p] \in Nat /\ sent'[p] \in Nat
    BY <1>1, ConnectionAssumption DEF Connect, ConnectionInv, NumbersInv, TypeOK
  <2>4. Fin(p)' = 0  BY <1>1 DEF Connect, Fin, ConnectionInv, TypeOK
  <2>5. seq_num_s'[p] \in Isn(k)..(Isn(k) + 1 + (sent'[p] - buffered'[p]) + Fin(p)')
    BY <1>2, <1>4, <2>3, <2>4
  <2>. QED  BY <1>1, <2>1, <2>2, <2>3, <2>5, NumberingKept
<1>. QED  BY <1>5, <1>6, <1>7 DEF ConnectionInv

LEMMA CloseStep ==
  ASSUME ConnectionInv, NEW p \in Points, CloseConn(p)
  PROVE  ConnectionInv'
<1>1. PICK k \in 0..isns : Numbered(p, k)  BY DEF ConnectionInv, NumbersInv
<1>2. Fin(p) = 0  BY DEF CloseConn, Fin
<1>3. seq_num_s[p] \in Numbers /\ seq_num_s[p] + 1 \in Numbers /\ Isn(k) \in Nat
  BY <1>1, <1>2, NumberedRange
<1>4. /\ acks' \in [Points -> SUBSET Numbers]
      /\ seq_num_s' \in [Points -> Numbers]
      /\ threads' \in [Points -> SUBSET Segment]
      /\ \A r \in Points : threads'[r] \subseteq Acknowledgeable
      /\ seq_num_s'[p] = seq_num_s[p] + 1
      /\ \A r \in Points \ {p} : seq_num_s'[r] = seq_num_s[r]
  BY <1>3, StartTyped, SmallNumbers DEF CloseConn
<1>5. TypeOK'
  <2>1. flag_con' \in [Points -> 0..3]  BY DEF ConnectionInv, TypeOK, CloseConn
  <2>. QED  BY <1>4, <2>1 DEF ConnectionInv, TypeOK, CloseConn, app
<1>6. SegmentsInv'  BY <1>4 DEF ConnectionInv, SegmentsInv, CloseConn
<1>7. NumbersInv'
  <2>1. isns' = isns /\ isns \in Nat /\ k \in 0..isns'
    BY ConnectionAssumption DEF CloseConn, ConnectionInv, TypeOK
  <2>2. \A r \in Points \ {p} :
             /\ seq_num_s'[r] = seq_num_s[r] /\ flag_con'[r] = flag_con[r]
             /\ sent'[r] = sent[r] /\ buffered'[r] = buffered[r]
    BY <1>4 DEF CloseConn, ConnectionInv, TypeOK, app
  <2>3. buffered[p] <= sent[p] /\ buffered[p] \in Nat /\ sent[p] \in Nat
        /\ buffered' = buffered /\ sent' = sent
    BY ConnectionAssumption DEF CloseConn, ConnectionInv, NumbersInv, TypeOK, app
  <2>4. Fin(p)' = 1  BY DEF CloseConn, Fin, ConnectionInv, TypeOK
  <2>5. seq_num_s'[p] \in Isn(k)..(Isn(k) + 1 + (sent'[p] - buffered'[p]) + Fin(p)')
    BY <1>1, <1>2, <1>3, <1>4, <2>3, <2>4 DEF Numbered
  <2>. QED  BY <2>1, <2>2, <2>3, <2>5, NumberingKept
<1>. QED  BY <1>5, <1>6, <1>7 DEF ConnectionInv

LEMMA SendPointStep ==
  ASSUME ConnectionInv, NEW p \in Points, SendPoint(p)
  PROVE  ConnectionInv'
<1>0. sent[p] \in 0..MaxData /\ buffered[p] \in 0..MaxData /\ buffered[p] <= sent[p]
      /\ MaxData \in Nat /\ sent[p] < MaxData
  BY ConnectionAssumption DEF SendPoint, ConnectionInv, TypeOK, NumbersInv
<1>1. sent'[p] = sent[p] + 1 /\ buffered'[p] = buffered[p] + 1
      /\ sent' \in [Points -> 0..MaxData] /\ buffered' \in [Points -> 0..MaxData]
      /\ \A r \in Points \ {p} : sent'[r] = sent[r] /\ buffered'[r] = buffered[r]
  BY <1>0 DEF SendPoint, ConnectionInv, TypeOK
<1>2. TypeOK'  BY <1>1 DEF ConnectionInv, TypeOK, SendPoint, conn
<1>3. SegmentsInv'  BY DEF ConnectionInv, SegmentsInv, SendPoint
<1>4. NumbersInv'
  <2>1. PICK k \in 0..isns : Numbered(p, k)  BY DEF ConnectionInv, NumbersInv
  <2>2. isns' = isns /\ isns \in Nat /\ k \in 0..isns' /\ Isn(k) \in Nat
    BY <2>1, NumberedRange, ConnectionAssumption DEF SendPoint, ConnectionInv, TypeOK
  <2>3. Fin(p)' = Fin(p) /\ seq_num_s' = seq_num_s /\ flag_con' = flag_con
    BY DEF SendPoint, conn, Fin
  <2>4. seq_num_s'[p] \in Isn(k)..(Isn(k) + 1 + (sent'[p] - buffered'[p]) + Fin(p)')
    BY <1>0, <1>1, <2>1, <2>3 DEF Numbered
  <2>. QED  BY <1>0, <1>1, <2>2, <2>3, <2>4, NumberingKept
<1>. QED  BY <1>2, <1>3, <1>4 DEF ConnectionInv

LEMMA CutStep ==
  ASSUME ConnectionInv, NEW p \in Points, CutSegment(p)
  PROVE  ConnectionInv'
<1>0. sent[p] \in 0..MaxData /\ buffered[p] \in 0..MaxData /\ buffered[p] <= sent[p]
      /\ MaxData \in Nat /\ buffered[p] > 0
  BY ConnectionAssumption DEF CutSegment, ConnectionInv, TypeOK, NumbersInv
<1>1. PICK k \in 0..isns : Numbered(p, k)  BY DEF ConnectionInv, NumbersInv
<1>2. seq_num_s[p] \in Numbers /\ seq_num_s[p] + 1 \in Numbers /\ Isn(k) \in Nat
  BY <1>0, <1>1, NumberedRange
<1>3. /\ acks' \in [Points -> SUBSET Numbers]
      /\ seq_num_s' \in [Points -> Numbers]
      /\ threads' \in [Points -> SUBSET Segment]
      /\ \A r \in Points : threads'[r] \subseteq Acknowledgeable
      /\ seq_num_s'[p] = seq_num_s[p] + 1
      /\ \A r \in Points \ {p} : seq_num_s'[r] = seq_num_s[r]
  BY <1>2, StartTyped, SmallNumbers DEF CutSegment
<1>4. buffered'[p] = buffered[p] - 1 /\ buffered' \in [Points -> 0..MaxData]
      /\ \A r \in Points \ {p} : buffered'[r] = buffered[r]
  BY <1>0 DEF CutSegment, ConnectionInv, TypeOK
<1>5. TypeOK'  BY <1>3, <1>4 DEF ConnectionInv, TypeOK, CutSegment
<1>6. SegmentsInv'  BY <1>3 DEF ConnectionInv, SegmentsInv, CutSegment
<1>7. NumbersInv'
  <2>1. isns' = isns /\ isns \in Nat /\ k \in 0..isns' /\ sent' = sent /\ flag_con' = flag_con
    BY ConnectionAssumption DEF CutSegment, ConnectionInv, TypeOK
  <2>2. Fin(p)' = Fin(p) /\ Fin(p) \in {0, 1}  BY <2>1 DEF Fin
  <2>3. seq_num_s'[p] \in Isn(k)..(Isn(k) + 1 + (sent'[p] - buffered'[p]) + Fin(p)')
    BY <1>0, <1>1, <1>2, <1>3, <1>4, <2>1, <2>2 DEF Numbered
  <2>. QED  BY <1>0, <1>3, <1>4, <2>1, <2>3, NumberingKept
<1>. QED  BY <1>5, <1>6, <1>7 DEF ConnectionInv

LEMMA SegSendStep ==
  ASSUME ConnectionInv, NEW p \in Points, NEW s \in threads[p], SegSend(p, s)
  PROVE  ConnectionInv'
<1>1. s \in Acknowledgeable /\ s \in Segment /\ dest[p] \in Points
  BY DEF ConnectionInv, SegmentsInv, TypeOK
<1>2. threads' \in [Points -> SUBSET Segment] /\ \A r \in Points : threads'[r] \subseteq threads[r]
  BY DEF SegSend, ConnectionInv, TypeOK
<1>3. \A m \in net' : m \in net \/ m = [to |-> dest[p], seg |-> s]
  BY Sending DEF SegSend
<1>4. TypeOK'  BY <1>1, <1>2, <1>3 DEF ConnectionInv, TypeOK, SegSend, conn, app
<1>5. SegmentsInv'  BY <1>1, <1>2, <1>3 DEF ConnectionInv, SegmentsInv, SegSend
<1>6. NumbersInv'
  BY DEF ConnectionInv, NumbersInv, Numbered, Fin, SegSend, conn, app
<1>. QED  BY <1>4, <1>5, <1>6 DEF ConnectionInv

(* What recv_thread answers, and what stays of what it took. *)
LEMMA Answering ==
  ASSUME ConnectionInv, NEW p \in Points, NEW m \in net,
         Answer(p, m, Ack(p, m.seg.seq_num + 1)) \/ Taken(m)
  PROVE  /\ \A x \in net' : x \in net \/ x = [to |-> dest[p], seg |-> Ack(p, m.seg.seq_num + 1)]
         /\ Ack(p, m.seg.seq_num + 1) \in Acknowledgeable
         /\ net' \subseteq [to : Points, seg : Segment]
         /\ \A x \in net' : x.seg \in Acknowledgeable
<1>. DEFINE a == Ack(p, m.seg.seq_num + 1)
<1>1. a \in Acknowledgeable /\ dest[p] \in Points /\ m.seg.seq_num + 1 \in Numbers
  BY AckSegment DEF ConnectionInv, SegmentsInv, TypeOK, Acknowledgeable
<1>2. \A x \in net' : x \in net \/ x = [to |-> dest[p], seg |-> a]
  <2>. HIDE DEF a
  <2>1. Answer(p, m, a) \/ Taken(m)  BY DEF a
  <2>2. /\ \A x \in With(net, p, a) : x \in net \/ x = [to |-> dest[p], seg |-> a]
        /\ \A x \in With(net \ {m}, p, a) : x \in net \/ x = [to |-> dest[p], seg |-> a]
    BY Sending
  <2>. QED  BY <2>1, <2>2 DEF Answer, Taken
<1>. HIDE DEF a
<1>3. /\ net' \subseteq [to : Points, seg : Segment]
      /\ \A x \in net' : x.seg \in Acknowledgeable
  BY <1>1, <1>2 DEF ConnectionInv, SegmentsInv, TypeOK, Acknowledgeable
<1>. QED  BY <1>1, <1>2, <1>3 DEF a

LEMMA RecvSyncStep ==
  ASSUME ConnectionInv, NEW p \in Points, NEW m \in net, RecvSync(p, m)
  PROVE  ConnectionInv'
<1>1. m.seg \in Acknowledgeable /\ m.seg \in Segment /\ net' \subseteq net
  BY DEF ConnectionInv, SegmentsInv, TypeOK, Acknowledgeable, RecvSync, Taken
<1>2. /\ handlers' \in [Points -> SUBSET Segment]
      /\ \A r \in Points : handlers'[r] \subseteq handlers[r] \cup {m.seg}
  BY <1>1 DEF RecvSync, ConnectionInv, TypeOK
<1>3. TypeOK'  BY <1>1, <1>2 DEF ConnectionInv, TypeOK, RecvSync, conn, app
<1>4. SegmentsInv'  BY <1>1, <1>2 DEF ConnectionInv, SegmentsInv, RecvSync
<1>5. NumbersInv'
  BY DEF ConnectionInv, NumbersInv, Numbered, Fin, RecvSync, conn, app
<1>. QED  BY <1>3, <1>4, <1>5 DEF ConnectionInv

LEMMA RecvAckStep ==
  ASSUME ConnectionInv, NEW p \in Points, NEW m \in net, RecvAck(p, m)
  PROVE  ConnectionInv'
<1>1. net' \subseteq net  BY DEF RecvAck, Taken
<1>2. acks' \in [Points -> SUBSET Numbers]  BY DEF RecvAck, ConnectionInv, TypeOK
<1>3. TypeOK'  BY <1>1, <1>2 DEF ConnectionInv, TypeOK, RecvAck, app
<1>4. SegmentsInv'  BY <1>1 DEF ConnectionInv, SegmentsInv, RecvAck
<1>5. NumbersInv'
  BY DEF ConnectionInv, NumbersInv, Numbered, Fin, RecvAck, app
<1>. QED  BY <1>3, <1>4, <1>5 DEF ConnectionInv

LEMMA RecvDataStep ==
  ASSUME ConnectionInv, NEW p \in Points, NEW m \in net, RecvData(p, m)
  PROVE  ConnectionInv'
<1>1. net' \subseteq [to : Points, seg : Segment] /\ \A x \in net' : x.seg \in Acknowledgeable
  BY Answering DEF RecvData
<1>2. TypeOK'  BY <1>1 DEF ConnectionInv, TypeOK, RecvData, conn, app
<1>3. SegmentsInv'  BY <1>1 DEF ConnectionInv, SegmentsInv, RecvData
<1>4. NumbersInv'
  BY DEF ConnectionInv, NumbersInv, Numbered, Fin, RecvData, conn, app
<1>. QED  BY <1>2, <1>3, <1>4 DEF ConnectionInv

LEMMA StopStep ==
  ASSUME ConnectionInv, NEW p \in Points, NEW m \in net, LeakMutexCon(p, m) \/ Block(p, m)
  PROVE  ConnectionInv'
<1>1. net' \subseteq net /\ recv' \in [Points -> {"running", "leaked", "blocked"}]
      /\ UNCHANGED <<conn, threads, handlers, app, isns>>
  BY DEF LeakMutexCon, Block, Taken, ConnectionInv, TypeOK
<1>2. TypeOK'  BY <1>1 DEF ConnectionInv, TypeOK, conn, app
<1>3. SegmentsInv'  BY <1>1 DEF ConnectionInv, SegmentsInv
<1>4. NumbersInv'  BY <1>1 DEF ConnectionInv, NumbersInv, Numbered, Fin, conn, app
<1>. QED  BY <1>2, <1>3, <1>4 DEF ConnectionInv

LEMMA RecvFinStep ==
  ASSUME ConnectionInv, NEW p \in Points, NEW m \in net, RecvFin(p, m)
  PROVE  ConnectionInv'
<1>1. net' \subseteq [to : Points, seg : Segment] /\ \A x \in net' : x.seg \in Acknowledgeable
  <2>1. Answer(p, m, Ack(p, m.seg.seq_num + 1)) \/ Taken(m)  BY DEF RecvFin
  <2>. QED  BY <2>1, Answering
<1>2. flag_con' \in [Points -> 0..3] /\ \A r \in Points \ {p} : flag_con'[r] = flag_con[r]
  BY DEF RecvFin, ConnectionInv, TypeOK
<1>3. UNCHANGED <<dest, seq_num_r, handlers, recv, app, isns>>  BY DEF RecvFin
<1>4. CASE flag_con[p] # 2
  <2>1. UNCHANGED <<acks, threads, seq_num_s>>  BY <1>4 DEF RecvFin
  <2>2. TypeOK'  BY <1>1, <1>2, <1>3, <2>1 DEF ConnectionInv, TypeOK, app
  <2>3. SegmentsInv'  BY <1>1, <1>3, <2>1 DEF ConnectionInv, SegmentsInv
  <2>4. Fin(p)' = Fin(p)  BY <1>4 DEF RecvFin, Fin, ConnectionInv, TypeOK
  <2>5. NumbersInv'
    <3>1. isns' = isns /\ isns \in Nat
      BY <1>3, ConnectionAssumption DEF ConnectionInv, TypeOK
    <3>2. \E k \in 0..isns' :
            seq_num_s'[p] \in Isn(k)..(Isn(k) + 1 + (sent'[p] - buffered'[p]) + Fin(p)')
      BY <1>3, <2>1, <2>4 DEF ConnectionInv, NumbersInv, Numbered, app
    <3>3. buffered'[p] <= sent'[p]  BY <1>3 DEF ConnectionInv, NumbersInv, app
    <3>. QED  BY <1>2, <1>3, <2>1, <3>1, <3>2, <3>3, NumberingKept DEF app
  <2>. QED  BY <2>2, <2>3, <2>5 DEF ConnectionInv
<1>5. CASE flag_con[p] = 2
  <2>1. PICK k \in 0..isns : Numbered(p, k)  BY DEF ConnectionInv, NumbersInv
  <2>2. Fin(p) = 0  BY <1>5 DEF Fin
  <2>3. seq_num_s[p] \in Numbers /\ seq_num_s[p] + 1 \in Numbers /\ Isn(k) \in Nat
    BY <2>1, <2>2, NumberedRange
  <2>4. /\ acks' \in [Points -> SUBSET Numbers]
        /\ seq_num_s' \in [Points -> Numbers]
        /\ threads' \in [Points -> SUBSET Segment]
        /\ \A r \in Points : threads'[r] \subseteq Acknowledgeable
        /\ seq_num_s'[p] = seq_num_s[p] + 1
        /\ \A r \in Points \ {p} : seq_num_s'[r] = seq_num_s[r]
    <3>1. StartSending(p, "FIN", seq_num_s[p], 0)  BY <1>5 DEF RecvFin
    <3>. QED  BY <2>3, <3>1, StartTyped, SmallNumbers
  <2>5. TypeOK'  BY <1>1, <1>2, <1>3, <2>4 DEF ConnectionInv, TypeOK, app
  <2>6. SegmentsInv'  BY <1>1, <1>3, <2>4 DEF ConnectionInv, SegmentsInv
  <2>7. NumbersInv'
    <3>1. isns' = isns /\ isns \in Nat /\ k \in 0..isns'
      BY <1>3, <2>1, ConnectionAssumption DEF ConnectionInv, TypeOK
    <3>2. buffered[p] <= sent[p] /\ buffered[p] \in Nat /\ sent[p] \in Nat
          /\ buffered' = buffered /\ sent' = sent
      BY <1>3, ConnectionAssumption DEF ConnectionInv, NumbersInv, TypeOK, app
    <3>3. Fin(p)' = 1  BY <1>5 DEF RecvFin, Fin, ConnectionInv, TypeOK
    <3>4. seq_num_s'[p] \in Isn(k)..(Isn(k) + 1 + (sent'[p] - buffered'[p]) + Fin(p)')
      BY <2>1, <2>2, <2>3, <2>4, <3>2, <3>3 DEF Numbered
    <3>5. \A r \in Points \ {p} : sent'[r] = sent[r] /\ buffered'[r] = buffered[r]
      BY <1>3 DEF app
    <3>. QED  BY <1>2, <2>4, <3>1, <3>2, <3>4, <3>5, NumberingKept
  <2>. QED  BY <2>5, <2>6, <2>7 DEF ConnectionInv
<1>. QED  BY <1>4, <1>5

LEMMA SyncThreadStep ==
  ASSUME ConnectionInv, NEW p \in Points, NEW syn \in handlers[p], SyncThread(p, syn)
  PROVE  ConnectionInv'
<1>1. syn \in Segment /\ syn.seq_num + 1 \in Numbers /\ syn.src \in Points
  BY DEF ConnectionInv, SegmentsInv, TypeOK, Segment, Acknowledgeable
<1>2. handlers' \in [Points -> SUBSET Segment] /\ \A r \in Points : handlers'[r] \subseteq handlers[r]
  BY DEF SyncThread, ConnectionInv, TypeOK
<1>3. UNCHANGED <<recv, app, net>>  BY DEF SyncThread
<1>4. CASE flag_con[p] # 0
  <2>1. UNCHANGED <<conn, threads, isns>>  BY <1>4 DEF SyncThread
  <2>2. TypeOK'  BY <1>2, <1>3, <2>1 DEF ConnectionInv, TypeOK, conn, app
  <2>3. SegmentsInv'  BY <1>2, <1>3, <2>1 DEF ConnectionInv, SegmentsInv
  <2>4. NumbersInv'
    BY <1>3, <2>1 DEF ConnectionInv, NumbersInv, Numbered, Fin, conn, app
  <2>. QED  BY <2>2, <2>3, <2>4 DEF ConnectionInv
<1>5. CASE flag_con[p] = 0
  <2>. DEFINE k == isns + 1
  <2>1. Accept(p, syn)  BY <1>5 DEF SyncThread
  <2>2. k \in 0..MaxIsn /\ isns \in Nat
    BY <2>1, ConnectionAssumption DEF Accept, ConnectionInv, TypeOK
  <2>3. Isn(k) \in Nat /\ Isn(k) \in Numbers /\ Isn(k) + 1 \in Numbers
    BY <2>2, IsnFits, Spans
  <2>4. StartSending(p, "SYNACK", Isn(k), syn.seq_num + 1)  BY <2>1 DEF Accept
  <2>. HIDE DEF k
  <2>5. /\ acks' \in [Points -> SUBSET Numbers]
        /\ seq_num_s' \in [Points -> Numbers]
        /\ threads' \in [Points -> SUBSET Segment]
        /\ \A r \in Points : threads'[r] \subseteq Acknowledgeable
        /\ seq_num_s'[p] = Isn(k) + 1
        /\ \A r \in Points \ {p} : seq_num_s'[r] = seq_num_s[r]
    BY <1>1, <2>3, <2>4, StartTyped
  <2>6. TypeOK'
    <3>1. flag_con' \in [Points -> 0..3]  BY <2>1 DEF ConnectionInv, TypeOK, Accept
    <3>2. dest' \in [Points -> Points]  BY <1>1, <2>1 DEF ConnectionInv, TypeOK, Accept
    <3>3. seq_num_r' \in [Points -> Numbers]
      BY <1>1, <2>1 DEF ConnectionInv, TypeOK, Accept
    <3>4. isns' \in 0..MaxIsn  BY <2>1, <2>2 DEF Accept, k
    <3>. QED  BY <1>2, <1>3, <2>5, <3>1, <3>2, <3>3, <3>4 DEF ConnectionInv, TypeOK, app
  <2>7. SegmentsInv'  BY <1>2, <1>3, <2>5 DEF ConnectionInv, SegmentsInv
  <2>8. NumbersInv'
    <3>1. isns' = k /\ isns <= k /\ k \in Nat  BY <2>1, <2>2 DEF Accept, k
    <3>2. \A r \in Points \ {p} :
             /\ seq_num_s'[r] = seq_num_s[r] /\ flag_con'[r] = flag_con[r]
             /\ sent'[r] = sent[r] /\ buffered'[r] = buffered[r]
      BY <1>3, <2>1, <2>5 DEF Accept, ConnectionInv, TypeOK, app
    <3>3. buffered'[p] <= sent'[p] /\ buffered'[p] \in Nat /\ sent'[p] \in Nat
      BY <1>3, ConnectionAssumption DEF ConnectionInv, NumbersInv, TypeOK, app
    <3>4. Fin(p)' = 0  BY <2>1 DEF Accept, Fin, ConnectionInv, TypeOK
    <3>5. seq_num_s'[p] \in Isn(k)..(Isn(k) + 1 + (sent'[p] - buffered'[p]) + Fin(p)')
      BY <2>3, <2>5, <3>3, <3>4
    <3>. QED  BY <2>2, <3>1, <3>2, <3>3, <3>5, NumberingKept
  <2>. QED  BY <2>6, <2>7, <2>8 DEF ConnectionInv
<1>. QED  BY <1>4, <1>5

LEMMA SyncAckThreadStep ==
  ASSUME ConnectionInv, NEW p \in Points, NEW syn \in handlers[p], SyncAckThread(p, syn)
  PROVE  ConnectionInv'
<1>1. syn \in Segment /\ syn.seq_num + 1 \in Numbers /\ dest[p] \in Points
  BY DEF ConnectionInv, SegmentsInv, TypeOK, Segment, Acknowledgeable
<1>2. handlers' \in [Points -> SUBSET Segment] /\ \A r \in Points : handlers'[r] \subseteq handlers[r]
  BY DEF SyncAckThread, ConnectionInv, TypeOK
<1>3. UNCHANGED <<dest, seq_num_s, threads, recv, app, isns>>  BY DEF SyncAckThread
<1>4. \A x \in net' : x \in net \/ x = [to |-> dest[p], seg |-> Ack(p, syn.seq_num + 1)]
  BY Sending DEF SyncAckThread
<1>5. Ack(p, syn.seq_num + 1) \in Acknowledgeable  BY <1>1, AckSegment
<1>6. net' \subseteq [to : Points, seg : Segment] /\ \A x \in net' : x.seg \in Acknowledgeable
  BY <1>1, <1>4, <1>5 DEF ConnectionInv, SegmentsInv, TypeOK, Acknowledgeable
<1>7. TypeOK'
  <2>1. flag_con' \in [Points -> 0..3]  BY DEF ConnectionInv, TypeOK, SyncAckThread
  <2>2. seq_num_r' \in [Points -> Numbers]
    BY <1>1 DEF ConnectionInv, TypeOK, SyncAckThread
  <2>3. acks' \in [Points -> SUBSET Numbers]
    BY DEF ConnectionInv, TypeOK, SyncAckThread
  <2>. QED  BY <1>2, <1>3, <1>6, <2>1, <2>2, <2>3 DEF ConnectionInv, TypeOK, app
<1>8. SegmentsInv'  BY <1>2, <1>3, <1>6 DEF ConnectionInv, SegmentsInv
<1>9. NumbersInv'
  <2>1. \A r \in Points : Fin(r)' = Fin(r)
    BY DEF SyncAckThread, Fin, ConnectionInv, TypeOK
  <2>. QED  BY <1>3, <2>1 DEF ConnectionInv, NumbersInv, Numbered, app
<1>. QED  BY <1>7, <1>8, <1>9 DEF ConnectionInv

LEMMA LoseStep ==
  ASSUME ConnectionInv, NEW m \in net, Lose(m)
  PROVE  ConnectionInv'
<1>1. net' \subseteq net /\ UNCHANGED <<conn, threads, handlers, recv, app, isns>>
  BY DEF Lose
<1>2. TypeOK'  BY <1>1 DEF ConnectionInv, TypeOK, conn, app
<1>3. SegmentsInv'  BY <1>1 DEF ConnectionInv, SegmentsInv
<1>4. NumbersInv'  BY <1>1 DEF ConnectionInv, NumbersInv, Numbered, Fin, conn, app
<1>. QED  BY <1>2, <1>3, <1>4 DEF ConnectionInv

LEMMA NextInv == ConnectionInv /\ [Next]_vars => ConnectionInv'
<1>. SUFFICES ASSUME ConnectionInv, [Next]_vars PROVE ConnectionInv'  OBVIOUS
<1>0. Clients \subseteq Points /\ Senders \subseteq Points  BY ConnectionAssumption
<1>1. CASE UNCHANGED vars
  <2>1. TypeOK'  BY <1>1 DEF vars, conn, app, ConnectionInv, TypeOK
  <2>2. SegmentsInv'  BY <1>1 DEF vars, ConnectionInv, SegmentsInv
  <2>3. NumbersInv'  BY <1>1 DEF vars, conn, app, ConnectionInv, NumbersInv, Numbered, Fin
  <2>. QED  BY <2>1, <2>2, <2>3 DEF ConnectionInv
<1>2. CASE \E p \in Clients : \E q \in Points \ {p} : Connect(p, q)
  BY <1>2, ConnectStep
<1>3. CASE \E p \in Points : CloseConn(p)  BY <1>3, CloseStep
<1>4. CASE \E p \in Senders : SendPoint(p) \/ CutSegment(p)
  BY <1>0, <1>4, SendPointStep, CutStep
<1>5. CASE \E p \in Points : \E s \in threads[p] : SegSend(p, s)  BY <1>5, SegSendStep
<1>6. CASE \E p \in Points : \E m \in net : Handle(p, m)
  BY <1>6, RecvSyncStep, RecvAckStep, RecvDataStep, StopStep, RecvFinStep DEF Handle
<1>7. CASE \E p \in Points : \E s \in handlers[p] : SyncThread(p, s) \/ SyncAckThread(p, s)
  BY <1>7, SyncThreadStep, SyncAckThreadStep
<1>8. CASE \E m \in net : Lose(m)  BY <1>8, LoseStep
<1>. QED  BY <1>1, <1>2, <1>3, <1>4, <1>5, <1>6, <1>7, <1>8 DEF Next

(* For any number of calls and connections: the numbers of a connection    *)
(* never run into those of the next.                                       *)
THEOREM NumbersApart == Spec => []ConnectionInv
<1>. QED  BY InitInv, NextInv, PTL DEF Spec

(* Every variable of the points, the threads and the network keeps its     *)
(* type.                                                                   *)
THEOREM TypeCorrect == Spec => []TypeOK
<1>1. ConnectionInv => TypeOK  BY DEF ConnectionInv
<1>. QED  BY <1>1, NumbersApart, PTL

-----------------------------------------------------------------------------
(* What one call of connect_point leads to.                                *)

(* A point without a connection, now or before. *)
Quiet(p) == /\ flag_con[p] = 0 /\ dest[p] = p /\ seq_num_r[p] = 0
            /\ threads[p] = {} /\ buffered[p] = 0

(* Every segment of p for q: with its thread, in the network, or handed to *)
(* a thread of q.                                                          *)
Underway(p, q) ==
    threads[p] \cup handlers[q] \cup {m.seg : m \in {x \in net : x.to = q}}
HasFin(p, q) == \E x \in Underway(p, q) : x.flags = "FIN"

Fresh == /\ calls = 0 /\ isns = 0 /\ net = {}
         /\ \A p \in Points : Quiet(p) /\ handlers[p] = {}

(* Point c has called connect_point for s; no other point takes part. *)
Pair(c, s) ==
    /\ calls = 1 /\ flag_con[c] \in 0..3 /\ dest[c] = s /\ Numbered(c, 1)
    /\ \A p \in Points \ {c, s} : Quiet(p) /\ handlers[p] = {}
    /\ \A m \in net : m.to \in {c, s}
    /\ \A x \in Underway(c, s) :
         /\ x.flags # "SYNACK"
         /\ x.flags = "SYN" => x.src = c /\ x.seq_num = Isn(1)
    /\ \A x \in Underway(s, c) : x.flags # "SYN"

(* s has not accepted yet. *)
Waiting(c, s) ==
    /\ isns = 1 /\ flag_con[c] = 1 /\ seq_num_r[c] = 0
    /\ Quiet(s) /\ Underway(s, c) = {} /\ ~HasFin(c, s)

(* s is in the connection whose number is k, the second drawn or, where it *)
(* has accepted a late copy of the SYN, a later one.  As long as c is      *)
(* opening or connected, there is no later one; and once s has left the    *)
(* second, or c has, s does not go back to it.                             *)
Accepted(c, s, k) ==
    /\ dest[s] = c /\ seq_num_r[s] = Isn(1) + 1 /\ Numbered(s, k)
    /\ flag_con[c] \in {1, 2} =>
         isns = 2 /\ flag_con[s] \in {2, 3} /\ ~HasFin(c, s)
    /\ flag_con[c] = 1 =>
         /\ seq_num_r[c] = 0
         /\ \A x \in Underway(s, c) : x.flags = "SYNACK" => x.seq_num = Isn(2)
    /\ flag_con[c] # 1 => seq_num_r[c] = Isn(2) + 1
    /\ (flag_con[c] = 0 \/ HasFin(s, c)) => ~(flag_con[s] = 2 /\ k = 2)

OneConnection(c, s) ==
    Pair(c, s) /\ (Waiting(c, s) \/ \E k \in 2..isns : Accepted(c, s, k))

OneConnectionInv ==
    Fresh \/ \E c \in Clients : \E s \in Points \ {c} : OneConnection(c, s)

(* Nothing changes but the numbers, and what is added is data or           *)
(* acknowledgements.                                                       *)
LEMMA SameState ==
  ASSUME NEW c \in Points, NEW s \in Points \ {c}, OneConnection(c, s),
         UNCHANGED <<flag_con, dest, seq_num_r, calls, isns>>,
         Numbered(c, 1)', \A k \in 2..isns : Numbered(s, k) => Numbered(s, k)',
         \A p \in Points : Quiet(p) => threads'[p] = {} /\ buffered'[p] = 0,
         \A p \in Points \ {c, s} : handlers'[p] = {},
         \A m \in net' : m.to \in {c, s},
         \A x \in Underway(c, s)' : x \in Underway(c, s) \/ x.flags \in {"DATA", "ACK"},
         \A x \in Underway(s, c)' : x \in Underway(s, c) \/ x.flags \in {"DATA", "ACK"},
         Quiet(s) => Underway(s, c)' \subseteq Underway(s, c)
  PROVE  OneConnection(c, s)'
<1>1. \A p \in Points : Quiet(p) => Quiet(p)'  BY DEF Quiet
<1>2. HasFin(c, s)' => HasFin(c, s)  BY DEF HasFin
<1>3. HasFin(s, c)' => HasFin(s, c)  BY DEF HasFin
<1>4. Pair(c, s)'
  <2>1. Pair(c, s)  BY DEF OneConnection
  <2>2. calls' = 1 /\ flag_con'[c] \in 0..3 /\ dest'[c] = s  BY <2>1 DEF Pair
  <2>3. \A p \in Points \ {c, s} : Quiet(p)' /\ handlers'[p] = {}
    BY <1>1, <2>1 DEF Pair
  <2>4. \A x \in Underway(c, s)' :
         /\ x.flags # "SYNACK"
         /\ x.flags = "SYN" => x.src = c /\ x.seq_num = Isn(1)
    BY <2>1 DEF Pair
  <2>5. \A x \in Underway(s, c)' : x.flags # "SYN"  BY <2>1 DEF Pair
  <2>. QED  BY <2>2, <2>3, <2>4, <2>5 DEF Pair
<1>5. CASE Waiting(c, s)
  <2>1. Underway(s, c)' = {}  BY <1>5 DEF Waiting
  <2>2. Waiting(c, s)'  BY <1>1, <1>2, <1>5, <2>1 DEF Waiting
  <2>. QED  BY <1>4, <2>2 DEF OneConnection
<1>6. ASSUME NEW k \in 2..isns, Accepted(c, s, k)  PROVE OneConnection(c, s)'
  <2>1. flag_con'[c] = 1 => \A x \in Underway(s, c)' : x.flags = "SYNACK" => x.seq_num = Isn(2)
    BY <1>6 DEF Accepted
  <2>2. Numbered(s, k)'  BY <1>6 DEF Accepted
  <2>3. Accepted(c, s, k)'
    BY <1>2, <1>3, <1>6, <2>1, <2>2 DEF Accepted
  <2>. QED  BY <1>4, <2>3 DEF OneConnection
<1>. QED  BY <1>5, <1>6 DEF OneConnection

(* Only the two points have anything to send or to handle. *)
LEMMA OnlyTwo ==
  ASSUME NEW c \in Points, NEW s \in Points \ {c}, OneConnection(c, s), ConnectionInv,
         NEW p \in Points
  PROVE  /\ (flag_con[p] # 0 \/ threads[p] # {} \/ buffered[p] # 0) =>
              (p = c \/ (p = s /\ ~Quiet(s) /\ dest[s] = c))
         /\ handlers[p] # {} => p \in {c, s}
         /\ dest[c] = s
<1>1. Pair(c, s)  BY DEF OneConnection
<1>2. p # c /\ p # s => Quiet(p) /\ handlers[p] = {}  BY <1>1 DEF Pair
<1>3. Quiet(s) \/ dest[s] = c  BY DEF OneConnection, Waiting, Accepted
<1>. QED  BY <1>1, <1>2, <1>3 DEF Pair, Quiet

LEMMA NumbersSame ==
  ASSUME UNCHANGED <<flag_con, seq_num_s, app>>
  PROVE  \A p, k : Numbered(p, k)' = Numbered(p, k)
BY DEF Numbered, Fin, app

LEMMA NumberedFirst ==
  ASSUME NEW c, NEW s, OneConnection(c, s)  PROVE Numbered(c, 1)
BY DEF OneConnection, Pair

LEMMA OneSegSend ==
  ASSUME NEW c \in Points, NEW s \in Points \ {c}, OneConnection(c, s), ConnectionInv,
         NEW p \in Points, NEW x \in threads[p], SegSend(p, x)
  PROVE  OneConnection(c, s)'
<1>1. /\ \A q \in Points : threads'[q] \subseteq threads[q]
      /\ UNCHANGED <<flag_con, dest, seq_num_s, seq_num_r, app, calls, isns, handlers>>
  BY DEF SegSend, conn, app, ConnectionInv, TypeOK
<1>2. \A m \in net' : m \in net \/ m = [to |-> dest[p], seg |-> x]
  BY Sending DEF SegSend
<1>3. (p = c /\ dest[p] = s) \/ (p = s /\ ~Quiet(s) /\ dest[p] = c)  BY OnlyTwo
<1>4. \A m \in net' : m.to \in {c, s}
  BY <1>2, <1>3 DEF OneConnection, Pair
<1>5. Underway(c, s)' \subseteq Underway(c, s)
  BY <1>1, <1>2, <1>3 DEF Underway
<1>6. Underway(s, c)' \subseteq Underway(s, c)
  BY <1>1, <1>2, <1>3 DEF Underway
<1>7. \A q \in Points : Quiet(q) => threads'[q] = {} /\ buffered'[q] = 0
  BY <1>1 DEF Quiet, app
<1>8. \A q \in Points \ {c, s} : handlers'[q] = {}  BY <1>1 DEF OneConnection, Pair
<1>9. Numbered(c, 1)' /\ \A k \in 2..isns : Numbered(s, k) => Numbered(s, k)'
  BY <1>1, NumbersSame, NumberedFirst
<1>. QED  BY <1>1, <1>4, <1>5, <1>6, <1>7, <1>8, <1>9, SameState

(* The steps in which recv_thread takes a segment, the state of the        *)
(* connections stays, and the segment may be left to a thread.             *)
LEMMA OneTake ==
  ASSUME NEW c \in Points, NEW s \in Points \ {c}, OneConnection(c, s), ConnectionInv,
         NEW p \in Points, NEW m \in net, m.to = p,
         UNCHANGED <<flag_con, dest, seq_num_s, seq_num_r, app, isns, threads>>,
         \A q \in Points : handlers'[q] \subseteq handlers[q] \cup (IF q = p THEN {m.seg} ELSE {}),
         net' \subseteq net
  PROVE  OneConnection(c, s)'
<1>1. p \in {c, s} /\ \A x \in net' : x.to \in {c, s}  BY DEF OneConnection, Pair
<1>2. Underway(c, s)' \subseteq Underway(c, s)  BY DEF Underway
<1>3. Underway(s, c)' \subseteq Underway(s, c)  BY DEF Underway
<1>4. \A q \in Points : Quiet(q) => threads'[q] = {} /\ buffered'[q] = 0
  BY DEF Quiet, app
<1>5. \A q \in Points \ {c, s} : handlers'[q] = {}  BY <1>1 DEF OneConnection, Pair
<1>6. Numbered(c, 1)' /\ \A k \in 2..isns : Numbered(s, k) => Numbered(s, k)'
  BY NumbersSame, NumberedFirst
<1>. QED  BY <1>1, <1>2, <1>3, <1>4, <1>5, <1>6, SameState DEF app

LEMMA OneLose ==
  ASSUME NEW c \in Points, NEW s \in Points \ {c}, OneConnection(c, s), ConnectionInv,
         NEW m \in net, Lose(m)
  PROVE  OneConnection(c, s)'
<1>1. m.to \in Points /\ net' \subseteq net  BY DEF ConnectionInv, TypeOK, Lose
<1>2. /\ UNCHANGED <<flag_con, dest, seq_num_s, seq_num_r, app, isns, threads>>
      /\ \A q \in Points : handlers'[q] \subseteq handlers[q]
  BY DEF Lose, conn
<1>. QED  BY <1>1, <1>2, OneTake

LEMMA OneRecv ==
  ASSUME NEW c \in Points, NEW s \in Points \ {c}, OneConnection(c, s), ConnectionInv,
         NEW p \in Points, NEW m \in net,
         RecvSync(p, m) \/ RecvAck(p, m) \/ LeakMutexCon(p, m) \/ Block(p, m)
  PROVE  OneConnection(c, s)'
<1>1. m.to = p /\ net' \subseteq net
  BY DEF RecvSync, RecvAck, LeakMutexCon, Block, Arrive, Taken
<1>2. UNCHANGED <<flag_con, dest, seq_num_s, seq_num_r, app, isns, threads>>
  BY DEF RecvSync, RecvAck, LeakMutexCon, Block, conn
<1>3. \A q \in Points : handlers'[q] \subseteq handlers[q] \cup (IF q = p THEN {m.seg} ELSE {})
  BY DEF RecvSync, RecvAck, LeakMutexCon, Block, ConnectionInv, TypeOK
<1>. QED  BY <1>1, <1>2, <1>3, OneTake

(* An answer goes to the peer, from a point that has one. *)
LEMMA OneRecvData ==
  ASSUME NEW c \in Points, NEW s \in Points \ {c}, OneConnection(c, s), ConnectionInv,
         NEW p \in Points, NEW m \in net, RecvData(p, m)
  PROVE  OneConnection(c, s)'
<1>. DEFINE a == Ack(p, m.seg.seq_num + 1)
<1>1. (p = c /\ dest[p] = s) \/ (p = s /\ ~Quiet(s) /\ dest[p] = c)
  <2>1. flag_con[p] # 0  BY DEF RecvData
  <2>. QED  BY <2>1, OnlyTwo
<1>2. \A x \in net' : x \in net \/ x = [to |-> dest[p], seg |-> a]
  BY Answering DEF RecvData
<1>3. a.flags = "ACK"  BY DEF Ack
<1>. HIDE DEF a
<1>4. UNCHANGED <<flag_con, dest, seq_num_s, seq_num_r, app, calls, isns, threads, handlers>>
  BY DEF RecvData, conn, app
<1>5. \A x \in net' : x.to \in {c, s}
  BY <1>1, <1>2 DEF OneConnection, Pair
<1>6. \A x \in Underway(c, s)' : x \in Underway(c, s) \/ x.flags \in {"DATA", "ACK"}
  BY <1>2, <1>3, <1>4 DEF Underway
<1>7. \A x \in Underway(s, c)' : x \in Underway(s, c) \/ x.flags \in {"DATA", "ACK"}
  BY <1>2, <1>3, <1>4 DEF Underway
<1>8. Quiet(s) => Underway(s, c)' \subseteq Underway(s, c)
  BY <1>1, <1>2, <1>4 DEF Underway
<1>9. \A q \in Points : Quiet(q) => threads'[q] = {} /\ buffered'[q] = 0
  BY <1>4 DEF Quiet, app
<1>10. \A q \in Points \ {c, s} : handlers'[q] = {}  BY <1>4 DEF OneConnection, Pair
<1>11. Numbered(c, 1)' /\ \A k \in 2..isns : Numbered(s, k) => Numbered(s, k)'
  BY <1>4, NumbersSame, NumberedFirst
<1>. QED  BY <1>4, <1>5, <1>6, <1>7, <1>8, <1>9, <1>10, <1>11, SameState

LEMMA OneSendPoint ==
  ASSUME NEW c \in Points, NEW s \in Points \ {c}, OneConnection(c, s), ConnectionInv,
         NEW p \in Points, SendPoint(p)
  PROVE  OneConnection(c, s)'
<1>0. \A q \in Points : sent[q] \in Nat /\ buffered[q] \in Nat
  BY ConnectionAssumption DEF ConnectionInv, TypeOK
<1>1. UNCHANGED <<flag_con, dest, seq_num_s, seq_num_r, calls, isns, threads, handlers, net>>
  BY DEF SendPoint, conn
<1>2. \A q \in Points : Quiet(q) => threads'[q] = {} /\ buffered'[q] = 0
  BY <1>1 DEF Quiet, SendPoint, ConnectionInv, TypeOK
<1>3. \A q \in Points : sent'[q] - buffered'[q] = sent[q] - buffered[q]
  BY <1>0 DEF SendPoint, ConnectionInv, TypeOK
<1>4. \A q \in Points, k \in Nat : Numbered(q, k)' = Numbered(q, k)
  BY <1>1, <1>3 DEF Numbered, Fin
<1>5. Numbered(c, 1)' /\ \A k \in 2..isns : Numbered(s, k) => Numbered(s, k)'
  BY <1>4, NumberedFirst
<1>6. Underway(c, s)' = Underway(c, s) /\ Underway(s, c)' = Underway(s, c)
  BY <1>1 DEF Underway
<1>7. /\ \A q \in Points \ {c, s} : handlers'[q] = {}
      /\ \A m \in net' : m.to \in {c, s}
  BY <1>1 DEF OneConnection, Pair
<1>. QED  BY <1>1, <1>2, <1>5, <1>6, <1>7, SameState

LEMMA NumberedCut ==
  ASSUME ConnectionInv, NEW p \in Points, CutSegment(p), NEW q \in Points, NEW k \in 0..isns,
         Numbered(q, k)
  PROVE  Numbered(q, k)'
<1>0. /\ sent[q] \in Nat /\ buffered[q] \in Nat /\ buffered[q] <= sent[q]
      /\ Isn(k) \in Nat /\ seq_num_s[q] \in Nat
  <2>1. seq_num_s[q] \in Isn(k)..(Isn(k) + 1 + (sent[q] - buffered[q]) + Fin(q)) /\ Isn(k) \in Nat
    BY NumberedRange DEF Numbered
  <2>. QED
    BY <2>1, ConnectionAssumption DEF ConnectionInv, TypeOK, NumbersInv
<1>1. UNCHANGED <<flag_con, sent>>  BY DEF CutSegment
<1>2. CASE q # p
  <2>1. buffered'[q] = buffered[q] /\ seq_num_s'[q] = seq_num_s[q]
    BY <1>2 DEF CutSegment, StartSending, ConnectionInv, TypeOK
  <2>. QED  BY <1>1, <2>1 DEF Numbered, Fin
<1>3. CASE q = p
  <2>1. buffered'[q] = buffered[q] - 1 /\ seq_num_s'[q] = seq_num_s[q] + 1 /\ buffered[q] > 0
    BY <1>3 DEF CutSegment, StartSending, ConnectionInv, TypeOK
  <2>2. Fin(q)' = Fin(q) /\ Fin(q) \in {0, 1}  BY <1>1 DEF Fin
  <2>. QED  BY <1>0, <1>1, <2>1, <2>2 DEF Numbered
<1>. QED  BY <1>2, <1>3

LEMMA OneCut ==
  ASSUME NEW c \in Points, NEW s \in Points \ {c}, OneConnection(c, s), ConnectionInv,
         NEW p \in Points, CutSegment(p)
  PROVE  OneConnection(c, s)'
<1>. DEFINE y == [flags |-> "DATA", src |-> p, seq_num |-> seq_num_s[p], ack_num |-> 0]
<1>1. UNCHANGED <<flag_con, dest, seq_num_r, calls, isns, handlers, net>>
  BY DEF CutSegment
<1>2. y.flags = "DATA" /\ threads' = [threads EXCEPT ![p] = @ \cup {y}]
  BY DEF CutSegment, StartSending
<1>. HIDE DEF y
<1>3. p = c \/ (p = s /\ ~Quiet(s))
  <2>1. buffered[p] # 0
    BY ConnectionAssumption DEF CutSegment, ConnectionInv, TypeOK
  <2>. QED  BY <2>1, OnlyTwo
<1>4. \A q \in Points : q # p => threads'[q] = threads[q] /\ buffered'[q] = buffered[q]
  BY <1>2 DEF CutSegment, ConnectionInv, TypeOK
<1>5. threads'[p] = threads[p] \cup {y}  BY <1>2 DEF ConnectionInv, TypeOK
<1>6. \A q \in Points : Quiet(q) => threads'[q] = {} /\ buffered'[q] = 0
  <2>1. ~Quiet(p)
    BY ConnectionAssumption DEF Quiet, CutSegment, ConnectionInv, TypeOK
  <2>. QED  BY <1>4, <2>1 DEF Quiet
<1>7. 1 \in 0..isns
  BY ConnectionAssumption DEF OneConnection, Waiting, Accepted, ConnectionInv, TypeOK
<1>8. Numbered(c, 1)' /\ \A k \in 2..isns : Numbered(s, k) => Numbered(s, k)'
  <2>1. \A k \in 2..isns : k \in 0..isns  OBVIOUS
  <2>. QED  BY <1>7, <2>1, NumberedFirst, NumberedCut
<1>9. \A x \in Underway(c, s)' : x \in Underway(c, s) \/ x.flags \in {"DATA", "ACK"}
  BY <1>1, <1>2, <1>4, <1>5 DEF Underway
<1>10. \A x \in Underway(s, c)' : x \in Underway(s, c) \/ x.flags \in {"DATA", "ACK"}
  BY <1>1, <1>2, <1>4, <1>5 DEF Underway
<1>11. Quiet(s) => Underway(s, c)' \subseteq Underway(s, c)
  BY <1>1, <1>3, <1>4 DEF Underway
<1>12. /\ \A q \in Points \ {c, s} : handlers'[q] = {}
       /\ \A m \in net' : m.to \in {c, s}
  BY <1>1 DEF OneConnection, Pair
<1>. QED  BY <1>1, <1>6, <1>8, <1>9, <1>10, <1>11, <1>12, SameState

LEMMA Started ==
  ASSUME ConnectionInv, NEW p \in Points, NEW kind, NEW n, NEW ack,
         StartSending(p, kind, n, ack)
  PROVE  \E y : /\ y = [flags |-> kind, src |-> p, seq_num |-> n, ack_num |-> ack]
                /\ y.flags = kind /\ y.src = p /\ y.seq_num = n
                /\ threads'[p] = threads[p] \cup {y}
                /\ seq_num_s'[p] = n + 1
                /\ \A q \in Points : q # p =>
                     threads'[q] = threads[q] /\ seq_num_s'[q] = seq_num_s[q]
<1>. DEFINE y == [flags |-> kind, src |-> p, seq_num |-> n, ack_num |-> ack]
<1>1. y.flags = kind /\ y.src = p /\ y.seq_num = n  OBVIOUS
<1>2. /\ threads' = [threads EXCEPT ![p] = @ \cup {y}]
      /\ seq_num_s' = [seq_num_s EXCEPT ![p] = n + 1]
  BY DEF StartSending
<1>. HIDE DEF y
<1>3. /\ threads'[p] = threads[p] \cup {y} /\ seq_num_s'[p] = n + 1
      /\ \A q \in Points : q # p =>
           threads'[q] = threads[q] /\ seq_num_s'[q] = seq_num_s[q]
  BY <1>2 DEF ConnectionInv, TypeOK
<1>. QED  BY <1>1, <1>3 DEF y

LEMMA OneConnect ==
  ASSUME ConnectionInv, Fresh, NEW p \in Clients, NEW q \in Points \ {p}, Connect(p, q)
  PROVE  OneConnection(p, q)'
<1>1. p \in Points  BY ConnectionAssumption
<1>2. /\ calls' = 1 /\ isns' = 1 /\ net' = {} /\ dest'[p] = q /\ flag_con'[p] = 1
      /\ UNCHANGED <<seq_num_r, handlers, buffered, sent>>
      /\ \A r \in Points : r # p => dest'[r] = dest[r] /\ flag_con'[r] = flag_con[r]
  BY <1>1 DEF Connect, Fresh, ConnectionInv, TypeOK
<1>3. PICK y : /\ y.flags = "SYN" /\ y.src = p /\ y.seq_num = Isn(1)
               /\ threads'[p] = threads[p] \cup {y}
               /\ seq_num_s'[p] = Isn(1) + 1
               /\ \A r \in Points : r # p => threads'[r] = threads[r]
  <2>1. StartSending(p, "SYN", Isn(1), 0)  BY DEF Connect, Fresh
  <2>. QED  BY <1>1, <2>1, Started
<1>4. Isn(1) \in Nat  BY Spans DEF Isn
<1>5. Numbered(p, 1)'
  <2>1. buffered[p] \in Nat /\ sent[p] \in Nat /\ buffered[p] <= sent[p]
    BY <1>1, ConnectionAssumption DEF ConnectionInv, TypeOK, NumbersInv
  <2>. QED  BY <1>2, <1>3, <1>4, <2>1 DEF Numbered, Fin
<1>6. Underway(p, q)' = {y} /\ Underway(q, p)' = {}
  BY <1>1, <1>2, <1>3 DEF Underway, Fresh, Quiet
<1>7. \A r \in Points : r # p => Quiet(r)' /\ handlers'[r] = {}
  BY <1>2, <1>3 DEF Quiet, Fresh
<1>8. Pair(p, q)'
  BY <1>2, <1>3, <1>5, <1>6, <1>7 DEF Pair
<1>9. ~HasFin(p, q)'  BY <1>3, <1>6 DEF HasFin
<1>10. seq_num_r'[p] = 0  BY <1>1, <1>2 DEF Fresh, Quiet
<1>11. Waiting(p, q)'  BY <1>2, <1>6, <1>7, <1>9, <1>10 DEF Waiting
<1>. QED  BY <1>8, <1>11 DEF OneConnection

(* A FIN takes the last number of a connection.                            *)
LEMMA NumberedFin ==
  ASSUME ConnectionInv, NEW p \in Points, flag_con[p] = 2, NEW k \in 0..isns, Numbered(p, k),
         UNCHANGED app, flag_con'[p] \in {0, 3}, seq_num_s'[p] = seq_num_s[p] + 1
  PROVE  Numbered(p, k)'
<1>0. Fin(p) = 0  BY DEF Fin
<1>1. seq_num_s[p] \in Isn(k)..(Isn(k) + 1 + (sent[p] - buffered[p]) + Fin(p)) /\ Isn(k) \in Nat
  BY NumberedRange DEF Numbered
<1>2. sent[p] \in Nat /\ buffered[p] \in Nat /\ buffered[p] <= sent[p]
  BY ConnectionAssumption DEF ConnectionInv, TypeOK, NumbersInv
<1>3. Fin(p)' = 1  BY DEF Fin
<1>. QED  BY <1>0, <1>1, <1>2, <1>3 DEF Numbered, app

LEMMA OneNumbers ==
  ASSUME NEW c \in Points, NEW s \in Points \ {c}, OneConnection(c, s), ConnectionInv
  PROVE  isns \in Nat /\ 1 \in 0..isns /\ \A k \in 2..isns : k \in 0..isns
BY ConnectionAssumption DEF OneConnection, Waiting, Accepted, ConnectionInv, TypeOK

(* Either point closes the connection that it has.                         *)
LEMMA OneClose ==
  ASSUME NEW c \in Points, NEW s \in Points \ {c}, OneConnection(c, s), ConnectionInv,
         NEW p \in Points, CloseConn(p)
  PROVE  OneConnection(c, s)'
<1>1. /\ UNCHANGED <<dest, seq_num_r, handlers, app, calls, isns, net>>
      /\ flag_con[p] = 2 /\ flag_con'[p] = 3
      /\ \A q \in Points : q # p => flag_con'[q] = flag_con[q]
  BY DEF CloseConn, ConnectionInv, TypeOK, app
<1>2. PICK y : /\ y.flags = "FIN"
               /\ threads'[p] = threads[p] \cup {y}
               /\ seq_num_s'[p] = seq_num_s[p] + 1
               /\ \A q \in Points : q # p =>
                     threads'[q] = threads[q] /\ seq_num_s'[q] = seq_num_s[q]
  BY Started DEF CloseConn
<1>3. p = c \/ (p = s /\ ~Quiet(s))  BY <1>1, OnlyTwo
<1>4. Pair(c, s)  BY DEF OneConnection
<1>5. ~Waiting(c, s)  BY <1>1, <1>3 DEF Waiting
<1>6. PICK k \in 2..isns : Accepted(c, s, k)  BY <1>5 DEF OneConnection
<1>7. \A q \in {c, s}, j \in 0..isns : Numbered(q, j) => Numbered(q, j)'
  <2>. SUFFICES ASSUME NEW q \in {c, s}, NEW j \in 0..isns, Numbered(q, j)
                PROVE  Numbered(q, j)'
    OBVIOUS
  <2>1. CASE q = p  BY <1>1, <1>2, <2>1, NumberedFin
  <2>2. CASE q # p  BY <1>1, <1>2, <2>2 DEF Numbered, Fin, app
  <2>. QED  BY <2>1, <2>2
<1>8. /\ \A q \in Points \ {c, s} : Quiet(q)' /\ handlers'[q] = {}
      /\ \A m \in net' : m.to \in {c, s}
  BY <1>1, <1>2, <1>3, <1>4 DEF Pair, Quiet, app
<1>9. CASE p = c
  <2>1. Underway(c, s)' = Underway(c, s) \cup {y} /\ Underway(s, c)' = Underway(s, c)
    BY <1>1, <1>2, <1>9 DEF Underway
  <2>2. Pair(c, s)'
    BY <1>1, <1>2, <1>4, <1>7, <1>8, <1>9, <2>1, OneNumbers DEF Pair
  <2>3. HasFin(s, c)' = HasFin(s, c)  BY <2>1 DEF HasFin
  <2>4. Accepted(c, s, k)'
    BY <1>1, <1>6, <1>7, <1>9, <2>1, <2>3, OneNumbers DEF Accepted
  <2>. QED  BY <1>1, <2>2, <2>4 DEF OneConnection
<1>10. CASE p = s
  <2>1. Underway(s, c)' = Underway(s, c) \cup {y} /\ Underway(c, s)' = Underway(c, s)
    BY <1>1, <1>2, <1>10 DEF Underway
  <2>2. Pair(c, s)'
    BY <1>1, <1>2, <1>4, <1>7, <1>8, <1>10, <2>1, OneNumbers DEF Pair
  <2>3. HasFin(c, s)' = HasFin(c, s)  BY <2>1 DEF HasFin
  <2>4. Accepted(c, s, k)'
    BY <1>1, <1>2, <1>6, <1>7, <1>10, <2>1, <2>3, OneNumbers DEF Accepted
  <2>. QED  BY <1>1, <2>2, <2>4 DEF OneConnection
<1>. QED  BY <1>3, <1>9, <1>10

(* The server takes a SYN: the first, or a late copy when it has closed.   *)
LEMMA OneSyncThread ==
  ASSUME NEW c \in Points, NEW s \in Points \ {c}, OneConnection(c, s), ConnectionInv,
         NEW p \in Points, NEW syn \in handlers[p], SyncThread(p, syn)
  PROVE  OneConnection(c, s)'
<1>1. /\ UNCHANGED <<app, calls, net>> /\ syn.flags = "SYN"
      /\ \A q \in Points : handlers'[q] \subseteq handlers[q]
  BY DEF SyncThread, app, ConnectionInv, TypeOK
<1>2. Pair(c, s)  BY DEF OneConnection
<1>3. p = s /\ syn.src = c /\ syn.seq_num = Isn(1)
  <2>1. p \in {c, s}  BY OnlyTwo
  <2>2. syn \in Underway(c, p) /\ syn \in Underway(s, p)  BY DEF Underway
  <2>. QED  BY <1>1, <1>2, <2>1, <2>2 DEF Pair
<1>4. CASE flag_con[p] # 0
  <2>1. UNCHANGED <<flag_con, dest, seq_num_s, seq_num_r, isns, threads>>
    BY <1>4 DEF SyncThread, conn
  <2>2. Underway(c, s)' \subseteq Underway(c, s) /\ Underway(s, c)' \subseteq Underway(s, c)
    BY <1>1, <2>1 DEF Underway
  <2>3. \A q \in Points : Quiet(q) => threads'[q] = {} /\ buffered'[q] = 0
    BY <1>1, <2>1 DEF Quiet, app
  <2>4. /\ \A q \in Points \ {c, s} : handlers'[q] = {}
        /\ \A m \in net' : m.to \in {c, s}
    BY <1>1, <1>2 DEF Pair
  <2>5. Numbered(c, 1)' /\ \A k \in 2..isns : Numbered(s, k) => Numbered(s, k)'
    BY <1>1, <2>1, NumbersSame, NumberedFirst
  <2>. QED  BY <1>1, <2>1, <2>2, <2>3, <2>4, <2>5, SameState
<1>5. CASE flag_con[p] = 0
  <2>. PICK k : k = isns + 1  OBVIOUS
  <2>0. Accept(s, syn)  BY <1>3, <1>5 DEF SyncThread
  <2>1. /\ isns \in Nat /\ k \in 2..k /\ isns' = k
        /\ flag_con'[s] = 2 /\ dest'[s] = c /\ seq_num_r'[s] = Isn(1) + 1
        /\ \A q \in Points : q # s =>
             flag_con'[q] = flag_con[q] /\ dest'[q] = dest[q] /\ seq_num_r'[q] = seq_num_r[q]
    BY <1>3, <2>0, OneNumbers DEF Accept, ConnectionInv, TypeOK
  <2>2. PICK y : /\ y.flags = "SYNACK" /\ y.seq_num = Isn(k)
                 /\ threads'[s] = threads[s] \cup {y}
                 /\ seq_num_s'[s] = Isn(k) + 1
                 /\ \A q \in Points : q # s =>
                      threads'[q] = threads[q] /\ seq_num_s'[q] = seq_num_s[q]
    BY <2>0, Started DEF Accept
  <2>3. Isn(k) \in Nat
    <3>1. k \in 0..MaxIsn
      BY <2>0, ConnectionAssumption DEF Accept, ConnectionInv, TypeOK
    <3>. QED  BY <3>1, IsnFits
  <2>4. Numbered(s, k)'
    <3>1. sent[s] \in Nat /\ buffered[s] \in Nat /\ buffered[s] <= sent[s]
      BY ConnectionAssumption DEF ConnectionInv, TypeOK, NumbersInv
    <3>2. Fin(s)' = 0  BY <2>1 DEF Fin
    <3>. QED  BY <1>1, <2>2, <2>3, <3>1, <3>2 DEF Numbered, app
  <2>5. Numbered(c, 1)'
    BY <1>1, <2>1, <2>2, NumberedFirst DEF Numbered, Fin, app
  <2>6. Underway(c, s)' \subseteq Underway(c, s)
    BY <1>1, <2>2 DEF Underway
  <2>7. \A x \in Underway(s, c)' : x \in Underway(s, c) \/ x = y
    BY <1>1, <2>2 DEF Underway
  <2>8. \A q \in Points \ {c, s} : Quiet(q)' /\ handlers'[q] = {}
    BY <1>1, <1>2, <2>1, <2>2 DEF Pair, Quiet, app
  <2>9. Pair(c, s)'
    BY <1>1, <1>2, <2>1, <2>2, <2>5, <2>6, <2>7, <2>8 DEF Pair
  <2>10. HasFin(c, s)' => HasFin(c, s)  BY <2>6 DEF HasFin
  <2>11. HasFin(s, c)' => HasFin(s, c)  BY <2>2, <2>7 DEF HasFin
  <2>12. Accepted(c, s, k)'
    <3>1. CASE Waiting(c, s)
      <4>1. k = 2  BY <3>1, <2>1 DEF Waiting
      <4>2. ~HasFin(s, c)  BY <3>1 DEF Waiting, HasFin
      <4>3. \A x \in Underway(s, c)' : x = y  BY <3>1, <2>7 DEF Waiting
      <4>. QED
        BY <3>1, <4>1, <4>2, <4>3, <2>1, <2>2, <2>4, <2>10, <2>11 DEF Waiting, Accepted
    <3>2. ASSUME NEW j \in 2..isns, Accepted(c, s, j)  PROVE Accepted(c, s, k)'
      <4>1. flag_con[c] \notin {1, 2}  BY <1>3, <1>5, <3>2 DEF Accepted
      <4>2. k # 2  BY <2>1, <3>2
      <4>. QED
        BY <3>2, <4>1, <4>2, <2>1, <2>4 DEF Accepted
    <3>. QED  BY <3>1, <3>2 DEF OneConnection
  <2>. QED  BY <2>1, <2>9, <2>12 DEF OneConnection
<1>. QED  BY <1>4, <1>5

(* The client takes the SYN+ACK of the only connection there is, or        *)
(* ignores one that comes later.                                           *)
LEMMA OneSyncAckThread ==
  ASSUME NEW c \in Points, NEW s \in Points \ {c}, OneConnection(c, s), ConnectionInv,
         NEW p \in Points, NEW syn \in handlers[p], SyncAckThread(p, syn)
  PROVE  OneConnection(c, s)'
<1>1. /\ UNCHANGED <<dest, seq_num_s, threads, app, calls, isns>> /\ syn.flags = "SYNACK"
      /\ \A q \in Points : handlers'[q] \subseteq handlers[q]
  BY DEF SyncAckThread, app, ConnectionInv, TypeOK
<1>2. Pair(c, s)  BY DEF OneConnection
<1>3. p = c /\ syn \in Underway(s, c)
  <2>1. p \in {c, s}  BY OnlyTwo
  <2>2. syn \in Underway(c, p) /\ syn \in Underway(s, p)  BY DEF Underway
  <2>. QED  BY <1>1, <1>2, <2>1, <2>2 DEF Pair
<1>4. ~Waiting(c, s)  BY <1>3 DEF Waiting
<1>5. PICK k \in 2..isns : Accepted(c, s, k)  BY <1>4 DEF OneConnection
<1>6. CASE flag_con[p] # 1
  <2>1. UNCHANGED <<flag_con, seq_num_r, net>>  BY <1>6 DEF SyncAckThread
  <2>2. Underway(c, s)' \subseteq Underway(c, s) /\ Underway(s, c)' \subseteq Underway(s, c)
    BY <1>1, <2>1 DEF Underway
  <2>3. \A q \in Points : Quiet(q) => threads'[q] = {} /\ buffered'[q] = 0
    BY <1>1 DEF Quiet, app
  <2>4. /\ \A q \in Points \ {c, s} : handlers'[q] = {}
        /\ \A m \in net' : m.to \in {c, s}
    BY <1>1, <1>2, <2>1 DEF Pair
  <2>5. Numbered(c, 1)' /\ \A j \in 2..isns : Numbered(s, j) => Numbered(s, j)'
    BY <1>1, <2>1, NumbersSame, NumberedFirst
  <2>. QED  BY <1>1, <2>1, <2>2, <2>3, <2>4, <2>5, SameState
<1>7. CASE flag_con[p] = 1
  <2>. DEFINE a == Ack(p, syn.seq_num + 1)
  <2>0. a.flags = "ACK"  BY DEF Ack
  <2>1. \A m \in net' : m \in net \/ m = [to |-> s, seg |-> a]
    <3>1. net' = With(net, p, a)  BY <1>7 DEF SyncAckThread
    <3>2. dest[p] = s  BY <1>2, <1>3 DEF Pair
    <3>. QED  BY <3>1, <3>2, Sending
  <2>. HIDE DEF a
  <2>2. /\ flag_con'[c] = 2 /\ seq_num_r'[c] = syn.seq_num + 1
        /\ \A q \in Points : q # c => flag_con'[q] = flag_con[q] /\ seq_num_r'[q] = seq_num_r[q]
    BY <1>3, <1>7 DEF SyncAckThread, ConnectionInv, TypeOK
  <2>3. /\ syn.seq_num = Isn(2) /\ isns = 2 /\ flag_con[s] \in {2, 3} /\ ~HasFin(c, s)
    BY <1>1, <1>3, <1>5, <1>7 DEF Accepted
  <2>4. Underway(s, c)' \subseteq Underway(s, c)
    BY <1>1, <2>1 DEF Underway
  <2>5. \A x \in Underway(c, s)' : x \in Underway(c, s) \/ x.flags = "ACK"
    BY <1>1, <2>0, <2>1 DEF Underway
  <2>6. \A q \in Points \ {c, s} : Quiet(q)' /\ handlers'[q] = {}
    BY <1>1, <1>2, <2>2 DEF Pair, Quiet, app
  <2>7. Numbered(c, 1)' /\ Numbered(s, k)'
    <3>1. \A q \in {c, s} : Fin(q)' = Fin(q)  BY <1>3, <1>7, <2>2 DEF Fin
    <3>. QED  BY <1>1, <1>5, <3>1, NumberedFirst DEF Numbered, app, Accepted
  <2>8. Pair(c, s)'
    <3>1. \A m \in net' : m.to \in {c, s}  BY <1>2, <2>1 DEF Pair
    <3>. QED  BY <1>1, <1>2, <2>2, <2>4, <2>5, <2>6, <2>7, <3>1 DEF Pair
  <2>9. ~HasFin(c, s)'  BY <2>3, <2>5 DEF HasFin
  <2>10. HasFin(s, c)' => HasFin(s, c)  BY <2>4 DEF HasFin
  <2>11. Accepted(c, s, k)'
    BY <1>1, <1>5, <2>2, <2>3, <2>7, <2>9, <2>10 DEF Accepted
  <2>. QED  BY <1>1, <2>8, <2>11 DEF OneConnection
<1>. QED  BY <1>6, <1>7

(* A FIN ends the connection of the point that has one: the server only    *)
(* leaves when the client has, and the client only when the server has.    *)
LEMMA OneRecvFin ==
  ASSUME NEW c \in Points, NEW s \in Points \ {c}, OneConnection(c, s), ConnectionInv,
         NEW p \in Points, NEW m \in net, RecvFin(p, m)
  PROVE  OneConnection(c, s)'
<1>. DEFINE a == Ack(p, m.seg.seq_num + 1)
<1>0. a.flags = "ACK"  BY DEF Ack
<1>1. /\ UNCHANGED <<dest, seq_num_r, handlers, app, calls, isns>>
      /\ m.to = p /\ m.seg.flags = "FIN"
  BY DEF RecvFin, Arrive, app
<1>2. Pair(c, s)  BY DEF OneConnection
<1>3. p \in {c, s}  BY <1>1, <1>2 DEF Pair
<1>4. m.seg \in Underway(c, p) /\ m.seg \in Underway(s, p)  BY <1>1 DEF Underway
<1>5. ~Waiting(c, s)
  <2>1. Waiting(c, s) => Underway(s, c) = {} /\ ~HasFin(c, s)  BY DEF Waiting
  <2>. QED  BY <1>1, <1>3, <1>4, <2>1 DEF HasFin
<1>6. PICK k \in 2..isns : Accepted(c, s, k)  BY <1>5 DEF OneConnection
<1>7. dest[c] = s /\ dest[s] = c  BY <1>2, <1>6 DEF Pair, Accepted
<1>8. \A x \in net' : x \in net \/ x = [to |-> dest[p], seg |-> a]
  <2>1. Answer(p, m, Ack(p, m.seg.seq_num + 1)) \/ Taken(m)  BY DEF RecvFin
  <2>. QED  BY <2>1, Answering
<1>. HIDE DEF a
<1>9. \A x \in net' : x.to \in {c, s}  BY <1>2, <1>3, <1>7, <1>8 DEF Pair
<1>10. /\ flag_con'[p] = (IF flag_con[p] \in {2, 3} THEN 0 ELSE flag_con[p])
       /\ \A q \in Points : q # p => flag_con'[q] = flag_con[q]
  BY DEF RecvFin, ConnectionInv, TypeOK
<1>11. \E y : /\ y.flags = "FIN"
              /\ threads'[p] \in {threads[p], threads[p] \cup {y}}
              /\ \A q \in Points : q # p =>
                    threads'[q] = threads[q] /\ seq_num_s'[q] = seq_num_s[q]
              /\ seq_num_s'[p] = (IF flag_con[p] = 2 THEN seq_num_s[p] + 1 ELSE seq_num_s[p])
  <2>1. CASE flag_con[p] = 2
    <3>1. StartSending(p, "FIN", seq_num_s[p], 0)  BY <2>1 DEF RecvFin
    <3>. QED  BY <2>1, <3>1, Started
  <2>2. CASE flag_con[p] # 2
    <3>1. UNCHANGED <<threads, seq_num_s>>  BY <2>2 DEF RecvFin
    <3>. QED  BY <1>1, <2>2, <3>1
  <2>. QED  BY <2>1, <2>2
<1>12. PICK y : /\ y.flags = "FIN"
                /\ threads'[p] \in {threads[p], threads[p] \cup {y}}
                /\ \A q \in Points : q # p =>
                      threads'[q] = threads[q] /\ seq_num_s'[q] = seq_num_s[q]
                /\ seq_num_s'[p] = (IF flag_con[p] = 2 THEN seq_num_s[p] + 1 ELSE seq_num_s[p])
  BY <1>11
<1>13. \A q \in {c, s}, j \in 0..isns : Numbered(q, j) => Numbered(q, j)'
  <2>. SUFFICES ASSUME NEW q \in {c, s}, NEW j \in 0..isns, Numbered(q, j)
                PROVE  Numbered(q, j)'
    OBVIOUS
  <2>1. CASE q = p /\ flag_con[p] = 2
    BY <1>1, <1>10, <1>12, <2>1, NumberedFin
  <2>2. CASE q # p \/ flag_con[p] # 2
    <3>1. Fin(q)' = Fin(q) /\ seq_num_s'[q] = seq_num_s[q]
      BY <1>10, <1>12, <2>2 DEF Fin
    <3>. QED  BY <1>1, <3>1 DEF Numbered, app
  <2>. QED  BY <2>1, <2>2
<1>19. Numbered(c, 1)' /\ Numbered(s, k)'
  BY <1>2, <1>6, <1>13, OneNumbers DEF Pair, Accepted
<1>14. \A q \in Points \ {c, s} : Quiet(q)' /\ handlers'[q] = {}
  BY <1>1, <1>2, <1>3, <1>10, <1>12 DEF Pair, Quiet, app
<1>15. /\ \A x \in Underway(c, s)' : x \in Underway(c, s) \/ x.flags \in {"ACK", "FIN"}
       /\ \A x \in Underway(s, c)' : x \in Underway(s, c) \/ x.flags \in {"ACK", "FIN"}
  BY <1>0, <1>1, <1>3, <1>8, <1>12 DEF Underway
<1>16. Pair(c, s)'
  <2>1. flag_con'[c] \in 0..3  BY <1>10 DEF ConnectionInv, TypeOK
  <2>. QED
    BY <1>1, <1>2, <1>9, <1>14, <1>15, <1>19, <2>1 DEF Pair
<1>17. CASE p = c
  <2>1. \A x \in Underway(s, c)' : x \in Underway(s, c)
    BY <1>1, <1>7, <1>8, <1>12, <1>17 DEF Underway
  <2>2. HasFin(s, c)  BY <1>1, <1>4, <1>17 DEF HasFin
  <2>3. ~(flag_con[s] = 2 /\ k = 2)  BY <1>6, <2>2 DEF Accepted
  <2>4. ASSUME flag_con[c] \in {2, 3}  PROVE Accepted(c, s, k)'
    BY <1>1, <1>6, <1>10, <1>17, <1>19, <2>3, <2>4 DEF Accepted
  <2>5. ASSUME flag_con[c] \notin {2, 3}  PROVE Accepted(c, s, k)'
    <3>1. \A x \in Underway(c, s)' : x \in Underway(c, s) \/ x.flags = "ACK"
      <4>1. threads'[c] = threads[c]
        <5>1. UNCHANGED threads  BY <1>17, <2>5 DEF RecvFin
        <5>. QED  BY <5>1
      <4>. QED  BY <1>0, <1>1, <1>8, <4>1 DEF Underway
    <3>2. HasFin(c, s)' => HasFin(c, s)  BY <3>1 DEF HasFin
    <3>. QED
      BY <1>1, <1>6, <1>10, <1>17, <1>19, <2>1, <2>3, <2>5, <3>2 DEF Accepted
  <2>6. Accepted(c, s, k)'  BY <2>4, <2>5
  <2>. QED  BY <1>1, <1>16, <2>6 DEF OneConnection
<1>18. CASE p = s
  <2>1. flag_con[c] \notin {1, 2}
    <3>1. HasFin(c, s)  BY <1>1, <1>4, <1>18 DEF HasFin
    <3>. QED  BY <1>6, <3>1 DEF Accepted
  <2>2. flag_con'[s] # 2 /\ flag_con'[c] = flag_con[c]  BY <1>10, <1>18
  <2>3. Accepted(c, s, k)'
    BY <1>1, <1>6, <1>19, <2>1, <2>2 DEF Accepted
  <2>. QED  BY <1>1, <1>16, <2>3 DEF OneConnection
<1>. QED  BY <1>3, <1>17, <1>18

LEMMA OneConnectionStep ==
  ASSUME MaxCalls <= 1, ConnectionInv, OneConnectionInv, [Next]_vars
  PROVE  OneConnectionInv'
<1>0. Clients \subseteq Points /\ Senders \subseteq Points /\ MaxCalls \in Nat
  BY ConnectionAssumption
<1>1. CASE Fresh
  <2>1. CASE \E p \in Clients : \E q \in Points \ {p} : Connect(p, q)
    BY <1>1, <2>1, OneConnect DEF OneConnectionInv
  <2>2. CASE UNCHANGED vars
    BY <1>1, <2>2 DEF OneConnectionInv, Fresh, Quiet, vars, conn, app
  <2>3. ~\E p \in Points : CloseConn(p)  BY <1>1 DEF Fresh, Quiet, CloseConn
  <2>4. ~\E p \in Senders : SendPoint(p) \/ CutSegment(p)
    BY <1>0, <1>1 DEF Fresh, Quiet, SendPoint, CutSegment
  <2>5. ~\E p \in Points : \E s \in threads[p] : SegSend(p, s)
    BY <1>1 DEF Fresh, Quiet
  <2>6. net = {} /\ \A p \in Points : handlers[p] = {}  BY <1>1 DEF Fresh
  <2>. QED  BY <2>1, <2>2, <2>3, <2>4, <2>5, <2>6 DEF Next
<1>2. ASSUME NEW c \in Clients, NEW s \in Points \ {c}, OneConnection(c, s)
      PROVE  OneConnection(c, s)'
  <2>0. c \in Points  BY <1>0
  <2>1. CASE \E p \in Clients : \E q \in Points \ {p} : Connect(p, q)
    <3>1. calls = 1  BY <1>2 DEF OneConnection, Pair
    <3>. QED  BY <1>0, <2>1, <3>1 DEF Connect
  <2>2. CASE \E p \in Points : CloseConn(p)  BY <1>2, <2>0, <2>2, OneClose
  <2>3. CASE \E p \in Senders : SendPoint(p) \/ CutSegment(p)
    BY <1>0, <1>2, <2>0, <2>3, OneSendPoint, OneCut
  <2>4. CASE \E p \in Points : \E x \in threads[p] : SegSend(p, x)
    BY <1>2, <2>0, <2>4, OneSegSend
  <2>5. CASE \E p \in Points : \E m \in net : Handle(p, m)
    BY <1>2, <2>0, <2>5, OneRecv, OneRecvData, OneRecvFin DEF Handle
  <2>6. CASE \E p \in Points : \E x \in handlers[p] : SyncThread(p, x) \/ SyncAckThread(p, x)
    BY <1>2, <2>0, <2>6, OneSyncThread, OneSyncAckThread
  <2>7. CASE \E m \in net : Lose(m)  BY <1>2, <2>0, <2>7, OneLose
  <2>8. CASE UNCHANGED vars
    BY <1>2, <2>8 DEF OneConnection, Pair, Waiting, Accepted, HasFin, Underway, Quiet,
                      Numbered, Fin, vars, conn, app
  <2>. QED  BY <2>1, <2>2, <2>3, <2>4, <2>5, <2>6, <2>7, <2>8 DEF Next
<1>3. CASE Fresh  BY <1>1, <1>3
<1>4. CASE \E c \in Clients : \E s \in Points \ {c} : OneConnection(c, s)
  BY <1>2, <1>4 DEF OneConnectionInv
<1>. QED  BY <1>3, <1>4 DEF OneConnectionInv

(* Of one call of connect_point: who takes part, what is on the way, and   *)
(* in which states the two points can be together.                         *)
THEOREM OneCall == ASSUME MaxCalls <= 1 PROVE Spec => []OneConnectionInv
<1>1. Init => OneConnectionInv  BY DEF Init, OneConnectionInv, Fresh, Quiet
<1>2. ConnectionInv /\ OneConnectionInv /\ [Next]_vars => OneConnectionInv'
  BY OneConnectionStep
<1>. QED  BY <1>1, <1>2, NumbersApart, PTL DEF Spec

(* The two points of a connection, by their numbers. *)
LEMMA Together ==
  ASSUME ConnectionInv, NEW c \in Points, NEW s \in Points \ {c}, Pair(c, s),
         NEW k \in 2..isns, Accepted(c, s, k)
  PROVE  /\ ConnOf(seq_num_s[c]) = 1 /\ ConnOf(seq_num_s[s]) = k
         /\ ConnOf(seq_num_r[s]) = 1
         /\ flag_con[c] # 1 => ConnOf(seq_num_r[c]) = 2
<1>1. /\ 1 \in 0..isns /\ 2 \in 0..isns /\ k \in 0..isns
      /\ isns \in Nat /\ isns <= MaxIsn /\ MaxIsn \in Nat
  BY ConnectionAssumption DEF ConnectionInv, TypeOK
<1>2. ConnOf(seq_num_s[c]) = 1 /\ ConnOf(seq_num_s[s]) = k
  BY <1>1, NumberedRange DEF Pair, Accepted
<1>3. \A j \in 0..MaxIsn : ConnOf(Isn(j) + 1) = j
  <2>. SUFFICES ASSUME NEW j \in 0..MaxIsn  PROVE ConnOf(Isn(j) + 1) = j  OBVIOUS
  <2>1. Isn(j) \in Nat /\ Isn(j) + 1 \in Isn(j)..(Isn(j) + Span - 1)
    BY IsnFits, Spans
  <2>. QED  BY <2>1, IsnFits
<1>4. 1 \in 0..MaxIsn /\ 2 \in 0..MaxIsn  BY <1>1
<1>5. ConnOf(seq_num_r[s]) = 1  BY <1>3, <1>4 DEF Accepted
<1>6. flag_con[c] # 1 => ConnOf(seq_num_r[c]) = 2  BY <1>3, <1>4 DEF Accepted
<1>. QED  BY <1>2, <1>5, <1>6

(* connect_point called once: the client is connected only while its       *)
(* server has the same connection, for any number of points, any data and  *)
(* whatever the network loses and repeats.                                 *)
THEOREM ConnectedHasServer ==
  ASSUME MaxCalls <= 1, \A p, q \in Clients : p = q  PROVE Spec => []ClientHasServer
<1>1. ASSUME ConnectionInv, OneConnectionInv  PROVE ClientHasServer
  <2>. SUFFICES ASSUME NEW p \in Clients, flag_con[p] = 2
                PROVE  flag_con[dest[p]] \in {2, 3} /\ SameConnection(p, dest[p])
    BY DEF ClientHasServer
  <2>1. p \in Points  BY ConnectionAssumption
  <2>2. ~Fresh  BY <2>1 DEF Fresh, Quiet
  <2>3. PICK c \in Clients : \E s \in Points \ {c} : OneConnection(c, s)
    BY <1>1, <2>2 DEF OneConnectionInv
  <2>4. PICK s \in Points \ {c} : OneConnection(c, s)  BY <2>3
  <2>5. c = p  OBVIOUS
  <2>6. PICK k \in 2..isns : Accepted(p, s, k)
    BY <2>4, <2>5 DEF OneConnection, Waiting
  <2>7. Pair(p, s)  BY <2>4, <2>5 DEF OneConnection
  <2>8. isns = 2 /\ k = 2 /\ flag_con[s] \in {2, 3}  BY <2>6 DEF Accepted
  <2>9. ConnOf(seq_num_r[p]) = 2
    BY <1>1, <2>1, <2>5, <2>6, <2>7, Together
  <2>. QED
    BY <1>1, <2>1, <2>5, <2>6, <2>7, <2>8, <2>9, Together
    DEF SameConnection, Pair, Accepted
<1>. QED  BY <1>1, OneCall, NumbersApart, PTL

(* connect_point called once: neither point is free again while the other  *)
(* takes the connection for open.                                          *)
THEOREM ClosesInOrder == ASSUME MaxCalls <= 1 PROVE Spec => []OrderlyClose
<1>1. ASSUME ConnectionInv, OneConnectionInv  PROVE OrderlyClose
  <2>. SUFFICES ASSUME NEW p \in Points, NEW q \in Points, flag_con[p] = 0,
                       seq_num_r[p] # 0, SameConnection(p, q)
                PROVE  flag_con[q] # 2
    BY DEF OrderlyClose
  <2>1. ~Fresh  BY DEF Fresh, Quiet
  <2>2. PICK c \in Clients : \E s \in Points \ {c} : OneConnection(c, s)
    BY <1>1, <2>1 DEF OneConnectionInv
  <2>3. PICK s \in Points \ {c} : OneConnection(c, s)  BY <2>2
  <2>4. c \in Points  BY ConnectionAssumption
  <2>5. Pair(c, s)  BY <2>3 DEF OneConnection
  <2>6. p \in {c, s}  BY <2>5 DEF Pair, Quiet
  <2>7. ~Waiting(c, s)  BY <2>6 DEF Waiting, Quiet
  <2>8. PICK k \in 2..isns : Accepted(c, s, k)  BY <2>3, <2>7 DEF OneConnection
  <2>9. CASE p = c
    <3>1. q = s  BY <2>5, <2>9 DEF SameConnection, Pair
    <3>2. k = 2
      BY <1>1, <2>4, <2>5, <2>8, <2>9, <3>1, Together DEF SameConnection
    <3>. QED  BY <2>8, <2>9, <3>1, <3>2 DEF Accepted
  <2>10. CASE p = s
    <3>1. q = c  BY <2>8, <2>10 DEF SameConnection, Accepted
    <3>2. flag_con[c] # 2  BY <2>8, <2>10 DEF Accepted
    <3>. QED  BY <3>1, <3>2
  <2>. QED  BY <2>6, <2>9, <2>10
<1>. QED  BY <1>1, OneCall, NumbersApart, PTL
=============================================================================

------------------------- MODULE FileTransferProofs -------------------------
(***************************************************************************)
(* Theorems about FileTransfer, for messages, files and calls of any       *)
(* number: recv_ips never writes past the end of its buffer, the copy is   *)
(* the file, and the two sides stay in step.                               *)
(*                                                                         *)
(* What a side has read of a message, what is on its way and what its peer *)
(* is sending make one sequence (OnWay), which may have lost its end to a  *)
(* close.  That sequence is always a number of whole messages, and which   *)
(* ones depends on how far the client is with its download (Phase); the    *)
(* chunks of the file follow on one another (Chain).                       *)
(***************************************************************************)
EXTENDS FileTransfer, SequenceTheorems, TLAPS

(* Every length that is on the way is one recv_ips has room for.           *)
Fitting == {u \in Unit : u.is = "length" => u.of <= MAX_BUF_LENGTH}
LengthInv == {sendbuf, recvbuf, stream} \subseteq [Side -> Seq(Fitting)]

BufferInv == TypeOK /\ LengthInv

-----------------------------------------------------------------------------
(* The messages the two programs send. *)
LEMMA NumberFits ==
  ASSUME NEW what \in {"length", "size"}, NEW n \in Nat,
         what = "length" => n <= MAX_BUF_LENGTH
  PROVE  Number(what, n) \in Seq(Fitting) /\ Len(Number(what, n)) = INT
<1>1. INT \in Nat  BY FileTransferAssumption
<1>2. \A i \in 1..INT : [is |-> what, of |-> n, part |-> i] \in Fitting
  BY <1>1 DEF Fitting, Unit
<1>. QED  BY <1>1, <1>2 DEF Number

LEMMA TextFits ==
  ASSUME NEW what \in {"command", "present", "missing"}
  PROVE  Text(what) \in Seq(Fitting) /\ Len(Text(what)) = 1
<1>1. [is |-> what, of |-> 0, part |-> 1] \in Fitting
  BY FileTransferAssumption DEF Fitting, Unit
<1>. QED  BY <1>1 DEF Text

LEMMA FileBytesFit ==
  ASSUME NEW a \in Nat, NEW b \in Nat, a <= b
  PROVE  FileBytes(a, b) \in Seq(Fitting) /\ Len(FileBytes(a, b)) = b - a
<1>1. \A i \in 1..(b - a) : [is |-> "byte", of |-> a + i, part |-> 1] \in Fitting
  BY FileTransferAssumption DEF Fitting, Unit
<1>2. b - a \in Nat  OBVIOUS
<1>. QED  BY <1>1, <1>2 DEF FileBytes

LEMMA MessageFits ==
  ASSUME NEW body \in Seq(Fitting), INT + Len(body) <= MAX_BUF_LENGTH
  PROVE  Message(body) \in Seq(Fitting)
<1>1. INT + Len(body) \in Nat  BY FileTransferAssumption
<1>2. Number("length", INT + Len(body)) \in Seq(Fitting)  BY <1>1, NumberFits
<1>. QED  BY <1>2 DEF Message

LEMMA Joined ==
  ASSUME NEW S, NEW q \in Seq(S), NEW r \in Seq(S)
  PROVE  q \o r \in Seq(S) /\ Len(q \o r) = Len(q) + Len(r)
  OBVIOUS

LEMMA RequestFits ==
  ASSUME NEW name \in {"present", "missing"}
  PROVE  Request(name) \in Seq(Fitting)
<1>1. Text("command") \in Seq(Fitting) /\ Len(Text("command")) = 1  BY TextFits
<1>2. Text(name) \in Seq(Fitting) /\ Len(Text(name)) = 1  BY TextFits
<1>3. Text("command") \o Text(name) \in Seq(Fitting) /\ Len(Text("command") \o Text(name)) = 2
  <2>1. Len(Text("command") \o Text(name)) = Len(Text("command")) + Len(Text(name))
        /\ Text("command") \o Text(name) \in Seq(Fitting)
    BY <1>1, <1>2, Joined
  <2>. QED  BY <1>1, <1>2, <2>1
<1>4. INT + 2 <= MAX_BUF_LENGTH  BY FileTransferAssumption
<1>. QED  BY <1>3, <1>4, MessageFits DEF Request

LEMMA ReplyFits ==
  ASSUME NEW n \in Nat
  PROVE  Reply(n) \in Seq(Fitting)
<1>1. Number("size", n) \in Seq(Fitting) /\ Len(Number("size", n)) = INT  BY NumberFits
<1>. QED  BY <1>1, MessageFits, FileTransferAssumption DEF Reply

LEMMA DataFits ==
  ASSUME BufferInv
  PROVE  /\ PieceEnd \in Nat /\ pos <= PieceEnd
         /\ Data(pos, PieceEnd) \in Seq(Fitting)
<1>1. pos \in Nat /\ file \in Nat  BY FileTransferAssumption DEF BufferInv, TypeOK
<1>2. PieceEnd \in Nat /\ pos <= PieceEnd /\ INT + (PieceEnd - pos) <= MAX_BUF_LENGTH
  BY <1>1, FileTransferAssumption DEF PieceEnd, Min2
<1>3. FileBytes(pos, PieceEnd) \in Seq(Fitting)
      /\ Len(FileBytes(pos, PieceEnd)) = PieceEnd - pos
  BY <1>1, <1>2, FileBytesFit
<1>. QED  BY <1>2, <1>3, MessageFits DEF Data

(* Setting one side of a function of both. *)
LEMMA SetSide ==
  ASSUME NEW S, NEW f \in [Side -> S], NEW s \in Side, NEW x \in S
  PROVE  [f EXCEPT ![s] = x] \in [Side -> S]
  OBVIOUS

LEMMA Sides == \A s \in Side : Peer(s) \in Side
  BY DEF Side, Peer

LEMMA FittingUnits == Fitting \subseteq Unit /\ \A q \in Seq(Fitting) : q \in Seq(Unit)
<1>1. Fitting \subseteq Unit  BY DEF Fitting
<1>. QED  BY <1>1

LEMMA FittingSides == \A f \in [Side -> Seq(Fitting)] : f \in [Side -> Seq(Unit)]
  BY FittingUnits

LEMMA WantedInt == ASSUME BufferInv, NEW s \in Side  PROVE Wanted(s) \in Int
<1>1. recvbuf[s] \in Seq(Unit) /\ INT \in Nat /\ INT >= 1
  BY FileTransferAssumption DEF BufferInv, TypeOK
<1>2. CASE Len(recvbuf[s]) < INT  BY <1>1, <1>2 DEF Wanted
<1>3. CASE ~(Len(recvbuf[s]) < INT)
  <2>1. recvbuf[s][1] \in Unit  BY <1>1, <1>3
  <2>2. recvbuf[s][1].of \in Nat  BY <2>1 DEF Unit
  <2>. QED  BY <1>1, <1>3, <2>2 DEF Wanted
<1>. QED  BY <1>2, <1>3

(* The body of a message that has come. *)
LEMMA BodyTyped ==
  ASSUME BufferInv, NEW s \in Side
  PROVE  /\ Body(s) \in Seq(Unit) /\ Len(Body(s)) \in Nat
         /\ Body(s) # <<>> => Body(s)[1] \in Unit /\ Body(s)[1].of \in Nat
<1>1. recvbuf[s] \in Seq(Unit)  BY DEF BufferInv, TypeOK
<1>2. Body(s) \in Seq(Unit) /\ Len(Body(s)) \in Nat
  BY <1>1, FileTransferAssumption DEF Body
<1>3. Body(s) # <<>> => Body(s)[1] \in Unit  BY <1>2
<1>. QED  BY <1>2, <1>3 DEF Unit

-----------------------------------------------------------------------------
LEMMA InitBuffers == Init => BufferInv
<1>. SUFFICES ASSUME Init  PROVE BufferInv
  OBVIOUS
<1>1. <<>> \in Seq(Fitting)  OBVIOUS
<1>2. LengthInv  BY <1>1 DEF Init, LengthInv
<1>3. {sendbuf, recvbuf, stream} \subseteq [Side -> Seq(Unit)]
  BY <1>2, FittingSides DEF LengthInv
<1>4. \A s \in Side : Len(recvbuf[s]) <= MAX_BUF_LENGTH
  BY FileTransferAssumption DEF Init
<1>5. /\ calls \in [Side -> 0..MaxCalls] /\ file_size \in [Side -> Int]
      /\ pc \in [Side -> {"idle", "request", "reply", "data", "lost"}]
      /\ open \in [Side -> BOOLEAN]
  BY FileTransferAssumption DEF Init
<1>6. copy \in Seq(Unit)  BY DEF Init
<1>. QED  BY <1>2, <1>3, <1>4, <1>5, <1>6 DEF Init, BufferInv, TypeOK

(* A step keeps the invariant when each variable keeps its type and no     *)
(* buffer grows past its end.                                              *)
LEMMA StepTyped ==
  ASSUME BufferInv,
         UNCHANGED file \/ file' \in FileSizes,
         UNCHANGED changes \/ changes' \subseteq {"cut", "grown"},
         UNCHANGED pc \/ pc' \in [Side -> {"idle", "request", "reply", "data", "lost"}],
         UNCHANGED sendbuf \/ sendbuf' \in [Side -> Seq(Fitting)],
         UNCHANGED recvbuf \/ recvbuf' \in [Side -> Seq(Fitting)],
         UNCHANGED recvbuf \/ \A s \in Side : Len(recvbuf'[s]) <= MAX_BUF_LENGTH,
         UNCHANGED stream \/ stream' \in [Side -> Seq(Fitting)],
         UNCHANGED open \/ open' \in [Side -> BOOLEAN],
         UNCHANGED file_size \/ file_size' \in [Side -> Int],
         UNCHANGED fz \/ fz' \in Nat, UNCHANGED copy \/ copy' \in Seq(Unit),
         UNCHANGED pos \/ pos' \in Nat,
         UNCHANGED calls \/ calls' \in [Side -> 0..MaxCalls],
         UNCHANGED abandoned \/ abandoned' \in BOOLEAN
  PROVE  BufferInv'
<1>1. LengthInv'  BY DEF BufferInv, LengthInv
<1>2. {sendbuf', recvbuf', stream'} \subseteq [Side -> Seq(Unit)]
  BY <1>1, FittingSides DEF LengthInv
<1>3. \A s \in Side : Len(recvbuf'[s]) <= MAX_BUF_LENGTH  BY DEF BufferInv, TypeOK
<1>4. /\ file' \in FileSizes /\ changes' \subseteq {"cut", "grown"}
      /\ pc' \in [Side -> {"idle", "request", "reply", "data", "lost"}]
      /\ open' \in [Side -> BOOLEAN] /\ file_size' \in [Side -> Int]
  BY DEF BufferInv, TypeOK
<1>5. /\ fz' \in Nat /\ copy' \in Seq(Unit) /\ pos' \in Nat
      /\ calls' \in [Side -> 0..MaxCalls] /\ abandoned' \in BOOLEAN
  BY DEF BufferInv, TypeOK
<1>. QED  BY <1>1, <1>2, <1>3, <1>4, <1>5 DEF BufferInv, TypeOK

(* What is left of a stream or a buffer. *)
LEMMA Part ==
  ASSUME NEW q \in Seq(Fitting), NEW m \in Nat \ {0}, NEW n \in 0..Len(q)
  PROVE  SubSeq(q, m, n) \in Seq(Fitting)
  OBVIOUS

LEMMA SendIpsTyped ==
  ASSUME BufferInv, NEW s \in Side, SendIps(s)  PROVE BufferInv'
<1>1. sendbuf \in [Side -> Seq(Fitting)] /\ stream \in [Side -> Seq(Fitting)]
      /\ Peer(s) \in Side /\ <<>> \in Seq(Fitting)
  BY Sides DEF BufferInv, LengthInv
<1>2. stream[Peer(s)] \o sendbuf[s] \in Seq(Fitting)  BY <1>1
<1>3. stream' \in [Side -> Seq(Fitting)]  BY <1>1, <1>2, SetSide DEF SendIps
<1>4. sendbuf' \in [Side -> Seq(Fitting)]  BY <1>1, SetSide DEF SendIps
<1>. QED  BY <1>3, <1>4, StepTyped DEF SendIps

(* recv_ips asks for no more than the length says, and that fits.          *)
LEMMA RecvPointTyped ==
  ASSUME BufferInv, NEW s \in Side, RecvPoint(s)  PROVE BufferInv'
<1>1. recvbuf \in [Side -> Seq(Fitting)] /\ stream \in [Side -> Seq(Fitting)]
  BY DEF BufferInv, LengthInv
<1>2. PICK n \in 1..Min2(Wanted(s), Len(stream[s])) :
          /\ recvbuf' = [recvbuf EXCEPT ![s] = @ \o SubSeq(stream[s], 1, n)]
          /\ stream' = [stream EXCEPT ![s] = SubSeq(@, n + 1, Len(@))]
  BY DEF RecvPoint
<1>. DEFINE r == recvbuf[s]  q == stream[s]
<1>3. r \in Seq(Fitting) /\ q \in Seq(Fitting)  BY <1>1
<1>4. Wanted(s) \in Int /\ Len(r) + Wanted(s) <= MAX_BUF_LENGTH
  <2>1. CASE Len(r) < INT
    BY <2>1, <1>3, FileTransferAssumption DEF Wanted
  <2>2. CASE ~(Len(r) < INT)
    <3>1. r[1] \in Fitting /\ r[1].is = "length"
      BY <2>2, <1>3, FileTransferAssumption DEF RecvPoint, HasLength, IsLength
    <3>2. r[1].of \in Nat /\ r[1].of <= MAX_BUF_LENGTH  BY <3>1 DEF Fitting, Unit
    <3>. QED  BY <2>2, <3>2, <1>3 DEF Wanted
  <2>. QED  BY <2>1, <2>2
<1>. HIDE DEF r, q
<1>5. n \in Nat /\ n >= 1 /\ n <= Len(q) /\ Len(r) + n <= MAX_BUF_LENGTH
  <2>1. n \in Nat /\ n >= 1 /\ n <= Min2(Wanted(s), Len(q))  BY <1>2, <1>4, <1>3 DEF q, Min2
  <2>2. Wanted(s) \in Int /\ Len(q) \in Nat /\ Len(r) \in Nat  BY <1>3, <1>4
  <2>. QED  BY <2>1, <2>2, <1>4, FileTransferAssumption DEF Min2
<1>6. SubSeq(q, 1, n) \in Seq(Fitting) /\ Len(SubSeq(q, 1, n)) = n
      /\ SubSeq(q, n + 1, Len(q)) \in Seq(Fitting)
  BY <1>3, <1>5
<1>7. r \o SubSeq(q, 1, n) \in Seq(Fitting) /\ Len(r \o SubSeq(q, 1, n)) <= MAX_BUF_LENGTH
  BY <1>3, <1>5, <1>6
<1>8. recvbuf' \in [Side -> Seq(Fitting)] /\ stream' \in [Side -> Seq(Fitting)]
  BY <1>1, <1>2, <1>6, <1>7, SetSide DEF r, q
<1>9. ASSUME NEW t \in Side  PROVE Len(recvbuf'[t]) <= MAX_BUF_LENGTH
  BY <1>1, <1>2, <1>7 DEF BufferInv, TypeOK, r, q
<1>. QED  BY <1>8, <1>9, StepTyped DEF RecvPoint

LEMMA MisreadTyped ==
  ASSUME BufferInv, NEW s \in Side, Misread(s)  PROVE BufferInv'
<1>1. pc' \in [Side -> {"idle", "request", "reply", "data", "lost"}]
  BY DEF Misread, BufferInv, TypeOK
<1>. QED  BY <1>1, StepTyped DEF Misread

(* A message that was understood leaves an empty buffer.                   *)
LEMMA UnderstoodTyped ==
  ASSUME BufferInv, NEW s \in Side, NEW what, Understood(s, what)
  PROVE  /\ recvbuf' \in [Side -> Seq(Fitting)]
         /\ \A t \in Side : Len(recvbuf'[t]) <= MAX_BUF_LENGTH
<1>1. recvbuf \in [Side -> Seq(Fitting)] /\ <<>> \in Seq(Fitting)
  BY DEF BufferInv, LengthInv
<1>2. recvbuf' = [recvbuf EXCEPT ![s] = <<>>]  BY DEF Understood
<1>3. recvbuf' \in [Side -> Seq(Fitting)]  BY <1>1, <1>2, SetSide
<1>4. ASSUME NEW t \in Side  PROVE Len(recvbuf'[t]) <= MAX_BUF_LENGTH
  BY <1>1, <1>2, FileTransferAssumption DEF BufferInv, TypeOK
<1>. QED  BY <1>3, <1>4

LEMMA BothSides == "client" \in Side /\ "server" \in Side
  BY DEF Side

LEMMA ClientTyped ==
  ASSUME BufferInv, Client  PROVE BufferInv'
<1>. USE BothSides
<1>1. CASE RecvSize
  <2>. DEFINE n == Body("client")[1].of
  <2>1. Understood("client", "reply") /\ Body("client") # <<>>
    BY <1>1 DEF RecvSize, Understood
  <2>2. n \in Nat  BY <2>1, BodyTyped
  <2>3. /\ pc \in [Side -> {"idle", "request", "reply", "data", "lost"}]
        /\ file_size \in [Side -> Int] /\ abandoned \in BOOLEAN /\ fz \in Nat
    BY DEF BufferInv, TypeOK
  <2>. HIDE DEF n
  <2>4. /\ pc' \in [Side -> {"idle", "request", "reply", "data", "lost"}]
        /\ fz' \in Nat /\ file_size' \in [Side -> Int] /\ abandoned' \in BOOLEAN
    <3>1. \/ /\ pc' = [pc EXCEPT !["client"] = "data"]
             /\ file_size' = [file_size EXCEPT !["client"] = n] /\ fz' = n
             /\ UNCHANGED abandoned
          \/ /\ pc' = [pc EXCEPT !["client"] = "idle"]
             /\ abandoned' = (abandoned \/ n # 0)
             /\ UNCHANGED <<file_size, fz>>
      BY <1>1 DEF RecvSize, n
    <3>2. abandoned' \in BOOLEAN  BY <3>1, <2>3, Zenon
    <3>. QED  BY <3>1, <3>2, <2>2, <2>3
  <2>. QED  BY <1>1, <2>1, <2>4, UnderstoodTyped, StepTyped DEF RecvSize
<1>2. CASE RecvData
  <2>1. Understood("client", "data")  BY <1>2 DEF RecvData
  <2>2. Body("client") \in Seq(Unit) /\ Len(Body("client")) \in Nat  BY BodyTyped
  <2>3. copy' \in Seq(Unit) /\ file_size' \in [Side -> Int]
    BY <1>2, <2>2 DEF RecvData, BufferInv, TypeOK
  <2>. QED  BY <1>2, <2>1, <2>3, UnderstoodTyped, StepTyped DEF RecvData
<1>3. CASE DownloadDone
  <2>1. pc' \in [Side -> {"idle", "request", "reply", "data", "lost"}]
    BY <1>3 DEF DownloadDone, BufferInv, TypeOK
  <2>. QED  BY <1>3, <2>1, StepTyped DEF DownloadDone
<1>. QED  BY <1>1, <1>2, <1>3 DEF Client

LEMMA ServerTyped ==
  ASSUME BufferInv, Server  PROVE BufferInv'
<1>. USE BothSides
<1>1. sendbuf \in [Side -> Seq(Fitting)]  BY DEF BufferInv, LengthInv
<1>2. file \in Nat /\ file_size \in [Side -> Int]
      /\ pc \in [Side -> {"idle", "request", "reply", "data", "lost"}]
  BY FileTransferAssumption DEF BufferInv, TypeOK
<1>3. CASE SendNoFile
  <2>1. sendbuf' \in [Side -> Seq(Fitting)]
    BY <1>1, <1>3, ReplyFits, SetSide DEF SendNoFile
  <2>2. pc' \in [Side -> {"idle", "request", "reply", "data", "lost"}]
        /\ file_size' \in [Side -> Int]
    BY <1>2, <1>3 DEF SendNoFile
  <2>3. Understood("server", "request")  BY <1>3 DEF SendNoFile
  <2>. QED  BY <1>3, <2>1, <2>2, <2>3, UnderstoodTyped, StepTyped DEF SendNoFile
<1>4. CASE SendSize
  <2>1. sendbuf' \in [Side -> Seq(Fitting)]
    BY <1>1, <1>2, <1>4, ReplyFits, SetSide DEF SendSize
  <2>2. pc' \in [Side -> {"idle", "request", "reply", "data", "lost"}]
        /\ file_size' \in [Side -> Int]
    BY <1>2, <1>4 DEF SendSize
  <2>3. Understood("server", "request")  BY <1>4 DEF SendSize
  <2>. QED  BY <1>4, <2>1, <2>2, <2>3, UnderstoodTyped, StepTyped DEF SendSize
<1>5. CASE SendData
  <2>1. sendbuf' \in [Side -> Seq(Fitting)]
    BY <1>1, <1>5, DataFits, SetSide DEF SendData
  <2>2. pos \in Nat /\ PieceEnd \in Nat  BY DataFits DEF BufferInv, TypeOK
  <2>3. file_size' \in [Side -> Int] /\ pos' \in Nat
    BY <1>2, <1>5, <2>2 DEF SendData
  <2>. QED  BY <1>5, <2>1, <2>3, StepTyped DEF SendData
<1>6. CASE UploadDone
  <2>1. pc' \in [Side -> {"idle", "request", "reply", "data", "lost"}]
    BY <1>2, <1>6 DEF UploadDone
  <2>. QED  BY <1>6, <2>1, StepTyped DEF UploadDone
<1>. QED  BY <1>3, <1>4, <1>5, <1>6 DEF Server

(* The users: their calls, the file, and the close of a connection.        *)
LEMMA UsersTyped ==
  ASSUME BufferInv,
         \/ Upload
         \/ \E name \in {"present", "missing"} : Download(name)
         \/ \E n \in FileSizes : ChangeFile(n)
         \/ \E s \in Side : CloseConn(s) \/ RecvFin(s)
  PROVE  BufferInv'
<1>. USE BothSides
<1>1. /\ calls \in [Side -> 0..MaxCalls] /\ MaxCalls \in Nat /\ open \in [Side -> BOOLEAN]
      /\ pc \in [Side -> {"idle", "request", "reply", "data", "lost"}]
      /\ sendbuf \in [Side -> Seq(Fitting)] /\ stream \in [Side -> Seq(Fitting)]
  BY FileTransferAssumption DEF BufferInv, TypeOK, LengthInv
<1>2. CASE Upload
  <2>1. calls' \in [Side -> 0..MaxCalls]  BY <1>1, <1>2 DEF Upload
  <2>2. pc' \in [Side -> {"idle", "request", "reply", "data", "lost"}]
    BY <1>1, <1>2 DEF Upload
  <2>. QED  BY <1>2, <2>1, <2>2, StepTyped DEF Upload
<1>3. ASSUME NEW name \in {"present", "missing"}, Download(name)  PROVE BufferInv'
  <2>1. calls' \in [Side -> 0..MaxCalls]  BY <1>1, <1>3 DEF Download
  <2>2. pc' \in [Side -> {"idle", "request", "reply", "data", "lost"}]
    BY <1>1, <1>3 DEF Download
  <2>3. sendbuf' \in [Side -> Seq(Fitting)]
    BY <1>1, <1>3, RequestFits, SetSide DEF Download
  <2>4. copy' \in Seq(Unit) /\ fz' \in Nat  BY <1>3 DEF Download
  <2>. QED  BY <1>3, <2>1, <2>2, <2>3, <2>4, StepTyped DEF Download
<1>4. ASSUME NEW n \in FileSizes, ChangeFile(n)  PROVE BufferInv'
  <2>1. changes' \subseteq {"cut", "grown"}
    BY <1>4 DEF ChangeFile, Change, BufferInv, TypeOK
  <2>. QED  BY <1>4, <2>1, StepTyped DEF ChangeFile
<1>5. ASSUME NEW s \in Side, CloseConn(s) \/ RecvFin(s)  PROVE BufferInv'
  <2>1. PICK n \in 0..Len(stream[s]) : stream' = [stream EXCEPT ![s] = SubSeq(@, 1, n)]
    BY <1>5 DEF CloseConn, RecvFin, Cut
  <2>2. SubSeq(stream[s], 1, n) \in Seq(Fitting)  BY <1>1, <2>1, Part
  <2>3. stream' \in [Side -> Seq(Fitting)]  BY <1>1, <2>1, <2>2, SetSide
  <2>4. open' \in [Side -> BOOLEAN]  BY <1>1, <1>5 DEF CloseConn, RecvFin
  <2>. QED  BY <1>5, <2>3, <2>4, StepTyped DEF CloseConn, RecvFin
<1>. QED  BY <1>2, <1>3, <1>4, <1>5

LEMMA BuffersKept == BufferInv /\ [Next]_vars => BufferInv'
<1>. SUFFICES ASSUME BufferInv, [Next]_vars  PROVE BufferInv'
  OBVIOUS
<1>1. CASE UNCHANGED vars  BY <1>1, StepTyped DEF vars
<1>2. CASE Next
  BY <1>2, ClientTyped, ServerTyped, UsersTyped, SendIpsTyped, RecvPointTyped,
     MisreadTyped DEF Next, Recv
<1>. QED  BY <1>1, <1>2

(* Every variable keeps its type, and recv_ips never writes past the end   *)
(* of the buffer it is given, wherever recv_point cuts the messages and    *)
(* even by a side that is out of step.                                     *)
THEOREM TypeCorrect == Spec => []TypeOK
<1>1. BufferInv => TypeOK  BY DEF BufferInv
<1>. QED  BY InitBuffers, BuffersKept, <1>1, PTL DEF Spec

-----------------------------------------------------------------------------
(* What is on the way to the client is a chain of messages: chunks of the  *)
(* file, one after the other from byte a + 1 up to byte e, each sent while *)
(* fewer than the n bytes announced had been.  M are the places where a    *)
(* message starts, and where the last ends; P is how much of the file is   *)
(* before that place; L are the ends the chunks may have.                  *)
Holds(d, m, x) == \A i \in 1..Len(x) : d[m + i - 1] = x[i]

Cuts(d, M, P, n, L) ==
    \A m \in M \ {Len(d) + 1} :
        /\ P[m] < n
        /\ \E f \in L : /\ P[m] <= f /\ Holds(d, m, Data(P[m], f))
                        /\ m + INT + (f - P[m]) \in M
                        /\ P[m + INT + (f - P[m])] = f

Laid(d, M, P, a, e, n, L) ==
    /\ 1 \in M /\ P[1] = a /\ Len(d) + 1 \in M /\ P[Len(d) + 1] = e
    /\ Cuts(d, M, P, n, L)

Chain(d, a, e, n, L) ==
    \E M \in SUBSET (1..(Len(d) + 1)) : \E P \in [M -> Nat] : Laid(d, M, P, a, e, n, L)

(* Sequences. *)
LEMMA Joined2 ==
  ASSUME NEW S, NEW q \in Seq(S), NEW r \in Seq(S)
  PROVE  /\ q \o r \in Seq(S) /\ Len(q \o r) = Len(q) + Len(r)
         /\ \A i \in 1..Len(q) : (q \o r)[i] = q[i]
         /\ \A i \in 1..Len(r) : (q \o r)[Len(q) + i] = r[i]
         /\ SubSeq(q \o r, Len(q) + 1, Len(q) + Len(r)) = r
<1>1. /\ q \o r \in Seq(S) /\ Len(q \o r) = Len(q) + Len(r)
      /\ \A i \in 1..Len(q) : (q \o r)[i] = q[i]
      /\ \A i \in 1..Len(r) : (q \o r)[Len(q) + i] = r[i]
  OBVIOUS
<1>2. SubSeq(q \o r, Len(q) + 1, Len(q) + Len(r)) = r
  <2>. DEFINE p == SubSeq(q \o r, Len(q) + 1, Len(q) + Len(r))
  <2>1. p \in Seq(S) /\ Len(p) = Len(r) /\ \A i \in 1..Len(r) : p[i] = (q \o r)[Len(q) + i]
    BY <1>1
  <2>. QED  BY <1>1, <2>1, SeqEqual
<1>. QED  BY <1>1, <1>2

LEMMA Cancel ==
  ASSUME NEW S, NEW q \in Seq(S), NEW r \in Seq(S), NEW s \in Seq(S), q \o r = q \o s
  PROVE  r = s
<1>1. /\ Len(q \o r) = Len(q) + Len(r) /\ Len(q \o s) = Len(q) + Len(s)
      /\ \A i \in 1..Len(r) : (q \o r)[Len(q) + i] = r[i]
      /\ \A i \in 1..Len(s) : (q \o s)[Len(q) + i] = s[i]
  BY Joined2
<1>2. Len(r) = Len(s)  BY <1>1
<1>3. \A i \in 1..Len(r) : r[i] = s[i]  BY <1>1, <1>2
<1>. QED  BY <1>2, <1>3, SeqEqual

LEMMA SameStart ==
  ASSUME NEW S, NEW r \in Seq(S), NEW z \in Seq(S), NEW x \in Seq(S), NEW y \in Seq(S),
         r \o z = x \o y, NEW i \in 1..Len(r), i <= Len(x)
  PROVE  r[i] = x[i]
<1>1. (r \o z)[i] = r[i]  BY Joined2
<1>2. i \in 1..Len(x)  OBVIOUS
<1>3. (x \o y)[i] = x[i]  BY <1>2, Joined2
<1>. QED  BY <1>1, <1>3

LEMMA Assoc ==
  ASSUME NEW q \in Seq(Unit), NEW r \in Seq(Unit), NEW s \in Seq(Unit)
  PROVE  (q \o r) \o s = q \o (r \o s)
<1>. DEFINE u == (q \o r) \o s  v == q \o (r \o s)
<1>1. q \o r \in Seq(Unit) /\ r \o s \in Seq(Unit) /\ <<>> \in Seq(Unit)
  BY Joined2, EmptySeq
<1>2. u \in Seq(Unit) /\ v \in Seq(Unit) /\ Len(u) = Len(v)
  BY <1>1
<1>3. ASSUME NEW i \in 1..Len(u)  PROVE u[i] = v[i]
  BY <1>1
<1>4. u = v
  <2>. HIDE DEF u, v
  <2>. QED  BY <1>2, <1>3, SeqEqual
<1>. QED  BY <1>4

LEMMA NoMore ==
  ASSUME NEW q \in Seq(Unit)  PROVE q \o <<>> = q /\ <<>> \o q = q
<1>1. <<>> \in Seq(Unit) /\ q \o <<>> \in Seq(Unit) /\ <<>> \o q \in Seq(Unit)
  OBVIOUS
<1>2. Len(q \o <<>>) = Len(q) /\ \A i \in 1..Len(q) : (q \o <<>>)[i] = q[i]
  OBVIOUS
<1>3. Len(<<>> \o q) = Len(q) /\ \A i \in 1..Len(q) : (<<>> \o q)[i] = q[i]
  OBVIOUS
<1>4. q \o <<>> = q  BY <1>1, <1>2, SeqEqual
<1>5. <<>> \o q = q  BY <1>1, <1>3, SeqEqual
<1>. QED  BY <1>4, <1>5

LEMMA Split ==
  ASSUME NEW q \in Seq(Unit), NEW n \in Nat, n <= Len(q)
  PROVE  /\ SubSeq(q, 1, n) \in Seq(Unit) /\ SubSeq(q, n + 1, Len(q)) \in Seq(Unit)
         /\ SubSeq(q, 1, n) \o SubSeq(q, n + 1, Len(q)) = q
<1>. DEFINE h == SubSeq(q, 1, n)  k == SubSeq(q, n + 1, Len(q))
<1>1. h \in Seq(Unit) /\ Len(h) = n /\ \A i \in 1..n : h[i] = q[i]
  OBVIOUS
<1>2. k \in Seq(Unit) /\ Len(k) = Len(q) - n /\ \A i \in 1..(Len(q) - n) : k[i] = q[n + i]
  OBVIOUS
<1>. HIDE DEF h, k
<1>3. h \o k \in Seq(Unit) /\ Len(h \o k) = Len(q)
  <2>1. h \o k \in Seq(Unit) /\ Len(h \o k) = Len(h) + Len(k)  BY <1>1, <1>2, Joined2
  <2>2. Len(h) = n /\ Len(k) = Len(q) - n  BY <1>1, <1>2
  <2>. QED  BY <2>1, <2>2
<1>4. ASSUME NEW i \in 1..Len(q)  PROVE (h \o k)[i] = q[i]
  <2>1. CASE i <= n  BY <1>1, <1>2, <2>1
  <2>2. CASE ~(i <= n)
    <3>1. (h \o k)[i] = k[i - n] /\ i - n \in 1..(Len(q) - n)  BY <1>1, <1>2, <2>2
    <3>2. k[i - n] = q[n + (i - n)] /\ n + (i - n) = i  BY <1>2, <3>1
    <3>. QED  BY <3>1, <3>2
  <2>. QED  BY <2>1, <2>2
<1>5. h \o k = q  BY <1>3, <1>4, SeqEqual
<1>. QED  BY <1>1, <1>2, <1>5 DEF h, k

(* The messages, as sequences of units. *)
LEMMA MessageShape ==
  ASSUME NEW body \in Seq(Unit)
  PROVE  /\ Message(body) \in Seq(Unit) /\ Len(Message(body)) = INT + Len(body)
         /\ \A i \in 1..INT :
               Message(body)[i] = [is |-> "length", of |-> INT + Len(body), part |-> i]
         /\ SubSeq(Message(body), INT + 1, INT + Len(body)) = body
<1>. DEFINE h == Number("length", INT + Len(body))
            u(i) == [is |-> "length", of |-> INT + Len(body), part |-> i]
<1>1. INT \in Nat /\ Len(body) \in Nat  BY FileTransferAssumption
<1>2. \A i \in 1..INT : u(i) \in Unit  BY <1>1 DEF Unit
<1>3. h = [i \in 1..INT |-> u(i)]  BY DEF Number
<1>. HIDE DEF u, h
<1>4. h \in Seq(Unit) /\ Len(h) = INT /\ \A i \in 1..INT : h[i] = u(i)
  BY <1>1, <1>2, <1>3
<1>5. Message(body) = h \o body  BY DEF Message, h
<1>6. /\ h \o body \in Seq(Unit) /\ Len(h \o body) = INT + Len(body)
      /\ \A i \in 1..INT : (h \o body)[i] = h[i]
      /\ SubSeq(h \o body, INT + 1, INT + Len(body)) = body
  BY <1>4, Joined2
<1>. QED  BY <1>4, <1>5, <1>6 DEF u

LEMMA DataShape ==
  ASSUME NEW a \in Nat, NEW f \in Nat, a <= f
  PROVE  /\ Data(a, f) \in Seq(Unit) /\ Len(Data(a, f)) = INT + (f - a)
         /\ FileBytes(a, f) \in Seq(Unit) /\ Len(FileBytes(a, f)) = f - a
<1>1. FileBytes(a, f) \in Seq(Unit) /\ Len(FileBytes(a, f)) = f - a
  BY FileBytesFit, FittingUnits
<1>. QED  BY <1>1, MessageShape DEF Data

(* Reading the first of what is on the way: r has been read, z is still to *)
(* come.                                                                   *)
LEMMA FirstRead ==
  ASSUME NEW r \in Seq(Unit), NEW z \in Seq(Unit), NEW y \in Seq(Unit),
         NEW body \in Seq(Unit), r \o z = Message(body) \o y, Len(r) >= INT
  PROVE  /\ r[1].is = "length" /\ r[1].of = Len(Message(body))
         /\ SubSeq(r, 1, INT) = Number("length", r[1].of)
<1>. DEFINE x == Message(body)
            u(i) == [is |-> "length", of |-> INT + Len(body), part |-> i]
<1>1. INT \in Nat /\ INT >= 1 /\ Len(body) \in Nat  BY FileTransferAssumption
<1>2. x \in Seq(Unit) /\ Len(x) = INT + Len(body) /\ \A i \in 1..INT : x[i] = u(i)
  BY MessageShape
<1>3. r \o z = x \o y  OBVIOUS
<1>. HIDE DEF x, u
<1>4. \A i \in 1..Len(r) : i <= Len(x) => r[i] = x[i]  BY <1>2, <1>3, SameStart
<1>5. \A i \in 1..INT : i \in 1..Len(r) /\ i <= Len(x)  BY <1>1, <1>2
<1>6. \A i \in 1..INT : r[i] = u(i)  BY <1>2, <1>4, <1>5
<1>7. r[1].is = "length" /\ r[1].of = Len(x)
  <2>1. r[1] = u(1)  BY <1>1, <1>6
  <2>2. r[1].is = "length" /\ r[1].of = INT + Len(body)  BY <2>1 DEF u
  <2>. QED  BY <1>2, <2>2
<1>8. SubSeq(r, 1, INT) = Number("length", r[1].of)
  <2>1. SubSeq(r, 1, INT) = [i \in 1..INT |-> r[i]]  BY <1>1
  <2>2. SubSeq(r, 1, INT) = [i \in 1..INT |-> u(i)]  BY <1>6, <2>1
  <2>3. Len(x) = INT + Len(body)  BY <1>2
  <2>. QED  BY <1>7, <2>2, <2>3 DEF Number, u
<1>. QED  BY <1>7, <1>8 DEF x

LEMMA WholeRead ==
  ASSUME NEW r \in Seq(Unit), NEW z \in Seq(Unit), NEW x \in Seq(Unit), NEW y \in Seq(Unit),
         r \o z = x \o y, Len(r) = Len(x)
  PROVE  r = x /\ z = y
<1>1. \A i \in 1..Len(r) : i <= Len(x) => r[i] = x[i]  BY SameStart
<1>2. \A i \in 1..Len(r) : r[i] = x[i]  BY <1>1
<1>3. r = x  BY <1>2, SeqEqual
<1>4. x \o z = x \o y  BY <1>3
<1>5. z = y  BY <1>4, Cancel
<1>. QED  BY <1>3, <1>5

-----------------------------------------------------------------------------
(* Chains. *)
LEMMA ChainEmpty ==
  ASSUME NEW a \in Nat, NEW n, NEW L  PROVE Chain(<<>>, a, a, n, L)
<1>. DEFINE P == [m \in {1} |-> a]
<1>1. {1} \in SUBSET (1..(Len(<<>>) + 1)) /\ P \in [{1} -> Nat]  OBVIOUS
<1>2. Cuts(<<>>, {1}, P, n, L)  BY DEF Cuts
<1>. QED  BY <1>1, <1>2 DEF Chain, Laid

LEMMA ChainNone ==
  ASSUME NEW d \in Seq(Unit), NEW a \in Nat, NEW e, NEW n \in Nat, NEW L,
         Chain(d, a, e, n, L)
  PROVE  e \in Nat /\ (d = <<>> => e = a) /\ (a >= n => d = <<>>)
<1>0. PICK M \in SUBSET (1..(Len(d) + 1)) :
          \E P \in [M -> Nat] : Laid(d, M, P, a, e, n, L)
  BY DEF Chain
<1>a. PICK P \in [M -> Nat] : Laid(d, M, P, a, e, n, L)  BY <1>0
<1>1. /\ 1 \in M /\ P[1] = a /\ Len(d) + 1 \in M /\ P[Len(d) + 1] = e
      /\ Cuts(d, M, P, n, L)
  BY <1>a DEF Laid
<1>b. \A m \in M : m \in Nat /\ m >= 1 /\ m <= Len(d) + 1 /\ P[m] \in Nat
  OBVIOUS
<1>2. ASSUME a >= n, d # <<>>  PROVE FALSE
  <2>1. 1 \in M \ {Len(d) + 1}  BY <1>1, <1>2
  <2>. QED  BY <1>1, <1>2, <2>1 DEF Cuts
<1>. QED  BY <1>1, <1>2

LEMMA ChainMore ==
  ASSUME NEW d, NEW a, NEW e, NEW n, NEW L, NEW K, L \subseteq K, Chain(d, a, e, n, L)
  PROVE  Chain(d, a, e, n, K)
<1>1. ASSUME NEW M, NEW P, Cuts(d, M, P, n, L)  PROVE Cuts(d, M, P, n, K)
  BY <1>1 DEF Cuts
<1>. QED  BY <1>1 DEF Chain, Laid

(* The server sends the next chunk; *)
LEMMA ChainSent ==
  ASSUME NEW d \in Seq(Unit), NEW a \in Nat, NEW e \in Nat, NEW n \in Nat,
         NEW L \in SUBSET Nat, Chain(d, a, e, n, L), e < n, NEW f \in L, e <= f
  PROVE  Chain(d \o Data(e, f), a, f, n, L)
<1>0. PICK M \in SUBSET (1..(Len(d) + 1)) :
          \E P \in [M -> Nat] : Laid(d, M, P, a, e, n, L)
  BY DEF Chain
<1>a. PICK P \in [M -> Nat] : Laid(d, M, P, a, e, n, L)  BY <1>0
<1>1. /\ 1 \in M /\ P[1] = a /\ Len(d) + 1 \in M /\ P[Len(d) + 1] = e
      /\ Cuts(d, M, P, n, L)
  BY <1>a DEF Laid
<1>b. \A m \in M : m \in Nat /\ m >= 1 /\ m <= Len(d) + 1 /\ P[m] \in Nat
  OBVIOUS
<1>. DEFINE x == Data(e, f)
            z == d \o x
            N == M \cup {Len(z) + 1}
            Q == [m \in N |-> IF m = Len(z) + 1 THEN f ELSE P[m]]
<1>2. f \in Nat /\ INT \in Nat /\ INT >= 1  BY FileTransferAssumption
<1>3. x \in Seq(Unit) /\ Len(x) = INT + (f - e)  BY <1>2, DataShape
<1>. HIDE DEF x
<1>4. /\ z \in Seq(Unit) /\ Len(z) = Len(d) + Len(x) /\ Len(x) \in Nat /\ Len(x) >= 1
      /\ \A i \in 1..Len(d) : z[i] = d[i]
      /\ \A i \in 1..Len(x) : z[Len(d) + i] = x[i]
  BY <1>2, <1>3
<1>. HIDE DEF z
<1>5. N \in SUBSET (1..(Len(z) + 1)) /\ Q \in [N -> Nat]
  <2>1. Len(d) \in Nat /\ Len(z) \in Nat /\ Len(d) <= Len(z)  BY <1>4
  <2>2. N \in SUBSET (1..(Len(z) + 1))  BY <1>b, <2>1
  <2>3. \A m \in N : (IF m = Len(z) + 1 THEN f ELSE P[m]) \in Nat  BY <1>2
  <2>. HIDE DEF N
  <2>. QED  BY <2>2, <2>3
<1>6. \A m \in M : m \in N /\ Q[m] = P[m] /\ m <= Len(d) + 1 /\ m \in Nat  BY <1>4
<1>7. Q[Len(z) + 1] = f /\ Len(z) + 1 \in N  OBVIOUS
<1>. HIDE DEF N, Q
<1>8. ASSUME NEW m \in N \ {Len(z) + 1}
      PROVE  /\ Q[m] < n
             /\ \E g \in L : /\ Q[m] <= g /\ Holds(z, m, Data(Q[m], g))
                             /\ m + INT + (g - Q[m]) \in N
                             /\ Q[m + INT + (g - Q[m])] = g
  <2>1. m \in M  BY DEF N
  <2>2. CASE m = Len(d) + 1
    <3>1. Q[m] = e  BY <1>1, <1>6, <2>1, <2>2
    <3>2. Holds(z, m, x)  BY <1>4, <2>2 DEF Holds
    <3>3. m + INT + (f - e) = Len(z) + 1  BY <1>2, <1>3, <1>4, <2>2
    <3>. QED  BY <1>7, <3>1, <3>2, <3>3 DEF x
  <2>3. CASE m # Len(d) + 1
    <3>1. PICK g \in L : /\ P[m] <= g /\ Holds(d, m, Data(P[m], g))
                         /\ m + INT + (g - P[m]) \in M
                         /\ P[m + INT + (g - P[m])] = g
      BY <1>1, <2>1, <2>3 DEF Cuts
    <3>2. P[m] < n  BY <1>1, <2>1, <2>3 DEF Cuts
    <3>3. g \in Nat /\ P[m] \in Nat /\ m \in Nat /\ m >= 1  BY <2>1
    <3>4. Len(Data(P[m], g)) = INT + (g - P[m])  BY <3>1, <3>3, DataShape
    <3>5. m + INT + (g - P[m]) <= Len(d) + 1  BY <1>6, <3>1
    <3>6. Holds(z, m, Data(P[m], g))
      <4>. DEFINE k == INT + (g - P[m])
      <4>0. m + k <= Len(d) + 1  BY <1>2, <3>3, <3>5
      <4>g. P[m] <= g  BY <3>1
      <4>h. g - P[m] \in Nat  BY <3>3, <4>g
      <4>k. k \in Nat  BY <1>2, <4>h
      <4>1. k \in Nat /\ m + k <= Len(d) + 1  BY <4>0, <4>k
      <4>. HIDE DEF k
      <4>2. ASSUME NEW i \in 1..k  PROVE z[m + i - 1] = d[m + i - 1]
        <5>1. m + i - 1 \in 1..Len(d)  BY <3>3, <4>1
        <5>. QED  BY <1>4, <5>1
      <4>3. Len(Data(P[m], g)) = k  BY <3>4 DEF k
      <4>. QED  BY <3>1, <4>2, <4>3 DEF Holds
    <3>7. Q[m] = P[m] /\ m + INT + (g - P[m]) \in N /\ Q[m + INT + (g - P[m])] = g
      BY <1>6, <2>1, <3>1
    <3>. QED  BY <3>1, <3>2, <3>6, <3>7
  <2>. QED  BY <2>2, <2>3
<1>9. Cuts(z, N, Q, n, L)  BY <1>8 DEF Cuts
<1>10. 1 \in N /\ Q[1] = a  BY <1>1, <1>6
<1>11. Chain(z, a, f, n, L)  BY <1>5, <1>7, <1>9, <1>10 DEF Chain, Laid
<1>. QED  BY <1>11 DEF z, x

(* the client takes the first. *)
LEMMA ChainFirst ==
  ASSUME NEW d \in Seq(Unit), NEW a \in Nat, NEW e, NEW n \in Nat, NEW L \in SUBSET Nat,
         Chain(d, a, e, n, L), d # <<>>
  PROVE  /\ a < n
         /\ \E f \in L : \E y \in Seq(Unit) :
               a <= f /\ d = Data(a, f) \o y /\ Chain(y, f, e, n, L)
<1>0. PICK M \in SUBSET (1..(Len(d) + 1)) :
          \E P \in [M -> Nat] : Laid(d, M, P, a, e, n, L)
  BY DEF Chain
<1>a. PICK P \in [M -> Nat] : Laid(d, M, P, a, e, n, L)  BY <1>0
<1>1. /\ 1 \in M /\ P[1] = a /\ Len(d) + 1 \in M /\ P[Len(d) + 1] = e
      /\ Cuts(d, M, P, n, L)
  BY <1>a DEF Laid
<1>b. \A m \in M : m \in Nat /\ m >= 1 /\ m <= Len(d) + 1 /\ P[m] \in Nat
  OBVIOUS
<1>2. 1 \in M \ {Len(d) + 1}  BY <1>1
<1>3. a < n  BY <1>1, <1>2 DEF Cuts
<1>4. PICK f \in L : /\ a <= f /\ Holds(d, 1, Data(a, f))
                     /\ 1 + INT + (f - a) \in M /\ P[1 + INT + (f - a)] = f
  BY <1>1, <1>2 DEF Cuts
<1>5. f \in Nat /\ INT \in Nat /\ INT >= 1  BY FileTransferAssumption
<1>. DEFINE k == INT + (f - a)
            x == Data(a, f)
            y == SubSeq(d, k + 1, Len(d))
            N == {m \in 1..(Len(y) + 1) : m + k \in M}
            Q == [m \in N |-> P[m + k]]
<1>6. x \in Seq(Unit) /\ Len(x) = k /\ k \in Nat /\ k >= 1 /\ k + 1 \in M /\ P[k + 1] = f
      /\ k <= Len(d)
  <2>1. k \in Nat /\ k >= 1 /\ 1 + INT + (f - a) = k + 1  BY <1>4, <1>5
  <2>2. x \in Seq(Unit) /\ Len(x) = k  BY <1>4, <1>5, DataShape
  <2>3. k + 1 \in M /\ P[k + 1] = f  BY <1>4, <2>1
  <2>4. k + 1 <= Len(d) + 1  BY <1>b, <2>3
  <2>. QED  BY <2>1, <2>2, <2>3, <2>4
<1>7. Holds(d, 1, x)  BY <1>4
<1>. HIDE DEF x, k
<1>8. y \in Seq(Unit) /\ Len(y) = Len(d) - k /\ Len(y) \in Nat
      /\ \A i \in 1..Len(y) : y[i] = d[k + i]
  BY <1>6
<1>. HIDE DEF y
<1>9. d = x \o y
  <2>1. x \o y \in Seq(Unit) /\ Len(x \o y) = Len(d)
        /\ \A i \in 1..Len(d) : (x \o y)[i] = IF i <= k THEN x[i] ELSE y[i - k]
    <3>1. Len(x) + Len(y) = Len(d)  BY <1>6, <1>8
    <3>. QED  BY <1>6, <1>8, <3>1, ConcatProperties
  <2>2. ASSUME NEW i \in 1..Len(d)  PROVE d[i] = (x \o y)[i]
    <3>1. CASE i <= k
      <4>1. i \in 1..Len(x)  BY <3>1, <1>6
      <4>2. d[1 + i - 1] = x[i]  BY <4>1, <1>7 DEF Holds
      <4>3. 1 + i - 1 = i  OBVIOUS
      <4>. QED  BY <2>1, <3>1, <4>2, <4>3
    <3>2. CASE ~(i <= k)
      <4>1. i - k \in 1..Len(y) /\ k + (i - k) = i  BY <3>2, <1>6, <1>8
      <4>2. y[i - k] = d[i]  BY <1>8, <4>1
      <4>. QED  BY <2>1, <3>2, <4>2
    <3>. QED  BY <3>1, <3>2
  <2>. QED  BY <2>1, <2>2, SeqEqual
<1>10. Chain(y, f, e, n, L)
  <2>1. N \in SUBSET (1..(Len(y) + 1)) /\ Q \in [N -> Nat]  OBVIOUS
  <2>2. 1 \in N /\ Q[1] = f
    <3>1. 1 + k = k + 1 /\ 1 \in 1..(Len(y) + 1)  BY <1>6, <1>8
    <3>. QED  BY <1>6, <3>1
  <2>3. Len(y) + 1 \in N /\ Q[Len(y) + 1] = e
    <3>1. (Len(y) + 1) + k = Len(d) + 1 /\ Len(y) + 1 \in 1..(Len(y) + 1)  BY <1>6, <1>8
    <3>. QED  BY <1>1, <3>1
  <2>4. Cuts(y, N, Q, n, L)
    <3>. SUFFICES ASSUME NEW m \in N \ {Len(y) + 1}
                  PROVE  /\ Q[m] < n
                         /\ \E g \in L : /\ Q[m] <= g /\ Holds(y, m, Data(Q[m], g))
                                         /\ m + INT + (g - Q[m]) \in N
                                         /\ Q[m + INT + (g - Q[m])] = g
      BY DEF Cuts
    <3>1. m \in Nat /\ m >= 1 /\ m <= Len(y) /\ m + k \in M \ {Len(d) + 1} /\ Q[m] = P[m + k]
      BY <1>6, <1>8
    <3>2. P[m + k] < n  BY <1>1, <3>1 DEF Cuts
    <3>3. PICK g \in L : /\ P[m + k] <= g /\ Holds(d, m + k, Data(P[m + k], g))
                         /\ (m + k) + INT + (g - P[m + k]) \in M
                         /\ P[(m + k) + INT + (g - P[m + k])] = g
      BY <1>1, <3>1 DEF Cuts
    <3>4. g \in Nat /\ Q[m] \in Nat /\ Q[m] <= g  BY <1>b, <3>1, <3>3
    <3>. DEFINE j == INT + (g - Q[m])
                w == Data(Q[m], g)
    <3>5. Len(w) = j /\ j \in Nat
      <4>1. Len(w) = j  BY <3>4, DataShape
      <4>. QED  BY <1>5, <3>4, <4>1
    <3>6. (m + j) + k \in M /\ P[(m + j) + k] = g
      <4>1. P[m + k] = Q[m] /\ Q[m] \in Nat /\ g \in Nat  BY <3>1, <3>4
      <4>2. m \in Nat /\ k \in Nat /\ INT \in Nat  BY <1>5, <1>6, <3>1
      <4>. HIDE DEF N, Q
      <4>3. (m + k) + INT + (g - Q[m]) = (m + j) + k  BY <4>1, <4>2
      <4>. QED  BY <3>3, <4>1, <4>3
    <3>7. m + j \in 1..(Len(y) + 1)
      <4>1. (m + j) + k <= Len(d) + 1  BY <1>b, <3>6
      <4>2. m \in Nat /\ m >= 1  BY <3>1
      <4>3. j \in Nat  BY <3>5
      <4>4. k \in Nat /\ Len(d) \in Nat /\ Len(y) = Len(d) - k  BY <1>6, <1>8
      <4>. HIDE DEF j, N, Q
      <4>. QED  BY <4>1, <4>2, <4>3, <4>4
    <3>8. m + j \in N /\ Q[m + j] = g  BY <3>6, <3>7
    <3>9. Holds(d, m + k, w)  BY <3>1, <3>3
    <3>10. m + INT + (g - Q[m]) = m + j  BY <1>5, <3>1, <3>4
    <3>. HIDE DEF j, w, N, Q
    <3>11. Holds(y, m, w)
      <4>1. ASSUME NEW i \in 1..j  PROVE y[m + i - 1] = w[i]
        <5>1. m + i - 1 \in 1..Len(y)  BY <3>1, <3>5, <3>7
        <5>2. y[m + i - 1] = d[k + (m + i - 1)]  BY <1>8, <5>1
        <5>3. k + (m + i - 1) = (m + k) + i - 1  BY <1>6, <3>1
        <5>4. d[(m + k) + i - 1] = w[i]  BY <3>5, <3>9 DEF Holds
        <5>. QED  BY <5>2, <5>3, <5>4
      <4>. QED  BY <3>5, <4>1 DEF Holds
    <3>. QED  BY <3>1, <3>2, <3>3, <3>8, <3>10, <3>11 DEF w
  <2>. HIDE DEF N, Q
  <2>. QED  BY <2>1, <2>2, <2>3, <2>4 DEF Chain, Laid
<1>. QED  BY <1>3, <1>4, <1>8, <1>9, <1>10 DEF x

-----------------------------------------------------------------------------
(* What side s has read of a message and what is still to come: x, of      *)
(* which an end may have been lost when the connection was closed.         *)
Coming(s) == stream[s] \o (IF open[s] THEN sendbuf[Peer(s)] ELSE <<>>)
OnWay(s, x) == \E lost \in Seq(Unit) : /\ (recvbuf[s] \o Coming(s)) \o lost = x
                                       /\ open[s] => lost = <<>>

(* Where a chunk of the file may end. *)
Reach == IF changes = {} THEN 0..file ELSE Nat

(* The server has announced n bytes and sent e. *)
Busy == pc["server"] = "data" /\ file_size["server"] > 0
Serving(n, e) ==
    \/ pc["server"] = "data" /\ pos = e /\ file_size["server"] = n - e
    \/ pc["server"] \in {"idle", "request"} /\ e >= n

(* A download goes through these: nothing is on the way; *)
Resting ==
    /\ pc["client"] = "idle" /\ sendbuf["client"] = <<>>
    /\ OnWay("server", <<>>) /\ OnWay("client", <<>>)
    /\ open["client"] => ~Busy

(* the request is; *)
Requested ==
    /\ pc["client"] = "reply" /\ fz = 0 /\ copy = <<>>
    /\ \E name \in {"present", "missing"} : OnWay("server", Request(name))
    /\ OnWay("client", <<>>)
    /\ sendbuf["client"] # <<>> => recvbuf["server"] = <<>> /\ stream["server"] = <<>>
    /\ open["client"] => ~Busy

(* the answer is, with the first chunks; *)
Answered ==
    /\ pc["client"] = "reply" /\ fz = 0 /\ copy = <<>> /\ sendbuf["client"] = <<>>
    /\ OnWay("server", <<>>)
    /\ \E n \in Nat : \E d \in Seq(Unit) : \E e \in Nat :
          /\ changes = {} => n \in {0, file}
          /\ OnWay("client", Reply(n) \o d) /\ Chain(d, 0, e, n, Reach)
          /\ open["client"] => Serving(n, e)

(* only chunks are. *)
Copying ==
    /\ pc["client"] = "data" /\ sendbuf["client"] = <<>> /\ OnWay("server", <<>>)
    /\ fz > 0 /\ file_size["client"] = fz - Len(copy) /\ Len(copy) \in Reach
    /\ changes = {} => fz = file
    /\ \E d \in Seq(Unit) : \E e \in Nat :
          /\ OnWay("client", d) /\ Chain(d, Len(copy), e, fz, Reach)
          /\ open["client"] => Serving(fz, e)

InPhase == pc["server"] # "lost" /\ (Resting \/ Requested \/ Answered \/ Copying)

(* After a download that was given up the client meets a chunk of it first. *)
LeftOver(x) ==
    /\ x = <<>> /\ open["client"] => Busy
    /\ x # <<>> => \E a \in Nat : \E f \in Nat : \E y \in Seq(Unit) :
                      a <= f /\ x = Data(a, f) \o y
GivenUp ==
    /\ fz = 0 /\ copy = <<>> /\ pc["client"] \in {"idle", "reply", "lost"}
    /\ \E x \in Seq(Unit) : OnWay("client", x) /\ LeftOver(x)

RolesInv == /\ pc["client"] # "request" /\ pc["server"] # "reply"
            /\ pc["server"] = "request" => pos = 0
Phase == IF abandoned THEN GivenUp ELSE InPhase
PhaseInv == RolesInv /\ FaithfulCopy /\ Phase

TransferInv == BufferInv /\ PhaseInv

-----------------------------------------------------------------------------
(* How what is on the way changes. *)
LEMMA SideTypes ==
  ASSUME BufferInv, NEW s \in Side
  PROVE  /\ recvbuf[s] \in Seq(Unit) /\ stream[s] \in Seq(Unit) /\ Coming(s) \in Seq(Unit)
         /\ sendbuf[s] \in Seq(Unit) /\ sendbuf[Peer(s)] \in Seq(Unit) /\ Peer(s) \in Side
<1>1. recvbuf[s] \in Seq(Unit) /\ stream[s] \in Seq(Unit) /\ sendbuf[s] \in Seq(Unit)
      /\ Peer(s) \in Side
  BY Sides DEF BufferInv, TypeOK
<1>2. sendbuf[Peer(s)] \in Seq(Unit)  BY <1>1 DEF BufferInv, TypeOK
<1>3. <<>> \in Seq(Unit)  OBVIOUS
<1>4. (IF open[s] THEN sendbuf[Peer(s)] ELSE <<>>) \in Seq(Unit)  BY <1>2, <1>3
<1>. QED  BY <1>1, <1>2, <1>4, Joined2 DEF Coming

LEMMA WayEmpty ==
  ASSUME BufferInv, NEW s \in Side, OnWay(s, <<>>)
  PROVE  recvbuf[s] = <<>> /\ stream[s] = <<>> /\ (open[s] => sendbuf[Peer(s)] = <<>>)
<1>1. PICK lost \in Seq(Unit) : (recvbuf[s] \o Coming(s)) \o lost = <<>>  BY DEF OnWay
<1>2. recvbuf[s] \o Coming(s) \in Seq(Unit)  BY SideTypes, Joined2
<1>3. recvbuf[s] \o Coming(s) = <<>>  BY <1>1, <1>2, ConcatEqualIffEmpty
<1>4. recvbuf[s] = <<>> /\ Coming(s) = <<>>  BY <1>3, SideTypes, ConcatEqualIffEmpty
<1>5. (IF open[s] THEN sendbuf[Peer(s)] ELSE <<>>) \in Seq(Unit)
  BY SideTypes, EmptySeq
<1>6. stream[s] = <<>> /\ (IF open[s] THEN sendbuf[Peer(s)] ELSE <<>>) = <<>>
  BY <1>4, <1>5, SideTypes, ConcatEqualIffEmpty DEF Coming
<1>. QED  BY <1>4, <1>6

LEMMA WaySame ==
  ASSUME NEW s \in Side, NEW x, OnWay(s, x),
         recvbuf'[s] = recvbuf[s], stream'[s] = stream[s], open'[s] = open[s],
         open[s] => sendbuf'[Peer(s)] = sendbuf[Peer(s)]
  PROVE  OnWay(s, x)'
<1>1. Coming(s)' = Coming(s)  BY DEF Coming, Peer
<1>. QED  BY <1>1 DEF OnWay

(* A message is added; *)
LEMMA WaySent ==
  ASSUME BufferInv, NEW s \in Side, NEW x \in Seq(Unit), OnWay(s, x),
         NEW msg \in Seq(Unit), sendbuf[Peer(s)] = <<>>, sendbuf'[Peer(s)] = msg,
         recvbuf'[s] = recvbuf[s], stream'[s] = stream[s], open'[s] = open[s]
  PROVE  OnWay(s, x \o msg)'
<1>1. PICK lost \in Seq(Unit) : /\ (recvbuf[s] \o Coming(s)) \o lost = x
                                /\ open[s] => lost = <<>>
  BY DEF OnWay
<1>. DEFINE r == recvbuf[s]  q == stream[s]
<1>2. r \in Seq(Unit) /\ q \in Seq(Unit) /\ <<>> \in Seq(Unit)  BY SideTypes
<1>3. CASE open[s]
  <2>1. Coming(s) = q \o <<>> /\ Coming(s)' = q \o msg  BY <1>3 DEF Coming, Peer
  <2>2. Coming(s) = q  BY <1>2, <2>1, NoMore
  <2>3. x = r \o q
    <3>1. r \o q \in Seq(Unit)  BY <1>2, Joined2
    <3>. QED  BY <1>1, <1>3, <2>2, <3>1, NoMore
  <2>4. r \o (q \o msg) = x \o msg
    <3>. HIDE DEF r, q
    <3>. QED  BY <1>2, <2>3, Assoc
  <2>5. x \o msg \in Seq(Unit)  BY Joined2
  <2>6. (recvbuf'[s] \o Coming(s)') \o <<>> = x \o msg
    BY <2>1, <2>4, <2>5, NoMore
  <2>. QED  BY <1>2, <2>6 DEF OnWay
<1>4. CASE ~open[s]
  <2>1. Coming(s)' = Coming(s)  BY <1>4 DEF Coming, Peer
  <2>2. r \o Coming(s) \in Seq(Unit) /\ lost \o msg \in Seq(Unit)  BY SideTypes, Joined2
  <2>3. (r \o Coming(s)) \o (lost \o msg) = x \o msg
    <3>. DEFINE c == r \o Coming(s)
    <3>1. c \in Seq(Unit) /\ c \o lost = x  BY <1>1, <2>2
    <3>. HIDE DEF c
    <3>2. (c \o lost) \o msg = c \o (lost \o msg)  BY <3>1, Assoc
    <3>. QED  BY <3>1, <3>2 DEF c
  <2>. QED  BY <1>4, <2>1, <2>2, <2>3 DEF OnWay
<1>. QED  BY <1>3, <1>4

(* moves on, or is lost with all that comes after it; *)
LEMMA WayMoved ==
  ASSUME BufferInv, NEW t \in Side,
         SendIps(t) \/ RecvPoint(t) \/ CloseConn(t) \/ RecvFin(t),
         NEW s \in Side, NEW x, OnWay(s, x)
  PROVE  OnWay(s, x)'
<1>. DEFINE r == recvbuf[s]  q == stream[s]  b == sendbuf[Peer(s)]
<1>1. r \in Seq(Unit) /\ q \in Seq(Unit) /\ b \in Seq(Unit) /\ <<>> \in Seq(Unit)
      /\ Peer(s) \in Side /\ Coming(s) \in Seq(Unit)
  BY SideTypes
<1>2. /\ recvbuf \in [Side -> Seq(Unit)] /\ stream \in [Side -> Seq(Unit)]
      /\ sendbuf \in [Side -> Seq(Unit)] /\ open \in [Side -> BOOLEAN]
  BY DEF BufferInv, TypeOK
<1>3. \A u \in Side : Peer(u) \in Side /\ Peer(u) # u /\ Peer(Peer(u)) = u
  BY DEF Side, Peer
<1>4. CASE SendIps(t)
  <2>1. /\ sendbuf' = [sendbuf EXCEPT ![t] = <<>>] /\ open' = open /\ recvbuf' = recvbuf
        /\ stream' = IF open[Peer(t)]
                     THEN [stream EXCEPT ![Peer(t)] = @ \o sendbuf[t]] ELSE stream
    BY <1>4 DEF SendIps
  <2>2. CASE t = Peer(s) /\ open[s]
    <3>1. Peer(t) = s  BY <1>3, <2>2
    <3>2. stream'[s] = q \o b /\ sendbuf'[Peer(s)] = <<>>  BY <1>2, <1>3, <2>1, <2>2, <3>1
    <3>3. q \o b \in Seq(Unit)  BY <1>1, Joined2
    <3>4. Coming(s)' = (q \o b) \o <<>>  BY <2>1, <2>2, <3>2 DEF Coming, Peer
    <3>5. Coming(s)' = Coming(s)  BY <2>2, <3>3, <3>4, NoMore DEF Coming
    <3>. QED  BY <2>1, <3>5 DEF OnWay
  <2>3. CASE ~(t = Peer(s) /\ open[s])
    <3>1. stream'[s] = stream[s]  BY <1>2, <1>3, <2>1, <2>3
    <3>2. open[s] => sendbuf'[Peer(s)] = sendbuf[Peer(s)]  BY <1>2, <1>3, <2>1, <2>3
    <3>. QED  BY <2>1, <3>1, <3>2, WaySame
  <2>. QED  BY <2>2, <2>3
<1>5. CASE RecvPoint(t)
  <2>1. PICK n \in 1..Min2(Wanted(t), Len(stream[t])) :
            /\ recvbuf' = [recvbuf EXCEPT ![t] = @ \o SubSeq(stream[t], 1, n)]
            /\ stream' = [stream EXCEPT ![t] = SubSeq(@, n + 1, Len(@))]
    BY <1>5 DEF RecvPoint
  <2>2. open' = open /\ sendbuf' = sendbuf  BY <1>5 DEF RecvPoint
  <2>3. CASE t = s
    <3>1. n \in Nat /\ n >= 1 /\ n <= Len(q)
      <4>2. Len(q) \in Nat /\ n \in Int /\ n >= 1 /\ n <= Min2(Wanted(t), Len(q))
        BY <1>1, <2>1, <2>3
      <4>3. Wanted(t) \in Int  BY WantedInt
      <4>. QED  BY <4>2, <4>3 DEF Min2
    <3>. DEFINE h == SubSeq(q, 1, n)  k == SubSeq(q, n + 1, Len(q))
                c == IF open[s] THEN b ELSE <<>>
    <3>2. h \in Seq(Unit) /\ k \in Seq(Unit)  BY <1>1, <3>1
    <3>3. h \o k = q  BY <1>1, <3>1, Split
    <3>4. c \in Seq(Unit)  BY <1>1
    <3>5. recvbuf'[s] = r \o h /\ stream'[s] = k  BY <1>2, <2>1, <2>3
    <3>. HIDE DEF h, k, c
    <3>6. Coming(s) = q \o c /\ Coming(s)' = k \o c  BY <2>2, <3>5 DEF Coming, c
    <3>7. (r \o h) \o (k \o c) = r \o (q \o c)
      <4>0. r \in Seq(Unit)  BY <1>1
      <4>. HIDE DEF r, q
      <4>1. k \o c \in Seq(Unit)  BY <3>2, <3>4, Joined2
      <4>2. (r \o h) \o (k \o c) = r \o (h \o (k \o c))
        BY <4>0, <3>2, <4>1, Assoc
      <4>3. h \o (k \o c) = (h \o k) \o c  BY <3>2, <3>4, Assoc
      <4>. QED  BY <3>3, <4>2, <4>3
    <3>. QED  BY <2>2, <3>5, <3>6, <3>7 DEF OnWay
  <2>4. CASE t # s
    <3>1. recvbuf'[s] = recvbuf[s] /\ stream'[s] = stream[s]  BY <1>2, <2>1, <2>4
    <3>. QED  BY <2>2, <3>1, WaySame
  <2>. QED  BY <2>3, <2>4
<1>6. CASE CloseConn(t) \/ RecvFin(t)
  <2>1. PICK n \in 0..Len(stream[t]) : stream' = [stream EXCEPT ![t] = SubSeq(@, 1, n)]
    BY <1>6 DEF CloseConn, RecvFin, Cut
  <2>2. open' = [open EXCEPT ![t] = FALSE] /\ sendbuf' = sendbuf /\ recvbuf' = recvbuf
    BY <1>6 DEF CloseConn, RecvFin
  <2>3. CASE t = s
    <3>1. n \in Nat /\ n <= Len(q)  BY <1>1, <2>1, <2>3
    <3>. DEFINE h == SubSeq(q, 1, n)  k == SubSeq(q, n + 1, Len(q))
                c == IF open[s] THEN b ELSE <<>>
    <3>2. h \in Seq(Unit) /\ k \in Seq(Unit)  BY <1>1, <3>1
    <3>3. h \o k = q  BY <1>1, <3>1, Split
    <3>4. c \in Seq(Unit)  BY <1>1
    <3>5. stream'[s] = h /\ ~open'[s]  BY <1>2, <2>1, <2>2, <2>3
    <3>6. PICK lost \in Seq(Unit) : (r \o Coming(s)) \o lost = x  BY DEF OnWay
    <3>. HIDE DEF h, k, c
    <3>7. Coming(s)' = h
      <4>1. Coming(s)' = h \o <<>>  BY <3>5 DEF Coming
      <4>. QED  BY <3>2, <4>1, NoMore
    <3>8. Coming(s) = q \o c  BY DEF Coming, c
    <3>. DEFINE z == k \o (c \o lost)
    <3>9. c \o lost \in Seq(Unit) /\ z \in Seq(Unit)  BY <3>2, <3>4, Joined2
    <3>10. (r \o h) \o z = x
      <4>a. (r \o (q \o c)) \o lost = x  BY <3>6, <3>8
      <4>b. r \in Seq(Unit) /\ q \in Seq(Unit)  BY <1>1
      <4>. HIDE DEF r, q
      <4>1. r \o h \in Seq(Unit) /\ q \o c \in Seq(Unit) /\ k \o c \in Seq(Unit)
        BY <1>1, <3>2, <3>4, Joined2
      <4>2. (r \o h) \o z = r \o (h \o z)  BY <4>b, <3>2, <3>9, Assoc
      <4>3. h \o z = (h \o k) \o (c \o lost)  BY <3>2, <3>9, Assoc
      <4>4. q \o (c \o lost) = (q \o c) \o lost  BY <4>b, <3>4, Assoc
      <4>5. r \o ((q \o c) \o lost) = (r \o (q \o c)) \o lost
        BY <4>b, <4>1, Assoc
      <4>. QED  BY <3>3, <4>a, <4>2, <4>3, <4>4, <4>5
    <3>. HIDE DEF z
    <3>. QED  BY <2>2, <3>5, <3>7, <3>9, <3>10 DEF OnWay
  <2>4. CASE t # s
    <3>1. open'[s] = open[s] /\ stream'[s] = stream[s]  BY <1>2, <2>1, <2>2, <2>4
    <3>. QED  BY <2>2, <3>1, WaySame
  <2>. QED  BY <2>3, <2>4
<1>. QED  BY <1>4, <1>5, <1>6

(* or is read: what recv_ips has put together is the first message.        *)
LEMMA WayFirst ==
  ASSUME BufferInv, NEW s \in Side, NEW body \in Seq(Unit), NEW y \in Seq(Unit),
         OnWay(s, Message(body) \o y), Len(recvbuf[s]) >= INT
  PROVE  /\ IsLength(s)
         /\ Wanted(s) = 0 =>
              /\ Body(s) = body
              /\ \E lost \in Seq(Unit) : Coming(s) \o lost = y /\ (open[s] => lost = <<>>)
<1>. DEFINE r == recvbuf[s]  c == Coming(s)  x == Message(body)
<1>1. r \in Seq(Unit) /\ c \in Seq(Unit) /\ x \in Seq(Unit)  BY SideTypes, MessageShape
<1>2. PICK lost \in Seq(Unit) : (r \o c) \o lost = x \o y /\ (open[s] => lost = <<>>)
  BY DEF OnWay
<1>3. Len(r) >= INT  OBVIOUS
<1>4. /\ r[1].is = "length" /\ SubSeq(r, 1, INT) = Number("length", r[1].of) => IsLength(s)
      /\ Body(s) = SubSeq(r, INT + 1, Len(r))
      /\ Wanted(s) = IF Len(r) < INT THEN INT - Len(r) ELSE r[1].of - Len(r)
  BY DEF IsLength, Header, Body, Wanted
<1>. DEFINE z == c \o lost
<1>5. z \in Seq(Unit) /\ r \o z = x \o y
  <2>. HIDE DEF r, c, x
  <2>0. r \in Seq(Unit) /\ c \in Seq(Unit)  BY <1>1
  <2>1. (r \o c) \o lost = r \o (c \o lost)  BY <2>0, Assoc
  <2>2. c \o lost \in Seq(Unit)  BY <1>1, Joined2
  <2>. QED  BY <1>2, <2>1, <2>2
<1>. HIDE DEF r, c, z
<1>6. r[1].is = "length" /\ r[1].of = Len(x) /\ SubSeq(r, 1, INT) = Number("length", r[1].of)
  BY <1>1, <1>3, <1>5, FirstRead
<1>7. SubSeq(x, INT + 1, INT + Len(body)) = body /\ Len(x) = INT + Len(body)
  BY MessageShape
<1>. HIDE DEF x
<1>8. ASSUME Wanted(s) = 0  PROVE z = y /\ Body(s) = body
  <2>1. Len(r) \in Nat /\ INT \in Nat /\ Len(x) \in Nat  BY <1>1, FileTransferAssumption
  <2>2. Wanted(s) = Len(x) - Len(r)  BY <1>3, <1>4, <1>6, <2>1
  <2>3. Len(r) = Len(x)  BY <1>8, <2>1, <2>2
  <2>4. r = x /\ z = y  BY <1>1, <1>5, <2>3, WholeRead
  <2>. QED  BY <1>4, <1>7, <2>4
<1>9. IsLength(s)  BY <1>4, <1>6
<1>10. ASSUME Wanted(s) = 0
       PROVE  \E l \in Seq(Unit) : Coming(s) \o l = y /\ (open[s] => l = <<>>)
  <2>1. Coming(s) \o lost = y  BY <1>8, <1>10 DEF c, z
  <2>2. open[s] => lost = <<>>  BY <1>2
  <2>. WITNESS lost \in Seq(Unit)
  <2>. QED  BY <2>1, <2>2
<1>. QED  BY <1>8, <1>9, <1>10

LEMMA WayRead ==
  ASSUME BufferInv, NEW s \in Side, NEW body \in Seq(Unit), NEW y \in Seq(Unit),
         OnWay(s, Message(body) \o y), Received(s), recvbuf'[s] = <<>>,
         stream'[s] = stream[s], open'[s] = open[s], sendbuf'[Peer(s)] = sendbuf[Peer(s)]
  PROVE  Body(s) = body /\ OnWay(s, y)'
<1>1. Len(recvbuf[s]) >= INT /\ Wanted(s) = 0  BY DEF Received, HasLength
<1>2. /\ Body(s) = body
      /\ \E lost \in Seq(Unit) : Coming(s) \o lost = y /\ (open[s] => lost = <<>>)
  BY <1>1, WayFirst
<1>3. Coming(s)' = Coming(s) /\ recvbuf'[s] \o Coming(s) = Coming(s)
  <2>1. Coming(s)' = Coming(s)  BY DEF Coming, Peer
  <2>2. Coming(s) \in Seq(Unit)  BY SideTypes
  <2>. QED  BY <2>1, <2>2, NoMore
<1>. QED  BY <1>2, <1>3 DEF OnWay

LEMMA NothingRead ==
  ASSUME BufferInv, NEW s \in Side, OnWay(s, <<>>)
  PROVE  ~Received(s) /\ ~(Len(recvbuf[s]) >= INT)
<1>1. recvbuf[s] = <<>>  BY WayEmpty
<1>2. Len(recvbuf[s]) = 0  BY <1>1
<1>3. ~(Len(recvbuf[s]) >= INT)  BY <1>2, FileTransferAssumption
<1>. QED  BY <1>3 DEF Received, HasLength

LEMMA NotMisread ==
  ASSUME BufferInv, NEW s \in Side, NEW body \in Seq(Unit), NEW y \in Seq(Unit),
         OnWay(s, Message(body) \o y), body = <<>> => pc[s] = "data",
         body # <<>> => body[1].is = Expected(s)
  PROVE  ~Misread(s)
<1>. SUFFICES ASSUME Misread(s)  PROVE FALSE
  OBVIOUS
<1>1. Len(recvbuf[s]) >= INT  BY DEF Misread, Received, HasLength
<1>2. IsLength(s) /\ (Wanted(s) = 0 => Body(s) = body)  BY <1>1, WayFirst
<1>3. Received(s) => Body(s) = body  BY <1>2 DEF Received
<1>. QED  BY <1>2, <1>3 DEF Misread

LEMMA NothingMisread ==
  ASSUME BufferInv, NEW s \in Side, OnWay(s, <<>>)  PROVE ~Misread(s)
  BY NothingRead DEF Misread

(* The bodies of the messages. *)
LEMMA RequestShape ==
  ASSUME NEW name \in {"present", "missing"}
  PROVE  /\ Text("command") \o Text(name) \in Seq(Unit)
         /\ Text("command") \o Text(name) # <<>>
         /\ (Text("command") \o Text(name))[1].is = "command"
         /\ Request(name) \in Seq(Unit) /\ Request(name) \o <<>> = Request(name)
<1>. DEFINE c == Text("command")  t == Text(name)
<1>1. c \in Seq(Unit) /\ Len(c) = 1 /\ t \in Seq(Unit) /\ Len(t) = 1
  BY TextFits, FittingUnits
<1>2. c[1].is = "command"  BY DEF Text
<1>3. Request(name) \in Seq(Unit)  BY RequestFits, FittingUnits
<1>. HIDE DEF c, t
<1>4. c \o t \in Seq(Unit) /\ Len(c \o t) = 2 /\ (c \o t)[1] = c[1]
  <2>1. 1 \in 1..Len(c)  BY <1>1
  <2>. QED  BY <1>1, <2>1, Joined2
<1>5. c \o t # <<>>  BY <1>4
<1>. QED  BY <1>2, <1>3, <1>4, <1>5, NoMore DEF c, t

LEMMA ReplyShape ==
  ASSUME NEW n \in Nat
  PROVE  /\ Number("size", n) \in Seq(Unit) /\ Number("size", n) # <<>>
         /\ Number("size", n)[1].is = "size" /\ Number("size", n)[1].of = n
         /\ Reply(n) \in Seq(Unit) /\ Reply(n) \o <<>> = Reply(n)
<1>1. Number("size", n) \in Seq(Unit) /\ Len(Number("size", n)) = INT
  BY NumberFits, FittingUnits
<1>2. INT \in Nat /\ 1 \in 1..INT  BY FileTransferAssumption
<1>3. Number("size", n)[1] = [is |-> "size", of |-> n, part |-> 1]  BY <1>2 DEF Number
<1>4. Number("size", n) # <<>>  BY <1>1, <1>2
<1>5. Reply(n) \in Seq(Unit)  BY ReplyFits, FittingUnits
<1>. QED  BY <1>1, <1>3, <1>4, <1>5, NoMore

LEMMA BytesShape ==
  ASSUME NEW a \in Nat, NEW f \in Nat, a <= f
  PROVE  /\ FileBytes(a, f) \in Seq(Unit) /\ Len(FileBytes(a, f)) = f - a
         /\ \A i \in 1..(f - a) :
               FileBytes(a, f)[i].is = "byte" /\ FileBytes(a, f)[i].of = a + i
         /\ FileBytes(a, f) # <<>> => FileBytes(a, f)[1].is = "byte"
<1>1. FileBytes(a, f) \in Seq(Unit) /\ Len(FileBytes(a, f)) = f - a  BY DataShape
<1>3. ASSUME FileBytes(a, f) # <<>>  PROVE 1 \in 1..(f - a)
  BY <1>1, <1>3
<1>4. ASSUME NEW i \in 1..(f - a)
      PROVE  FileBytes(a, f)[i].is = "byte" /\ FileBytes(a, f)[i].of = a + i
  BY DEF FileBytes
<1>. QED  BY <1>1, <1>3, <1>4

-----------------------------------------------------------------------------
(* The phases. *)
LEMMA Types ==
  ASSUME BufferInv
  PROVE  /\ file \in Nat /\ pos \in Nat /\ fz \in Nat /\ copy \in Seq(Unit)
         /\ Len(copy) \in Nat /\ file_size["client"] \in Int /\ file_size["server"] \in Int
         /\ Reach \in SUBSET Nat /\ PieceEnd \in Nat /\ pos <= PieceEnd
         /\ "client" \in Side /\ "server" \in Side
         /\ Peer("client") = "server" /\ Peer("server") = "client"
<1>1. /\ file \in Nat /\ pos \in Nat /\ fz \in Nat /\ copy \in Seq(Unit)
      /\ file_size \in [Side -> Int] /\ "client" \in Side /\ "server" \in Side
  BY FileTransferAssumption DEF BufferInv, TypeOK, Side
<1>2. file_size["client"] \in Int /\ file_size["server"] \in Int /\ Len(copy) \in Nat
  BY <1>1
<1>3. Reach \in SUBSET Nat  BY <1>1 DEF Reach
<1>4. PieceEnd \in Nat /\ pos <= PieceEnd  BY DataFits
<1>5. Peer("client") = "server" /\ Peer("server") = "client"  BY DEF Peer
<1>. QED  BY <1>1, <1>2, <1>3, <1>4, <1>5

(* A step that changes neither what the client knows nor what is on the    *)
(* way leaves the transfer in its phase.                                   *)
LEMMA SamePhase ==
  ASSUME BufferInv, Phase,
         pc'["client"] = pc["client"], fz' = fz, copy' = copy, abandoned' = abandoned,
         file_size'["client"] = file_size["client"],
         pc'["server"] = "lost" => pc["server"] = "lost",
         sendbuf["client"] = <<>> => sendbuf'["client"] = <<>>,
         sendbuf'["client"] # <<>> /\ recvbuf["server"] = <<>> /\ stream["server"] = <<>>
           => recvbuf'["server"] = <<>> /\ stream'["server"] = <<>>,
         \A s \in Side : \A x : OnWay(s, x) => OnWay(s, x)',
         open'["client"] => open["client"] /\ (Busy' <=> Busy),
         open'["client"] => \A n \in Nat : \A e \in Nat : Serving(n, e) => Serving(n, e)',
         changes' = {} => changes = {} /\ file' = file, Reach \subseteq Reach'
  PROVE  Phase'
<1>. USE Types
<1>1. CASE abandoned
  <2>1. GivenUp  BY <1>1 DEF Phase
  <2>2. PICK x \in Seq(Unit) : OnWay("client", x) /\ LeftOver(x)  BY <2>1 DEF GivenUp
  <2>3. OnWay("client", x)'  BY <2>2
  <2>4. LeftOver(x)'
    <3>1. x = <<>> /\ open'["client"] => Busy'  BY <2>2 DEF LeftOver
    <3>2. x # <<>> => \E a \in Nat : \E f \in Nat : \E y \in Seq(Unit) :
                         a <= f /\ x = Data(a, f) \o y
      BY <2>2 DEF LeftOver
    <3>. QED  BY <3>1, <3>2 DEF LeftOver
  <2>5. GivenUp'  BY <2>1, <2>2, <2>3, <2>4 DEF GivenUp
  <2>. QED  BY <1>1, <2>5 DEF Phase
<1>2. CASE ~abandoned
  <2>1. InPhase  BY <1>2 DEF Phase
  <2>2. CASE Resting
    <3>1. Resting'  BY <2>2 DEF Resting
    <3>. QED  BY <1>2, <2>1, <3>1 DEF Phase, InPhase
  <2>3. CASE Requested
    <3>1. PICK name \in {"present", "missing"} : OnWay("server", Request(name))
      BY <2>3 DEF Requested
    <3>2. OnWay("server", Request(name))' /\ OnWay("client", <<>>)'
      BY <2>3, <3>1 DEF Requested
    <3>3. sendbuf'["client"] # <<>> => recvbuf'["server"] = <<>> /\ stream'["server"] = <<>>
      BY <2>3 DEF Requested
    <3>4. open'["client"] => ~Busy'  BY <2>3 DEF Requested
    <3>5. Requested'  BY <2>3, <3>2, <3>3, <3>4 DEF Requested
    <3>. QED  BY <1>2, <2>1, <3>5 DEF Phase, InPhase
  <2>4. CASE Answered
    <3>1. PICK n \in Nat : \E d \in Seq(Unit) : \E e \in Nat :
              /\ changes = {} => n \in {0, file}
              /\ OnWay("client", Reply(n) \o d) /\ Chain(d, 0, e, n, Reach)
              /\ open["client"] => Serving(n, e)
      BY <2>4 DEF Answered
    <3>2. PICK d \in Seq(Unit) : \E e \in Nat :
              /\ changes = {} => n \in {0, file}
              /\ OnWay("client", Reply(n) \o d) /\ Chain(d, 0, e, n, Reach)
              /\ open["client"] => Serving(n, e)
      BY <3>1
    <3>3. PICK e \in Nat :
              /\ changes = {} => n \in {0, file}
              /\ OnWay("client", Reply(n) \o d) /\ Chain(d, 0, e, n, Reach)
              /\ open["client"] => Serving(n, e)
      BY <3>2
    <3>4. OnWay("client", Reply(n) \o d)'  BY <3>3
    <3>5. Chain(d, 0, e, n, Reach')  BY <3>3, ChainMore
    <3>6. open'["client"] => Serving(n, e)'  BY <3>3
    <3>7. changes' = {} => n \in {0, file'}  BY <3>3
    <3>8. OnWay("server", <<>>)'  BY <2>4 DEF Answered
    <3>9. Answered'  BY <2>4, <3>4, <3>5, <3>6, <3>7, <3>8 DEF Answered
    <3>. QED  BY <1>2, <2>1, <3>9 DEF Phase, InPhase
  <2>5. CASE Copying
    <3>1. PICK d \in Seq(Unit) : \E e \in Nat :
              /\ OnWay("client", d) /\ Chain(d, Len(copy), e, fz, Reach)
              /\ open["client"] => Serving(fz, e)
      BY <2>5 DEF Copying
    <3>2. PICK e \in Nat :
              /\ OnWay("client", d) /\ Chain(d, Len(copy), e, fz, Reach)
              /\ open["client"] => Serving(fz, e)
      BY <3>1
    <3>3. OnWay("client", d)'  BY <3>2
    <3>4. Chain(d, Len(copy'), e, fz', Reach')  BY <3>2, ChainMore
    <3>5. open'["client"] => Serving(fz, e)'  BY <3>2
    <3>6. open'["client"] =>
            \/ pc'["server"] = "data" /\ pos' = e /\ file_size'["server"] = fz' - e
            \/ pc'["server"] \in {"idle", "request"} /\ e >= fz'
      BY <3>5 DEF Serving
    <3>7. changes' = {} => fz' = file'  BY <2>5 DEF Copying
    <3>8. OnWay("server", <<>>)'  BY <2>5 DEF Copying
    <3>9. Len(copy') \in Reach'  BY <2>5 DEF Copying
    <3>10. Copying'
      BY <2>5, <3>3, <3>4, <3>6, <3>7, <3>8, <3>9 DEF Copying, Serving
    <3>. QED  BY <1>2, <2>1, <3>10 DEF Phase, InPhase
  <2>. QED  BY <2>1, <2>2, <2>3, <2>4, <2>5 DEF InPhase
<1>. QED  BY <1>1, <1>2

(* Messages move, or are lost. *)
LEMMA MoveKeepsPhase ==
  ASSUME BufferInv, Phase, NEW t \in Side,
         SendIps(t) \/ RecvPoint(t) \/ CloseConn(t) \/ RecvFin(t)
  PROVE  Phase'
<1>. USE Types
<1>1. /\ pc' = pc /\ fz' = fz /\ copy' = copy /\ abandoned' = abandoned /\ pos' = pos
      /\ file_size' = file_size /\ changes' = changes /\ file' = file
  BY DEF SendIps, RecvPoint, CloseConn, RecvFin
<1>2. /\ recvbuf \in [Side -> Seq(Unit)] /\ stream \in [Side -> Seq(Unit)]
      /\ sendbuf \in [Side -> Seq(Unit)] /\ open \in [Side -> BOOLEAN]
  BY DEF BufferInv, TypeOK
<1>3. \A s \in Side : \A x : OnWay(s, x) => OnWay(s, x)'  BY WayMoved
<1>4. open'["client"] => open["client"]
  BY <1>2 DEF SendIps, RecvPoint, CloseConn, RecvFin
<1>5. sendbuf["client"] = <<>> => sendbuf'["client"] = <<>>
  BY <1>2 DEF SendIps, RecvPoint, CloseConn, RecvFin
<1>6. ASSUME sendbuf'["client"] # <<>>, recvbuf["server"] = <<>>, stream["server"] = <<>>
      PROVE  recvbuf'["server"] = <<>> /\ stream'["server"] = <<>>
  <2>1. CASE SendIps(t)
    <3>1. t # "client"  BY <1>2, <1>6, <2>1 DEF SendIps
    <3>2. t = "server" /\ Peer(t) = "client"  BY <3>1 DEF Side
    <3>3. stream' = [stream EXCEPT !["client"] = @ \o sendbuf[t]] \/ stream' = stream
      BY <2>1, <3>2 DEF SendIps
    <3>4. stream'["server"] = stream["server"]  BY <1>2, <3>3
    <3>. QED  BY <1>6, <2>1, <3>4 DEF SendIps
  <2>2. CASE RecvPoint(t)
    <3>1. PICK n \in 1..Min2(Wanted(t), Len(stream[t])) :
            /\ recvbuf' = [recvbuf EXCEPT ![t] = @ \o SubSeq(stream[t], 1, n)]
            /\ stream' = [stream EXCEPT ![t] = SubSeq(@, n + 1, Len(@))]
      BY <2>2 DEF RecvPoint
    <3>2. t # "server"
      <4>1. SUFFICES ASSUME t = "server"  PROVE FALSE
        OBVIOUS
      <4>2. Len(stream[t]) = 0  BY <1>6, <4>1
      <4>3. Wanted(t) \in Int  BY WantedInt
      <4>4. Min2(Wanted(t), Len(stream[t])) <= 0 /\ Min2(Wanted(t), Len(stream[t])) \in Int
        BY <4>2, <4>3 DEF Min2
      <4>. QED  BY <4>4
    <3>. QED  BY <1>2, <1>6, <3>1, <3>2
  <2>3. CASE CloseConn(t) \/ RecvFin(t)
    <3>1. PICK n \in 0..Len(stream[t]) : stream' = [stream EXCEPT ![t] = SubSeq(@, 1, n)]
      BY <2>3 DEF CloseConn, RecvFin, Cut
    <3>2. recvbuf' = recvbuf  BY <2>3 DEF CloseConn, RecvFin
    <3>3. stream'["server"] = <<>>
      <4>1. CASE t = "server"
        <5>1. n = 0  BY <1>6, <3>1, <4>1
        <5>2. stream'["server"] = SubSeq(<<>>, 1, 0)  BY <1>2, <1>6, <3>1, <4>1, <5>1
        <5>. QED  BY <5>2
      <4>2. CASE t # "server"  BY <1>2, <1>6, <3>1, <4>2
      <4>. QED  BY <4>1, <4>2
    <3>. QED  BY <1>6, <3>2, <3>3
  <2>. QED  BY <2>1, <2>2, <2>3
<1>7. (Busy' <=> Busy) /\ Reach \subseteq Reach'  BY <1>1 DEF Busy, Reach
<1>8. \A n \in Nat : \A e \in Nat : Serving(n, e) => Serving(n, e)'  BY <1>1 DEF Serving
<1>. QED  BY <1>1, <1>3, <1>4, <1>5, <1>6, <1>7, <1>8, SamePhase

(* The file changes. *)
LEMMA ChangeKeepsPhase ==
  ASSUME BufferInv, Phase, NEW n \in FileSizes, ChangeFile(n)  PROVE Phase'
<1>. USE Types
<1>1. /\ pc' = pc /\ fz' = fz /\ copy' = copy /\ abandoned' = abandoned /\ pos' = pos
      /\ file_size' = file_size /\ sendbuf' = sendbuf /\ recvbuf' = recvbuf
      /\ stream' = stream /\ open' = open
  BY DEF ChangeFile
<1>2. changes' # {} /\ Reach' = Nat  BY DEF ChangeFile, Reach
<1>3. \A s \in Side : \A x : OnWay(s, x) => OnWay(s, x)'  BY <1>1, WaySame
<1>4. Busy' <=> Busy  BY <1>1 DEF Busy
<1>5. \A m \in Nat : \A e \in Nat : Serving(m, e) => Serving(m, e)'  BY <1>1 DEF Serving
<1>. QED  BY <1>1, <1>2, <1>3, <1>4, <1>5, SamePhase

(* upload is called, or returns. *)
LEMMA UploadKeepsPhase ==
  ASSUME BufferInv, Phase, Upload \/ UploadDone  PROVE Phase'
<1>. USE Types
<1>1. /\ fz' = fz /\ copy' = copy /\ abandoned' = abandoned /\ file' = file
      /\ changes' = changes /\ file_size' = file_size /\ sendbuf' = sendbuf
      /\ recvbuf' = recvbuf /\ stream' = stream /\ open' = open
  BY DEF Upload, UploadDone
<1>2. pc \in [Side -> {"idle", "request", "reply", "data", "lost"}]
  BY DEF BufferInv, TypeOK
<1>3. pc'["client"] = pc["client"] /\ pc'["server"] \in {"idle", "request"}
  BY <1>2 DEF Upload, UploadDone
<1>4. \A s \in Side : \A x : OnWay(s, x) => OnWay(s, x)'  BY <1>1, WaySame
<1>5. ~Busy /\ ~Busy'  BY <1>1, <1>3 DEF Upload, UploadDone, Busy
<1>6. ASSUME NEW n \in Nat, NEW e \in Nat, Serving(n, e)  PROVE Serving(n, e)'
  <2>1. CASE Upload  BY <1>3, <1>6, <2>1 DEF Upload, Serving
  <2>2. CASE UploadDone  BY <1>3, <1>6, <2>2 DEF UploadDone, Serving
  <2>. QED  BY <2>1, <2>2
<1>7. Reach \subseteq Reach'  BY <1>1 DEF Reach
<1>. QED  BY <1>1, <1>3, <1>4, <1>5, <1>6, <1>7, SamePhase

(* What the client has received is what it takes it for, unless an earlier *)
(* download was given up.                                                  *)
LEMMA MisreadPhase ==
  ASSUME BufferInv, RolesInv, Phase, NEW t \in Side, Misread(t)
  PROVE  abandoned /\ Phase'
<1>. USE Types
<1>1. /\ fz' = fz /\ copy' = copy /\ abandoned' = abandoned /\ file' = file
      /\ file_size' = file_size /\ sendbuf' = sendbuf
      /\ recvbuf' = recvbuf /\ stream' = stream /\ open' = open
  BY DEF Misread
<1>2. pc \in [Side -> {"idle", "request", "reply", "data", "lost"}]
  BY DEF BufferInv, TypeOK
<1>3. /\ t = "client" => pc["client"] \in {"reply", "data"}
      /\ t = "server" => pc["server"] = "request"
  BY <1>2 DEF Misread, Receiving, Received, RolesInv
<1>4. t \in {"client", "server"}  BY DEF Side
<1>5. ASSUME ~abandoned  PROVE FALSE
  <2>0. InPhase  BY <1>5 DEF Phase
  <2>1. CASE t = "server"
    <3>1. ~OnWay("server", <<>>)  BY <2>1, NothingMisread
    <3>2. Requested  BY <2>0, <3>1 DEF InPhase, Resting, Answered, Copying
    <3>3. PICK name \in {"present", "missing"} : OnWay("server", Request(name))
      BY <3>2 DEF Requested
    <3>. DEFINE body == Text("command") \o Text(name)
    <3>4. body \in Seq(Unit) /\ body # <<>> /\ body[1].is = "command"
          /\ Message(body) \o <<>> = Request(name)
      BY RequestShape DEF Request
    <3>5. Expected("server") = "command"  BY <1>3, <2>1 DEF Expected
    <3>. HIDE DEF body
    <3>6. OnWay("server", Message(body) \o <<>>)  BY <3>3, <3>4
    <3>7. <<>> \in Seq(Unit)  OBVIOUS
    <3>. QED  BY <2>1, <3>4, <3>5, <3>6, <3>7, NotMisread
  <2>2. CASE t = "client"
    <3>1. ~OnWay("client", <<>>)  BY <2>2, NothingMisread
    <3>2. Answered \/ Copying  BY <2>0, <3>1 DEF InPhase, Resting, Requested
    <3>3. CASE Answered
      <4>1. PICK n \in Nat : \E d \in Seq(Unit) : OnWay("client", Reply(n) \o d)
        BY <3>3 DEF Answered
      <4>2. PICK d \in Seq(Unit) : OnWay("client", Reply(n) \o d)  BY <4>1
      <4>. DEFINE body == Number("size", n)
      <4>3. body \in Seq(Unit) /\ body # <<>> /\ body[1].is = "size"
            /\ Reply(n) = Message(body)
        BY ReplyShape DEF Reply
      <4>4. Expected("client") = "size"  BY <3>3 DEF Expected, Answered
      <4>. HIDE DEF body
      <4>. QED  BY <2>2, <4>2, <4>3, <4>4, NotMisread
    <3>4. CASE Copying
      <4>1. PICK d \in Seq(Unit) :
               OnWay("client", d) /\ \E e \in Nat : Chain(d, Len(copy), e, fz, Reach)
        BY <3>4 DEF Copying
      <4>2. PICK e \in Nat : Chain(d, Len(copy), e, fz, Reach)  BY <4>1
      <4>3. d # <<>>  BY <3>1, <4>1
      <4>a. fz \in Nat /\ Len(copy) \in Nat /\ Reach \in SUBSET Nat  OBVIOUS
      <4>4. PICK f \in Reach : \E y \in Seq(Unit) :
               /\ Len(copy) <= f /\ d = Data(Len(copy), f) \o y
               /\ Chain(y, f, e, fz, Reach)
        BY ONLY <4>a, <4>2, <4>3, ChainFirst
      <4>5. PICK y \in Seq(Unit) : Len(copy) <= f /\ d = Data(Len(copy), f) \o y  BY <4>4
      <4>. DEFINE body == FileBytes(Len(copy), f)
      <4>6. f \in Nat  OBVIOUS
      <4>7. body \in Seq(Unit) /\ (body # <<>> => body[1].is = "byte")
            /\ d = Message(body) \o y
        BY <4>5, <4>6, BytesShape DEF Data
      <4>8. pc["client"] = "data" /\ Expected("client") = "byte"
        BY <3>4 DEF Expected, Copying
      <4>. HIDE DEF body
      <4>. QED  BY <2>2, <4>1, <4>7, <4>8, NotMisread
    <3>. QED  BY <3>2, <3>3, <3>4
  <2>. QED  BY <1>4, <2>1, <2>2
<1>6. ASSUME abandoned  PROVE Phase'
  <2>1. GivenUp  BY <1>6 DEF Phase
  <2>2. PICK x \in Seq(Unit) : OnWay("client", x) /\ LeftOver(x)  BY <2>1 DEF GivenUp
  <2>3. OnWay("client", x)'  BY <1>1, <2>2, WaySame
  <2>4. pc'["client"] \in {"idle", "reply", "lost"}  BY <1>2, <2>1 DEF Misread, GivenUp
  <2>5. LeftOver(x)'
    <3>1. x # <<>> => \E a \in Nat : \E f \in Nat : \E y \in Seq(Unit) :
                         a <= f /\ x = Data(a, f) \o y
      BY <2>2 DEF LeftOver
    <3>2. ASSUME x = <<>>, open'["client"]  PROVE FALSE
      <4>1. t # "client"  BY <2>2, <3>2, NothingMisread
      <4>2. pc["server"] = "request"  BY <1>3, <1>4, <4>1
      <4>3. Busy  BY <1>1, <2>2, <3>2 DEF LeftOver
      <4>. QED  BY <4>2, <4>3 DEF Busy
    <3>. QED  BY <3>1, <3>2 DEF LeftOver
  <2>6. GivenUp'  BY <1>1, <2>1, <2>3, <2>4, <2>5 DEF GivenUp
  <2>. QED  BY <1>1, <1>6, <2>6 DEF Phase
<1>. QED  BY <1>5, <1>6

(* download sends its request. *)
LEMMA DownloadPhase ==
  ASSUME BufferInv, Phase, NEW name \in {"present", "missing"}, Download(name)
  PROVE  Phase'
<1>. USE Types
<1>1. /\ abandoned' = abandoned /\ file' = file /\ changes' = changes /\ pos' = pos
      /\ file_size' = file_size /\ recvbuf' = recvbuf /\ stream' = stream /\ open' = open
      /\ fz' = 0 /\ copy' = <<>>
  BY DEF Download
<1>2. /\ pc \in [Side -> {"idle", "request", "reply", "data", "lost"}]
      /\ sendbuf \in [Side -> Seq(Unit)]
  BY DEF BufferInv, TypeOK
<1>3. pc'["client"] = "reply" /\ pc'["server"] = pc["server"]  BY <1>2 DEF Download
<1>4. sendbuf'["client"] = Request(name) /\ sendbuf'["server"] = sendbuf["server"]
  BY <1>2 DEF Download
<1>5. Busy' <=> Busy  BY <1>1, <1>3 DEF Busy
<1>6. \A x : OnWay("client", x) => OnWay("client", x)'  BY <1>1, <1>4, WaySame
<1>7. CASE abandoned
  <2>1. GivenUp  BY <1>7 DEF Phase
  <2>2. PICK x \in Seq(Unit) : OnWay("client", x) /\ LeftOver(x)  BY <2>1 DEF GivenUp
  <2>3. OnWay("client", x)'  BY <1>6, <2>2
  <2>4. LeftOver(x)'  BY <1>1, <1>5, <2>2 DEF LeftOver
  <2>5. GivenUp'  BY <1>1, <1>3, <2>3, <2>4 DEF GivenUp
  <2>. QED  BY <1>1, <1>7, <2>5 DEF Phase
<1>8. CASE ~abandoned
  <2>0. pc["client"] = "idle"  BY DEF Download
  <2>1. Resting /\ pc["server"] # "lost"
    BY <1>8, <2>0 DEF Phase, InPhase, Requested, Answered, Copying
  <2>2. OnWay("server", <<>>) /\ OnWay("client", <<>>) /\ sendbuf["client"] = <<>>
        /\ (open["client"] => ~Busy)
    BY <2>1 DEF Resting
  <2>3. Request(name) \in Seq(Unit) /\ <<>> \in Seq(Unit)  BY RequestShape, EmptySeq
  <2>4. OnWay("server", <<>> \o Request(name))'
    BY <1>1, <1>4, <2>2, <2>3, WaySent
  <2>5. <<>> \o Request(name) = Request(name)  BY <2>3, NoMore
  <2>6. OnWay("server", Request(name))'  BY <2>4, <2>5
  <2>7. recvbuf'["server"] = <<>> /\ stream'["server"] = <<>>  BY <1>1, <2>2, WayEmpty
  <2>8. Requested'
    BY <1>1, <1>3, <1>5, <1>6, <2>2, <2>6, <2>7 DEF Requested
  <2>. QED  BY <1>1, <1>3, <1>8, <2>1, <2>8 DEF Phase, InPhase
<1>. QED  BY <1>7, <1>8

(* A message of the other side has been read. *)
LEMMA ReadBy ==
  ASSUME BufferInv, NEW s \in Side, NEW what, Understood(s, what),
         stream' = stream, open' = open, sendbuf'[Peer(s)] = sendbuf[Peer(s)]
  PROVE  /\ pc[s] = what /\ Received(s) /\ recvbuf'[s] = <<>>
         /\ \A t \in Side : t # s => recvbuf'[t] = recvbuf[t]
         /\ IF Body(s) = <<>> THEN what = "data" ELSE Body(s)[1].is = Expected(s)
         /\ ~OnWay(s, <<>>)
         /\ \A body \in Seq(Unit) : \A y \in Seq(Unit) :
               OnWay(s, Message(body) \o y) => Body(s) = body /\ OnWay(s, y)'
<1>1. recvbuf \in [Side -> Seq(Unit)]  BY DEF BufferInv, TypeOK
<1>2. recvbuf' = [recvbuf EXCEPT ![s] = <<>>] /\ Received(s) /\ pc[s] = what
      /\ IF Body(s) = <<>> THEN what = "data" ELSE Body(s)[1].is = Expected(s)
  BY DEF Understood
<1>3. recvbuf'[s] = <<>> /\ \A t \in Side : t # s => recvbuf'[t] = recvbuf[t]
  BY <1>1, <1>2
<1>4. ~OnWay(s, <<>>)  BY <1>2, NothingRead
<1>5. ASSUME NEW body \in Seq(Unit), NEW y \in Seq(Unit), OnWay(s, Message(body) \o y)
      PROVE  Body(s) = body /\ OnWay(s, y)'
  BY <1>2, <1>3, <1>5, WayRead
<1>. QED  BY <1>2, <1>3, <1>4, <1>5

(* The answer has come, and the file may be created or not. *)
LEMMA RecvSizePhase ==
  ASSUME BufferInv, Phase, RecvSize  PROVE Phase' /\ fz = 0 /\ copy' = <<>>
<1>. USE Types
<1>1. /\ file' = file /\ changes' = changes /\ pos' = pos /\ sendbuf' = sendbuf
      /\ stream' = stream /\ open' = open /\ copy' = copy /\ Understood("client", "reply")
  BY DEF RecvSize
<1>2. /\ pc \in [Side -> {"idle", "request", "reply", "data", "lost"}]
      /\ file_size \in [Side -> Int]
  BY DEF BufferInv, TypeOK
<1>3. /\ pc["client"] = "reply" /\ recvbuf'["server"] = recvbuf["server"]
      /\ IF Body("client") = <<>> THEN FALSE ELSE Body("client")[1].is = "size"
      /\ ~OnWay("client", <<>>)
      /\ \A body \in Seq(Unit) : \A y \in Seq(Unit) :
            OnWay("client", Message(body) \o y) => Body("client") = body
                                                   /\ OnWay("client", y)'
  BY <1>1, ReadBy DEF Expected
<1>4. pc'["server"] = pc["server"] /\ file_size'["server"] = file_size["server"]
  BY <1>2 DEF RecvSize
<1>5. \A x : OnWay("server", x) => OnWay("server", x)'  BY <1>1, <1>3, WaySame
<1>6. ~abandoned
  <2>. SUFFICES ASSUME abandoned  PROVE FALSE
    OBVIOUS
  <2>1. PICK x \in Seq(Unit) : OnWay("client", x) /\ LeftOver(x)  BY DEF Phase, GivenUp
  <2>2. PICK a \in Nat : \E f \in Nat : \E y \in Seq(Unit) : a <= f /\ x = Data(a, f) \o y
    BY <1>3, <2>1 DEF LeftOver
  <2>3. PICK f \in Nat : \E y \in Seq(Unit) : a <= f /\ x = Data(a, f) \o y  BY <2>2
  <2>4. PICK y \in Seq(Unit) : a <= f /\ x = Data(a, f) \o y  BY <2>3
  <2>5. FileBytes(a, f) \in Seq(Unit)
        /\ (FileBytes(a, f) # <<>> => FileBytes(a, f)[1].is = "byte")
    BY <2>4, BytesShape
  <2>6. Body("client") = FileBytes(a, f)  BY <1>3, <2>1, <2>4, <2>5 DEF Data
  <2>. QED  BY <1>3, <2>5, <2>6
<1>7. Answered /\ pc["server"] # "lost"
  BY <1>3, <1>6 DEF Phase, InPhase, Resting, Requested, Copying
<1>8. fz = 0 /\ copy = <<>> /\ sendbuf["client"] = <<>> /\ OnWay("server", <<>>)
  BY <1>7 DEF Answered
<1>9. PICK n \in Nat : \E d \in Seq(Unit) : \E e \in Nat :
          /\ changes = {} => n \in {0, file}
          /\ OnWay("client", Reply(n) \o d) /\ Chain(d, 0, e, n, Reach)
          /\ open["client"] => Serving(n, e)
  BY <1>7 DEF Answered
<1>10. PICK d \in Seq(Unit) : \E e \in Nat :
          /\ changes = {} => n \in {0, file}
          /\ OnWay("client", Reply(n) \o d) /\ Chain(d, 0, e, n, Reach)
          /\ open["client"] => Serving(n, e)
  BY <1>9
<1>11. PICK e \in Nat :
          /\ changes = {} => n \in {0, file}
          /\ OnWay("client", Reply(n) \o d) /\ Chain(d, 0, e, n, Reach)
          /\ open["client"] => Serving(n, e)
  BY <1>10
<1>12. Body("client")[1].of = n /\ OnWay("client", d)'
  <2>1. Number("size", n) \in Seq(Unit) /\ Number("size", n)[1].of = n  BY ReplyShape
  <2>2. OnWay("client", Message(Number("size", n)) \o d)  BY <1>11 DEF Reply
  <2>3. Body("client") = Number("size", n) /\ OnWay("client", d)'  BY <1>3, <2>1, <2>2
  <2>. QED  BY <2>1, <2>3
<1>13. (Busy' <=> Busy) /\ (Serving(n, e)' <=> Serving(n, e))
  BY <1>1, <1>4 DEF Busy, Serving
<1>14. Reach' = Reach  BY <1>1 DEF Reach
<1>15. CASE pc' = [pc EXCEPT !["client"] = "data"]
  <2>1. n # 0 /\ fz' = n /\ abandoned' = abandoned /\ file_size'["client"] = n
    BY <1>2, <1>12, <1>15 DEF RecvSize
  <2>2. Len(copy') = 0 /\ 0 \in Reach'  BY <1>1, <1>8, <1>14 DEF Reach
  <2>3. pc'["client"] = "data"  BY <1>2, <1>15
  <2>4. fz' > 0 /\ file_size'["client"] = fz' - Len(copy')  BY <2>1, <2>2
  <2>5. Chain(d, Len(copy'), e, fz', Reach')  BY <1>11, <1>14, <2>1, <2>2
  <2>6. open'["client"] =>
            \/ pc'["server"] = "data" /\ pos' = e /\ file_size'["server"] = fz' - e
            \/ pc'["server"] \in {"idle", "request"} /\ e >= fz'
    BY <1>1, <1>4, <1>11, <2>1 DEF Serving
  <2>7. changes' = {} => fz' = file'  BY <1>1, <1>11, <2>1
  <2>8. OnWay("server", <<>>)' /\ sendbuf'["client"] = <<>>  BY <1>1, <1>5, <1>8
  <2>9. Copying'
    BY <1>12, <2>2, <2>3, <2>4, <2>5, <2>6, <2>7, <2>8 DEF Copying, Serving
  <2>. QED  BY <1>1, <1>4, <1>6, <1>7, <1>8, <2>1, <2>9 DEF Phase, InPhase
<1>16. CASE pc' = [pc EXCEPT !["client"] = "idle"]
  <2>1. pc'["client"] = "idle" /\ "data" # "idle"  BY <1>2, <1>16
  <2>2. fz' = 0 /\ abandoned' = (abandoned \/ n # 0)
    BY <1>8, <1>12, <2>1, <1>2 DEF RecvSize
  <2>3. CASE n = 0
    <3>1. d = <<>> /\ e = 0
      <4>1. Chain(d, 0, e, 0, Reach)  BY <1>11, <2>3
      <4>a. 0 \in Nat /\ 0 >= 0  OBVIOUS
      <4>2. d = <<>>  BY <4>a, <4>1, ChainNone, Zenon
      <4>. QED  BY <4>1, <4>2, ChainNone
    <3>2. OnWay("client", <<>>)' /\ OnWay("server", <<>>)'  BY <1>5, <1>8, <1>12, <3>1
    <3>3. open'["client"] => ~Busy'
      BY <1>1, <1>11, <1>13, <2>3, <3>1 DEF Serving, Busy
    <3>4. Resting'  BY <1>1, <1>8, <2>1, <3>2, <3>3 DEF Resting
    <3>. QED  BY <1>1, <1>4, <1>6, <1>7, <1>8, <2>2, <2>3, <3>4 DEF Phase, InPhase
  <2>4. CASE n # 0
    <3>1. d = <<>> /\ open'["client"] => Busy'
      <4>. SUFFICES ASSUME d = <<>>, open'["client"]  PROVE Busy'
        OBVIOUS
      <4>1. e = 0  BY <1>11, ChainNone
      <4>2. Serving(n, 0)  BY <1>1, <1>11, <4>1
      <4>. QED  BY <1>13, <2>4, <4>2 DEF Serving, Busy
    <3>2. d # <<>> => \E a \in Nat : \E f \in Nat : \E y \in Seq(Unit) :
                         a <= f /\ d = Data(a, f) \o y
      <4>. SUFFICES ASSUME d # <<>>
                    PROVE  \E f \in Nat : \E y \in Seq(Unit) : 0 <= f /\ d = Data(0, f) \o y
        OBVIOUS
      <4>1. Reach \in SUBSET Nat /\ Chain(d, 0, e, n, Reach)  BY <1>11
      <4>2. \E f \in Reach : \E y \in Seq(Unit) :
               /\ 0 <= f /\ d = Data(0, f) \o y /\ Chain(y, f, e, n, Reach)
        BY <4>1, ChainFirst
      <4>. QED  BY <4>1, <4>2
    <3>3. LeftOver(d)'  BY <3>1, <3>2 DEF LeftOver
    <3>4. GivenUp'  BY <1>1, <1>8, <1>12, <2>1, <2>2, <3>3 DEF GivenUp
    <3>. QED  BY <1>1, <1>8, <2>2, <2>4, <3>4 DEF Phase
  <2>. QED  BY <2>3, <2>4
<1>. QED  BY <1>15, <1>16 DEF RecvSize

(* A client that takes data, or has all of it, is copying. *)
LEMMA IsCopying ==
  ASSUME BufferInv, Phase, pc["client"] = "data"
  PROVE  /\ ~abandoned /\ Copying /\ pc["server"] # "lost"
         /\ \E d \in Seq(Unit) : \E e \in Nat :
               /\ OnWay("client", d) /\ Chain(d, Len(copy), e, fz, Reach)
               /\ open["client"] => Serving(fz, e)
<1>1. ~abandoned  BY DEF Phase, GivenUp
<1>2. Copying /\ pc["server"] # "lost"
  BY <1>1 DEF Phase, InPhase, Resting, Requested, Answered
<1>. QED  BY <1>1, <1>2 DEF Copying

(* Bytes that follow on the copy. *)
LEMMA Appended ==
  ASSUME NEW q \in Seq(Unit), NEW f \in Nat, Len(q) <= f,
         \A k \in DOMAIN q : q[k].is = "byte" /\ q[k].of = k
  PROVE  /\ q \o FileBytes(Len(q), f) \in Seq(Unit) /\ Len(q \o FileBytes(Len(q), f)) = f
         /\ \A k \in DOMAIN (q \o FileBytes(Len(q), f)) :
               /\ (q \o FileBytes(Len(q), f))[k].is = "byte"
               /\ (q \o FileBytes(Len(q), f))[k].of = k
<1>. DEFINE n == Len(q)  b == FileBytes(n, f)
<1>1. n \in Nat /\ n <= f  OBVIOUS
<1>2. b \in Seq(Unit) /\ Len(b) = f - n
      /\ \A i \in 1..(f - n) : b[i].is = "byte" /\ b[i].of = n + i
  BY <1>1, BytesShape
<1>. HIDE DEF b
<1>3. q \o b \in Seq(Unit) /\ Len(q \o b) = f
      /\ (\A i \in 1..n : (q \o b)[i] = q[i])
      /\ (\A i \in 1..(f - n) : (q \o b)[n + i] = b[i])
  <2>1. Len(q \o b) = n + Len(b)  BY <1>2, Joined2
  <2>. QED  BY <1>1, <1>2, <2>1, Joined2
<1>4. DOMAIN (q \o b) = 1..f /\ DOMAIN q = 1..n  BY <1>3
<1>5. ASSUME NEW k \in 1..f  PROVE (q \o b)[k].is = "byte" /\ (q \o b)[k].of = k
  <2>1. CASE k <= n  BY <1>1, <1>3, <1>4, <2>1
  <2>2. CASE ~(k <= n)
    <3>1. k - n \in 1..(f - n) /\ n + (k - n) = k  BY <1>1, <2>2
    <3>2. (q \o b)[k] = b[k - n]  BY <1>3, <3>1
    <3>. QED  BY <1>2, <3>1, <3>2
  <2>. QED  BY <2>1, <2>2
<1>. QED  BY <1>3, <1>4, <1>5 DEF b

LEMMA RecvDataPhase ==
  ASSUME BufferInv, Phase, FaithfulCopy, RecvData  PROVE Phase' /\ FaithfulCopy'
<1>. USE Types
<1>1. /\ file' = file /\ changes' = changes /\ pos' = pos /\ sendbuf' = sendbuf /\ fz' = fz
      /\ stream' = stream /\ open' = open /\ pc' = pc /\ abandoned' = abandoned
      /\ copy' = copy \o Body("client") /\ Understood("client", "data")
  BY DEF RecvData
<1>2. file_size \in [Side -> Int]  BY DEF BufferInv, TypeOK
<1>3. /\ pc["client"] = "data" /\ recvbuf'["server"] = recvbuf["server"]
      /\ ~OnWay("client", <<>>)
      /\ \A body \in Seq(Unit) : \A y \in Seq(Unit) :
            OnWay("client", Message(body) \o y) => Body("client") = body
                                                   /\ OnWay("client", y)'
  BY <1>1, ReadBy
<1>4. ~abandoned /\ Copying /\ pc["server"] # "lost"  BY <1>3, IsCopying
<1>5. PICK d \in Seq(Unit) : \E e \in Nat :
         /\ OnWay("client", d) /\ Chain(d, Len(copy), e, fz, Reach)
         /\ open["client"] => Serving(fz, e)
  BY <1>3, IsCopying
<1>6. PICK e \in Nat : /\ OnWay("client", d) /\ Chain(d, Len(copy), e, fz, Reach)
                       /\ open["client"] => Serving(fz, e)
  BY <1>5
<1>7. d # <<>>  BY <1>3, <1>6
<1>8. PICK f \in Reach : \E y \in Seq(Unit) :
         /\ Len(copy) <= f /\ d = Data(Len(copy), f) \o y
         /\ Chain(y, f, e, fz, Reach)
  <2>1. fz \in Nat /\ Len(copy) \in Nat /\ Reach \in SUBSET Nat  OBVIOUS
  <2>2. Chain(d, Len(copy), e, fz, Reach)  BY <1>6
  <2>. QED  BY ONLY <2>1, <2>2, <1>7, ChainFirst
<1>9. PICK y \in Seq(Unit) : /\ Len(copy) <= f /\ d = Data(Len(copy), f) \o y
                             /\ Chain(y, f, e, fz, Reach)
  BY <1>8
<1>10. f \in Nat  OBVIOUS
<1>11. Body("client") = FileBytes(Len(copy), f) /\ OnWay("client", y)'
       /\ Len(Body("client")) = f - Len(copy)
  <2>1. FileBytes(Len(copy), f) \in Seq(Unit)
        /\ Len(FileBytes(Len(copy), f)) = f - Len(copy)
    BY <1>9, <1>10, BytesShape
  <2>2. OnWay("client", Message(FileBytes(Len(copy), f)) \o y)  BY <1>6, <1>9 DEF Data
  <2>. QED  BY <1>3, <2>1, <2>2
<1>12. /\ Len(copy') = f
       /\ \A k \in DOMAIN copy' : copy'[k].is = "byte" /\ copy'[k].of = k
  <2>1. \A k \in DOMAIN copy : copy[k].is = "byte" /\ copy[k].of = k
    BY <1>4 DEF FaithfulCopy
  <2>2. copy' = copy \o FileBytes(Len(copy), f)  BY <1>1, <1>11
  <2>. DEFINE q == copy \o FileBytes(Len(copy), f)
  <2>3. copy \in Seq(Unit) /\ Len(copy) <= f  BY <1>9
  <2>4. Len(q) = f /\ \A k \in DOMAIN q : q[k].is = "byte" /\ q[k].of = k
    BY ONLY <1>10, <2>1, <2>3, Appended
  <2>. QED  BY <2>2, <2>4
<1>13. FaithfulCopy'  BY <1>1, <1>3, <1>12 DEF FaithfulCopy
<1>14. file_size["client"] = fz - Len(copy) /\ fz > 0 /\ (changes = {} => fz = file)
       /\ sendbuf["client"] = <<>> /\ OnWay("server", <<>>)
  BY <1>4 DEF Copying
<1>15. file_size'["client"] = fz - f /\ file_size'["server"] = file_size["server"]
  <2>1. file_size' = [file_size EXCEPT !["client"] = @ - Len(Body("client"))]
    BY DEF RecvData
  <2>2. file_size'["client"] = file_size["client"] - Len(Body("client"))
        /\ file_size'["server"] = file_size["server"]
    BY <1>2, <2>1
  <2>. QED  BY <1>10, <1>11, <1>14, <2>2
<1>16. OnWay("server", <<>>)'  BY <1>1, <1>3, <1>14, WaySame
<1>17. Reach' = Reach  BY <1>1 DEF Reach
<1>18. open'["client"] =>
            \/ pc'["server"] = "data" /\ pos' = e /\ file_size'["server"] = fz' - e
            \/ pc'["server"] \in {"idle", "request"} /\ e >= fz'
  BY <1>1, <1>6, <1>15 DEF Serving
<1>19. Chain(y, Len(copy'), e, fz', Reach')  BY <1>1, <1>9, <1>12, <1>17
<1>20. fz' > 0 /\ file_size'["client"] = fz' - Len(copy') /\ Len(copy') \in Reach'
       /\ (changes' = {} => fz' = file')
  BY <1>1, <1>12, <1>14, <1>15, <1>17
<1>21. Copying'
  BY <1>1, <1>3, <1>11, <1>14, <1>16, <1>18, <1>19, <1>20 DEF Copying, Serving
<1>. QED  BY <1>1, <1>4, <1>13, <1>21 DEF Phase, InPhase

LEMMA DownloadDonePhase ==
  ASSUME BufferInv, Phase, FaithfulCopy, DownloadDone  PROVE Phase' /\ FaithfulCopy'
<1>. USE Types
<1>1. /\ file' = file /\ changes' = changes /\ pos' = pos /\ sendbuf' = sendbuf /\ fz' = fz
      /\ stream' = stream /\ open' = open /\ copy' = copy /\ abandoned' = abandoned
      /\ file_size' = file_size /\ recvbuf' = recvbuf
      /\ pc["client"] = "data" /\ file_size["client"] <= 0
  BY DEF DownloadDone
<1>2. pc'["client"] = "idle" /\ pc'["server"] = pc["server"]
  BY DEF DownloadDone, BufferInv, TypeOK
<1>3. ~abandoned /\ Copying /\ pc["server"] # "lost"  BY <1>1, IsCopying
<1>4. PICK d \in Seq(Unit) : \E e \in Nat :
         /\ OnWay("client", d) /\ Chain(d, Len(copy), e, fz, Reach)
         /\ open["client"] => Serving(fz, e)
  BY <1>1, IsCopying
<1>5. PICK e \in Nat : /\ OnWay("client", d) /\ Chain(d, Len(copy), e, fz, Reach)
                       /\ open["client"] => Serving(fz, e)
  BY <1>4
<1>6. /\ file_size["client"] = fz - Len(copy) /\ fz > 0 /\ (changes = {} => fz = file)
      /\ sendbuf["client"] = <<>> /\ OnWay("server", <<>>) /\ Len(copy) \in Reach
  BY <1>3 DEF Copying
<1>7. Len(copy) >= fz  BY <1>1, <1>6
<1>8. d = <<>> /\ e = Len(copy)
  <2>1. fz \in Nat /\ Len(copy) \in Nat /\ Chain(d, Len(copy), e, fz, Reach)  BY <1>5
  <2>2. d = <<>>  BY ONLY <1>7, <2>1, ChainNone
  <2>. QED  BY ONLY <2>1, <2>2, ChainNone
<1>9. OnWay("client", <<>>)' /\ OnWay("server", <<>>)'
  BY <1>1, <1>5, <1>6, <1>8, WaySame
<1>10. open'["client"] => ~Busy'
  BY <1>1, <1>2, <1>5, <1>7, <1>8 DEF Serving, Busy
<1>11. Resting'  BY <1>1, <1>2, <1>6, <1>9, <1>10 DEF Resting
<1>12. changes = {} => Len(copy) = file  BY <1>6, <1>7 DEF Reach
<1>13. FaithfulCopy'  BY <1>1, <1>7, <1>12 DEF FaithfulCopy
<1>. QED  BY <1>1, <1>2, <1>3, <1>11, <1>13 DEF Phase, InPhase

(* The server adds a message to what is on the way to the client, unless   *)
(* the client's point is closed.                                           *)
LEMMA Added ==
  ASSUME BufferInv, NEW msg \in Seq(Unit), sendbuf["server"] = <<>>,
         sendbuf' = [sendbuf EXCEPT !["server"] = msg],
         recvbuf'["client"] = recvbuf["client"], stream' = stream, open' = open,
         NEW x \in Seq(Unit), OnWay("client", x)
  PROVE  IF open["client"] THEN OnWay("client", x \o msg)' ELSE OnWay("client", x)'
<1>1. sendbuf \in [Side -> Seq(Unit)] /\ "server" \in Side /\ "client" \in Side
      /\ Peer("client") = "server"
  BY Types DEF BufferInv, TypeOK
<1>2. sendbuf'["server"] = msg  BY <1>1
<1>3. OnWay("client", x \o msg)'  BY <1>1, <1>2, WaySent
<1>4. ~open["client"] => OnWay("client", x)'  BY <1>1, WaySame
<1>. QED  BY <1>3, <1>4

(* After a download that was given up a chunk still comes first. *)
LEMMA StillLeftOver ==
  ASSUME NEW x \in Seq(Unit), NEW msg \in Seq(Unit), LeftOver(x), x # <<>>
  PROVE  x \o msg \in Seq(Unit) /\ x \o msg # <<>>
         /\ \E a \in Nat : \E f \in Nat : \E y \in Seq(Unit) :
               a <= f /\ x \o msg = Data(a, f) \o y
<1>1. PICK a \in Nat : \E f \in Nat : \E y \in Seq(Unit) : a <= f /\ x = Data(a, f) \o y
  BY DEF LeftOver
<1>2. PICK f \in Nat : \E y \in Seq(Unit) : a <= f /\ x = Data(a, f) \o y  BY <1>1
<1>3. PICK y \in Seq(Unit) : a <= f /\ x = Data(a, f) \o y  BY <1>2
<1>. DEFINE u == Data(a, f)
<1>4. u \in Seq(Unit)  BY <1>3, DataShape
<1>5. x = u \o y  BY <1>3
<1>. HIDE DEF u
<1>6. x \o msg = u \o (y \o msg)
  <2>1. (u \o y) \o msg = u \o (y \o msg)  BY ONLY <1>4, Assoc, y \in Seq(Unit), msg \in Seq(Unit)
  <2>. QED  BY <1>5, <2>1
<1>7. y \o msg \in Seq(Unit)  BY Joined2
<1>8. x \o msg \in Seq(Unit) /\ x \o msg # <<>>
  <2>1. x \o msg \in Seq(Unit) /\ Len(x \o msg) = Len(x) + Len(msg)  BY Joined2
  <2>2. Len(x) \in Nat /\ Len(x) # 0 /\ Len(msg) \in Nat  OBVIOUS
  <2>3. Len(x \o msg) # 0  BY <2>1, <2>2
  <2>. QED  BY <2>1, <2>3
<1>. QED  BY <1>3, <1>6, <1>7, <1>8 DEF u

(* The server answers. *)
LEMMA AnswerPhase ==
  ASSUME BufferInv, RolesInv, Phase, SendNoFile \/ SendSize  PROVE Phase'
<1>. USE Types
<1>1. /\ file' = file /\ changes' = changes /\ pos' = pos /\ fz' = fz
      /\ stream' = stream /\ open' = open /\ copy' = copy /\ abandoned' = abandoned
      /\ Understood("server", "request")
  BY DEF SendNoFile, SendSize
<1>2. /\ pc \in [Side -> {"idle", "request", "reply", "data", "lost"}]
      /\ file_size \in [Side -> Int] /\ sendbuf \in [Side -> Seq(Unit)]
  BY DEF BufferInv, TypeOK
<1>3. PICK n \in {0, file} :
         /\ sendbuf' = [sendbuf EXCEPT !["server"] = Reply(n)]
         /\ file_size' = [file_size EXCEPT !["server"] = n]
         /\ pc' = [pc EXCEPT !["server"] = "data"]
  BY DEF SendNoFile, SendSize
<1>4. /\ sendbuf'["client"] = sendbuf["client"] /\ file_size'["server"] = n
      /\ pc'["server"] = "data" /\ pc'["client"] = pc["client"]
  BY <1>2, <1>3
<1>5. n \in Nat /\ Reply(n) \in Seq(Unit)
  <2>1. n \in Nat  OBVIOUS
  <2>. QED  BY <2>1, ReplyShape
<1>6. /\ pc["server"] = "request" /\ Received("server")
      /\ recvbuf'["client"] = recvbuf["client"]
      /\ ~OnWay("server", <<>>)
      /\ \A body \in Seq(Unit) : \A y \in Seq(Unit) :
            OnWay("server", Message(body) \o y) => OnWay("server", y)'
  BY <1>1, <1>4, ReadBy
<1>7. sendbuf["server"] = <<>> /\ pos = 0
  BY <1>6 DEF Received, Receiving, RolesInv
<1>8. \A x \in Seq(Unit) : OnWay("client", x) =>
         IF open["client"] THEN OnWay("client", x \o Reply(n))' ELSE OnWay("client", x)'
  BY <1>1, <1>3, <1>5, <1>6, <1>7, Added
<1>9. CASE abandoned
  <2>1. GivenUp  BY <1>9 DEF Phase
  <2>2. PICK x \in Seq(Unit) : OnWay("client", x) /\ LeftOver(x)  BY <2>1 DEF GivenUp
  <2>3. CASE open["client"]
    <3>1. x # <<>>  BY <1>6, <2>2, <2>3 DEF LeftOver, Busy
    <3>2. OnWay("client", x \o Reply(n))'  BY <1>8, <2>2, <2>3
    <3>3. x \o Reply(n) \in Seq(Unit) /\ LeftOver(x \o Reply(n))'
      <4>. DEFINE z == x \o Reply(n)
      <4>1. z \in Seq(Unit) /\ z # <<>>
            /\ \E a \in Nat : \E f \in Nat : \E y \in Seq(Unit) : a <= f /\ z = Data(a, f) \o y
        BY <1>5, <2>2, <3>1, StillLeftOver
      <4>. HIDE DEF z
      <4>2. LeftOver(z)'  BY <4>1 DEF LeftOver
      <4>. QED  BY <4>1, <4>2 DEF z
    <3>4. GivenUp'  BY <1>1, <1>4, <2>1, <3>2, <3>3 DEF GivenUp
    <3>. QED  BY <1>1, <1>9, <3>4 DEF Phase
  <2>4. CASE ~open["client"]
    <3>1. OnWay("client", x)'  BY <1>8, <2>2, <2>4
    <3>2. LeftOver(x)'  BY <1>1, <2>2, <2>4 DEF LeftOver
    <3>3. GivenUp'  BY <1>1, <1>4, <2>1, <3>1, <3>2 DEF GivenUp
    <3>. QED  BY <1>1, <1>9, <3>3 DEF Phase
  <2>. QED  BY <2>3, <2>4
<1>10. CASE ~abandoned
  <2>1. Requested
    BY <1>6, <1>10 DEF Phase, InPhase, Resting, Answered, Copying
  <2>2. PICK name \in {"present", "missing"} : OnWay("server", Request(name))
    BY <2>1 DEF Requested
  <2>3. OnWay("server", <<>>)'
    <3>. DEFINE body == Text("command") \o Text(name)
    <3>1. body \in Seq(Unit) /\ Message(body) \o <<>> = Request(name)
      BY RequestShape DEF Request
    <3>2. <<>> \in Seq(Unit)  OBVIOUS
    <3>. HIDE DEF body
    <3>. QED  BY <1>6, <2>2, <3>1, <3>2
  <2>4. sendbuf["client"] = <<>>
    <3>1. recvbuf["server"] # <<>>
      <4>1. Len(recvbuf["server"]) >= INT  BY <1>6 DEF Received, HasLength
      <4>. QED  BY <4>1, FileTransferAssumption
    <3>. QED  BY <2>1, <3>1 DEF Requested
  <2>5. OnWay("client", <<>>) /\ fz = 0 /\ copy = <<>> /\ pc["client"] = "reply"
    BY <2>1 DEF Requested
  <2>6. OnWay("client", Reply(n) \o <<>>)'
    <3>1. <<>> \in Seq(Unit)  OBVIOUS
    <3>2. recvbuf'["client"] = recvbuf["client"] /\ stream'["client"] = stream["client"]
          /\ open'["client"] = open["client"] /\ sendbuf'["server"] = Reply(n)
      BY <1>1, <1>2, <1>3, <1>5, <1>6
    <3>3. OnWay("client", <<>> \o Reply(n))'
      BY <1>5, <1>7, <2>5, <3>1, <3>2, WaySent
    <3>4. <<>> \o Reply(n) = Reply(n) \o <<>>  BY <1>5, NoMore
    <3>. QED  BY <3>3, <3>4
  <2>7. Chain(<<>>, 0, 0, n, Reach')  BY ChainEmpty
  <2>8. Serving(n, 0)'  BY <1>1, <1>4, <1>5, <1>7 DEF Serving
  <2>9. changes' = {} => n \in {0, file'}  BY <1>1
  <2>10. Answered'
    BY <1>1, <1>4, <1>5, <2>3, <2>4, <2>5, <2>6, <2>7, <2>8, <2>9, EmptySeq DEF Answered
  <2>. QED  BY <1>1, <1>4, <1>10, <2>10 DEF Phase, InPhase
<1>. QED  BY <1>9, <1>10

(* The server sends the next chunk. *)
LEMMA SendDataPhase ==
  ASSUME BufferInv, Phase, SendData  PROVE Phase'
<1>. USE Types
<1>a. PICK p \in Nat : p = pos  OBVIOUS
<1>b. PICK g \in Nat : g = PieceEnd  OBVIOUS
<1>c. p <= g  BY <1>a, <1>b
<1>1. /\ file' = file /\ changes' = changes /\ fz' = fz /\ pc' = pc /\ recvbuf' = recvbuf
      /\ stream' = stream /\ open' = open /\ copy' = copy /\ abandoned' = abandoned
      /\ sendbuf["server"] = <<>> /\ pos' = g
      /\ sendbuf' = [sendbuf EXCEPT !["server"] = Data(p, g)]
  BY <1>a, <1>b DEF SendData
<1>2. file_size \in [Side -> Int] /\ sendbuf \in [Side -> Seq(Unit)]
  BY DEF BufferInv, TypeOK
<1>3. Busy /\ pc["server"] = "data"  BY DEF SendData, Busy
<1>4. /\ sendbuf'["client"] = sendbuf["client"]
      /\ file_size'["client"] = file_size["client"]
      /\ file_size'["server"] = file_size["server"] - (g - p)
  BY <1>a, <1>b, <1>1, <1>2 DEF SendData
<1>. DEFINE msg == Data(p, g)
<1>5. msg \in Seq(Unit) /\ Len(msg) = INT + (g - p)  BY <1>c, DataShape
<1>6. \A x \in Seq(Unit) : OnWay("client", x) =>
         IF open["client"] THEN OnWay("client", x \o msg)' ELSE OnWay("client", x)'
  <2>1. sendbuf' = [sendbuf EXCEPT !["server"] = msg]  BY <1>1
  <2>2. recvbuf'["client"] = recvbuf["client"]  BY <1>1
  <2>. HIDE DEF msg
  <2>. QED  BY <1>1, <1>5, <2>1, <2>2, Added
<1>7. \A x : OnWay("server", x) => OnWay("server", x)'  BY <1>1, <1>4, WaySame
<1>8. CASE ~open["client"]
  <2>1. \A x : OnWay("client", x) => OnWay("client", x)'  BY <1>1, <1>8, WaySame
  <2>2. \A s \in Side : \A x : OnWay(s, x) => OnWay(s, x)'
    <3>1. \A s \in Side : s = "client" \/ s = "server"  BY DEF Side
    <3>. QED  BY <1>7, <2>1, <3>1
  <2>3. Reach \subseteq Reach'  BY <1>1 DEF Reach
  <2>4. ~open'["client"]  BY <1>1, <1>8
  <2>. QED  BY <1>1, <1>4, <2>2, <2>3, <2>4, SamePhase
<1>9. CASE open["client"] /\ abandoned
  <2>1. GivenUp  BY <1>9 DEF Phase
  <2>2. PICK x \in Seq(Unit) : OnWay("client", x) /\ LeftOver(x)  BY <2>1 DEF GivenUp
  <2>. DEFINE z == x \o msg
  <2>3. OnWay("client", z)'  BY <1>6, <1>9, <2>2
  <2>4. z \in Seq(Unit) /\ z # <<>>
        /\ \E a \in Nat : \E f \in Nat : \E y \in Seq(Unit) : a <= f /\ z = Data(a, f) \o y
    <3>c. p \in Nat /\ g \in Nat /\ p <= g  BY <1>c
    <3>1. CASE x = <<>>
      <4>1. z = msg /\ msg = msg \o <<>> /\ <<>> \in Seq(Unit)  BY <1>5, <3>1, NoMore
      <4>2. INT \in Nat /\ INT >= 1  BY FileTransferAssumption
      <4>3. msg # <<>>
        <5>1. Len(msg) # 0  BY <1>5, <1>c, <4>2
        <5>. QED  BY <5>1
      <4>. QED  BY <1>5, <3>c, <4>1, <4>3
    <3>2. CASE x # <<>>  BY <1>5, <2>2, <3>2, StillLeftOver
    <3>. QED  BY <3>1, <3>2
  <2>. HIDE DEF z
  <2>5. LeftOver(z)'  BY <2>4 DEF LeftOver
  <2>6. GivenUp'  BY <1>1, <2>1, <2>3, <2>4, <2>5 DEF GivenUp
  <2>. QED  BY <1>1, <1>9, <2>6 DEF Phase
<1>10. CASE open["client"] /\ ~abandoned
  <2>0. InPhase /\ (Answered \/ Copying)
    BY <1>3, <1>10 DEF Phase, InPhase, Resting, Requested
  <2>1. \A n \in Nat : \A e \in Nat :
           Serving(n, e) => p = e /\ e < n /\ Serving(n, g)'
    <3>. SUFFICES ASSUME NEW n \in Nat, NEW e \in Nat, Serving(n, e)
                  PROVE  p = e /\ e < n /\ Serving(n, g)'
      OBVIOUS
    <3>1. p = e /\ file_size["server"] = n - e  BY <1>a, <1>3 DEF Serving
    <3>2. e < n  BY <1>3, <3>1 DEF Busy
    <3>3. file_size'["server"] = n - g  BY <1>4, <3>1
    <3>. QED  BY <1>1, <1>3, <3>1, <3>2, <3>3 DEF Serving
  <2>2. ASSUME NEW n \in Nat, p < n, changes = {} => n \in {0, file}
        PROVE  g \in Reach
    <3>1. CASE changes = {}
      <4>1. pos < file  BY <1>a, <2>2, <3>1
      <4>2. g <= file  BY <1>b, <4>1 DEF PieceEnd, Min2
      <4>. QED  BY <3>1, <4>2 DEF Reach
    <3>2. CASE changes # {}  BY <3>2 DEF Reach
    <3>. QED  BY <3>1, <3>2
  <2>3. Reach' = Reach  BY <1>1 DEF Reach
  <2>4. CASE Answered
    <3>1. PICK n \in Nat : \E d \in Seq(Unit) : \E e \in Nat :
              /\ changes = {} => n \in {0, file}
              /\ OnWay("client", Reply(n) \o d) /\ Chain(d, 0, e, n, Reach)
              /\ open["client"] => Serving(n, e)
      BY <2>4 DEF Answered
    <3>2. PICK d \in Seq(Unit) : \E e \in Nat :
              /\ changes = {} => n \in {0, file}
              /\ OnWay("client", Reply(n) \o d) /\ Chain(d, 0, e, n, Reach)
              /\ open["client"] => Serving(n, e)
      BY <3>1
    <3>3. PICK e \in Nat :
              /\ changes = {} => n \in {0, file}
              /\ OnWay("client", Reply(n) \o d) /\ Chain(d, 0, e, n, Reach)
              /\ open["client"] => Serving(n, e)
      BY <3>2
    <3>4. p = e /\ e < n /\ Serving(n, g)'  BY <1>10, <2>1, <3>3
    <3>5. g \in Reach  BY <2>2, <3>3, <3>4
    <3>6. Chain(d \o msg, 0, g, n, Reach')
      <4>1. 0 \in Nat /\ e \in Nat /\ n \in Nat /\ Reach \in SUBSET Nat /\ e <= g
        BY <1>c, <3>4
      <4>2. Chain(d, 0, e, n, Reach) /\ e < n  BY <3>3, <3>4
      <4>3. Chain(d \o Data(e, g), 0, g, n, Reach)
        BY ONLY <3>5, <4>1, <4>2, ChainSent, d \in Seq(Unit)
      <4>. QED  BY <2>3, <3>4, <4>3
    <3>7. OnWay("client", Reply(n) \o (d \o msg))' /\ d \o msg \in Seq(Unit)
      <4>1. Reply(n) \in Seq(Unit)  BY ReplyShape
      <4>. DEFINE w == Reply(n)
      <4>. HIDE DEF msg, w
      <4>2. w \in Seq(Unit)  BY <4>1 DEF w
      <4>3. w \o d \in Seq(Unit) /\ d \o msg \in Seq(Unit)  BY <1>5, <4>2, Joined2
      <4>4. (w \o d) \o msg = w \o (d \o msg)  BY <1>5, <4>2, Assoc
      <4>5. OnWay("client", w \o d)  BY <3>3 DEF w
      <4>6. OnWay("client", (w \o d) \o msg)'  BY <1>6, <1>10, <4>3, <4>5
      <4>. QED  BY <4>3, <4>4, <4>6 DEF w
    <3>8. changes' = {} => n \in {0, file'}  BY <1>1, <3>3
    <3>9. OnWay("server", <<>>)'  BY <1>7, <2>4 DEF Answered
    <3>. HIDE DEF msg
    <3>10. Answered'
      BY <1>1, <1>4, <2>4, <3>4, <3>6, <3>7, <3>8, <3>9 DEF Answered
    <3>. QED  BY <1>1, <1>3, <1>10, <3>10 DEF Phase, InPhase
  <2>5. CASE Copying
    <3>1. PICK d \in Seq(Unit) : \E e \in Nat :
              /\ OnWay("client", d) /\ Chain(d, Len(copy), e, fz, Reach)
              /\ open["client"] => Serving(fz, e)
      BY <2>5 DEF Copying
    <3>2. PICK e \in Nat :
              /\ OnWay("client", d) /\ Chain(d, Len(copy), e, fz, Reach)
              /\ open["client"] => Serving(fz, e)
      BY <3>1
    <3>m. PICK m \in Nat : m = fz  OBVIOUS
    <3>3. p = e /\ e < m /\ Serving(m, g)'
      <4>1. Serving(m, e)  BY <1>10, <3>2, <3>m
      <4>. QED  BY <2>1, <4>1
    <3>4. g \in Reach  BY <2>2, <2>5, <3>3, <3>m DEF Copying
    <3>5. Chain(d \o msg, Len(copy'), g, fz', Reach')
      <4>1. Len(copy) \in Nat /\ e \in Nat /\ fz \in Nat /\ Reach \in SUBSET Nat
            /\ e <= g
        BY <1>c, <3>3
      <4>2. Chain(d, Len(copy), e, fz, Reach) /\ e < fz  BY <3>2, <3>3, <3>m
      <4>3. Chain(d \o Data(e, g), Len(copy), g, fz, Reach)
        BY ONLY <3>4, <4>1, <4>2, ChainSent, d \in Seq(Unit)
      <4>. QED  BY <1>1, <2>3, <3>3, <4>3
    <3>6. OnWay("client", d \o msg)' /\ d \o msg \in Seq(Unit)
      BY <1>5, <1>6, <1>10, <3>2, Joined2
    <3>7. OnWay("server", <<>>)'  BY <1>7, <2>5 DEF Copying
    <3>8. \/ pc'["server"] = "data" /\ pos' = g /\ file_size'["server"] = fz' - g
          \/ pc'["server"] \in {"idle", "request"} /\ g >= fz'
      BY <1>1, <3>3, <3>m DEF Serving
    <3>. HIDE DEF msg
    <3>9. Copying'
      BY <1>1, <1>4, <2>3, <2>5, <3>5, <3>6, <3>7, <3>8 DEF Copying, Serving
    <3>. QED  BY <1>1, <1>3, <1>10, <3>9 DEF Phase, InPhase
  <2>. QED  BY <2>0, <2>4, <2>5
<1>. QED  BY <1>8, <1>9, <1>10

-----------------------------------------------------------------------------
LEMMA InitTransfer == Init => TransferInv
<1>. SUFFICES ASSUME Init  PROVE TransferInv
  OBVIOUS
<1>1. BufferInv  BY InitBuffers
<1>2. RolesInv /\ FaithfulCopy /\ ~abandoned  BY DEF Init, RolesInv, FaithfulCopy, Side
<1>3. \A s \in Side : recvbuf[s] = <<>> /\ stream[s] = <<>> /\ open[s] /\ sendbuf[Peer(s)] = <<>>
  BY Sides DEF Init
<1>4. ASSUME NEW s \in Side  PROVE OnWay(s, <<>>)
  <2>1. <<>> \in Seq(Unit) /\ <<>> \o <<>> = <<>>
    <3>1. <<>> \in Seq(Unit)  OBVIOUS
    <3>. QED  BY <3>1, NoMore
  <2>2. Coming(s) = <<>>  BY <1>3, <2>1 DEF Coming
  <2>. QED  BY <1>3, <2>1, <2>2 DEF OnWay
<1>5. Resting  BY <1>4 DEF Init, Resting, Busy, Side
<1>6. pc["server"] # "lost"  BY DEF Init, Side
<1>. QED  BY <1>1, <1>2, <1>5, <1>6 DEF TransferInv, PhaseInv, Phase, InPhase

LEMMA RolesKept == ASSUME BufferInv, RolesInv, Next  PROVE RolesInv'
<1>1. pc \in [Side -> {"idle", "request", "reply", "data", "lost"}]
      /\ "client" \in Side /\ "server" \in Side
  BY DEF BufferInv, TypeOK, Side
<1>2. CASE Client
  <2>1. pos' = pos /\ pc'["server"] = pc["server"] /\ pc'["client"] # "request"
    BY <1>1, <1>2 DEF Client, RecvSize, RecvData, DownloadDone, RolesInv
  <2>. QED  BY <2>1 DEF RolesInv
<1>3. CASE Server
  <2>1. pc'["client"] = pc["client"] /\ pc'["server"] \in {"data", "idle"}
    BY <1>1, <1>3 DEF Server, SendNoFile, SendSize, SendData, UploadDone
  <2>. QED  BY <2>1 DEF RolesInv
<1>4. CASE Upload
  <2>1. pc'["client"] = pc["client"] /\ pc'["server"] = "request" /\ pos' = 0
    BY <1>1, <1>4 DEF Upload
  <2>. QED  BY <2>1 DEF RolesInv
<1>5. ASSUME NEW name \in {"present", "missing"}, Download(name)  PROVE RolesInv'
  <2>1. pc'["client"] = "reply" /\ pc'["server"] = pc["server"] /\ pos' = pos
    BY <1>1, <1>5 DEF Download
  <2>. QED  BY <2>1 DEF RolesInv
<1>6. ASSUME NEW s \in Side, SendIps(s) \/ RecvPoint(s) \/ CloseConn(s) \/ RecvFin(s)
      PROVE  RolesInv'
  BY <1>6 DEF SendIps, RecvPoint, CloseConn, RecvFin, RolesInv
<1>7. ASSUME NEW s \in Side, Misread(s)  PROVE RolesInv'
  <2>1. pos' = pos /\ \A t \in Side : pc'[t] = pc[t] \/ pc'[t] = "lost"
    BY <1>1, <1>7 DEF Misread
  <2>. QED  BY <1>1, <2>1 DEF RolesInv
<1>8. ASSUME NEW n \in FileSizes, ChangeFile(n)  PROVE RolesInv'
  BY <1>8 DEF ChangeFile, RolesInv
<1>. QED  BY <1>2, <1>3, <1>4, <1>5, <1>6, <1>7, <1>8 DEF Next, Recv

(* A step that does not touch the copy. *)
LEMMA SameCopy ==
  ASSUME FaithfulCopy, copy' = copy, fz' = fz, abandoned' = abandoned,
         pc'["client"] = "idle" => pc["client"] = "idle",
         changes' = {} => changes = {} /\ file' = file
  PROVE  FaithfulCopy'
  BY DEF FaithfulCopy

LEMMA NextTransfer == TransferInv /\ [Next]_vars => TransferInv'
<1>. SUFFICES ASSUME TransferInv, [Next]_vars  PROVE TransferInv'
  OBVIOUS
<1>1. BufferInv /\ RolesInv /\ FaithfulCopy /\ Phase  BY DEF TransferInv, PhaseInv
<1>2. BufferInv'  BY <1>1, BuffersKept
<1>3. /\ pc \in [Side -> {"idle", "request", "reply", "data", "lost"}]
      /\ "client" \in Side /\ "server" \in Side
  BY <1>1 DEF BufferInv, TypeOK, Side
<1>4. CASE UNCHANGED vars
  <2>1. RolesInv'  BY <1>1, <1>4 DEF RolesInv, vars
  <2>2. FaithfulCopy'  BY <1>1, <1>4, SameCopy DEF vars
  <2>3. Phase'
    <3>1. \A s \in Side : \A x : OnWay(s, x) => OnWay(s, x)'  BY <1>4, WaySame DEF vars
    <3>2. (Busy' <=> Busy) /\ Reach \subseteq Reach'  BY <1>4 DEF vars, Busy, Reach
    <3>3. \A n \in Nat : \A e \in Nat : Serving(n, e) => Serving(n, e)'
      BY <1>4 DEF vars, Serving
    <3>. QED  BY <1>1, <1>4, <3>1, <3>2, <3>3, SamePhase DEF vars
  <2>. QED  BY <1>2, <2>1, <2>2, <2>3 DEF TransferInv, PhaseInv
<1>5. ASSUME Next  PROVE RolesInv' /\ FaithfulCopy' /\ Phase'
  <2>0. RolesInv'  BY <1>1, <1>5, RolesKept
  <2>1. CASE RecvSize
    <3>1. Phase' /\ fz = 0 /\ copy' = <<>>  BY <1>1, <2>1, RecvSizePhase
    <3>2. DOMAIN copy' = {}  BY <3>1
    <3>3. pc'["client"] = "idle" => fz' = 0  BY <1>3, <2>1, <3>1 DEF RecvSize
    <3>4. FaithfulCopy'  BY <3>2, <3>3 DEF FaithfulCopy
    <3>. QED  BY <2>0, <3>1, <3>4
  <2>2. CASE RecvData  BY <1>1, <2>0, <2>2, RecvDataPhase
  <2>3. CASE DownloadDone  BY <1>1, <2>0, <2>3, DownloadDonePhase
  <2>4. CASE SendNoFile \/ SendSize
    <3>1. Phase'  BY <1>1, <2>4, AnswerPhase
    <3>2. FaithfulCopy'  BY <1>1, <1>3, <2>4, SameCopy DEF SendNoFile, SendSize
    <3>. QED  BY <2>0, <3>1, <3>2
  <2>5. CASE SendData
    <3>1. Phase'  BY <1>1, <2>5, SendDataPhase
    <3>2. FaithfulCopy'  BY <1>1, <2>5, SameCopy DEF SendData
    <3>. QED  BY <2>0, <3>1, <3>2
  <2>6. CASE Upload \/ UploadDone
    <3>1. Phase'  BY <1>1, <2>6, UploadKeepsPhase
    <3>2. FaithfulCopy'  BY <1>1, <1>3, <2>6, SameCopy DEF Upload, UploadDone
    <3>. QED  BY <2>0, <3>1, <3>2
  <2>7. ASSUME NEW name \in {"present", "missing"}, Download(name)
        PROVE  FaithfulCopy' /\ Phase'
    <3>1. Phase'  BY <1>1, <2>7, DownloadPhase
    <3>2. fz' = 0 /\ DOMAIN copy' = {}  BY <2>7 DEF Download
    <3>3. FaithfulCopy'  BY <3>2 DEF FaithfulCopy
    <3>. QED  BY <3>1, <3>3
  <2>8. ASSUME NEW s \in Side, SendIps(s) \/ RecvPoint(s) \/ CloseConn(s) \/ RecvFin(s)
        PROVE  FaithfulCopy' /\ Phase'
    <3>1. Phase'  BY <1>1, <2>8, MoveKeepsPhase
    <3>2. FaithfulCopy'
      BY <1>1, <2>8, SameCopy DEF SendIps, RecvPoint, CloseConn, RecvFin
    <3>. QED  BY <3>1, <3>2
  <2>9. ASSUME NEW s \in Side, Misread(s)  PROVE FaithfulCopy' /\ Phase'
    <3>1. Phase'  BY <1>1, <2>9, MisreadPhase
    <3>2. pc'["client"] = "idle" => pc["client"] = "idle"  BY <1>3, <2>9 DEF Misread
    <3>3. FaithfulCopy'  BY <1>1, <2>9, <3>2, SameCopy DEF Misread
    <3>. QED  BY <3>1, <3>3
  <2>10. ASSUME NEW n \in FileSizes, ChangeFile(n)  PROVE FaithfulCopy' /\ Phase'
    <3>1. Phase'  BY <1>1, <2>10, ChangeKeepsPhase
    <3>2. FaithfulCopy'  BY <1>1, <2>10, SameCopy DEF ChangeFile
    <3>. QED  BY <3>1, <3>2
  <2>. QED
    BY <1>5, <2>0, <2>1, <2>2, <2>3, <2>4, <2>5, <2>6, <2>7, <2>8, <2>9, <2>10
    DEF Next, Client, Server, Recv
<1>. QED  BY <1>2, <1>4, <1>5 DEF TransferInv, PhaseInv

(* What a download writes is the file from its first byte on, and a        *)
(* download that is done has all that was announced, in spite of how       *)
(* recv_point cuts the messages, of closes and of changes of the file.     *)
THEOREM CopyFaithful == Spec => []FaithfulCopy
<1>1. TransferInv => FaithfulCopy  BY DEF TransferInv, PhaseInv
<1>. QED  BY InitTransfer, NextTransfer, <1>1, PTL DEF Spec

(* Each side finds the message it expects, and between two transfers       *)
(* nothing is left in the connection, as long as every download could      *)
(* create its file.                                                        *)
THEOREM SidesInStep == Spec => []InStep
<1>1. TransferInv => InStep
  <2>. SUFFICES ASSUME TransferInv, ~abandoned  PROVE
          /\ \A s \in Side : pc[s] # "lost"
          /\ (\A s \in Side : pc[s] = "idle" /\ open[s]) /\ calls["client"] = calls["server"]
                => \A s \in Side : stream[s] = <<>> /\ recvbuf[s] = <<>>
    BY DEF InStep
  <2>1. BufferInv /\ InPhase  BY DEF TransferInv, PhaseInv, Phase
  <2>2. \A s \in Side : s = "client" \/ s = "server"  BY DEF Side
  <2>3. \A s \in Side : pc[s] # "lost"
    BY <2>1, <2>2 DEF InPhase, Resting, Requested, Answered, Copying
  <2>4. ASSUME pc["client"] = "idle"
        PROVE  \A s \in Side : stream[s] = <<>> /\ recvbuf[s] = <<>>
    <3>1. Resting  BY <2>1, <2>4 DEF InPhase, Requested, Answered, Copying
    <3>2. \A s \in Side : OnWay(s, <<>>)  BY <2>2, <3>1 DEF Resting
    <3>. QED  BY <2>1, <3>2, WayEmpty
  <2>5. "client" \in Side  BY DEF Side
  <2>. QED  BY <2>3, <2>4, <2>5
<1>. QED  BY InitTransfer, NextTransfer, <1>1, PTL DEF Spec
=============================================================================

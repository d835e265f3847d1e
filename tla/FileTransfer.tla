---------------------------- MODULE FileTransfer ----------------------------
(***************************************************************************)
(* The application layer: download on one host asks for a file that upload *)
(* on the other host reads and sends (application_layer.c).  Every message *)
(* starts with its length, and the two sides must agree on where one ends  *)
(* and on which is the last.                                               *)
(*                                                                         *)
(* The connection is what DataTransfer shows it to be, a stream in each    *)
(* direction; recv_point returns what has arrived of it, which may be      *)
(* nothing.  close_conn cuts the streams off wherever they are, because a  *)
(* FIN does not wait for the data before it (Connection).                  *)
(*                                                                         *)
(* A definition marked "variant" is not part of the model: it is a         *)
(* plausible mistake in the definition after it.                           *)
(***************************************************************************)
EXTENDS Integers, Sequences

CONSTANTS INT,              \* sizeof(int) in units of the stream
          MAX_BUF_LENGTH,   \* the longest message
          FileSizes,        \* sizes the file may have
          InFlight,         \* bound: units ahead of their reader
          MaxCalls          \* bound: calls of download, and of upload

ASSUME FileTransferAssumption ==
    /\ INT \in Nat \ {0} /\ MAX_BUF_LENGTH \in Nat /\ MAX_BUF_LENGTH >= 2 * INT + 2
    /\ FileSizes \subseteq Nat
    /\ InFlight \in Nat \ {0} /\ MaxCalls \in Nat

VARIABLES
    file,       \* the size of the file at the server; its k-th byte is k
    changes,    \* how it has changed while it was there
    pc,         \* what each side is doing
    sendbuf,    \* the message each side is sending
    recvbuf,    \* what each side has of the message it is receiving
    stream,     \* the units on the way to each side
    open,       \* whether the point of each side is connected
    file_size,  \* what each side has still to receive or send
    fz,         \* the size the client was told
    copy,       \* what the client has written to its file
    pos,        \* how much the server has read of the file
    calls,      \* the number of downloads and of uploads
    abandoned   \* the client could not create a file

vars == <<file, changes, pc, sendbuf, recvbuf, stream, open, file_size, fz, copy,
          pos, calls, abandoned>>

Side == {"client", "server"}
Peer(s) == IF s = "client" THEN "server" ELSE "client"

(* A unit of the stream: part i of a length, of a size or of the request,  *)
(* or a byte of the file.                                                  *)
Number(what, n) == [i \in 1..INT |-> [is |-> what, of |-> n, part |-> i]]
Text(what)      == <<[is |-> what, of |-> 0, part |-> 1]>>
FileBytes(a, b) == [i \in 1..(b - a) |-> [is |-> "byte", of |-> a + i, part |-> 1]]

Message(body) == Number("length", INT + Len(body)) \o body
Request(name) == Message(Text("command") \o Text(name))
Reply(n)      == Message(Number("size", n))
Data(a, b)    == Message(FileBytes(a, b))

Min2(a, b) == IF a < b THEN a ELSE b

Init ==
    /\ file \in FileSizes /\ changes = {}
    /\ pc = [s \in Side |-> "idle"]
    /\ sendbuf = [s \in Side |-> <<>>] /\ recvbuf = [s \in Side |-> <<>>]
    /\ stream = [s \in Side |-> <<>>] /\ open = [s \in Side |-> TRUE]
    /\ file_size = [s \in Side |-> 0] /\ fz = 0 /\ copy = <<>> /\ pos = 0
    /\ calls = [s \in Side |-> 0] /\ abandoned = FALSE

-----------------------------------------------------------------------------
(* send_ips: send_point takes the whole message, which is shorter than its *)
(* limit; once the point is not connected it takes nothing, and send_ips   *)
(* calls it for ever.  The code looks at flag_con some time before it      *)
(* hands the buffer over, so it may still take a message after a close;    *)
(* that message goes no further, as one sent to a closed peer here.        *)
SendIps(s) ==
    /\ sendbuf[s] # <<>> /\ open[s] /\ Len(stream[Peer(s)]) < InFlight
    /\ sendbuf' = [sendbuf EXCEPT ![s] = <<>>]
    /\ stream' = IF open[Peer(s)]
                 THEN [stream EXCEPT ![Peer(s)] = @ \o sendbuf[s]] ELSE stream
    /\ UNCHANGED <<file, changes, pc, recvbuf, open, file_size, fz, copy, pos, calls,
                   abandoned>>

(* recv_ips: first the length, *)
Header(s)   == SubSeq(recvbuf[s], 1, INT)
IsLength(s) == recvbuf[s][1].is = "length" /\ Header(s) = Number("length", recvbuf[s][1].of)
(* then what it says. *)
Wanted(s) == IF Len(recvbuf[s]) < INT THEN INT - Len(recvbuf[s])
             ELSE recvbuf[s][1].of - Len(recvbuf[s])

Receiving(s) == /\ sendbuf[s] = <<>>
                /\ \/ pc[s] \in {"request", "reply"}
                   \/ s = "client" /\ pc[s] = "data" /\ file_size[s] > 0
HasLength(s) == Len(recvbuf[s]) >= INT /\ IsLength(s)
Received(s)  == Receiving(s) /\ HasLength(s) /\ Wanted(s) = 0

RecvPointPart(s) ==     \* variant: takes what is there for the whole message
    /\ Receiving(s) /\ stream[s] # <<>> /\ Len(recvbuf[s]) < INT
    /\ recvbuf' = [recvbuf EXCEPT ![s] = @ \o stream[s]]
    /\ stream' = [stream EXCEPT ![s] = <<>>]
    /\ UNCHANGED <<file, changes, pc, sendbuf, open, file_size, fz, copy, pos, calls,
                   abandoned>>
RecvPoint(s) ==
    /\ Receiving(s) /\ (Len(recvbuf[s]) < INT \/ HasLength(s))
    /\ \E n \in 1..Min2(Wanted(s), Len(stream[s])) :
          /\ recvbuf' = [recvbuf EXCEPT ![s] = @ \o SubSeq(stream[s], 1, n)]
          /\ stream' = [stream EXCEPT ![s] = SubSeq(@, n + 1, Len(@))]
    /\ UNCHANGED <<file, changes, pc, sendbuf, open, file_size, fz, copy, pos, calls,
                   abandoned>>

Body(s) == SubSeq(recvbuf[s], INT + 1, Len(recvbuf[s]))

(* What was received is not what the side takes it for, and the number it  *)
(* reads may be any; the model follows it no further.                      *)
Expected(s) == CASE pc[s] = "request" -> "command"
                 [] pc[s] = "reply"   -> "size"
                 [] OTHER             -> "byte"
Misread(s) ==
    /\ Receiving(s)
    /\ \/ Len(recvbuf[s]) >= INT /\ ~IsLength(s)
       \/ Received(s) /\ Body(s) # <<>> /\ Body(s)[1].is # Expected(s)
       \/ Received(s) /\ Body(s) = <<>> /\ pc[s] # "data"
    /\ pc' = [pc EXCEPT ![s] = "lost"]
    /\ UNCHANGED <<file, changes, sendbuf, recvbuf, stream, open, file_size, fz, copy,
                   pos, calls, abandoned>>

Understood(s, what) ==
    /\ pc[s] = what /\ Received(s)
    /\ IF Body(s) = <<>> THEN what = "data" ELSE Body(s)[1].is = Expected(s)
    /\ recvbuf' = [recvbuf EXCEPT ![s] = <<>>]

-----------------------------------------------------------------------------
(* download *)
Download(name) ==
    /\ pc["client"] = "idle" /\ calls["client"] < MaxCalls
    /\ calls' = [calls EXCEPT !["client"] = @ + 1]
    /\ sendbuf' = [sendbuf EXCEPT !["client"] = Request(name)]
    /\ pc' = [pc EXCEPT !["client"] = "reply"] /\ fz' = 0 /\ copy' = <<>>
    /\ UNCHANGED <<file, changes, recvbuf, stream, open, file_size, pos, abandoned>>

(* The size has come: 0 says that there is no file.  fopen may fail. *)
RecvSize ==
    LET n == Body("client")[1].of
    IN  /\ Understood("client", "reply")
        /\ \/ /\ n # 0 /\ pc' = [pc EXCEPT !["client"] = "data"]
              /\ file_size' = [file_size EXCEPT !["client"] = n] /\ fz' = n
              /\ UNCHANGED abandoned
           \/ /\ pc' = [pc EXCEPT !["client"] = "idle"]
              /\ abandoned' = (abandoned \/ n # 0)
              /\ UNCHANGED <<file_size, fz>>
        /\ UNCHANGED <<file, changes, sendbuf, stream, open, copy, pos, calls>>

RecvDataAll ==          \* variant: counts the length with the data
    /\ Understood("client", "data")
    /\ file_size' = [file_size EXCEPT !["client"] = @ - Len(recvbuf["client"])]
    /\ copy' = copy \o Body("client")
    /\ UNCHANGED <<file, changes, pc, sendbuf, stream, open, fz, pos, calls, abandoned>>
RecvData ==
    /\ Understood("client", "data")
    /\ file_size' = [file_size EXCEPT !["client"] = @ - Len(Body("client"))]
    /\ copy' = copy \o Body("client")
    /\ UNCHANGED <<file, changes, pc, sendbuf, stream, open, fz, pos, calls, abandoned>>

DownloadDone ==
    /\ pc["client"] = "data" /\ file_size["client"] <= 0
    /\ pc' = [pc EXCEPT !["client"] = "idle"]
    /\ UNCHANGED <<file, changes, sendbuf, recvbuf, stream, open, file_size, fz, copy,
                   pos, calls, abandoned>>

-----------------------------------------------------------------------------
(* upload *)
Upload ==
    /\ pc["server"] = "idle" /\ calls["server"] < MaxCalls
    /\ calls' = [calls EXCEPT !["server"] = @ + 1]
    /\ pc' = [pc EXCEPT !["server"] = "request"] /\ pos' = 0
    /\ UNCHANGED <<file, changes, sendbuf, recvbuf, stream, open, file_size, fz, copy,
                   abandoned>>

(* The answer to a request for a file that is not there is its size, 0;    *)
SendNoFile ==
    /\ Understood("server", "request") /\ Body("server")[2].is = "missing"
    /\ sendbuf' = [sendbuf EXCEPT !["server"] = Reply(0)]
    /\ file_size' = [file_size EXCEPT !["server"] = 0]
    /\ pc' = [pc EXCEPT !["server"] = "data"]
    /\ UNCHANGED <<file, changes, stream, open, fz, copy, pos, calls, abandoned>>

(* of one that is, what stat says.                                         *)
SendSize ==
    /\ Understood("server", "request") /\ Body("server")[2].is = "present"
    /\ sendbuf' = [sendbuf EXCEPT !["server"] = Reply(file)]
    /\ file_size' = [file_size EXCEPT !["server"] = file]
    /\ pc' = [pc EXCEPT !["server"] = "data"]
    /\ UNCHANGED <<file, changes, stream, open, fz, copy, pos, calls, abandoned>>

(* fread returns what there is up to the size of the buffer, and file_size *)
(* counts down by as much.                                                 *)
PieceEnd == IF pos >= file THEN pos ELSE Min2(file, pos + MAX_BUF_LENGTH - INT)

SendDataAll ==          \* variant: counts the length with the data
    /\ pc["server"] = "data" /\ sendbuf["server"] = <<>> /\ file_size["server"] > 0
    /\ sendbuf' = [sendbuf EXCEPT !["server"] = Data(pos, PieceEnd)]
    /\ file_size' = [file_size EXCEPT !["server"] = @ - (INT + PieceEnd - pos)]
    /\ pos' = PieceEnd
    /\ UNCHANGED <<file, changes, pc, recvbuf, stream, open, fz, copy, calls, abandoned>>
SendDataAgain ==        \* variant: reads the file from its first byte
    /\ pc["server"] = "data" /\ sendbuf["server"] = <<>> /\ file_size["server"] > 0
    /\ sendbuf' = [sendbuf EXCEPT !["server"] = Data(0, PieceEnd - pos)]
    /\ file_size' = [file_size EXCEPT !["server"] = @ - (PieceEnd - pos)]
    /\ pos' = PieceEnd
    /\ UNCHANGED <<file, changes, pc, recvbuf, stream, open, fz, copy, calls, abandoned>>
SendData ==
    /\ pc["server"] = "data" /\ sendbuf["server"] = <<>> /\ file_size["server"] > 0
    /\ sendbuf' = [sendbuf EXCEPT !["server"] = Data(pos, PieceEnd)]
    /\ file_size' = [file_size EXCEPT !["server"] = @ - (PieceEnd - pos)]
    /\ pos' = PieceEnd
    /\ UNCHANGED <<file, changes, pc, recvbuf, stream, open, fz, copy, calls, abandoned>>

UploadDone ==
    /\ pc["server"] = "data" /\ sendbuf["server"] = <<>> /\ file_size["server"] <= 0
    /\ pc' = [pc EXCEPT !["server"] = "idle"]
    /\ UNCHANGED <<file, changes, sendbuf, recvbuf, stream, open, file_size, fz, copy,
                   pos, calls, abandoned>>

-----------------------------------------------------------------------------
(* Another program appends to the file or cuts it (each once: a bound).    *)
Change(n) == IF n < file THEN "cut" ELSE "grown"
ChangeFile(n) ==
    /\ n # file /\ Change(n) \notin changes
    /\ file' = n /\ changes' = changes \cup {Change(n)}
    /\ UNCHANGED <<pc, sendbuf, recvbuf, stream, open, file_size, fz, copy, pos, calls,
                   abandoned>>

(* The user of one side, back in the menu, closes the connection: what has *)
(* not arrived is lost,                                                    *)
Cut(s) == \E n \in 0..Len(stream[s]) :
             stream' = [stream EXCEPT ![s] = SubSeq(@, 1, n)]

CloseConn(s) ==
    /\ pc[s] = "idle" /\ open[s]
    /\ open' = [open EXCEPT ![s] = FALSE] /\ Cut(s)
    /\ UNCHANGED <<file, changes, pc, sendbuf, recvbuf, file_size, fz, copy, pos, calls,
                   abandoned>>

(* and on the other side it is when the FIN arrives.                       *)
RecvFin(s) ==
    /\ ~open[Peer(s)] /\ open[s]
    /\ open' = [open EXCEPT ![s] = FALSE] /\ Cut(s)
    /\ UNCHANGED <<file, changes, pc, sendbuf, recvbuf, file_size, fz, copy, pos, calls,
                   abandoned>>

-----------------------------------------------------------------------------
Recv(s) == RecvPoint(s) \/ Misread(s)
Client  == RecvSize \/ RecvData \/ DownloadDone
Server  == SendNoFile \/ SendSize \/ SendData \/ UploadDone

Next == \/ Client \/ Server \/ Upload
        \/ \E name \in {"present", "missing"} : Download(name)
        \/ \E s \in Side : SendIps(s) \/ Recv(s) \/ CloseConn(s) \/ RecvFin(s)
        \/ \E n \in FileSizes : ChangeFile(n)

Spec == Init /\ [][Next]_vars

(* The two programs run, and what was sent arrives (EverythingArrives of   *)
(* DataTransfer): the side that accepted the connection has that beyond    *)
(* its first window only if its partner's last message of the handshake    *)
(* was not lost.  Users do as they please.                                 *)
Fairness == /\ WF_vars(Client) /\ WF_vars(Server)
            /\ \A s \in Side : WF_vars(SendIps(s)) /\ WF_vars(Recv(s))

FairSpec == Spec /\ Fairness

-----------------------------------------------------------------------------
(* Properties. *)

Unit == [is : {"length", "size", "command", "present", "missing", "byte"}, of : Nat,
         part : 0..INT]

TypeOK ==
    /\ file \in FileSizes /\ changes \subseteq {"cut", "grown"}
    /\ pc \in [Side -> {"idle", "request", "reply", "data", "lost"}]
    /\ {sendbuf, recvbuf, stream} \subseteq [Side -> Seq(Unit)]
    /\ \A s \in Side : Len(recvbuf[s]) <= MAX_BUF_LENGTH
    /\ open \in [Side -> BOOLEAN] /\ file_size \in [Side -> Int]
    /\ fz \in Nat /\ copy \in Seq(Unit) /\ pos \in Nat
    /\ calls \in [Side -> 0..MaxCalls] /\ abandoned \in BOOLEAN

(* What download writes is the file from its first byte on, and when it    *)
(* reports the transfer as done that is as much as was announced, and all  *)
(* of the file if nobody changed it, wherever recv_point cut the messages  *)
(* and also if the connection was closed meanwhile.                        *)
FaithfulCopy ==
    /\ ~abandoned => \A k \in DOMAIN copy : copy[k].is = "byte" /\ copy[k].of = k
    /\ pc["client"] = "idle" /\ fz > 0 =>
         Len(copy) >= fz /\ (changes = {} => Len(copy) = file)

(* The two sides agree on the messages: each finds what it expects, and    *)
(* when both are back in their menu after as many calls nothing of the     *)
(* transfer is left in the connection, also if the file has changed while  *)
(* it was sent.  Only a download that could not create its file, or a      *)
(* close, puts them out of step for good.                                  *)
InStep ==
    ~abandoned =>
        /\ \A s \in Side : pc[s] # "lost"
        /\ (\A s \in Side : pc[s] = "idle" /\ open[s]) /\ calls["client"] = calls["server"]
              => \A s \in Side : stream[s] = <<>> /\ recvbuf[s] = <<>>

(* A download whose upload was called, and the upload, end, unless the     *)
(* connection was closed, the file was cut after stat, so that upload      *)
(* sends empty messages for ever and download takes them, or an earlier    *)
(* download left its data in the connection.  The premise, stated with the *)
(* fairness, is that what was sent arrives.                                *)
Excused == abandoned \/ "cut" \in changes \/ \E s \in Side : ~open[s]
TransferEnds ==
    \A s \in Side :
        pc[s] # "idle" /\ calls[s] <= calls[Peer(s)] ~> pc[s] = "idle" \/ Excused
=============================================================================

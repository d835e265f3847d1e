# A verification of the network stack

The program is a small network stack in user space. Each process is one host;
its layers (link, network, transport, application) are threads that share
memory, and frames travel between hosts as UDP datagrams that a "garbler" may
lose, corrupt or repeat. This directory holds TLA+ modules for the parts whose
correctness depends on the order in which threads and datagrams meet, TLC
configurations that check them on small instances, and TLAPS proofs.

## 1. The system

| Component | State | Operations | Talks to |
|---|---|---|---|
| transport: data transfer (`transport_layer.c`) | per service point: `send_buff` with `mutex_prod`/`mutex_cons`, `seq_num_s`, window, `acks`, `segs`, `segs_aux`, `seq_num_r` with `prev_`/`end_seq_num_r` | `send_point`, `send_thread`, one `seg_send_thread` per segment, `recv_thread`, `recv_point` | application (calls), network (`net_send`, one-slot hand-over) |
| transport: ack list (`ack_lst.c`), segment list (`seg_lst.c`) | linked lists | `insert_ack`, `set_ack`, `is_set`, `in_seq`; `insert_seg`, `insert_seg_lst`, `recv_seg` | the threads of a service point, under `mutex_ack` and `mutex_seg` |
| transport: connections | `flag_con`, `flag_close`, `mutex_con`, numbers of the handshake | `connect_point`, `sync_thread`, `sync_ack_thread`, `close_conn`, `close_conn_aux`, `alloc_`/`dalloc_service_point` | the same |
| transport: dispatch | one slot per service point | `internalrecv` | network below, `recv_thread`s above |
| network: send queue (`net_layer.c`) | `wait_list[100]`, `prod_vector`, `cons_vector`, `wait_item`, two System V semaphores | `net_send`, `net_resend`, `wait_list_insert`, `wait_list_remove` | transport and route threads above, `internalsend` below |
| network: fragmentation, reassembly (`frag.c`, `net_list.c`) | `count_id`, list of incomplete packets | `fragpack`, `fragpack2`, `insertoffset`, `addoffset`, `getpack` | link, and `net_resend` for packets of other hosts |
| network: routing | `routes`, `neighbors` under `route_table_mutex` | `internalsendroute`, `internalhandleroute`, `disable_route`, `enable_route`, `hostreachable` | neighbours, by packets of protocol 0 |
| link (`link.c`) | one-slot `send_frame`, `recv_frame`, each with two mutexes used as binary semaphores | `link_send`, `internalsend`, `internalrecv` | UDP through the garbler |
| garbler, checksum | the three percentages | `sendto_garbled`; `checksum` | link, network, transport |
| application (`application_layer.c`) | the file, its size and what is left of it | `download`, `upload`, `send_ips`, `recv_ips`, the menu | transport (`send_point`, `recv_point`, connections), routing and `config_link` (menu) |
| configuration (`project.c`, `config.c`), logging, test drivers | topology: `links`, `hosts` | `getmtu`, `config_link`, `get_max_mtu`, parsing | link, network |

What is hard here: threads that share a list under one of several mutexes;
mutexes locked by one thread and unlocked by another, used as semaphores; one
retransmitting thread per segment; datagrams lost, repeated and reordered
under a window with sequence numbers that wrap; a handshake and a close that
retransmit; a ring filled and emptied without a common lock; semaphores that
outlive the process; pieces of packets of many sources that interleave. The
file `PROJECT.json` lists these places line by line as hazards.

What makes each part correct:

* data transfer - the receiver's bytes are the sender's, once each and in
  order; nothing acknowledged is missing; never more than a window is on the
  way; a segment is repeated until it has arrived; everything arrives;
* connections - a client that takes itself for connected has a server; no side
  is free while its partner takes the connection for open; a call completes;
* send queue - a bounded first-in first-out queue of whole packets;
* reassembly - a packet comes out as it went in, or not at all; pieces that
  the links bring do not stop the receiving thread;
* routing - no table is better than the network; the next hop is nearer to the
  destination, so packets do not go round; tables reach the shortest ways;
* hand-overs of link, network and transport - no frame is overwritten, mixed
  or taken twice, and no circle of waiting threads stops the host;
* application - a copy is the file; both sides agree where a message ends and
  which is the last; transfers end.

## 2. The modules

| Module | What it is |
|---|---|
| `ReliableStream` | abstract: what a connection promises to two applications |
| `DataTransfer` | one direction of an established connection: sender, receiver and the network in between |
| `DataTransferInv` | its inductive invariant `IInv` |
| `DataTransferProofs` | the theorems about it |
| `Connection` | handshake, close and their retransmissions between two hosts |
| `ConnectionProofs` | the theorems about it |
| `BoundedQueue` | abstract: what the send queue promises |
| `SendQueue` | the ring, its semaphores, its mutex and its callers |
| `SendQueueProofs` | the theorems about it |
| `Reassembly` | cutting, forwarding, cutting again and putting together |
| `ReassemblyProofs` | the theorems about it |
| `Routing` | tables, announcements on the way, the menu that disables and enables links |
| `RoutingProofs` | the theorems about it |
| `LeastNumber` | induction on a least counterexample, for the two above |
| `FrameChannel` | abstract: what the way from the socket to a service point promises |
| `LayerThreads` | the threads of link, network and transport and their one-slot hand-overs, up and down |
| `LayerThreadsProofs` | the theorems about it |
| `FileTransfer` | `download` and `upload` over two streams |
| `FileTransferProofs` | the theorems about it |
| `MC...` | what TLC runs: the module, and nothing changed in it |

In every module a definition marked "variant" is a plausible mistake in the
definition after it. Variants are not part of the model; each property of a
passing run is shown to notice one.

### DataTransfer

A byte is its position in the stream, so a segment's payload is an interval and
"the right data" means "the right positions". The actions follow the threads:
`SendPoint` and `TakeBuffer` (the `mutex_prod`/`mutex_cons` hand-over),
`CutSegment` (one round of the loop of `send_thread`, with its call of
`insert_ack`), `LockAcks`, `PopAck` and `UnlockAcks` (the inner loop over
`in_seq`, which holds `mutex_ack`), `FirstSend` and `Timeout` (a
`seg_send_thread` before and after `sleep`), `ReceiveAck`, the deliveries to
`recv_thread` by the case of the receive window the number falls in
(`DeliverOld`, `DeliverNext`, `DeliverAhead`, `DeliverOutside`), `Pull` and
`PullDone` (`insert_seg` taking segments out of `segs_aux` one by one), and
`RecvPoint`.
Numbers are reduced modulo `MAX_SEQ_NUM` exactly where the code reduces them;
elsewhere they are 32 bits wide. The network may lose anything, deliver it
any number of times and in any order.

Either side of a connection sends, and they do not start alike. The list begins with
the entry of the handshake. On the side that called `connect_point` the SYN+ACK has
set it (`HandshakeAcked`); on the side that accepted it is not set, although the point
is connected and may send, and the one ACK that sets it, which is never repeated, is on
its way and can be lost (`HandshakeSent`, `HandshakeLost`). `Init` allows both. When it is
lost, the side that accepted fills its window once, `in_seq` frees nothing and `send_point`
waits for ever; the liveness properties name that case, and fail without it.
`recv_thread` takes the number it acknowledges from the segment after it has given it to
`insert_seg`, which may have freed it (`AckOfFreed`): what it reads then is taken for a
number nobody awaits.

### Connection

Two hosts with one service point each. Messages are SYN, SYN+ACK, ACK, data and
FIN; `seg_send_thread`s repeat what is not acknowledged. Initial numbers come
from `rand()` and are taken as fresh, small and distinct. A message that does not
fit in `MaxNet` is lost, which the network may do anyway. `mutex_con` is part of
the state, because one path through `recv_thread` leaves it locked.

### SendQueue

Each thread is a program counter. A field of an item holds the call it was
written for, so a packet is whole when its fields agree; fields are written and
copied one at a time. The semaphores are numbers outside the process: `Restart`
clears everything else and adds `MAX_SEND_WAITING` to `g_sem_prod`, as `net_init`
does at every start. `inserted` and `removed` are history variables; they
are exactly the state of `BoundedQueue`, which makes the refinement mapping the
identity on names. Any number of threads may be in `net_send`, as in the running stack,
where the route thread, every `seg_send_thread` and every `recv_thread` call it; how many
is a constant. `WholeItems` asks that every packet be whole, which two callers
break; `ForwardedWhole` says how far the mixing of several goes: not into a packet that
is forwarded, nor from it into another.

### Reassembly

Several sources send through one router to one destination. A piece carries
what the header carries, and the number of its packet, which stands for the bytes
and is never read by an action. `addoffset` is modelled with what its pointers do: the
piece is appended, found to be the last one again, linked through a NULL `prev`
(the thread dies), or linked so that the chain becomes a ring (`getpack` then
copies past its buffer; a later search in the ring has no end). `recv` says
which of these has happened to the receiving thread.

The list at the destination, `link_send` and `recvfrom` decide which pieces get
through: a datagram must be below the MTU of its link, and its frame, 12 bytes
longer, within `MaxMtu`, the largest MTU of the network, which is the size of the
receive buffer (`Fits`). `Sent` is the result in closed form: all pieces but the last have
one size, so either all get through, or the last one alone, or none.

The garbler is behind every link, and decides for every frame: each link loses,
repeats and lets datagrams overtake, `MaxFaults` times in all. Where that happens
matters. A packet of three pieces that is whole on the first link, sent twice there
and cut by the router comes as 0, 8, 16, 0, 8, 16; with the first 8 lost the destination
has [0, 16, 0], as many bytes as the packet, and hands them up. So repetition before a
router puts pieces out of order as much as overtaking does. `disordered` is the
history of the packets to which either has happened, and `DeliveredIntact` is about
all the others, packet by packet: copies on the second link or of packets that no router
cuts, losses anywhere, and the disorder of other packets do no harm. `NeverMixed` is about all
packets.

### Routing

Every host has its table, its neighbours and its own array of links, since each
process has its own memory. `StartRoutes`, `Serve`, `ReadEntry` and `SendRoute` are the
loops of `internalsendroute`: the neighbour list is read without the mutex, an
entry is read under it, and `net_send` comes after it is released, so tables may
change between any two of them. `HandleRoute` is one `internalhandleroute` thread;
as each announcement has a thread of its own they finish in any order.
`DisableLink` and `EnableLink` are the menu's two calls each, for any host, be it a
neighbour or not: the routing table
and `config_link`, which takes host numbers for indices and so changes the
link to host h + 1 when asked for h - 1 (`ConfiguredLink`), or no link of
this host at all. Numbers that are no host's index (0, or `MAX_HOSTS` for
`config_link`) are written outside the arrays and are left out. Costs are eight bits
wide and come round (`COST_MODULUS`). `disabled` and `enabled` are history variables: a
link that was enabled counts as one of the network in `CostIsDistance`, because the
menu enters it without asking whether it is there. The length of the shortest way
and the walk along the tables are recursive functions of the number of steps; they
serve the properties only.

### LayerThreads

One action per stretch of a thread between two operations on a mutex, or between two
accesses to a shared variable. A mutex is a Boolean; who locks and who unlocks it
is in the actions, because the code uses pairs of mutexes as binary semaphores. A
frame is told apart only by where it goes and by an alternating bit. An item of the send
queue is one call of `link_send`; the pieces of one that is cut are further calls at the
same place, between which no lock is held. What a
service point does with a segment is reduced to what it locks and what it puts
in the send queue: data and FIN need `mutex_con`, an acknowledgement needs room,
and data for a point that is not connected leaves `mutex_con` locked. `UnderWay`
maps the shared variables and local copies, oldest first, to the queue of
`FrameChannel`.

### FileTransfer

A unit of the stream is part of a length, of a size or of a request, or a byte of
the file, so that a side that is out of step reads something it can be seen
to misread (`lost`; the number it would read is arbitrary and the model stops
there). `RecvPoint` is one call of `recv_point` within `recv_ips`, with any part of
what is on the way; calls that return nothing are stutters. `SendIps` is
`send_ips`, one call of `send_point` for messages this short; the code tests `flag_con`
some time before it hands the buffer over, and what it takes after a close goes no
further. `Download`, `RecvSize`,
`RecvData`, `DownloadDone` and `Upload`, `SendNoFile`, `SendSize`, `SendData`,
`UploadDone` are the two functions from one blocking call to the next. The streams are those
that `DataTransfer` implements; `CloseConn` and `RecvFin` cut them off, because a
FIN is handled when it arrives and not in its turn (`Connection`).

## 3. What is checked

| Run | Expected | Question |
|---|---|---|
| `transfer_safety` | holds | segments of two and one bytes under a window of three: order, acknowledgements, window, retransmission, the inductive invariant, and the refinement of `ReliableStream` |
| `transfer_liveness` | holds | every byte arrives and `send_point` is unblocked, on both sides of a connection; on the side that accepted, when its handshake entry stays unacknowledged, up to the first window |
| `connection_safety` | holds | with loss, repetition, reordering, a byte of data and both sides closing: a connected client has a server, and closing is orderly |
| `connection_liveness` | holds | the handshake and the client's close complete |
| `connection_leak` | violated | early data leaves `mutex_con` locked and the handshake hangs |
| `queue_ring` | holds | two threads in `net_send` and the forwarding thread: the ring is a bounded queue, what is forwarded is whole and stays apart, and all data leaves |
| `queue_shared_item` | violated | two threads in `net_send` mix their packets |
| `queue_restart` | violated | after a restart the consumer takes slots nobody filled |
| `reassembly_pieces` | holds | packets of two sources, whole or cut twice, under any two faults of the two links: nothing mixed, nothing missing of a packet in order, nothing left behind without a fault |
| `routing_tables` | holds | three hosts in a row, two uses of two menus on any host: costs, next hops, no loops, and every host learns the shortest way |
| `layer_threads` | holds | every interleaving of the threads with a send queue that is full again and again: whole frames, a first-in first-out channel, no circle of waiting |
| `file_transfer` | holds | two downloads in messages that arrive in any parts, of a file that may change, with a client that may fail and sides that may close |

The violated runs each check what a comment of the code says; the counterexample
is the disagreement, and `PROJECT.json` quotes the lines.

**Bounds.** Windows of two and three bytes with segments of one and two make all
cases of the window arithmetic occur: a full window, a segment cut to fit, a
window that frees less and more than a segment. More segments in flight are
the business of the proofs, which hold for any number. Buffers of
zero bytes are included. The run about liveness sends three bytes under a window of two, so that
the third waits until the window has moved. In `Connection` one call of `connect_point`, `MaxNet`
datagrams in flight and `MaxIsn` numbers suffice for copies of every message to
come late into every state. Three packets in a ring of two slots make it full,
keep a thread waiting and use a slot again. A packet of 28 bytes is cut into 24 and 4 and then into 8, 8, 8 and 4,
the smallest chain that `addoffset` can close to a ring; one of 10 is not cut. The piece of 24 is
whole on the first link and cut in three by the router, so two faults, a repetition
before the router and a loss behind it, are enough for an entry that counts as many bytes as
the packet and has one piece twice. The two sources are alike, so the run
takes states that differ in their names only as one (`SourceSymmetry`); all its properties
are invariants.
The row of three hosts is the smallest with a host that knows a destination
from announcements only, which is the one whose entries are followed (`Dests`:
entries of different destinations do not touch). With one service point the
host of `LayerThreads` has every thread the code has; a second point multiplies
the states by more than ten and adds a competitor for the same hand-over. A file
of 0 to 5 bytes in messages of 4 bytes of data takes none, one or two
messages and a last one that is full or not. Runs whose calls, bytes or
packets are bounded may stop at the end; where they do the configuration
switches the deadlock check off.

**Fairness.** `DataTransfer!FairSpec`: the threads run (weak fairness). A
`seg_send_thread` that wakes up competes for `mutex_ack` with `send_thread`,
which polls `in_seq` in a tight loop; the mutex is free again and again but not
continuously, so `Timeout` needs strong fairness, and so does the handling of a
received acknowledgement. That is an assumption about the scheduler: under weak
fairness alone the polling starves retransmission, and `SendPointUnblocked` fails. So
the run cannot show that the threads do not starve (the hazard at
`transport_layer.c:541`), only that nothing else stops them.
A datagram sent again and again is delivered in the end (strong fairness of
deliveries): the garbler loses a fraction of the datagrams. An acknowledgement
that is already with `recv_thread` waiting for `mutex_ack` can no longer be lost.
`Connection!FairSpec` is the same for its threads and messages.
`Routing!FairSpec`: the threads run, and of the announcements of one entry
that a neighbour repeats for ever some get through. `LayerThreads!FairSpec`:
the threads run, and `semop` and the mutexes let those who wait for the send queue
in in turn (strong fairness of `NetForward` and of each `recv_thread`).
`FileTransfer!FairSpec`: both programs run and what was sent arrives; nothing is
asked of the users. That what was sent arrives is `EverythingArrives`, which the side that
accepted the connection has beyond its first window only if its handshake entry was
acknowledged: `TransferEnds` rests on that when the uploading side is the one that accepted. `SendQueue!FairSpec`:
the threads run, and waiting for a semaphore or for `prod_insert` ends (strong
fairness), since the kernel serves `semop` in turn and the mutex is held for a few
assignments.

## 4. What is proved

`DataTransferProofs` proves for every `window_size`, `MAX_SEGMENT_SIZE`, set of
buffer sizes and number of bytes, under the assumption `NoWrap`: the sequence
numbers of the connection stay below `MAX_SEQ_NUM`. `connect_point` and
`sync_thread` compute the first number as `rand()` plus the window, below 2^31,
so `NoWrap` holds for about the first 2^31 bytes. Beyond it the properties do not
hold: `seg_send_thread` looks up the number after its segment without the reduction
that `send_thread` applies to the list (`LookNum`, `AckNum`), and stops sending
at the wrap.

The argument. "The receiver has the bytes of the stream in order" is not
inductive; `IInv` (module `DataTransferInv`) says why it is true. `SenderInv` and `WindowInv`
tie the position of `send_thread` in its buffer to the sequence number and the
window; `AcksInv` says the acknowledgement list tiles the bytes between `una` and
`snd`; `SegmentsInv` says that every segment anywhere carries the bytes its number
claims and that two segments never overlap; `ThreadsInv` says that a thread still
running waits for an entry of the list or for one that is gone; `ReceiverInv`
ties the receive window to the bytes held; the last parts say that whatever is
acknowledged anywhere is held. Each action has its own lemma per part that it can
disturb. Then:

| Theorem | States |
|---|---|
| `Inductive` | `Spec => []IInv` |
| `TypeCorrect` | `Spec => []TypeOK` |
| `DeliveredInOrder` | `Spec => []InOrderDelivery` |
| `AcknowledgedIsHeld` | `Spec => []AckedIsHeld` |
| `WindowRespected` | `Spec => []UnackedWithinWindow` |
| `ResentIsAnswered` | `Spec => []UnackedAcceptable` |
| `RetransmissionIsEnough` | `Spec => ResendUntilHeld` |
| `ReliableConnection` | `Spec => ImplementsStream`, the refinement |

`LayerThreadsProofs` proves for every set of service points and every length of the
send queue that the hand-overs between the layers exclude writer and reader. No
mutex of a pair says who may touch the shared variable: the permission is with one
mutex, with a thread between its two, with the other mutex, or with the other thread.
"What was copied is one frame" needs that exactly one of these signs holds
at a time, and what the variable holds under each; `FrameInv`, `DatagramInv` and
`SendInv` say so for the three variables. The same invariant says what each place of
`UnderWay` holds when a thread moves a frame on, so every step of a thread either
leaves the sequence of frames as it is, adds one at its end or takes the first.

| Theorem | States |
|---|---|
| `HandOversExclusive` | `Spec => []HandOverInv`, the inductive invariant |
| `TypeCorrect` | `Spec => []TypeOK` |
| `FramesWhole` | `Spec => []WholeFrames` |
| `HandOversAreChannel` | `Spec => ImplementsChannel`, the refinement of `FrameChannel` |

`SendQueueProofs` is for every size of the ring and any threads. Producers and
consumer have no lock in common; what keeps a producer out of a slot that still
holds an item is a count. `CountInv`: free slots, slots claimed by a thread, items
and the slot being given back add up to the size of the ring, and posts, posts to
come and the item being read add up to the items. `MutexInv` and `PositionInv` say
that one thread fills, at the slot after the newest item; `ItemsInv`, `FillInv` and
`ReadInv` what the slots, the slot being filled and the copy being taken hold, field
by field.

| Theorem | States |
|---|---|
| `RingConsistent` | `Spec => []QueueInv`, the inductive invariant |
| `TypeCorrect` | `Spec => []TypeOK` |
| `RingIsQueue` | `Spec => ImplementsQueue`, the refinement of `BoundedQueue` |
| `ForwardedApart` | `Spec => []ForwardedWhole`, for any number of callers of `net_send` at once |

The theorems are about a queue whose program was not restarted: what happens then is
what the run `queue_restart` shows. That the packets of `net_send` itself are whole is not
proved, since the code always has several callers and the run `queue_shared_item`
refutes it.

`RoutingProofs` is for every number of hosts, every topology whose links join
different hosts, and every use of the menu. `CostIsDistance` needs that an
announcement is true of the host it goes to, whenever it is handled. `RoutesDescend`
needs that the host that announced a route still has one as cheap when the
announcement is handled, however late; it has, because entries only improve until a
link is disabled (`AnnouncedInv`), and because no cost comes round until then: the hosts
a route has passed are different ones that still have a cheaper one (`PassedInv`), so a
cost is at most the number of hosts, which eight bits hold. `LoopFree` then follows in each state: costs along
the walk fall, so it ends, and it can only end at the destination.

| Theorem | States |
|---|---|
| `TablesConsistent` | `Spec => []RoutingInv`, the inductive invariant |
| `TypeCorrect` | `Spec => []TypeOK` |
| `CostBound` | `Spec => []CostIsDistance` |
| `NextHopCloser` | `Spec => []RoutesDescend` |
| `PacketsArrive` | `Spec => []LoopFree` |

`ConnectionProofs` has two parts. The first holds for any number of calls: each
connection takes its numbers from a room of its own (`NumbersInv`), and a number on
the way is one that has an acknowledgement. The second follows one call of
`connect_point`, with any points, any data and any loss and repetition.
`OneConnectionInv` says who takes part, what can be on the way in each direction, and
which states the two points can be in together: the server in the connection with the
second number drawn or, once the client has left, in one that it opened for a late
copy of the SYN. Neither property holds for a second call through the same point,
which can take the late SYN+ACK of the first for its own (the hazard at
`transport_layer.c:664`); hence `MaxCalls <= 1`. `ClientHasServer` is about the points
of `Clients`, and a client that is the server of another would be held to it in a part it
is not meant for; hence one client there.

| Theorem | States |
|---|---|
| `NumbersApart` | `Spec => []ConnectionInv`, for any number of calls |
| `TypeCorrect` | `Spec => []TypeOK`, for any number of calls |
| `OneCall` | `Spec => []OneConnectionInv`, for one call |
| `ConnectedHasServer` | `Spec => []ClientHasServer`, for one call by one client |
| `ClosesInOrder` | `Spec => []OrderlyClose`, for one call |

`ReassemblyProofs` is for any sources, sizes, MTUs of 28 and more (below that
`fragpack` has no room for data) and any faults, in three steps. The ids of a source
come round after 65536 packets and then name two packets; all but the first results
are about the time before, `MaxPackets <= ID_MODULUS`.

*Origin.* The destination knows a packet by its source and id. That cutting,
forwarding, cutting again, the list and even a chain that has become a ring leave the
pieces of one entry to one source and id is `OriginInv`.

*Order.* An entry is handed up when it counts as many bytes as its packet has. Those
need not be the bytes of the packet: with a piece lost and another there twice the
count is right and the packet is not. `OrderInv` says why that does not happen
to a packet that is not in `disordered`, however often either link errs and whatever
becomes of the other packets of its source. Its pieces are in order on both links
(`LinksSorted`), what is on the way comes after what an entry holds or is its last piece
once more (`Awaits`), and so the count of an entry is at most where its last piece
ends, and equal only when there is no gap before it (`Tallied`). A chain that was closed
to a ring is out of order, but is never handed up.

*Completeness.* Without a fault, `SmoothInv`: what precedes a piece is on its way or in
the list (`NoGap`), an entry holds all bytes up to its last piece (`Growing`), and the last
piece of a packet is on its way until the packet is handed up. What arrives is therefore the
next of its packet (`NextOfPacket`). `addoffset` might still take another piece for its
predecessor: it compares the distance of two offsets with the size of the later
piece, not of the earlier. `FarApart` shows that it does not, also for pieces cut twice
with different MTUs: offsets are multiples of 8, and a piece is shorter than the way
to it from any but the one before it.

The premise of the last part, `NothingRefused`, is about MTUs and sizes only: the
sources and the router send all pieces of every packet there may be. The code
does not ensure it: with (MTU - 20) a multiple of 8, as on Ethernet, full pieces are as
large as the link and are refused. `PiecesFit` gives MTUs and sizes for which it holds,
among them those of the run.

| Theorem | States |
|---|---|
| `PiecesKeepOrigin` | `Spec => []ReassemblyInv`, the inductive invariant of the first step |
| `TypeCorrect` | `Spec => []TypeOK` |
| `PacketsNotMixed` | `Spec => []NeverMixed`, while ids have not come round |
| `OrderKept` | `Spec => []OrderInv`, the same, for any number of faults of both links |
| `DeliveredWhole` | `Spec => []DeliveredIntact`, the same |
| `SmoothKept` | `Spec => []SmoothInv`, the same, with `NothingRefused` |
| `DestinationRuns` | `Spec => []NeverStops`, with both premises |
| `NothingLeftBehind` | `Spec => []AllHandedUp`, with both premises |
| `PiecesFit` | when `NothingRefused` holds |

`FileTransferProofs` is for every file, every length of a message, every number of
calls and every change of the file meanwhile. Neither property is inductive: what a
side has read, what is on its way and what its peer is sending are cut at places that
mean nothing. Put together they are one sequence (`OnWay`), whose end a close may have
taken, and that sequence is always a number of whole messages. `Phase` says which:
nothing, the request, the answer with the first chunks, or chunks only, and how far
the server then is. The chunks are a `Chain`: each begins at the byte the one before it
ended at and was sent while fewer bytes than announced had been. Reading takes the first
message off (`WayRead`), so the client finds what it expects and the bytes follow on the
copy. A download that could not create its file leaves a chunk in front of the
next answer (`GivenUp`); `InStep` excludes it for that reason.

| Theorem | States |
|---|---|
| `TypeCorrect` | `Spec => []TypeOK`; for `recvbuf`: `recv_ips` stays within its buffer, because every length on the way does (`LengthInv`) |
| `CopyFaithful` | `Spec => []FaithfulCopy` |
| `SidesInStep` | `Spec => []InStep` |

Every invariant, action property and refinement that a passing run checks is thus stated by
a theorem. Only model-checked is liveness (`EverythingArrives`, `SendPointUnblocked`,
`ConnectCompletes`, `ClientCloses`, `EverythingLeaves`, `ShortestInTheEnd`, `ListensOn`,
`TransferEnds`): the prover has no rules for fairness and `ENABLED`.

Induction is used on natural numbers only, on a least counterexample (`LeastNumber`);
the theorems of the library that take an operator as a parameter are out of the
provers' reach, so the models describe lists by quantifiers and closed forms rather
than by recursive operators.

## 5. What is not modelled

* A second connection through the same service point: late copies from the first
  are then accepted in the second. `Connection` allows one call.
* Simultaneous connection of two points to each other (it never completes).
* `dalloc_service_point`: it frees memory that running threads use; such a
  step has no defined outcome.
* The last ACK of a handshake or of a close: the other side repeats for ever when
  it is lost and the answering side has moved on. `ConnectCompletes` and
  `ClientCloses` are about the side that called.
* Sequence numbers at the wrap (section 4).
* A late retransmission acknowledged by what freed memory happens to hold (`AckOfFreed`
  takes it for a number nobody awaits).
* Reassembly on a link with the largest MTU of the network: its full pieces are
  longer than the receive buffer and are all lost (`FitsBuffer`), so
  `AllHandedUp` is checked with a larger MTU elsewhere.
* A packet that was not cut, arriving while the list holds another one: `insertoffset`
  stores through a NULL pointer. `ReceiveNew` has the step, and
  `NeverStops` says when it cannot come.
* Routes after a link is disabled: `RoutesDescend`, `LoopFree` and `ShortestInTheEnd`
  stop there, since two hosts may then keep routes through each other for
  ever. `CostIsDistance` holds all the same.
* The start of the layers: `net_init` and `transport_init` assign mutexes that
  running threads use.
* The checksum: a function of bytes; the models take every corruption for noticed.
* Parsing, logging, test drivers: sequential input and output. The menu entries
  of the application that make one call of another layer are in that layer's module.
* A file that is deleted between `fopen` and `stat`, whose size is then whatever
  was in memory.
* Payload bytes, header layout, `malloc` and `free`.

## 6. Plan

Every module of the plan is written, and each has its proofs: `DataTransfer`, `Connection`,
`SendQueue`, `Reassembly`, `Routing`, `LayerThreads`, `FileTransfer`. What is left:

* `Connection`: a run with a second call that shows what is left of the first.

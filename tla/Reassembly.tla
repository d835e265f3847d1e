----------------------------- MODULE Reassembly -----------------------------
(***************************************************************************)
(* Packets of the network layer that do not fit a link: internalsend cuts  *)
(* them (frag.c), a router on the way forwards the pieces and cuts them    *)
(* again, and internalrecv of the destination puts them together           *)
(* (net_list.c).                                                           *)
(*                                                                         *)
(* A piece carries the interval of bytes that starts at off, of the packet *)
(* numbered pkt by its source: pkt and the interval stand for its data.    *)
(* The destination sees src, id, off, size and more only.                  *)
(*                                                                         *)
(* A definition marked "variant" is not part of the model: it is a         *)
(* plausible mistake in the definition after it.                           *)
(***************************************************************************)
EXTENDS Integers, Sequences

CONSTANTS Sources,      \* hosts that send to the destination
          Sizes,        \* sizes of their packets
          FirstMtu,     \* MTU of the link of a source to the router
          SecondMtu,    \* MTU of the link of the router to the destination
          MaxMtu,       \* the largest MTU of the network, all links counted
          ID_MODULUS,   \* count_id is a uint16_t: 65536
          MaxPackets,   \* bound: packets of each source
          MaxFaults     \* bound: the faults of the network

NET_HEADER_SIZE  == 20
LINK_HEADER_SIZE == 10
CHECKSUM_SIZE    == 2

ASSUME ReassemblyAssumption ==
    /\ Sizes \subseteq Nat \ {0}
    /\ FirstMtu \in Nat /\ SecondMtu \in Nat /\ MaxMtu \in Nat
    /\ FirstMtu >= NET_HEADER_SIZE + 8 /\ SecondMtu >= NET_HEADER_SIZE + 8
    /\ MaxMtu >= FirstMtu /\ MaxMtu >= SecondMtu
    /\ ID_MODULUS \in Nat \ {0}
    /\ MaxPackets \in Nat
    /\ MaxFaults \in Nat

VARIABLES
    size,       \* the size of each packet each source has sent
    count_id,   \* the id each source gives to its next packet
    first,      \* the link of each source to the router
    second,     \* the link of the router to the destination
    list,       \* incomplete packets at the destination, newest first
    delivered,  \* the pieces of each packet handed up, in order
    recv,       \* internalrecv: "runs", "crashed" or "hung"
    faults,     \* how many faults there have been
    disordered  \* history: the packets whose pieces have changed places

vars == <<size, count_id, first, second, list, delivered, recv, faults, disordered>>

-----------------------------------------------------------------------------
(* frag.c: fragpack and fragpack2 differ in the flag of the last piece:    *)
(* fragpack2 keeps the one of the piece it cuts.                           *)
FragSizeAny(mtu) == mtu - NET_HEADER_SIZE     \* variant: fills the link
FragSize(mtu)    == 8 * ((mtu - NET_HEADER_SIZE) \div 8)

Pieces(p, mtu) ==
    LET n == (p.size + FragSize(mtu) - 1) \div FragSize(mtu)
    IN  [i \in 1..n |->
            [p EXCEPT !.off  = p.off + (i - 1) * FragSize(mtu),
                      !.size = IF i < n THEN FragSize(mtu)
                                        ELSE p.size - (n - 1) * FragSize(mtu),
                      !.more = i < n \/ p.more]]

fragpackCleared(p, mtu) ==     \* variant: the last piece is always the last
    IF p.size + NET_HEADER_SIZE <= mtu THEN <<p>>
                                       ELSE Pieces([p EXCEPT !.more = FALSE], mtu)
fragpack(p, mtu) ==
    IF p.size + NET_HEADER_SIZE <= mtu THEN <<p>> ELSE Pieces(p, mtu)

(* link_send refuses what is as large as the MTU, and nobody looks at its  *)
(* result.  The receiver reads no more than the largest MTU of a datagram  *)
(* that holds the link's header and checksum as well; a frame it has cut   *)
(* off has a wrong checksum.                                               *)
FitsMtu(p, mtu) == p.size + NET_HEADER_SIZE < mtu
FitsBuffer(p) == LINK_HEADER_SIZE + NET_HEADER_SIZE + p.size + CHECKSUM_SIZE <= MaxMtu
Fits(p, mtu) == FitsMtu(p, mtu) /\ FitsBuffer(p)

(* What gets onto the link, of a packet that is cut where it must be: all  *)
(* pieces but the last have one size and share their lot.                  *)
Sent(p, mtu) == LET ps   == fragpack(p, mtu)
                    last == ps[Len(ps)]
                IN  CASE Fits(ps[1], mtu) -> ps
                      [] ~Fits(ps[1], mtu) /\ Fits(last, mtu) -> <<last>>
                      [] OTHER -> <<>>

-----------------------------------------------------------------------------
(* net_list.c.  An entry of the list: the pieces of one packet, its two    *)
(* counts of bytes, and whether the chain of pieces has become a ring.     *)

islastfrag(p) == ~p.more
Ends(p) == p.off + p.size

Matches(e, p) == {i \in 1..(IF e.ring THEN Len(e.offs) ELSE Len(e.offs) - 1) :
                     e.offs[i].off + p.size = p.off}

(* addoffset walks the chain up to the first piece that p seems to follow. *)
(* There it takes prev, which is NULL at the head of the chain, and makes  *)
(* the piece before p point to p and p to it.  A ring without such a piece *)
(* has no end.                                                             *)
AddOutcome(e, p) == CASE Matches(e, p) # {} /\ 1 \in Matches(e, p) -> "null"
                      [] Matches(e, p) # {} /\ 1 \notin Matches(e, p) -> "ring"
                      [] Matches(e, p) = {} /\ e.ring -> "endless"
                      [] Matches(e, p) = {} /\ ~e.ring
                            /\ e.offs[Len(e.offs)].off = p.off -> "same"
                      [] OTHER -> "append"

Ring(e, p) ==
    LET i == CHOOSE i \in Matches(e, p) : \A j \in Matches(e, p) : i <= j
    IN  [e EXCEPT !.offs = SubSeq(@, 1, i - 1) \o <<p, e.offs[i]>>, !.ring = TRUE]

CountedAny(e, p) ==     \* variant: takes the total from every piece
    [e EXCEPT !.count = @ + p.size, !.total = Ends(p)]
Counted(e, p) == [e EXCEPT !.count = @ + p.size,
                           !.total = IF islastfrag(p) THEN Ends(p) ELSE @]

(* initpacklst. *)
NewEntry(p) == [id |-> p.id, src |-> p.src, offs |-> <<p>>, ring |-> FALSE,
                count |-> p.size, total |-> IF islastfrag(p) THEN Ends(p) ELSE 0]

IsEntryOfAny(e, p) == e.src = p.src         \* variant: without the id
IsEntryOf(e, p) == e.id = p.id /\ e.src = p.src

-----------------------------------------------------------------------------
Init ==
    /\ size = [s \in Sources |-> <<>>] /\ count_id = [s \in Sources |-> 0]
    /\ first = [s \in Sources |-> <<>>] /\ second = <<>>
    /\ list = <<>> /\ delivered = <<>> /\ recv = "runs"
    /\ faults = 0 /\ disordered = {}

NextIdPast(id) == id + 1                  \* variant: wider than 16 bits
NextId(id) == (id + 1) % ID_MODULUS

(* internalsend of a source: a packet of its own goes onto the link.       *)
SendPacket(s, n) ==
    LET p == [src |-> s, id |-> count_id[s], off |-> 0, size |-> n, more |-> FALSE,
              pkt |-> Len(size[s]) + 1]
    IN  /\ Len(size[s]) < MaxPackets
        /\ size' = [size EXCEPT ![s] = Append(@, n)]
        /\ count_id' = [count_id EXCEPT ![s] = NextId(@)]
        /\ first' = [first EXCEPT ![s] = @ \o Sent(p, FirstMtu)]
        /\ UNCHANGED <<second, list, delivered, recv, faults, disordered>>

(* The router: internalrecv finds that the piece is for another host,      *)
(* net_resend queues it and internalsend sends it on with the same id.     *)
Forward(s) ==
    /\ first[s] # <<>>
    /\ first' = [first EXCEPT ![s] = Tail(@)]
    /\ second' = second \o Sent(Head(first[s]), SecondMtu)
    /\ UNCHANGED <<size, count_id, list, delivered, recv, faults, disordered>>

(* internalrecv of the destination, with the first piece of a link.        *)

Receive == /\ recv = "runs" /\ second # <<>>
           /\ second' = Tail(second)
           /\ UNCHANGED <<size, count_id, first, faults, disordered>>

Entries(p) == {i \in DOMAIN list : IsEntryOf(list[i], p)}
Entry(p)   == CHOOSE i \in Entries(p) : \A j \in Entries(p) : i <= j
Without(i) == SubSeq(list, 1, i - 1) \o SubSeq(list, i + 1, Len(list))

(* getpack copies the pieces in the order of the chain and removes the     *)
(* entry; on a ring it copies for ever, past the end of its buffer.        *)
HandUp(e, rest) ==
    IF e.ring
    THEN recv' = "crashed" /\ UNCHANGED <<list, delivered>>
    ELSE /\ delivered' = Append(delivered, e.offs)
         /\ list' = rest
         /\ UNCHANGED recv

(* insertoffset, of a piece of a packet it does not know, while it has no  *)
(* incomplete packet; *)
ReceiveFirst ==
    LET e == NewEntry(Head(second))
    IN  /\ Receive /\ list = <<>>
        /\ IF e.total = e.count THEN HandUp(e, <<>>)
           ELSE list' = <<e>> /\ UNCHANGED <<delivered, recv>>

(* while it has some: the total of a last piece is stored through a NULL   *)
(* pointer, since aux is not the entry it has just made;                   *)
ReceiveNew ==
    LET p == Head(second)
    IN  /\ Receive /\ list # <<>> /\ Entries(p) = {}
        /\ IF islastfrag(p)
           THEN recv' = "crashed" /\ UNCHANGED <<list, delivered>>
           ELSE list' = <<NewEntry(p)>> \o list /\ UNCHANGED <<delivered, recv>>

(* of a piece of a packet it has other pieces of.                          *)
ReceiveMore ==
    LET p == Head(second)
        i == Entry(p)
        Next(e) == IF e.total = e.count
                   THEN HandUp(e, Without(i))
                   ELSE list' = [list EXCEPT ![i] = e] /\ UNCHANGED <<delivered, recv>>
        Stop(how) == recv' = how /\ UNCHANGED <<list, delivered>>
    IN  /\ Receive /\ Entries(p) # {}
        /\ CASE AddOutcome(list[i], p) = "append" ->
                  Next(Counted([list[i] EXCEPT !.offs = Append(@, p)], p))
             [] AddOutcome(list[i], p) = "same"    -> UNCHANGED <<list, delivered, recv>>
             [] AddOutcome(list[i], p) = "ring"    -> Next(Counted(Ring(list[i], p), p))
             [] AddOutcome(list[i], p) = "null"    -> Stop("crashed")
             [] AddOutcome(list[i], p) = "endless" -> Stop("hung")

-----------------------------------------------------------------------------
(* The network: sendto_garbled of either link loses a frame, or damages it *)
(* so that its checksum is wrong, or sends it twice, each frame for        *)
(* itself, and one datagram may overtake another.                          *)

Fault == faults < MaxFaults /\ faults' = faults + 1

PacketOf(p) == <<p.src, p.pkt>>
Doubled(q) == <<Head(q)>> \o q
Swapped(q) == <<q[2], q[1]>> \o SubSeq(q, 3, Len(q))

(* The pieces of two copies that the router cuts stand behind one another; *)
(* of two that are swapped it matters if they are of one packet.           *)
CutAgain(p) == p.size + NET_HEADER_SIZE > SecondMtu
TwiceCut(q) == IF CutAgain(Head(q)) THEN {PacketOf(Head(q))} ELSE {}
Reordered(q) == {PacketOf(q[1])} \cap {PacketOf(q[2])}

LoseFirst(s) ==
    /\ Fault /\ first[s] # <<>>
    /\ first' = [first EXCEPT ![s] = Tail(@)]
    /\ UNCHANGED <<size, count_id, second, list, delivered, recv, disordered>>

RepeatFirst(s) ==
    /\ Fault /\ first[s] # <<>>
    /\ first' = [first EXCEPT ![s] = Doubled(@)]
    /\ disordered' = disordered \cup TwiceCut(first[s])
    /\ UNCHANGED <<size, count_id, second, list, delivered, recv>>

OvertakeFirst(s) ==
    /\ Fault /\ Len(first[s]) > 1
    /\ first' = [first EXCEPT ![s] = Swapped(@)]
    /\ disordered' = disordered \cup Reordered(first[s])
    /\ UNCHANGED <<size, count_id, second, list, delivered, recv>>

LoseSecond ==
    /\ Fault /\ second # <<>>
    /\ second' = Tail(second)
    /\ UNCHANGED <<size, count_id, first, list, delivered, recv, disordered>>

RepeatSecond ==
    /\ Fault /\ second # <<>>
    /\ second' = Doubled(second)
    /\ UNCHANGED <<size, count_id, first, list, delivered, recv, disordered>>

Overtake ==
    /\ Fault /\ Len(second) > 1
    /\ second' = Swapped(second)
    /\ disordered' = disordered \cup Reordered(second)
    /\ UNCHANGED <<size, count_id, first, list, delivered, recv>>

Destination == ReceiveFirst \/ ReceiveNew \/ ReceiveMore

(* The bound on packets stops the system.                                  *)
Next == \/ \E s \in Sources : \/ \E n \in Sizes : SendPacket(s, n)
                              \/ Forward(s)
                              \/ LoseFirst(s) \/ RepeatFirst(s) \/ OvertakeFirst(s)
        \/ Destination
        \/ LoseSecond \/ RepeatSecond \/ Overtake

Spec == Init /\ [][Next]_vars

-----------------------------------------------------------------------------
(* Properties. *)

Piece == [src : Sources, id : 0..(ID_MODULUS - 1), off : Nat, size : Nat,
          more : BOOLEAN, pkt : 1..MaxPackets]

TypeOK ==
    /\ size \in [Sources -> Seq(Sizes)]
    /\ count_id \in [Sources -> 0..(ID_MODULUS - 1)]
    /\ first \in [Sources -> Seq(Piece)] /\ second \in Seq(Piece)
    /\ list \in Seq([id : 0..(ID_MODULUS - 1), src : Sources, offs : Seq(Piece),
                     ring : BOOLEAN, count : Nat, total : Nat])
    /\ delivered \in Seq(Seq(Piece))
    /\ recv \in {"runs", "crashed", "hung"}
    /\ faults \in 0..MaxFaults /\ disordered \subseteq Sources \X (1..MaxPackets)

(* The pieces are those of one packet, and all of it from its first byte   *)
(* to its last.                                                            *)
OfOnePacket(ps) == \A i \in DOMAIN ps : ps[i].src = ps[1].src /\ ps[i].pkt = ps[1].pkt

Complete(ps) ==
    /\ \A i \in DOMAIN ps : ps[i].off = IF i = 1 THEN 0 ELSE Ends(ps[i - 1])
    /\ Ends(ps[Len(ps)]) = size[ps[1].src][ps[1].pkt]

(* What internalrecv hands to the transport layer are never pieces of      *)
(* different packets, whatever is lost, repeated or overtaken on the way   *)
(* and however many packets are incomplete.                                *)
NeverMixed == \A i \in DOMAIN delivered : OfOnePacket(delivered[i])

(* It is a packet as it was sent, from its first byte to its last,         *)
(* whatever is lost, of all packets whose pieces have not changed places:  *)
(* copies that follow one another, and what happens to other packets, even *)
(* of the same source, do no harm.  The entry only counts bytes.  A packet *)
(* of three pieces that is sent twice whole and cut by the router comes as *)
(* 0, 8, 16, 0, 8, 16, and with the first 8 lost [0, 16, 0] are as many    *)
(* bytes as it has: they are handed up.                                    *)
DeliveredIntact ==
    \A i \in DOMAIN delivered :
        PacketOf(delivered[i][1]) \notin disordered => Complete(delivered[i])

(* Without a fault internalrecv survives whatever the links bring, as long *)
(* as every packet was cut: one that comes whole between the pieces of     *)
(* another may be its end (ReceiveNew).                                    *)
WasCut(n) == n + NET_HEADER_SIZE > FirstMtu
NeverStops ==
    faults = 0 /\ (\A s \in Sources : \A k \in DOMAIN size[s] : WasCut(size[s][k]))
        => recv = "runs"

(* Without a fault every packet that was sent has been handed up once the  *)
(* links are empty, however often it was cut, and nothing is left behind   *)
(* to wait for pieces that will not come.  The premise is that the links   *)
(* refuse none of the pieces (Fits), which depends on the MTUs and the     *)
(* sizes: a run, and the theorem, choose them so.                          *)
AllHandedUp ==
    faults = 0 /\ recv = "runs" /\ second = <<>> /\ (\A s \in Sources : first[s] = <<>>) =>
        /\ list = <<>>
        /\ \A s \in Sources : \A k \in DOMAIN size[s] :
              \E i \in DOMAIN delivered :
                 delivered[i][1].src = s /\ delivered[i][1].pkt = k
=============================================================================

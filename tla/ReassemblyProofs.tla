-------------------------- MODULE ReassemblyProofs --------------------------
(***************************************************************************)
(* Theorems about Reassembly, for every number of sources and packets, all *)
(* sizes and MTUs, and every fault of the network, in three parts.         *)
(*                                                                         *)
(* Where the pieces come from: the destination puts pieces together by     *)
(* source and id, and that this never mixes two packets needs that         *)
(* cutting, forwarding, cutting again, the list and even a chain that was  *)
(* closed to a ring leave source and id as they were, and that an id names *)
(* one packet, which is so until count_id wraps.                           *)
(*                                                                         *)
(* Their order: an entry with as many bytes as its packet has is that      *)
(* packet, unless the network has made its pieces change places.           *)
(*                                                                         *)
(* That none is missing: without a fault, every piece is the next of its   *)
(* packet, no entry waits for ever, and internalrecv does not stop.        *)
(***************************************************************************)
EXTENDS Reassembly, SequenceTheorems, LeastNumber

(* A piece of a packet that was sent: it has the id that packet was given, *)
(* at least one byte, none past the end, and says whether it is the last.  *)
Known == {p \in Piece : /\ p.pkt <= Len(size[p.src])
                        /\ p.id = (p.pkt - 1) % ID_MODULUS
                        /\ p.size >= 1 /\ Ends(p) <= size[p.src][p.pkt]
                        /\ p.more <=> Ends(p) < size[p.src][p.pkt]}

(* Those the destination takes for pieces of one packet. *)
Alike(x) == {p \in Known : p.src = x.src /\ p.id = x.id}

EntryType == [id : 0..(ID_MODULUS - 1), src : Sources, offs : Seq(Piece),
              ring : BOOLEAN, count : Nat, total : Nat]
Held   == {e \in EntryType : e.offs # <<>> /\ e.offs \in Seq(Alike(e))}
Handed == {ps \in Seq(Piece) : ps # <<>> /\ ps \in Seq(Alike(ps[1]))}

OriginInv ==
    /\ \A s \in Sources : /\ Len(size[s]) <= MaxPackets
                          /\ count_id[s] = Len(size[s]) % ID_MODULUS
    /\ first \in [Sources -> Seq(Known)] /\ second \in Seq(Known)
    /\ list \in Seq(Held) /\ delivered \in Seq(Handed)

ReassemblyInv == TypeOK /\ OriginInv

(* The part of TypeOK that only the network changes. *)
FaultsOK == faults \in 0..MaxFaults /\ disordered \subseteq Sources \X (1..MaxPackets)

-----------------------------------------------------------------------------
(* Arithmetic: of FragSize, and of the rounding up in fragpack.            *)
LEMMA FragPositive ==
  ASSUME NEW mtu \in Nat, mtu >= NET_HEADER_SIZE + 8
  PROVE  FragSize(mtu) \in Nat /\ FragSize(mtu) >= 8
  BY DEF NET_HEADER_SIZE, FragSize

LEMMA Ceiling ==
  ASSUME NEW n \in Nat, NEW f \in Nat, f > 0
  PROVE  LET c == (n + f - 1) \div f
         IN  c \in Nat /\ (n > 0 => c >= 1 /\ (c - 1) * f < n) /\ n <= c * f
  OBVIOUS

LEMMA Products ==
  ASSUME NEW i \in Nat, NEW f \in Nat  PROVE i * f \in Nat
  OBVIOUS

LEMMA SeqMono ==
  ASSUME NEW S, NEW T, S \subseteq T, NEW q \in Seq(S)  PROVE q \in Seq(T)
  OBVIOUS

LEMMA Multiples ==
  ASSUME NEW i \in Nat, NEW j \in Nat, NEW f \in Nat, i < j
  PROVE  i * f \in Nat /\ j * f \in Nat /\ i * f + f <= j * f
<1>. DEFINE k == j - (i + 1)
<1>1. k \in Nat /\ j = k + (i + 1)  OBVIOUS
<1>2. k * f \in Nat /\ i * f \in Nat /\ j * f \in Nat  BY <1>1, Products
<1>. HIDE DEF k
<1>3. (k + (i + 1)) * f = k * f + (i * f + f)  BY <1>1
<1>4. j * f = k * f + (i * f + f)  BY <1>1, <1>3
<1>. QED  BY <1>2, <1>4

(* The pieces that p may be cut into: of the same packet and inside of p,  *)
(* and the last of the packet only if p is and they end with it.           *)
PiecesOf(p) == {q \in Piece : /\ q.src = p.src /\ q.id = p.id /\ q.pkt = p.pkt
                              /\ q.size >= 1 /\ p.off <= q.off /\ Ends(q) <= Ends(p)
                              /\ q.more <=> p.more \/ Ends(q) < Ends(p)}

(* What Pieces makes of p. *)
LEMMA CutForm ==
  ASSUME NEW p \in Piece, p.size >= 1, NEW mtu \in Nat, mtu >= NET_HEADER_SIZE + 8
  PROVE  LET f  == FragSize(mtu)
             n  == (p.size + f - 1) \div f
             ps == Pieces(p, mtu)
         IN  /\ n \in Nat /\ n >= 1 /\ ps \in Seq(PiecesOf(p)) /\ Len(ps) = n
             /\ \A i \in 1..n : /\ ps[i].off = p.off + (i - 1) * f
                                /\ (i - 1) * f \in Nat
                                /\ i < n => ps[i].size = f
                                /\ ps[i].size <= f
             /\ Ends(ps[n]) = Ends(p)
<1>. DEFINE f == FragSize(mtu)
            n == (p.size + f - 1) \div f
            ps == Pieces(p, mtu)
            piece(i) == [p EXCEPT !.off  = p.off + (i - 1) * f,
                                  !.size = IF i < n THEN f ELSE p.size - (n - 1) * f,
                                  !.more = i < n \/ p.more]
<1>1. f \in Nat /\ f >= 8 /\ p.size \in Nat /\ p.off \in Nat /\ p.more \in BOOLEAN
  BY FragPositive DEF Piece
<1>2. n \in Nat /\ n >= 1 /\ (n - 1) * f < p.size /\ (n - 1) * f \in Nat /\ p.size <= n * f
  BY <1>1, Ceiling, Products
<1>3. ps = [i \in 1..n |-> piece(i)]  BY DEF Pieces
<1>. HIDE DEF f, n, ps
<1>4. p.size - (n - 1) * f \in Nat /\ p.size - (n - 1) * f >= 1 /\ p.size - (n - 1) * f <= f
  <2>1. n * f = (n - 1) * f + f  BY <1>1, <1>2
  <2>. QED  BY <1>1, <1>2, <2>1
<1>5. ASSUME NEW i \in 1..n
      PROVE  /\ piece(i) \in PiecesOf(p) /\ piece(i).off = p.off + (i - 1) * f
             /\ (i - 1) * f \in Nat
             /\ i < n => piece(i).size = f
             /\ i = n => piece(i).size = p.size - (n - 1) * f
             /\ piece(i).size <= f
  <2>1. (i - 1) * f \in Nat  BY <1>1, <1>2, Products
  <2>2. p.off + (i - 1) * f \in Nat  BY <1>1, <2>1
  <2>3. (IF i < n THEN f ELSE p.size - (n - 1) * f) \in Nat  BY <1>1, <1>4
  <2>4. (i < n \/ p.more) \in BOOLEAN  OBVIOUS
  <2>5. /\ piece(i) \in Piece
        /\ piece(i).src = p.src /\ piece(i).id = p.id /\ piece(i).pkt = p.pkt
        /\ piece(i).off = p.off + (i - 1) * f
        /\ piece(i).size = IF i < n THEN f ELSE p.size - (n - 1) * f
        /\ piece(i).more = (i < n \/ p.more)
    BY <2>2, <2>3, <2>4 DEF Piece
  <2>. HIDE DEF piece
  <2>6. i = n \/ i < n  BY <1>2
  <2>7. CASE i < n
    <3>1. (i - 1) * f + f <= (n - 1) * f  BY <1>1, <1>2, <2>7, Multiples
    <3>2. piece(i).size = f /\ piece(i).more  BY <2>5, <2>7
    <3>3. Ends(piece(i)) < Ends(p)  BY <1>1, <1>2, <2>1, <2>5, <3>1, <3>2 DEF Ends
    <3>4. p.off <= piece(i).off /\ piece(i).size >= 1 /\ Ends(piece(i)) <= Ends(p)
      BY <1>1, <2>1, <2>5, <3>2, <3>3 DEF Ends
    <3>5. piece(i).more <=> p.more \/ Ends(piece(i)) < Ends(p)  BY <3>2, <3>3
    <3>6. piece(i) \in PiecesOf(p)  BY <2>5, <3>4, <3>5 DEF PiecesOf
    <3>. QED  BY <1>1, <2>1, <2>5, <2>7, <3>2, <3>6
  <2>8. CASE i = n
    <3>0. ~(i < n)  BY <1>2, <2>8
    <3>1. piece(i).size = p.size - (n - 1) * f /\ piece(i).more = p.more
      BY <1>1, <2>5, <3>0, Zenon
    <3>2. Ends(piece(i)) = Ends(p)  BY <1>1, <1>2, <2>5, <2>8, <3>1 DEF Ends
    <3>3. p.off <= piece(i).off /\ piece(i).size >= 1 /\ Ends(piece(i)) <= Ends(p)
          /\ ~(Ends(piece(i)) < Ends(p))
      BY <1>1, <1>4, <2>1, <2>5, <3>1, <3>2 DEF Ends
    <3>4. piece(i).more <=> p.more \/ Ends(piece(i)) < Ends(p)  BY <3>1, <3>3
    <3>5. piece(i) \in PiecesOf(p)  BY <2>5, <3>3, <3>4 DEF PiecesOf
    <3>. QED  BY <1>1, <1>4, <2>1, <2>5, <2>8, <3>1, <3>5
  <2>. QED  BY <2>6, <2>7, <2>8
<1>. HIDE DEF piece
<1>6. ps \in Seq(PiecesOf(p)) /\ Len(ps) = n  BY <1>2, <1>3, <1>5
<1>7. \A i \in 1..n : ps[i] = piece(i)  BY <1>3
<1>8. Ends(ps[n]) = Ends(p)
  <2>1. n \in 1..n  BY <1>2
  <2>2. ps[n].off = p.off + (n - 1) * f /\ ps[n].size = p.size - (n - 1) * f
    BY <1>5, <1>7, <2>1
  <2>. QED  BY <1>1, <1>2, <2>2 DEF Ends
<1>. QED  BY <1>2, <1>5, <1>6, <1>7, <1>8 DEF f, n, ps

LEMMA PiecesCut ==
  ASSUME NEW p \in Piece, p.size >= 1, NEW mtu \in Nat, mtu >= NET_HEADER_SIZE + 8
  PROVE  fragpack(p, mtu) \in Seq(PiecesOf(p)) /\ Len(fragpack(p, mtu)) >= 1
<1>1. CASE p.size + NET_HEADER_SIZE <= mtu
  <2>1. p \in PiecesOf(p)
    <3>1. Ends(p) \in Int  BY DEF Piece, Ends
    <3>2. p.off <= p.off  BY DEF Piece
    <3>3. Ends(p) <= Ends(p) /\ ~(Ends(p) < Ends(p))  BY <3>1
    <3>4. p.more \in BOOLEAN  BY DEF Piece
    <3>. QED  BY <3>2, <3>3, <3>4 DEF PiecesOf
  <2>. QED  BY <1>1, <2>1 DEF fragpack
<1>2. CASE ~(p.size + NET_HEADER_SIZE <= mtu)
  BY <1>2, CutForm DEF fragpack
<1>. QED  BY <1>1, <1>2

(* The pieces that get onto the link. *)
LEMMA SentCut ==
  ASSUME NEW p \in Piece, p.size >= 1, NEW mtu \in Nat, mtu >= NET_HEADER_SIZE + 8
  PROVE  Sent(p, mtu) \in Seq(PiecesOf(p))
<1>. DEFINE ps == fragpack(p, mtu)
<1>1. ps \in Seq(PiecesOf(p)) /\ Len(ps) >= 1  BY PiecesCut
<1>2. Sent(p, mtu) \in {ps, <<ps[Len(ps)]>>, <<>>}  BY DEF Sent
<1>. HIDE DEF ps
<1>3. ps[Len(ps)] \in PiecesOf(p)  BY <1>1
<1>4. <<ps[Len(ps)]>> \in Seq(PiecesOf(p))  BY <1>3
<1>5. <<>> \in Seq(PiecesOf(p))  OBVIOUS
<1>. QED  BY <1>1, <1>2, <1>4, <1>5

LEMMA KnownCut ==
  ASSUME ReassemblyInv, NEW p \in Known
  PROVE  PiecesOf(p) \subseteq Known
<1>. SUFFICES ASSUME NEW q \in PiecesOf(p) PROVE q \in Known  OBVIOUS
<1>. DEFINE n == size[p.src][p.pkt]
<1>1. n \in Nat
  <2>1. p.src \in Sources /\ p.pkt \in 1..Len(size[p.src])  BY DEF Known, Piece
  <2>2. size[p.src] \in Seq(Sizes)  BY <2>1 DEF ReassemblyInv, TypeOK
  <2>3. size[p.src][p.pkt] \in Sizes  BY <2>1, <2>2
  <2>. QED  BY <2>3, ReassemblyAssumption
<1>2. q \in Piece /\ q.src = p.src /\ q.id = p.id /\ q.pkt = p.pkt /\ q.size >= 1
      /\ Ends(q) <= Ends(p) /\ (q.more <=> p.more \/ Ends(q) < Ends(p))
  BY DEF PiecesOf
<1>3. Ends(p) <= n /\ (p.more <=> Ends(p) < n)  BY DEF Known
<1>. HIDE DEF n
<1>4. Ends(p) \in Nat /\ Ends(q) \in Nat  BY <1>2 DEF Known, Piece, Ends
<1>5. Ends(q) <= n /\ (q.more <=> Ends(q) < n)  BY <1>1, <1>2, <1>3, <1>4
<1>. QED  BY <1>2, <1>5 DEF Known, n

(* The entry of a piece, and the place in its chain where it closes a      *)
(* ring, are there.                                                        *)
LEMMA EntryFound ==
  ASSUME ReassemblyInv, NEW p \in Known, Entries(p) # {}
  PROVE  Entry(p) \in 1..Len(list) /\ list[Entry(p)] \in Held /\ IsEntryOf(list[Entry(p)], p)
<1>1. list \in Seq(Held) /\ DOMAIN list = 1..Len(list)  BY DEF ReassemblyInv, OriginInv
<1>2. Entries(p) \in SUBSET Nat  BY <1>1 DEF Entries
<1>3. \E i \in Entries(p) : \A j \in Entries(p) : i <= j  BY <1>2, Least
<1>4. Entry(p) \in Entries(p)  BY <1>3 DEF Entry
<1>. QED  BY <1>1, <1>4 DEF Entries

LEMMA RingHeld ==
  ASSUME NEW e \in Held, NEW p \in Alike(e), Matches(e, p) # {}
  PROVE  Ring(e, p) \in Held
<1>. DEFINE First(i) == \A j \in Matches(e, p) : i <= j
            i == CHOOSE i \in Matches(e, p) : First(i)
            offs == SubSeq(e.offs, 1, i - 1) \o <<p, e.offs[i]>>
<1>1. e.offs \in Seq(Alike(e)) /\ Matches(e, p) \subseteq 1..Len(e.offs)
  BY DEF Held, EntryType, Matches
<1>2. \E k \in Matches(e, p) : First(k)  BY <1>1, Least
<1>3. i \in Matches(e, p)  BY <1>2
<1>. HIDE DEF i
<1>4. i \in 1..Len(e.offs) /\ e.offs[i] \in Alike(e)  BY <1>1, <1>3
<1>5. SubSeq(e.offs, 1, i - 1) \in Seq(Alike(e))  BY <1>1, <1>4, SubSeqProperties
<1>6. offs \in Seq(Alike(e)) /\ offs # <<>>
  <2>1. <<p, e.offs[i]>> \in Seq(Alike(e)) /\ Len(<<p, e.offs[i]>>) = 2  BY <1>4
  <2>. QED  BY <1>5, <2>1
<1>. HIDE DEF offs
<1>7. Ring(e, p) = [e EXCEPT !.offs = offs, !.ring = TRUE]
  BY DEF Ring, i, offs
<1>8. offs \in Seq(Piece)  BY <1>6, SeqMono DEF Alike, Known
<1>9. Ring(e, p) \in EntryType /\ Ring(e, p).offs = offs
      /\ Ring(e, p).src = e.src /\ Ring(e, p).id = e.id
  BY <1>7, <1>8 DEF Held, EntryType
<1>10. Alike(Ring(e, p)) = Alike(e)  BY <1>9 DEF Alike
<1>. QED  BY <1>6, <1>9, <1>10 DEF Held

(* The other ways an entry is made or grows. *)
LEMMA AppendHeld ==
  ASSUME NEW e \in Held, NEW p \in Alike(e)
  PROVE  [e EXCEPT !.offs = Append(@, p)] \in Held
<1>. DEFINE f == [e EXCEPT !.offs = Append(@, p)]
<1>1. Append(e.offs, p) \in Seq(Alike(e)) /\ Append(e.offs, p) # <<>>
  BY DEF Held, EntryType
<1>2. Append(e.offs, p) \in Seq(Piece)  BY <1>1, SeqMono DEF Alike, Known
<1>3. f \in EntryType /\ f.offs = Append(e.offs, p) /\ f.src = e.src /\ f.id = e.id
  BY <1>2 DEF Held, EntryType
<1>4. Alike(f) = Alike(e)  BY <1>3 DEF Alike
<1>. QED  BY <1>1, <1>3, <1>4 DEF Held

LEMMA CountedHeld ==
  ASSUME NEW e \in Held, NEW p \in Piece
  PROVE  Counted(e, p) \in Held /\ Counted(e, p).offs = e.offs
<1>1. p.size \in Nat /\ Ends(p) \in Nat  BY DEF Piece, Ends
<1>4. e.count \in Nat /\ e.total \in Nat  BY DEF Held, EntryType
<1>5. e.count + p.size \in Nat /\ (IF islastfrag(p) THEN Ends(p) ELSE e.total) \in Nat
  BY <1>1, <1>4
<1>2. /\ Counted(e, p) \in EntryType /\ Counted(e, p).offs = e.offs
      /\ Counted(e, p).src = e.src /\ Counted(e, p).id = e.id
  BY <1>5 DEF Counted, Held, EntryType
<1>3. Alike(Counted(e, p)) = Alike(e)  BY <1>2 DEF Alike
<1>. QED  BY <1>2, <1>3 DEF Held

LEMMA NewHeld ==
  ASSUME NEW p \in Known
  PROVE  NewEntry(p) \in Held
<1>1. p \in Piece /\ p.size \in Nat /\ Ends(p) \in Nat  BY DEF Known, Piece, Ends
<1>2. /\ NewEntry(p) \in EntryType /\ NewEntry(p).offs = <<p>>
      /\ NewEntry(p).src = p.src /\ NewEntry(p).id = p.id
  BY <1>1 DEF NewEntry, EntryType, Piece
<1>. DEFINE e == NewEntry(p)
<1>. HIDE DEF e
<1>3. p \in Alike(e)  BY <1>2 DEF Alike, e
<1>4. e.offs \in Seq(Alike(e)) /\ e.offs # <<>>  BY <1>2, <1>3 DEF e
<1>. QED  BY <1>2, <1>4 DEF Held, e

LEMMA HeldHanded ==
  ASSUME NEW e \in Held
  PROVE  e.offs \in Handed
<1>1. e.offs \in Seq(Alike(e)) /\ e.offs # <<>> /\ e.offs \in Seq(Piece)
  BY DEF Held, EntryType
<1>2. e.offs[1] \in Alike(e)  BY <1>1
<1>3. Alike(e.offs[1]) = Alike(e)  BY <1>2 DEF Alike
<1>. QED  BY <1>1, <1>3 DEF Handed

(* An entry that is complete is handed up, or the thread has crashed.      *)
LEMMA HandUpStep ==
  ASSUME ReassemblyInv, NEW e \in Held, NEW rest \in Seq(Held), HandUp(e, rest), UNCHANGED size
  PROVE  /\ list' \in Seq(Held) /\ delivered' \in Seq(Handed)
         /\ recv' \in {"runs", "crashed", "hung"}
<1>1. list \in Seq(Held) /\ delivered \in Seq(Handed) /\ recv \in {"runs", "crashed", "hung"}
  BY DEF ReassemblyInv, OriginInv, TypeOK
<1>2. e.offs \in Handed  BY HeldHanded
<1>. QED  BY <1>1, <1>2 DEF HandUp

(* The types follow from where the pieces come from. *)
LEMMA TypesKept ==
  ASSUME OriginInv', size' \in [Sources -> Seq(Sizes)],
         count_id' \in [Sources -> 0..(ID_MODULUS - 1)],
         recv' \in {"runs", "crashed", "hung"}, FaultsOK'
  PROVE  ReassemblyInv'
<1>1. Known' \subseteq Piece /\ Held' \subseteq EntryType /\ Handed' \subseteq Seq(Piece)
  BY DEF Known, Held, Handed
<1>. DEFINE K == Known'
            H == Held'
            S == Seq(Piece)
            D == Handed'
<1>2. /\ first' \in [Sources -> Seq(K)] /\ second' \in Seq(K)
      /\ list' \in Seq(H) /\ delivered' \in Seq(D)
  BY DEF OriginInv
<1>3. K \subseteq Piece /\ H \subseteq EntryType /\ D \subseteq S  BY <1>1
<1>. HIDE DEF K, H, D, S
<1>4. \A s \in Sources : first'[s] \in Seq(Piece)  BY <1>2, <1>3, SeqMono
<1>5. first' \in [Sources -> Seq(Piece)]  BY <1>2, <1>4
<1>6. second' \in Seq(Piece) /\ list' \in Seq(EntryType) /\ delivered' \in Seq(S)
  BY <1>2, <1>3, SeqMono
<1>7. TypeOK'  BY <1>5, <1>6 DEF TypeOK, EntryType, S, FaultsOK
<1>. QED  BY <1>7 DEF ReassemblyInv

LEMMA SameSize ==
  ASSUME UNCHANGED size
  PROVE  Known' = Known /\ Held' = Held /\ Handed' = Handed
BY DEF Known, Alike, Held, Handed

(* A step of the links or of the destination. *)
LEMMA SameSources ==
  ASSUME ReassemblyInv, UNCHANGED <<size, count_id>>,
         first' \in [Sources -> Seq(Known)], second' \in Seq(Known),
         list' \in Seq(Held), delivered' \in Seq(Handed),
         recv' \in {"runs", "crashed", "hung"}, FaultsOK'
  PROVE  ReassemblyInv'
<1>1. OriginInv'  BY SameSize DEF ReassemblyInv, OriginInv
<1>2. size' \in [Sources -> Seq(Sizes)] /\ count_id' \in [Sources -> 0..(ID_MODULUS - 1)]
  BY DEF ReassemblyInv, TypeOK
<1>. QED
  <2>1. recv' \in {"runs", "crashed", "hung"} /\ FaultsOK'  OBVIOUS
  <2>. QED  BY <1>1, <1>2, <2>1, TypesKept

-----------------------------------------------------------------------------
(* The invariant, action by action.                                        *)
LEMMA InitInv == Init => ReassemblyInv
<1>. SUFFICES ASSUME Init PROVE ReassemblyInv  OBVIOUS
<1>1. 0 \in 0..(ID_MODULUS - 1) /\ 0 = 0 % ID_MODULUS /\ MaxPackets \in Nat
  BY ReassemblyAssumption
<1>2. TypeOK
  <2>1. FaultsOK  BY ReassemblyAssumption DEF Init, FaultsOK
  <2>. QED  BY <1>1, <2>1 DEF Init, TypeOK, FaultsOK
<1>3. \A s \in Sources : Len(size[s]) = 0  BY DEF Init
<1>4. OriginInv  BY <1>1, <1>3 DEF Init, OriginInv
<1>. QED  BY <1>2, <1>4 DEF ReassemblyInv

(* Counting modulo ID_MODULUS. *)
LEMMA Quotient ==
  ASSUME NEW n \in Nat, NEW m \in Nat, m > 0
  PROVE  n \div m \in Nat /\ n % m \in 0..(m - 1) /\ n = (n \div m) * m + (n % m)
  OBVIOUS

LEMMA Remainder ==
  ASSUME NEW a \in Nat, NEW m \in Nat, m > 0, NEW q \in Nat, NEW r \in 0..(m - 1),
         a = q * m + r
  PROVE  a % m = r
<1>. DEFINE p == a \div m
            t == a % m
<1>1. p \in Nat /\ t \in 0..(m - 1) /\ a = p * m + t  BY Quotient
<1>. HIDE DEF p, t
<1>2. ASSUME p < q  PROVE FALSE
  <2>1. (q - p) * m >= m /\ (q - p) * m = q * m - p * m  BY <1>1, <1>2
  <2>. QED  BY <1>1, <2>1, Products
<1>3. ASSUME q < p  PROVE FALSE
  <2>1. (p - q) * m >= m /\ (p - q) * m = p * m - q * m  BY <1>1, <1>3
  <2>. QED  BY <1>1, <2>1, Products
<1>4. p = q  BY <1>1, <1>2, <1>3
<1>. QED  BY <1>1, <1>4 DEF t

LEMMA NextNumber ==
  ASSUME NEW n \in Nat  PROVE ((n % ID_MODULUS) + 1) % ID_MODULUS = (n + 1) % ID_MODULUS
<1>. DEFINE m == ID_MODULUS
            q == n \div m
            r == n % m
<1>1. m \in Nat /\ m > 0  BY ReassemblyAssumption
<1>2. q \in Nat /\ r \in 0..(m - 1) /\ n = q * m + r  BY <1>1, Quotient
<1>. HIDE DEF m, q, r
<1>3. CASE r + 1 < m
  <2>1. n + 1 = q * m + (r + 1) /\ r + 1 \in 0..(m - 1)  BY <1>1, <1>2, <1>3, Products
  <2>2. r + 1 = 0 * m + (r + 1)  BY <1>1, <1>2
  <2>3. (n + 1) % m = r + 1 /\ (r + 1) % m = r + 1
    BY <1>1, <1>2, <2>1, <2>2, Remainder
  <2>. QED  BY <2>3 DEF m, r
<1>4. CASE r + 1 = m
  <2>1. n + 1 = (q + 1) * m + 0 /\ r + 1 = 1 * m + 0 /\ 0 \in 0..(m - 1)
    BY <1>1, <1>2, <1>4, Products
  <2>2. (n + 1) % m = 0 /\ (r + 1) % m = 0  BY <1>1, <1>2, <2>1, Remainder
  <2>. QED  BY <2>2 DEF m, r
<1>. QED  BY <1>1, <1>2, <1>3, <1>4

(* A source numbers its packets in order: all that it sends of one carries *)
(* its number modulo ID_MODULUS, and what is on the way keeps its origin.  *)
LEMMA SendStep ==
  ASSUME ReassemblyInv, NEW s \in Sources, NEW n \in Sizes, SendPacket(s, n)
  PROVE  ReassemblyInv'
<1>. DEFINE k == Len(size[s]) + 1
            p == [src |-> s, id |-> count_id[s], off |-> 0, size |-> n, more |-> FALSE, pkt |-> k]
<1>1. /\ size' = [size EXCEPT ![s] = Append(@, n)]
      /\ count_id' = [count_id EXCEPT ![s] = NextId(@)]
      /\ first' = [first EXCEPT ![s] = @ \o Sent(p, FirstMtu)]
      /\ UNCHANGED <<second, list, delivered, recv, faults, disordered>>
      /\ Len(size[s]) < MaxPackets
  BY DEF SendPacket
<1>2. /\ size \in [Sources -> Seq(Sizes)] /\ count_id \in [Sources -> 0..(ID_MODULUS - 1)]
      /\ recv \in {"runs", "crashed", "hung"} /\ FaultsOK
  BY DEF ReassemblyInv, TypeOK, FaultsOK
<1>3. MaxPackets \in Nat /\ n \in Nat /\ ID_MODULUS \in Nat /\ ID_MODULUS > 0
  BY ReassemblyAssumption
<1>4. k \in 1..MaxPackets /\ Len(size[s]) \in Nat  BY <1>1, <1>2, <1>3
<1>5. p \in Piece /\ p.src = s /\ p.id = count_id[s] /\ p.pkt = k /\ p.size >= 1
  <2>1. n >= 1  BY <1>3, ReassemblyAssumption
  <2>. QED  BY <1>2, <1>3, <1>4, <2>1 DEF Piece
<1>. HIDE DEF p
<1>6. /\ size' \in [Sources -> Seq(Sizes)] /\ Len(size'[s]) = Len(size[s]) + 1
      /\ \A t \in Sources : t # s => size'[t] = size[t]
  BY <1>1, <1>2
<1>7. \A t \in Sources : Len(size[t]) \in Nat /\ Len(size'[t]) \in Nat
                         /\ Len(size[t]) <= Len(size'[t])
  <2>. SUFFICES ASSUME NEW t \in Sources
                PROVE  /\ Len(size[t]) \in Nat /\ Len(size'[t]) \in Nat
                       /\ Len(size[t]) <= Len(size'[t])
    OBVIOUS
  <2>1. size[t] \in Seq(Sizes) /\ size'[t] \in Seq(Sizes)  BY <1>2, <1>6
  <2>2. Len(size[t]) \in Nat /\ Len(size'[t]) \in Nat  BY <2>1
  <2>3. Len(size'[t]) = Len(size[t]) \/ Len(size'[t]) = Len(size[t]) + 1  BY <1>6
  <2>. QED  BY <2>2, <2>3
<1>8. Known \subseteq Known'
  <2>1. ASSUME NEW q \in Known  PROVE q \in Known'
    <3>1. q \in Piece /\ q.src \in Sources /\ q.pkt \in 1..Len(size[q.src])
      BY DEF Known, Piece
    <3>2. q.pkt <= Len(size'[q.src])  BY <1>7, <3>1
    <3>3. size'[q.src][q.pkt] = size[q.src][q.pkt]  BY <1>1, <1>2, <3>1
    <3>. QED  BY <3>1, <3>2, <3>3 DEF Known, Ends
  <2>. QED  BY <2>1
<1>9. Held \subseteq Held'
  <2>1. ASSUME NEW e \in Held  PROVE e \in Held'
    <3>1. Alike(e) \subseteq Alike(e)'  BY <1>8 DEF Alike
    <3>2. e.offs \in Seq(Alike(e)')  BY <3>1, SeqMono DEF Held
    <3>. QED  BY <3>2 DEF Held
  <2>. QED  BY <2>1
<1>10. Handed \subseteq Handed'
  <2>1. ASSUME NEW ps \in Handed  PROVE ps \in Handed'
    <3>1. Alike(ps[1]) \subseteq Alike(ps[1])'  BY <1>8 DEF Alike
    <3>2. ps \in Seq(Alike(ps[1])')  BY <3>1, SeqMono DEF Handed
    <3>. QED  BY <3>2 DEF Handed
  <2>. QED  BY <2>1
<1>. DEFINE K == Known'
            H == Held'
            D == Handed'
<1>11. Known \subseteq K /\ Held \subseteq H /\ Handed \subseteq D  BY <1>8, <1>9, <1>10
<1>12. PiecesOf(p) \subseteq K
  <2>1. ASSUME NEW q \in PiecesOf(p)  PROVE q \in Known'
    <3>1. q \in Piece /\ q.src = s /\ q.id = count_id[s] /\ q.pkt = k
      BY <1>5 DEF PiecesOf
    <3>2. count_id[s] = Len(size[s]) % ID_MODULUS  BY DEF ReassemblyInv, OriginInv
    <3>3. k - 1 = Len(size[s]) /\ k <= Len(size'[s])  BY <1>4, <1>6
    <3>4. size'[s][k] = n /\ n \in Nat  BY <1>1, <1>2, <1>3, <1>4
    <3>5. Ends(p) = n /\ ~p.more  BY <3>4 DEF p, Ends
    <3>6. /\ q.size >= 1 /\ Ends(q) <= size'[s][k]
          /\ q.more <=> Ends(q) < size'[s][k]
      BY <3>4, <3>5 DEF PiecesOf
    <3>. QED  BY <3>1, <3>2, <3>3, <3>6 DEF Known, Ends
  <2>. QED  BY <2>1
<1>. HIDE DEF K, H, D
<1>13. Sent(p, FirstMtu) \in Seq(K)
  <2>1. FirstMtu \in Nat /\ FirstMtu >= NET_HEADER_SIZE + 8  BY ReassemblyAssumption
  <2>2. Sent(p, FirstMtu) \in Seq(PiecesOf(p))  BY <1>5, <2>1, SentCut
  <2>. QED  BY <1>12, <2>2, SeqMono
<1>14. first' \in [Sources -> Seq(K)]
  <2>1. \A t \in Sources : first[t] \in Seq(K)
    BY <1>11, SeqMono DEF ReassemblyInv, OriginInv
  <2>2. first[s] \o Sent(p, FirstMtu) \in Seq(K)  BY <1>13, <2>1, ConcatProperties
  <2>3. first \in [Sources -> Seq(Known)]  BY DEF ReassemblyInv, OriginInv
  <2>. QED  BY <1>1, <2>1, <2>2, <2>3
<1>15. second' \in Seq(K) /\ list' \in Seq(H) /\ delivered' \in Seq(D)
  BY <1>1, <1>11, SeqMono DEF ReassemblyInv, OriginInv
<1>16. \A t \in Sources : /\ Len(size'[t]) <= MaxPackets
                          /\ count_id'[t] = Len(size'[t]) % ID_MODULUS
  <2>. SUFFICES ASSUME NEW t \in Sources
                PROVE  /\ Len(size'[t]) <= MaxPackets
                       /\ count_id'[t] = Len(size'[t]) % ID_MODULUS
    OBVIOUS
  <2>1. Len(size[t]) <= MaxPackets /\ count_id[t] = Len(size[t]) % ID_MODULUS
    BY DEF ReassemblyInv, OriginInv
  <2>2. CASE t # s  BY <1>1, <1>2, <1>6, <2>1, <2>2
  <2>3. CASE t = s
    <3>1. count_id'[s] = ((Len(size[s]) % ID_MODULUS) + 1) % ID_MODULUS
      BY <1>1, <1>2, <2>1, <2>3 DEF NextId
    <3>2. count_id'[s] = (Len(size[s]) + 1) % ID_MODULUS  BY <1>4, <3>1, NextNumber
    <3>. QED  BY <1>1, <1>3, <1>4, <1>6, <2>3, <3>2
  <2>. QED  BY <2>2, <2>3
<1>17. count_id' \in [Sources -> 0..(ID_MODULUS - 1)]
  <2>1. NextId(count_id[s]) \in 0..(ID_MODULUS - 1)  BY <1>2, <1>3 DEF NextId
  <2>. QED  BY <1>1, <1>2, <2>1
<1>18. OriginInv'  BY <1>14, <1>15, <1>16 DEF OriginInv, K, H, D
<1>19. recv' \in {"runs", "crashed", "hung"} /\ FaultsOK'
  BY <1>1, <1>2 DEF FaultsOK
<1>. QED  BY <1>6, <1>17, <1>18, <1>19, TypesKept

LEMMA ForwardStep ==
  ASSUME ReassemblyInv, NEW s \in Sources, Forward(s)
  PROVE  ReassemblyInv'
<1>. DEFINE p == Head(first[s])
<1>1. first[s] \in Seq(Known) /\ first[s] # <<>> /\ second \in Seq(Known)
  BY DEF Forward, ReassemblyInv, OriginInv
<1>2. p \in Known /\ Tail(first[s]) \in Seq(Known)  BY <1>1, HeadTailProperties
<1>3. PiecesOf(p) \subseteq Known
  <2>. HIDE DEF p
  <2>. QED  BY <1>2, KnownCut
<1>4. Sent(p, SecondMtu) \in Seq(Known)
  <2>1. SecondMtu \in Nat /\ SecondMtu >= NET_HEADER_SIZE + 8  BY ReassemblyAssumption
  <2>2. p \in Piece /\ p.size >= 1  BY <1>2 DEF Known
  <2>3. Sent(p, SecondMtu) \in Seq(PiecesOf(p))  BY <2>1, <2>2, SentCut
  <2>. QED  BY <1>3, <2>3, SeqMono
<1>5. second' \in Seq(Known)
  <2>1. second' = second \o Sent(p, SecondMtu)  BY DEF Forward
  <2>. HIDE DEF p
  <2>. QED  BY <1>1, <1>4, <2>1, ConcatProperties
<1>6. first' \in [Sources -> Seq(Known)]
  BY <1>2 DEF Forward, ReassemblyInv, OriginInv
<1>7. /\ list' \in Seq(Held) /\ delivered' \in Seq(Handed)
      /\ recv' \in {"runs", "crashed", "hung"} /\ FaultsOK'
      /\ UNCHANGED <<size, count_id>>
  BY DEF Forward, ReassemblyInv, OriginInv, TypeOK, FaultsOK
<1>. QED  BY <1>5, <1>6, <1>7, SameSources

(* What the destination does with a piece of known origin. *)
LEMMA ReceiveStep ==
  ASSUME ReassemblyInv, Receive,
         list' \in Seq(Held), delivered' \in Seq(Handed),
         recv' \in {"runs", "crashed", "hung"}
  PROVE  ReassemblyInv'
<1>1. second \in Seq(Known) /\ second # <<>> /\ second' = Tail(second)
      /\ UNCHANGED <<size, count_id, first, faults, disordered>>
  BY DEF Receive, ReassemblyInv, OriginInv
<1>2. second' \in Seq(Known)  BY <1>1, HeadTailProperties
<1>3. first' \in [Sources -> Seq(Known)] /\ FaultsOK'
  BY <1>1 DEF ReassemblyInv, OriginInv, TypeOK, FaultsOK
<1>. QED  BY <1>1, <1>2, <1>3, SameSources

LEMMA Arrived ==
  ASSUME ReassemblyInv, Receive
  PROVE  /\ Head(second) \in Known /\ UNCHANGED size
         /\ list \in Seq(Held) /\ delivered \in Seq(Handed)
         /\ recv \in {"runs", "crashed", "hung"}
<1>1. second \in Seq(Known) /\ second # <<>>  BY DEF Receive, ReassemblyInv, OriginInv
<1>2. Head(second) \in Known  BY <1>1, HeadTailProperties
<1>. QED  BY <1>2 DEF Receive, ReassemblyInv, OriginInv, TypeOK

LEMMA ReceiveFirstStep ==
  ASSUME ReassemblyInv, ReceiveFirst
  PROVE  ReassemblyInv'
<1>. DEFINE e == NewEntry(Head(second))
<1>1. Receive  BY DEF ReceiveFirst
<1>2. e \in Held  BY <1>1, Arrived, NewHeld
<1>3. HandUp(e, <<>>) \/ (list' = <<e>> /\ UNCHANGED <<delivered, recv>>)
  BY DEF ReceiveFirst
<1>. HIDE DEF e
<1>4. list' \in Seq(Held) /\ delivered' \in Seq(Handed) /\ recv' \in {"runs", "crashed", "hung"}
  <2>1. CASE HandUp(e, <<>>)
    <3>1. <<>> \in Seq(Held)  OBVIOUS
    <3>. QED  BY <1>1, <1>2, <2>1, <3>1, Arrived, HandUpStep
  <2>2. CASE list' = <<e>> /\ UNCHANGED <<delivered, recv>>
    BY <1>1, <1>2, <2>2, Arrived
  <2>. QED  BY <1>3, <2>1, <2>2
<1>. QED  BY <1>1, <1>4, ReceiveStep

LEMMA ReceiveNewStep ==
  ASSUME ReassemblyInv, ReceiveNew
  PROVE  ReassemblyInv'
<1>. DEFINE e == NewEntry(Head(second))
<1>1. Receive  BY DEF ReceiveNew
<1>2. e \in Held  BY <1>1, Arrived, NewHeld
<1>3. \/ recv' = "crashed" /\ UNCHANGED <<list, delivered>>
      \/ list' = <<e>> \o list /\ UNCHANGED <<delivered, recv>>
  BY DEF ReceiveNew
<1>. HIDE DEF e
<1>4. <<e>> \o list \in Seq(Held)
  <2>1. <<e>> \in Seq(Held) /\ list \in Seq(Held)  BY <1>1, <1>2, Arrived
  <2>. QED  BY <2>1, ConcatProperties
<1>5. list' \in Seq(Held) /\ delivered' \in Seq(Handed) /\ recv' \in {"runs", "crashed", "hung"}
  BY <1>1, <1>3, <1>4, Arrived
<1>. QED  BY <1>1, <1>5, ReceiveStep

LEMMA ReceiveMoreStep ==
  ASSUME ReassemblyInv, ReceiveMore
  PROVE  ReassemblyInv'
<1>. DEFINE p == Head(second)
            i == Entry(p)
            e == list[i]
            Goes(f) == IF f.total = f.count THEN HandUp(f, Without(i))
                       ELSE list' = [list EXCEPT ![i] = f] /\ UNCHANGED <<delivered, recv>>
            Kept == /\ list' \in Seq(Held) /\ delivered' \in Seq(Handed)
                    /\ recv' \in {"runs", "crashed", "hung"}
<1>1. Receive /\ Entries(p) # {}  BY DEF ReceiveMore
<1>2. p \in Known /\ list \in Seq(Held) /\ delivered \in Seq(Handed)
      /\ recv \in {"runs", "crashed", "hung"} /\ UNCHANGED size
  BY <1>1, Arrived
<1>3. i \in 1..Len(list) /\ e \in Held /\ IsEntryOf(e, p)
  BY <1>1, <1>2, EntryFound
<1>4. p \in Alike(e) /\ p \in Piece  BY <1>2, <1>3 DEF Alike, IsEntryOf, Known
<1>5. \/ Goes(Counted([e EXCEPT !.offs = Append(@, p)], p))
      \/ Matches(e, p) # {} /\ Goes(Counted(Ring(e, p), p))
      \/ UNCHANGED <<list, delivered>> /\ recv' \in {recv, "crashed", "hung"}
  <2>1. CASE AddOutcome(e, p) = "append"  BY <2>1 DEF ReceiveMore
  <2>2. CASE AddOutcome(e, p) = "same"  BY <2>2 DEF ReceiveMore
  <2>3. CASE AddOutcome(e, p) = "ring"
    <3>1. Matches(e, p) # {}  BY <2>3 DEF AddOutcome
    <3>2. Goes(Counted(Ring(e, p), p))  BY <2>3 DEF ReceiveMore
    <3>. QED  BY <3>1, <3>2
  <2>4. CASE AddOutcome(e, p) = "null"  BY <2>4 DEF ReceiveMore
  <2>5. CASE AddOutcome(e, p) = "endless"  BY <2>5 DEF ReceiveMore
  <2>6. AddOutcome(e, p) \in {"append", "same", "ring", "null", "endless"}
    BY DEF AddOutcome
  <2>. QED  BY <2>1, <2>2, <2>3, <2>4, <2>5, <2>6
<1>6. Without(i) \in Seq(Held)
  <2>. HIDE DEF p, i
  <2>1. SubSeq(list, 1, i - 1) \in Seq(Held) /\ SubSeq(list, i + 1, Len(list)) \in Seq(Held)
    BY <1>2, <1>3, SubSeqProperties
  <2>. QED  BY <2>1, ConcatProperties DEF Without
<1>. HIDE DEF p, i, e
<1>7. ASSUME NEW f \in Held, Goes(f)  PROVE Kept
  <2>1. CASE f.total = f.count
    <3>1. HandUp(f, Without(i))  BY <1>7, <2>1
    <3>. QED  BY <1>2, <1>6, <3>1, HandUpStep
  <2>2. CASE f.total # f.count
    <3>1. list' = [list EXCEPT ![i] = f] /\ UNCHANGED <<delivered, recv>>  BY <1>7, <2>2
    <3>. QED  BY <1>2, <1>3, <3>1
  <2>. QED  BY <2>1, <2>2
<1>. HIDE DEF Goes
<1>8. Kept
  <2>1. Counted([e EXCEPT !.offs = Append(@, p)], p) \in Held
    BY <1>3, <1>4, AppendHeld, CountedHeld
  <2>2. Matches(e, p) # {} => Counted(Ring(e, p), p) \in Held
    BY <1>3, <1>4, RingHeld, CountedHeld
  <2>3. UNCHANGED <<list, delivered>> /\ recv' \in {recv, "crashed", "hung"} => Kept
    BY <1>2
  <2>. HIDE DEF Kept
  <2>. QED  BY <1>5, <1>7, <2>1, <2>2, <2>3
<1>. QED  BY <1>1, <1>8, ReceiveStep

(* The faults of the network leave the pieces as they are. *)
NetworkFaults == \/ \E s \in Sources : LoseFirst(s) \/ RepeatFirst(s) \/ OvertakeFirst(s)
                 \/ LoseSecond \/ RepeatSecond \/ Overtake

LEMMA DoubledSeq ==
  ASSUME NEW S, NEW q \in Seq(S), q # <<>>
  PROVE  Doubled(q) \in Seq(S) /\ Head(q) \in S
<1>1. Head(q) \in S /\ <<Head(q)>> \in Seq(S)  OBVIOUS
<1>. QED  BY <1>1, ConcatProperties DEF Doubled

LEMMA SwappedSeq ==
  ASSUME NEW S, NEW q \in Seq(S), Len(q) > 1
  PROVE  Swapped(q) \in Seq(S) /\ q[1] \in S /\ q[2] \in S
<1>1. 1 \in 1..Len(q) /\ 2 \in 1..Len(q) /\ Len(q) \in Nat  OBVIOUS
<1>2. q[1] \in S /\ q[2] \in S  BY <1>1
<1>3. <<q[2], q[1]>> \in Seq(S)  BY <1>2
<1>4. SubSeq(q, 3, Len(q)) \in Seq(S)  BY <1>1, SubSeqProperties
<1>. QED  BY <1>2, <1>3, <1>4, ConcatProperties DEF Swapped

(* How a fault changes a link q, and the packets d that it puts out of     *)
(* order: those of c if a frame is sent twice.                             *)
Disturbs(q, r, d, c) ==
    \/ q # <<>> /\ r = Tail(q) /\ d = {}
    \/ q # <<>> /\ r = Doubled(q) /\ d = c
    \/ Len(q) > 1 /\ r = Swapped(q) /\ d = Reordered(q)

LEMMA Disturbed ==
  ASSUME NEW q \in Seq(Known), NEW r, NEW d, NEW c \in {{}, TwiceCut(q)}, Disturbs(q, r, d, c)
  PROVE  r \in Seq(Known) /\ d \subseteq Sources \X (1..MaxPackets)
<1>1. ASSUME NEW p \in Known  PROVE PacketOf(p) \in Sources \X (1..MaxPackets)
  BY DEF Known, Piece, PacketOf
<1>2. CASE q # <<>> /\ r = Tail(q) /\ d = {}  BY <1>2, HeadTailProperties
<1>3. CASE q # <<>> /\ r = Doubled(q) /\ d = c
  <2>1. r \in Seq(Known) /\ Head(q) \in Known  BY <1>3, DoubledSeq
  <2>. QED  BY <1>1, <1>3, <2>1 DEF TwiceCut
<1>4. CASE Len(q) > 1 /\ r = Swapped(q) /\ d = Reordered(q)
  <2>1. r \in Seq(Known) /\ q[1] \in Known  BY <1>4, SwappedSeq
  <2>. QED  BY <1>1, <1>4, <2>1 DEF Reordered
<1>. QED  BY <1>2, <1>3, <1>4 DEF Disturbs

LEMMA FaultForm ==
  ASSUME ReassemblyInv, NetworkFaults
  PROVE  /\ UNCHANGED <<size, count_id, list, delivered, recv>>
         /\ faults' = faults + 1 /\ faults < MaxFaults
         /\ \E d : /\ disordered' = disordered \cup d
                   /\ \/ second' = second /\ \E s \in Sources :
                            /\ first' = [first EXCEPT ![s] = first'[s]]
                            /\ Disturbs(first[s], first'[s], d, TwiceCut(first[s]))
                      \/ first' = first /\ Disturbs(second, second', d, {})
<1>1. first \in [Sources -> Seq(Known)]  BY DEF ReassemblyInv, OriginInv
<1>2. CASE \E s \in Sources : LoseFirst(s) \/ RepeatFirst(s) \/ OvertakeFirst(s)
  <2>1. PICK s \in Sources : LoseFirst(s) \/ RepeatFirst(s) \/ OvertakeFirst(s)  BY <1>2
  <2>2. CASE LoseFirst(s)
    <3>1. /\ second' = second /\ disordered' = disordered \cup {} /\ first[s] # <<>>
          /\ first' = [first EXCEPT ![s] = Tail(first[s])]
          /\ UNCHANGED <<size, count_id, list, delivered, recv>>
          /\ faults' = faults + 1 /\ faults < MaxFaults
      BY <2>2 DEF LoseFirst, Fault
    <3>2. first'[s] = Tail(first[s])  BY <1>1, <3>1
    <3>. QED  BY <3>1, <3>2 DEF Disturbs
  <2>3. CASE RepeatFirst(s)
    <3>1. /\ second' = second /\ disordered' = disordered \cup TwiceCut(first[s])
          /\ first[s] # <<>> /\ first' = [first EXCEPT ![s] = Doubled(first[s])]
          /\ UNCHANGED <<size, count_id, list, delivered, recv>>
          /\ faults' = faults + 1 /\ faults < MaxFaults
      BY <2>3 DEF RepeatFirst, Fault
    <3>2. first'[s] = Doubled(first[s])  BY <1>1, <3>1
    <3>. QED  BY <3>1, <3>2 DEF Disturbs
  <2>4. CASE OvertakeFirst(s)
    <3>1. /\ second' = second /\ disordered' = disordered \cup Reordered(first[s])
          /\ Len(first[s]) > 1 /\ first' = [first EXCEPT ![s] = Swapped(first[s])]
          /\ UNCHANGED <<size, count_id, list, delivered, recv>>
          /\ faults' = faults + 1 /\ faults < MaxFaults
      BY <2>4 DEF OvertakeFirst, Fault
    <3>2. first'[s] = Swapped(first[s])  BY <1>1, <3>1
    <3>. QED  BY <3>1, <3>2 DEF Disturbs
  <2>. QED  BY <2>1, <2>2, <2>3, <2>4
<1>3. CASE LoseSecond
  <2>1. disordered' = disordered \cup {}  BY <1>3 DEF LoseSecond
  <2>. QED  BY <1>3, <2>1 DEF LoseSecond, Fault, Disturbs
<1>4. CASE RepeatSecond
  <2>1. disordered' = disordered \cup {}  BY <1>4 DEF RepeatSecond
  <2>. QED  BY <1>4, <2>1 DEF RepeatSecond, Fault, Disturbs
<1>5. CASE Overtake  BY <1>5 DEF Overtake, Fault, Disturbs
<1>. QED  BY <1>2, <1>3, <1>4, <1>5 DEF NetworkFaults

LEMMA FaultStep ==
  ASSUME ReassemblyInv, NetworkFaults
  PROVE  ReassemblyInv'
<1>1. first \in [Sources -> Seq(Known)] /\ second \in Seq(Known) /\ FaultsOK
  BY DEF ReassemblyInv, OriginInv, TypeOK, FaultsOK
<1>2. /\ UNCHANGED <<size, count_id, list, delivered, recv>>
      /\ faults' = faults + 1 /\ faults < MaxFaults
  BY FaultForm
<1>3. PICK d : /\ disordered' = disordered \cup d
               /\ \/ second' = second /\ \E s \in Sources :
                        /\ first' = [first EXCEPT ![s] = first'[s]]
                        /\ Disturbs(first[s], first'[s], d, TwiceCut(first[s]))
                  \/ first' = first /\ Disturbs(second, second', d, {})
  BY FaultForm
<1>4. /\ first' \in [Sources -> Seq(Known)] /\ second' \in Seq(Known)
      /\ d \subseteq Sources \X (1..MaxPackets)
  <2>1. CASE second' = second /\ \E s \in Sources :
                  /\ first' = [first EXCEPT ![s] = first'[s]]
                  /\ Disturbs(first[s], first'[s], d, TwiceCut(first[s]))
    <3>1. PICK s \in Sources : /\ first' = [first EXCEPT ![s] = first'[s]]
                               /\ Disturbs(first[s], first'[s], d, TwiceCut(first[s]))
      BY <2>1
    <3>2. first[s] \in Seq(Known)  BY <1>1
    <3>3. first'[s] \in Seq(Known) /\ d \subseteq Sources \X (1..MaxPackets)
      BY <3>1, <3>2, Disturbed
    <3>. QED  BY <1>1, <2>1, <3>1, <3>3
  <2>2. CASE first' = first /\ Disturbs(second, second', d, {})
    BY <1>1, <2>2, Disturbed
  <2>. QED  BY <1>3, <2>1, <2>2
<1>5. FaultsOK'
  <2>1. faults' \in 0..MaxFaults  BY <1>1, <1>2, ReassemblyAssumption DEF FaultsOK
  <2>. QED  BY <1>1, <1>3, <1>4, <2>1 DEF FaultsOK
<1>6. /\ list' \in Seq(Held) /\ delivered' \in Seq(Handed)
      /\ recv' \in {"runs", "crashed", "hung"}
  BY <1>2 DEF ReassemblyInv, OriginInv, TypeOK
<1>. QED  BY <1>2, <1>4, <1>5, <1>6, SameSources

LEMMA NextInv == ReassemblyInv /\ [Next]_vars => ReassemblyInv'
<1>. SUFFICES ASSUME ReassemblyInv, [Next]_vars PROVE ReassemblyInv'  OBVIOUS
<1>1. CASE UNCHANGED vars
  <2>1. /\ first' \in [Sources -> Seq(Known)] /\ second' \in Seq(Known)
        /\ list' \in Seq(Held) /\ delivered' \in Seq(Handed)
        /\ recv' \in {"runs", "crashed", "hung"} /\ FaultsOK'
        /\ UNCHANGED <<size, count_id>>
    BY <1>1 DEF vars, ReassemblyInv, OriginInv, TypeOK, FaultsOK
  <2>. QED  BY <2>1, SameSources
<1>2. CASE Next
  BY <1>2, SendStep, ForwardStep, ReceiveFirstStep, ReceiveNewStep, ReceiveMoreStep, FaultStep
  DEF Next, Destination, NetworkFaults
<1>. QED  BY <1>1, <1>2

(* Every piece anywhere - on a link, in the list, handed up - is one of a  *)
(* packet that was sent, with that packet's id, and an entry of the list   *)
(* holds pieces of one source and one id.                                  *)
THEOREM PiecesKeepOrigin == Spec => []ReassemblyInv
<1>. QED  BY InitInv, NextInv, PTL DEF Spec

(* The packets, the pieces and the list keep their types, for every MTU.   *)
THEOREM TypeCorrect == Spec => []TypeOK
<1>1. ReassemblyInv => TypeOK  BY DEF ReassemblyInv
<1>. QED  BY <1>1, PiecesKeepOrigin, PTL

(* Until the ids wrap an id is that of one packet of its source.           *)
LEMMA SameNumber ==
  ASSUME MaxPackets <= ID_MODULUS, NEW p \in Known, NEW q \in Known, p.id = q.id
  PROVE  p.pkt = q.pkt
<1>1. ASSUME NEW x \in Known  PROVE x.pkt \in Nat /\ x.pkt = x.id + 1
  <2>1. x.pkt \in 1..MaxPackets /\ x.id = (x.pkt - 1) % ID_MODULUS
    BY DEF Known, Piece
  <2>2. MaxPackets \in Nat /\ ID_MODULUS \in Nat /\ ID_MODULUS > 0
    BY ReassemblyAssumption
  <2>3. x.pkt - 1 \in 0..(ID_MODULUS - 1)  BY <2>1, <2>2
  <2>4. (x.pkt - 1) % ID_MODULUS = x.pkt - 1  BY <2>2, <2>3
  <2>. QED  BY <2>1, <2>4
<1>. QED  BY <1>1

(* What is handed up is of one packet, whatever the network does, for all  *)
(* sizes and MTUs, as long as no source has sent more packets than there   *)
(* are ids.                                                                *)
THEOREM PacketsNotMixed ==
  ASSUME MaxPackets <= ID_MODULUS  PROVE Spec => []NeverMixed
<1>1. ASSUME ReassemblyInv  PROVE NeverMixed
  <2>. SUFFICES ASSUME NEW i \in DOMAIN delivered, NEW j \in DOMAIN delivered[i]
                PROVE  /\ delivered[i][j].src = delivered[i][1].src
                       /\ delivered[i][j].pkt = delivered[i][1].pkt
    BY DEF NeverMixed, OfOnePacket
  <2>. DEFINE ps == delivered[i]
  <2>1. ps \in Handed  BY <1>1 DEF ReassemblyInv, OriginInv
  <2>. HIDE DEF ps
  <2>2. ps \in Seq(Alike(ps[1])) /\ ps # <<>>  BY <2>1 DEF Handed
  <2>3. 1 \in DOMAIN ps /\ j \in DOMAIN ps  BY <2>2 DEF ps
  <2>4. ps[1] \in Alike(ps[1]) /\ ps[j] \in Alike(ps[1])  BY <2>2, <2>3
  <2>5. ps[j].src = ps[1].src /\ ps[j].id = ps[1].id /\ ps[j] \in Known /\ ps[1] \in Known
    BY <2>4 DEF Alike
  <2>6. ps[j].pkt = ps[1].pkt  BY <2>5, SameNumber
  <2>. QED  BY <2>5, <2>6 DEF ps
<1>. QED  BY <1>1, PiecesKeepOrigin, PTL
-----------------------------------------------------------------------------
(* The order of the pieces.  Those of one packet come by their bytes, if   *)
(* the packet is not in d, and if there were faults (w) one that the       *)
(* router does not cut may come once more.                                 *)
In(ps) == {ps[i] : i \in DOMAIN ps}
InPlace(p, d) == PacketOf(p) \notin d
InOrder(q, r, d) ==
    q.src = r.src /\ q.pkt = r.pkt /\ InPlace(q, d) => Ends(q) <= r.off
OrRepeated(q, r, d, w) == InOrder(q, r, d) \/ (w /\ q = r /\ ~CutAgain(q))
Sorted(ps, d, w) == \A i, j \in DOMAIN ps : i < j => OrRepeated(ps[i], ps[j], d, w)

(* Of sequences. *)
LEMMA InSeq ==
  ASSUME NEW S, NEW ps \in Seq(S)
  PROVE  In(ps) \subseteq S /\ (ps # <<>> => Head(ps) \in In(ps) /\ ps[Len(ps)] \in In(ps))
<1>1. DOMAIN ps = 1..Len(ps) /\ Len(ps) \in Nat  OBVIOUS
<1>2. In(ps) \subseteq S  BY <1>1 DEF In
<1>3. ASSUME ps # <<>>  PROVE Head(ps) \in In(ps) /\ ps[Len(ps)] \in In(ps)
  <2>1. 1 \in 1..Len(ps) /\ Len(ps) \in 1..Len(ps) /\ Head(ps) = ps[1]  BY <1>3
  <2>. QED  BY <1>1, <2>1 DEF In
<1>. QED  BY <1>2, <1>3

LEMMA InTail ==
  ASSUME NEW S, NEW ps \in Seq(S), ps # <<>>
  PROVE  /\ In(Tail(ps)) \subseteq In(ps)
         /\ \A r \in In(ps) : r = Head(ps) \/ r \in In(Tail(ps))
<1>1. /\ Tail(ps) \in Seq(S) /\ Len(Tail(ps)) = Len(ps) - 1 /\ Head(ps) = ps[1]
      /\ \A i \in 1..Len(Tail(ps)) : Tail(ps)[i] = ps[i + 1]
  OBVIOUS
<1>2. Len(ps) \in Nat /\ DOMAIN ps = 1..Len(ps) /\ DOMAIN Tail(ps) = 1..Len(Tail(ps))
  BY <1>1
<1>3. ASSUME NEW r \in In(Tail(ps))  PROVE r \in In(ps)
  <2>1. PICK i \in 1..Len(Tail(ps)) : r = Tail(ps)[i]  BY <1>2 DEF In
  <2>2. i + 1 \in DOMAIN ps /\ r = ps[i + 1]  BY <1>1, <1>2, <2>1
  <2>. QED  BY <2>2 DEF In
<1>4. ASSUME NEW r \in In(ps), r # Head(ps)  PROVE r \in In(Tail(ps))
  <2>1. PICK i \in 1..Len(ps) : r = ps[i]  BY <1>2 DEF In
  <2>2. i # 1  BY <1>1, <1>4, <2>1
  <2>3. i - 1 \in 1..Len(Tail(ps)) /\ (i - 1) + 1 = i  BY <1>1, <1>2, <2>1, <2>2
  <2>4. r = Tail(ps)[i - 1]  BY <1>1, <2>1, <2>3
  <2>. QED  BY <1>2, <2>3, <2>4 DEF In
<1>. QED  BY <1>3, <1>4

LEMMA InConcat ==
  ASSUME NEW S, NEW a \in Seq(S), NEW b \in Seq(S)
  PROVE  In(a \o b) = In(a) \cup In(b)
<1>1. /\ a \o b \in Seq(S) /\ Len(a \o b) = Len(a) + Len(b)
      /\ \A i \in 1..(Len(a) + Len(b)) :
            (a \o b)[i] = IF i <= Len(a) THEN a[i] ELSE b[i - Len(a)]
  BY ConcatProperties
<1>2. /\ Len(a) \in Nat /\ Len(b) \in Nat /\ DOMAIN a = 1..Len(a) /\ DOMAIN b = 1..Len(b)
      /\ DOMAIN (a \o b) = 1..(Len(a) + Len(b))
  BY <1>1
<1>3. ASSUME NEW r \in In(a \o b)  PROVE r \in In(a) \cup In(b)
  <2>1. PICK i \in 1..(Len(a) + Len(b)) : r = (a \o b)[i]  BY <1>2 DEF In
  <2>2. CASE i <= Len(a)
    <3>1. i \in 1..Len(a) /\ r = a[i]  BY <1>1, <1>2, <2>1, <2>2
    <3>. QED  BY <1>2, <3>1 DEF In
  <2>3. CASE ~(i <= Len(a))
    <3>1. i - Len(a) \in 1..Len(b) /\ r = b[i - Len(a)]  BY <1>1, <1>2, <2>1, <2>3
    <3>. QED  BY <1>2, <3>1 DEF In
  <2>. QED  BY <2>2, <2>3
<1>4. ASSUME NEW r \in In(a)  PROVE r \in In(a \o b)
  <2>1. PICK i \in 1..Len(a) : r = a[i]  BY <1>2 DEF In
  <2>2. i \in 1..(Len(a) + Len(b)) /\ r = (a \o b)[i]  BY <1>1, <1>2, <2>1
  <2>. QED  BY <1>2, <2>2 DEF In
<1>5. ASSUME NEW r \in In(b)  PROVE r \in In(a \o b)
  <2>1. PICK i \in 1..Len(b) : r = b[i]  BY <1>2 DEF In
  <2>2. i + Len(a) \in 1..(Len(a) + Len(b)) /\ (i + Len(a)) - Len(a) = i
        /\ ~(i + Len(a) <= Len(a))
    BY <1>2
  <2>3. r = (a \o b)[i + Len(a)]  BY <1>1, <2>1, <2>2
  <2>. QED  BY <1>2, <2>2, <2>3 DEF In
<1>. QED  BY <1>3, <1>4, <1>5

LEMMA SortedTail ==
  ASSUME NEW S, NEW ps \in Seq(S), ps # <<>>, NEW d, NEW w, Sorted(ps, d, w)
  PROVE  /\ Sorted(Tail(ps), d, w)
         /\ \A r \in In(Tail(ps)) : OrRepeated(Head(ps), r, d, w)
<1>1. /\ Len(Tail(ps)) = Len(ps) - 1 /\ Head(ps) = ps[1] /\ Len(ps) \in Nat
      /\ \A i \in 1..Len(Tail(ps)) : Tail(ps)[i] = ps[i + 1]
      /\ DOMAIN ps = 1..Len(ps) /\ DOMAIN Tail(ps) = 1..Len(Tail(ps))
  OBVIOUS
<1>2. ASSUME NEW i \in 1..Len(Tail(ps)), NEW j \in 1..Len(Tail(ps)), i < j
      PROVE  OrRepeated(Tail(ps)[i], Tail(ps)[j], d, w)
  <2>1. i + 1 \in DOMAIN ps /\ j + 1 \in DOMAIN ps /\ i + 1 < j + 1  BY <1>1, <1>2
  <2>. QED  BY <1>1, <2>1 DEF Sorted
<1>3. ASSUME NEW r \in In(Tail(ps))  PROVE OrRepeated(Head(ps), r, d, w)
  <2>1. PICK i \in 1..Len(Tail(ps)) : r = Tail(ps)[i]  BY <1>1 DEF In
  <2>2. 1 \in DOMAIN ps /\ i + 1 \in DOMAIN ps /\ 1 < i + 1 /\ r = ps[i + 1]
    BY <1>1, <2>1
  <2>. QED  BY <1>1, <2>2 DEF Sorted
<1>. QED  BY <1>1, <1>2, <1>3 DEF Sorted

LEMMA SortedConcat ==
  ASSUME NEW S, NEW a \in Seq(S), NEW b \in Seq(S), NEW d, NEW w,
         Sorted(a, d, w), Sorted(b, d, w),
         \A q \in In(a) : \A r \in In(b) : OrRepeated(q, r, d, w)
  PROVE  Sorted(a \o b, d, w)
<1>. DEFINE c == a \o b
            n == Len(a)
<1>1. /\ c \in Seq(S) /\ Len(c) = n + Len(b) /\ n \in Nat /\ Len(b) \in Nat
      /\ DOMAIN a = 1..n /\ DOMAIN b = 1..Len(b) /\ DOMAIN c = 1..(n + Len(b))
      /\ \A i \in 1..(n + Len(b)) : c[i] = IF i <= n THEN a[i] ELSE b[i - n]
  BY ConcatProperties
<1>. HIDE DEF c, n
<1>2. ASSUME NEW i \in DOMAIN c, NEW j \in DOMAIN c, i < j
      PROVE  OrRepeated(c[i], c[j], d, w)
  <2>1. CASE j <= n
    <3>1. i \in DOMAIN a /\ j \in DOMAIN a /\ c[i] = a[i] /\ c[j] = a[j]
      BY <1>1, <1>2, <2>1
    <3>. QED  BY <1>2, <3>1 DEF Sorted
  <2>2. CASE ~(j <= n) /\ i <= n
    <3>1. i \in DOMAIN a /\ j - n \in DOMAIN b /\ c[i] = a[i] /\ c[j] = b[j - n]
      BY <1>1, <1>2, <2>2
    <3>2. a[i] \in In(a) /\ b[j - n] \in In(b)  BY <3>1 DEF In
    <3>. QED  BY <3>1, <3>2
  <2>3. CASE ~(j <= n) /\ ~(i <= n)
    <3>1. /\ i - n \in DOMAIN b /\ j - n \in DOMAIN b /\ i - n < j - n
          /\ c[i] = b[i - n] /\ c[j] = b[j - n]
      BY <1>1, <1>2, <2>3
    <3>. QED  BY <3>1 DEF Sorted
  <2>. QED  BY <2>1, <2>2, <2>3
<1>. QED  BY <1>2 DEF Sorted, c

LEMMA SortedShort ==
  ASSUME NEW p, NEW d, NEW w
  PROVE  Sorted(<<p>>, d, w) /\ Sorted(<<>>, d, w) /\ In(<<p>>) = {p} /\ In(<<>>) = {}
<1>1. DOMAIN <<p>> = 1..1 /\ <<p>>[1] = p /\ DOMAIN <<>> = 1..0  OBVIOUS
<1>2. \A i, j \in 1..1 : ~(i < j)  OBVIOUS
<1>3. \A i \in 1..0 : FALSE  OBVIOUS
<1>4. Sorted(<<p>>, d, w) /\ Sorted(<<>>, d, w)  BY <1>1, <1>2, <1>3 DEF Sorted
<1>5. In(<<p>>) = {p}
  <2>1. In(<<p>>) = {<<p>>[i] : i \in 1..1}  BY <1>1 DEF In
  <2>2. 1..1 = {1}  OBVIOUS
  <2>. QED  BY <1>1, <2>1, <2>2
<1>6. In(<<>>) = {}  BY <1>1, <1>3 DEF In
<1>. QED  BY <1>4, <1>5, <1>6

LEMMA OrderMono ==
  ASSUME NEW q, NEW r, NEW d, NEW e, d \subseteq e, NEW w, NEW x, w => x,
         OrRepeated(q, r, d, w)
  PROVE  OrRepeated(q, r, e, x)
BY DEF OrRepeated, InOrder, InPlace

LEMMA SortedMono ==
  ASSUME NEW ps, NEW d, NEW e, d \subseteq e, NEW w, NEW x, w => x, Sorted(ps, d, w)
  PROVE  Sorted(ps, e, x)
BY OrderMono DEF Sorted

(* Of pieces: cutting keeps the order. *)
LEMMA NumbersOf ==
  ASSUME NEW p \in Piece
  PROVE  p.off \in Nat /\ p.size \in Nat /\ p.pkt \in Nat /\ Ends(p) \in Nat
         /\ Ends(p) = p.off + p.size /\ p.src \in Sources
BY DEF Piece, Ends

LEMMA CutAfter ==
  ASSUME NEW q \in Piece, NEW p \in Piece, NEW r \in PiecesOf(p), NEW d, InOrder(q, p, d)
  PROVE  InOrder(q, r, d)
<1>1. r \in Piece /\ r.src = p.src /\ r.pkt = p.pkt /\ p.off <= r.off  BY DEF PiecesOf
<1>2. Ends(q) \in Nat /\ p.off \in Nat /\ r.off \in Nat  BY <1>1, NumbersOf
<1>3. Ends(q) <= p.off => Ends(q) <= r.off  BY <1>1, <1>2
<1>. QED  BY <1>1, <1>3 DEF InOrder, InPlace, PacketOf

LEMMA CutBefore ==
  ASSUME NEW q \in Piece, NEW p \in Piece, NEW r \in PiecesOf(p), NEW d, InOrder(p, q, d)
  PROVE  InOrder(r, q, d)
<1>1. r \in Piece /\ r.src = p.src /\ r.pkt = p.pkt /\ Ends(r) <= Ends(p)  BY DEF PiecesOf
<1>2. Ends(r) \in Nat /\ Ends(p) \in Nat /\ q.off \in Nat  BY <1>1, NumbersOf
<1>3. Ends(p) <= q.off => Ends(r) <= q.off  BY <1>1, <1>2
<1>. QED  BY <1>1, <1>3 DEF InOrder, InPlace, PacketOf

LEMMA CutSorted ==
  ASSUME NEW p \in Piece, p.size >= 1, NEW mtu \in Nat, mtu >= NET_HEADER_SIZE + 8
  PROVE  Sorted(fragpack(p, mtu), {}, FALSE)
<1>1. CASE p.size + NET_HEADER_SIZE <= mtu  BY <1>1, SortedShort DEF fragpack
<1>2. CASE ~(p.size + NET_HEADER_SIZE <= mtu)
  <2>. DEFINE f  == FragSize(mtu)
              n  == (p.size + f - 1) \div f
              ps == Pieces(p, mtu)
  <2>1. /\ n \in Nat /\ n >= 1 /\ ps \in Seq(PiecesOf(p)) /\ Len(ps) = n
        /\ \A i \in 1..n : /\ ps[i].off = p.off + (i - 1) * f
                           /\ (i - 1) * f \in Nat
                           /\ i < n => ps[i].size = f
    BY CutForm
  <2>2. f \in Nat /\ p.off \in Nat  BY FragPositive, NumbersOf
  <2>3. fragpack(p, mtu) = ps  BY <1>2 DEF fragpack
  <2>. HIDE DEF f, n, ps
  <2>4. DOMAIN ps = 1..n  BY <2>1
  <2>5. ASSUME NEW i \in 1..n, NEW j \in 1..n, i < j  PROVE InOrder(ps[i], ps[j], {})
    <3>1. ps[i] \in PiecesOf(p) /\ ps[j] \in PiecesOf(p)  BY <2>1, <2>4
    <3>2. (i - 1) * f + f <= (j - 1) * f
      <4>1. i - 1 \in Nat /\ j - 1 \in Nat /\ i - 1 < j - 1  BY <2>1, <2>5
      <4>. QED  BY <2>2, <4>1, Multiples
    <3>3. i < n  BY <2>1, <2>5
    <3>4. ps[i].off = p.off + (i - 1) * f /\ ps[i].size = f /\ ps[j].off = p.off + (j - 1) * f
          /\ (i - 1) * f \in Nat /\ (j - 1) * f \in Nat
      BY <2>1, <3>3
    <3>5. Ends(ps[i]) <= ps[j].off  BY <2>2, <3>2, <3>4 DEF Ends
    <3>. QED  BY <3>1, <3>5 DEF InOrder, PiecesOf
  <2>. QED  BY <2>3, <2>4, <2>5 DEF Sorted, OrRepeated
<1>. QED  BY <1>1, <1>2

LEMMA SentSorted ==
  ASSUME NEW p \in Piece, p.size >= 1, NEW mtu \in Nat, mtu >= NET_HEADER_SIZE + 8
  PROVE  Sorted(Sent(p, mtu), {}, FALSE)
<1>. DEFINE ps == fragpack(p, mtu)
<1>1. Sent(p, mtu) \in {ps, <<ps[Len(ps)]>>, <<>>}  BY DEF Sent
<1>2. Sorted(ps, {}, FALSE)  BY CutSorted
<1>3. /\ Sorted(<<ps[Len(ps)]>>, {}, FALSE)
      /\ Sorted(<<>>, {}, FALSE)
  BY SortedShort
<1>. HIDE DEF ps
<1>. QED  BY <1>1, <1>2, <1>3

(* What the router sends on of a piece takes its place. *)
LEMMA SentBetween ==
  ASSUME NEW p \in Piece, p.size >= 1, NEW r \in In(Sent(p, SecondMtu)), NEW q \in Piece,
         NEW d, NEW w
  PROVE  /\ OrRepeated(q, p, d, w) => OrRepeated(q, r, d, w)
         /\ OrRepeated(p, q, d, w) => OrRepeated(r, q, d, w)
         /\ ~CutAgain(r)
<1>. DEFINE ps == fragpack(p, SecondMtu)
<1>1. SecondMtu \in Nat /\ SecondMtu >= NET_HEADER_SIZE + 8  BY ReassemblyAssumption
<1>2. ps \in Seq(PiecesOf(p)) /\ Len(ps) >= 1  BY <1>1, PiecesCut
<1>3. r \in In(ps)
  <2>1. Sent(p, SecondMtu) \in {ps, <<ps[Len(ps)]>>, <<>>}  BY DEF Sent
  <2>. HIDE DEF ps
  <2>2. ps # <<>>  BY <1>2
  <2>3. ps[Len(ps)] \in In(ps)  BY <1>2, <2>2, InSeq
  <2>4. In(<<ps[Len(ps)]>>) = {ps[Len(ps)]} /\ In(<<>>) = {}  BY SortedShort
  <2>. QED  BY <2>1, <2>3, <2>4
<1>4. r \in PiecesOf(p)
  <2>. HIDE DEF ps
  <2>. QED  BY <1>2, <1>3, InSeq
<1>5. CASE ~CutAgain(p)
  <2>1. p.size + NET_HEADER_SIZE <= SecondMtu
    BY <1>1, <1>5, NumbersOf DEF CutAgain, NET_HEADER_SIZE
  <2>2. ps = <<p>>  BY <2>1 DEF fragpack
  <2>3. r = p  BY <1>3, <2>2, SortedShort
  <2>. QED  BY <1>5, <2>3
<1>6. CASE CutAgain(p)
  <2>1. ~(p.size + NET_HEADER_SIZE <= SecondMtu)
    BY <1>1, <1>6, NumbersOf DEF CutAgain, NET_HEADER_SIZE
  <2>2. ps = Pieces(p, SecondMtu)  BY <2>1 DEF fragpack
  <2>3. OrRepeated(q, p, d, w) => InOrder(q, p, d)  BY <1>6 DEF OrRepeated
  <2>4. OrRepeated(p, q, d, w) => InOrder(p, q, d)  BY <1>6 DEF OrRepeated
  <2>5. InOrder(q, p, d) => InOrder(q, r, d)  BY <1>4, CutAfter
  <2>6. InOrder(p, q, d) => InOrder(r, q, d)  BY <1>4, CutBefore
  <2>7. ~CutAgain(r)
    <3>. DEFINE f == FragSize(SecondMtu)
                n == (p.size + f - 1) \div f
    <3>1. n \in Nat /\ Len(ps) = n /\ \A i \in 1..n : ps[i].size <= f
      BY <1>1, <2>2, CutForm
    <3>. HIDE DEF n, ps, f
    <3>2. DOMAIN ps = 1..n  BY <1>2, <3>1
    <3>3. r.size <= f  BY <1>3, <3>1, <3>2 DEF In
    <3>4. f \in Nat /\ f <= SecondMtu - NET_HEADER_SIZE
      BY <1>1 DEF f, FragSize, NET_HEADER_SIZE
    <3>5. r.size \in Nat  BY <1>4, NumbersOf DEF PiecesOf
    <3>. QED  BY <1>1, <3>3, <3>4, <3>5 DEF CutAgain, NET_HEADER_SIZE
  <2>. QED  BY <2>3, <2>4, <2>5, <2>6, <2>7 DEF OrRepeated
<1>. QED  BY <1>5, <1>6

(* The size of the packet of a piece. *)
LEMMA SizeOf ==
  ASSUME ReassemblyInv, NEW p \in Known
  PROVE  size[p.src][p.pkt] \in Nat
<1>1. p.src \in Sources /\ p.pkt \in 1..Len(size[p.src])  BY DEF Known, Piece
<1>2. size[p.src] \in Seq(Sizes)  BY <1>1 DEF ReassemblyInv, TypeOK
<1>3. size[p.src][p.pkt] \in Sizes  BY <1>1, <1>2
<1>. QED  BY <1>3, ReassemblyAssumption

(* Nothing comes after the last piece of a packet. *)
LEMMA NotTheLast ==
  ASSUME ReassemblyInv, NEW q \in Known, NEW p \in Known, p.src = q.src, p.pkt = q.pkt,
         Ends(q) <= p.off
  PROVE  q.more
<1>1. size[p.src][p.pkt] \in Nat  BY SizeOf
<1>2. q \in Piece /\ p \in Piece /\ p.size >= 1 /\ Ends(p) <= size[p.src][p.pkt]
      /\ (q.more <=> Ends(q) < size[p.src][p.pkt])
  BY DEF Known
<1>3. Ends(q) < size[p.src][p.pkt]  BY <1>1, <1>2, NumbersOf
<1>. QED  BY <1>2, <1>3

(* An entry whose chain is none, or no longer one, of pieces in order is   *)
(* never handed up: a ring stops the thread.  In the others the pieces are *)
(* in order and the bytes are counted; there are as many as the last piece *)
(* ends at only if there is no gap before it.                              *)
Tiled(ps) == \A i \in DOMAIN ps : ps[i].off = IF i = 1 THEN 0 ELSE Ends(ps[i - 1])
Tallied(e) ==
    LET last == e.offs[Len(e.offs)]
    IN  /\ Sorted(e.offs, {}, FALSE)
        /\ e.count >= 1 /\ e.count <= Ends(last)
        /\ e.count = Ends(last) => Tiled(e.offs)
        /\ e.total = IF last.more THEN 0 ELSE Ends(last)

(* What is on the way comes after what the entry has, or is its last piece *)
(* once more.                                                              *)
Awaits(e) ==
    \A q \in In(e.offs) :
        /\ \A r \in In(second) : OrRepeated(q, r, disordered, faults > 0)
        /\ \A s \in Sources : \A r \in In(first[s]) :
              OrRepeated(q, r, disordered, faults > 0)

LinksSorted ==
    /\ \A s \in Sources : /\ Sorted(first[s], disordered, faults > 0)
                          /\ \A r \in In(first[s]) : r.src = s
    /\ Sorted(second, disordered, faults > 0) /\ \A r \in In(second) : ~CutAgain(r)
    /\ \A q \in In(second) : \A s \in Sources : \A r \in In(first[s]) :
          OrRepeated(q, r, disordered, faults > 0)

EntriesTallied == \A e \in In(list) :
    ~e.ring /\ InPlace(e.offs[1], disordered) => Tallied(e) /\ Awaits(e)
AllComplete == \A ps \in In(delivered) : InPlace(ps[1], disordered) => Complete(ps)

OrderInv ==
    LinksSorted /\ EntriesTallied /\ AllComplete /\ (faults = 0 => disordered = {})

(* A piece of a packet nothing else has come of, *)
LEMMA NewTallied ==
  ASSUME NEW p \in Known
  PROVE  LET e == NewEntry(p)
         IN  /\ ~e.ring /\ Tallied(e) /\ In(e.offs) = {p} /\ e.offs # <<>>
             /\ e.offs[Len(e.offs)] = p
<1>. DEFINE e == NewEntry(p)
<1>1. p \in Piece /\ p.size >= 1  BY DEF Known
<1>2. p.off \in Nat /\ p.size \in Nat /\ Ends(p) \in Nat /\ Ends(p) = p.off + p.size
  BY <1>1, NumbersOf
<1>3. /\ e.offs = <<p>> /\ e.ring = FALSE /\ e.count = p.size
      /\ e.total = IF islastfrag(p) THEN Ends(p) ELSE 0
  BY DEF NewEntry
<1>. HIDE DEF e
<1>4. Len(e.offs) = 1 /\ e.offs[1] = p /\ DOMAIN e.offs = 1..1 /\ e.offs # <<>>
      /\ e.offs[Len(e.offs)] = p
  BY <1>3
<1>5. Sorted(e.offs, {}, FALSE) /\ In(e.offs) = {p}
  <2>1. Sorted(<<p>>, {}, FALSE) /\ In(<<p>>) = {p}  BY SortedShort
  <2>. QED  BY <1>3, <2>1
<1>6. e.count >= 1 /\ e.count <= Ends(p)  BY <1>1, <1>2, <1>3
<1>7. ASSUME e.count = Ends(p)  PROVE Tiled(e.offs)
  <2>1. p.off = 0  BY <1>2, <1>3, <1>7
  <2>2. \A i \in 1..1 : i = 1  OBVIOUS
  <2>. QED  BY <1>4, <2>1, <2>2 DEF Tiled
<1>8. e.total = IF p.more THEN 0 ELSE Ends(p)  BY <1>3 DEF islastfrag
<1>9. Tallied(e)  BY <1>4, <1>5, <1>6, <1>7, <1>8 DEF Tallied
<1>. QED  BY <1>3, <1>4, <1>5, <1>9 DEF e

(* and one that comes after those of an entry. *)
LEMMA AppendTallied ==
  ASSUME ReassemblyInv, NEW e \in Held, ~e.ring, Tallied(e), NEW p \in Known,
         \A q \in In(e.offs) : q.src = p.src /\ q.pkt = p.pkt /\ Ends(q) <= p.off
  PROVE  LET f == Counted([e EXCEPT !.offs = Append(@, p)], p)
         IN  /\ ~f.ring /\ Tallied(f) /\ In(f.offs) = In(e.offs) \cup {p}
             /\ f.offs[Len(f.offs)] = p
<1>. DEFINE ps == e.offs
            n == Len(ps)
            last == ps[n]
            g == [e EXCEPT !.offs = Append(@, p)]
            f == Counted(g, p)
<1>1. p \in Piece /\ p.size >= 1 /\ p.off \in Nat /\ p.size \in Nat /\ Ends(p) \in Nat
      /\ Ends(p) = p.off + p.size
  BY NumbersOf DEF Known
<1>2. e \in EntryType /\ ps \in Seq(Piece) /\ ps # <<>> /\ e.count \in Nat /\ e.total \in Nat
  BY DEF Held, EntryType
<1>3. n \in Nat /\ n >= 1 /\ last \in Piece /\ last \in In(ps)  BY <1>2, InSeq
<1>4. Ends(last) \in Nat /\ last.src = p.src /\ last.pkt = p.pkt /\ Ends(last) <= p.off
  BY <1>3, NumbersOf
<1>5. last \in Known
  <2>1. ps \in Seq(Known)  BY SeqMono DEF Held, Alike
  <2>. QED  BY <1>2, <2>1, InSeq
<1>6. last.more  BY <1>4, <1>5, NotTheLast
<1>7. /\ Sorted(ps, {}, FALSE) /\ e.count >= 1 /\ e.count <= Ends(last)
      /\ (e.count = Ends(last) => Tiled(ps)) /\ e.total = IF last.more THEN 0 ELSE Ends(last)
  BY DEF Tallied
<1>8. g = [e EXCEPT !.offs = Append(ps, p)]  OBVIOUS
<1>9. /\ f.offs = Append(ps, p) /\ f.ring = e.ring /\ f.count = e.count + p.size
      /\ f.total = IF islastfrag(p) THEN Ends(p) ELSE e.total
  BY <1>2, <1>8 DEF Counted, EntryType
<1>. HIDE DEF f, g
<1>10. /\ Append(ps, p) = ps \o <<p>> /\ Append(ps, p) \in Seq(Piece)
       /\ Len(Append(ps, p)) = n + 1 /\ Append(ps, p)[n + 1] = p
       /\ \A i \in 1..n : Append(ps, p)[i] = ps[i]
       /\ <<p>> \in Seq(Piece) /\ DOMAIN ps = 1..n /\ DOMAIN Append(ps, p) = 1..(n + 1)
  <2>1. ps \in Seq(Piece) /\ p \in Piece  BY <1>1, <1>2
  <2>. HIDE DEF ps
  <2>2. Append(ps, p) = ps \o <<p>>  BY ONLY <2>1, AppendIsConcat
  <2>3. <<p>> \in Seq(Piece)  BY <2>1
  <2>4. /\ Append(ps, p) \in Seq(Piece) /\ Len(Append(ps, p)) = n + 1
        /\ Append(ps, p)[n + 1] = p /\ \A i \in 1..n : Append(ps, p)[i] = ps[i]
    BY ONLY <2>1, AppendProperties
  <2>5. DOMAIN ps = 1..n /\ DOMAIN Append(ps, p) = 1..(n + 1)  BY <2>1, <2>4
  <2>. QED  BY <2>2, <2>3, <2>4, <2>5
<1>11. In(f.offs) = In(ps) \cup {p}
  <2>1. In(ps \o <<p>>) = In(ps) \cup In(<<p>>)
    <3>1. ps \in Seq(Piece) /\ <<p>> \in Seq(Piece)  BY <1>2, <1>10
    <3>. HIDE DEF ps
    <3>. QED  BY ONLY <3>1, InConcat
  <2>2. In(<<p>>) = {p}  BY SortedShort
  <2>. QED  BY <1>9, <1>10, <2>1, <2>2
<1>12. Sorted(f.offs, {}, FALSE)
  <2>1. \A q \in In(ps) : OrRepeated(q, p, {}, FALSE)  BY DEF InOrder, OrRepeated
  <2>2. \A q \in In(ps) : \A r \in In(<<p>>) : OrRepeated(q, r, {}, FALSE)
    BY <2>1, SortedShort
  <2>3. Sorted(<<p>>, {}, FALSE)  BY SortedShort
  <2>4. Sorted(ps \o <<p>>, {}, FALSE)
    BY ONLY <1>2, <1>7, <1>10, <2>2, <2>3, SortedConcat
  <2>. QED  BY <1>9, <1>10, <2>4
<1>13. f.count >= 1 /\ f.count <= Ends(p)  BY <1>1, <1>2, <1>4, <1>7, <1>9
<1>14. ASSUME f.count = Ends(p)  PROVE Tiled(f.offs)
  <2>1. e.count = Ends(last) /\ p.off = Ends(last)  BY <1>1, <1>2, <1>4, <1>7, <1>9, <1>14
  <2>2. Tiled(ps)  BY <1>7, <2>1
  <2>3. ASSUME NEW i \in 1..(n + 1)
        PROVE  f.offs[i].off = IF i = 1 THEN 0 ELSE Ends(f.offs[i - 1])
    <3>1. CASE i = n + 1
      <4>1. i # 1 /\ i - 1 = n /\ n \in 1..n  BY <1>3, <3>1
      <4>2. f.offs[i] = p /\ f.offs[i - 1] = last  BY <1>9, <1>10, <3>1, <4>1
      <4>. QED  BY <2>1, <4>1, <4>2
    <3>2. CASE i # n + 1
      <4>1. i \in 1..n /\ f.offs[i] = ps[i]  BY <1>3, <1>9, <1>10, <3>2
      <4>2. ASSUME i # 1  PROVE f.offs[i - 1] = ps[i - 1]
        <5>1. i - 1 \in 1..n  BY <1>3, <4>1, <4>2
        <5>. QED  BY <1>9, <1>10, <5>1
      <4>. QED  BY <1>10, <2>2, <4>1, <4>2 DEF Tiled
    <3>. QED  BY <3>1, <3>2
  <2>. QED  BY <1>9, <1>10, <2>3 DEF Tiled
<1>15. f.total = IF p.more THEN 0 ELSE Ends(p)  BY <1>6, <1>7, <1>9 DEF islastfrag
<1>16. f.offs[Len(f.offs)] = p  BY <1>9, <1>10
<1>17. Tallied(f)  BY <1>12, <1>13, <1>14, <1>15, <1>16 DEF Tallied
<1>. QED  BY <1>9, <1>11, <1>16, <1>17 DEF f, g

(* When as many bytes are counted as the packet has, it is complete.       *)
LEMMA TalliedComplete ==
  ASSUME ReassemblyInv, NEW e \in Held, ~e.ring, Tallied(e), e.total = e.count,
         MaxPackets <= ID_MODULUS
  PROVE  Complete(e.offs) /\ ~e.offs[Len(e.offs)].more
<1>. DEFINE ps == e.offs
            last == ps[Len(ps)]
<1>1. ps \in Seq(Alike(e)) /\ ps # <<>> /\ e.count \in Nat  BY DEF Held, EntryType
<1>2. last \in Alike(e) /\ ps[1] \in Alike(e) /\ last \in Known /\ ps[1] \in Known
  BY <1>1 DEF Alike
<1>3. last.src = ps[1].src /\ last.id = ps[1].id  BY <1>2 DEF Alike
<1>4. last.pkt = ps[1].pkt  BY <1>2, <1>3, SameNumber
<1>5. /\ e.count >= 1 /\ (e.count = Ends(last) => Tiled(ps))
      /\ e.total = IF last.more THEN 0 ELSE Ends(last)
  BY DEF Tallied
<1>6. ~last.more /\ e.count = Ends(last)  BY <1>1, <1>5
<1>7. size[last.src][last.pkt] \in Nat /\ Ends(last) \in Nat  BY <1>2, SizeOf, NumbersOf DEF Known
<1>8. Ends(last) = size[last.src][last.pkt]  BY <1>2, <1>6, <1>7 DEF Known
<1>9. Tiled(ps)  BY <1>5, <1>6
<1>. QED  BY <1>3, <1>4, <1>6, <1>8, <1>9 DEF Complete, Tiled

(* The pieces of the links and of the list are of packets that were sent.  *)
LEMMA AllKnown ==
  ASSUME ReassemblyInv
  PROVE  /\ \A s \in Sources : first[s] \in Seq(Known) /\ In(first[s]) \subseteq Known
         /\ second \in Seq(Known) /\ In(second) \subseteq Known
         /\ list \in Seq(Held) /\ In(list) \subseteq Held
         /\ \A e \in Held : e.offs \in Seq(Known) /\ In(e.offs) \subseteq Alike(e)
                            /\ e.offs # <<>>
         /\ delivered \in Seq(Handed) /\ In(delivered) \subseteq Handed
<1>1. /\ \A s \in Sources : first[s] \in Seq(Known)
      /\ second \in Seq(Known) /\ list \in Seq(Held) /\ delivered \in Seq(Handed)
  BY DEF ReassemblyInv, OriginInv
<1>2. /\ \A s \in Sources : In(first[s]) \subseteq Known
      /\ In(second) \subseteq Known /\ In(list) \subseteq Held /\ In(delivered) \subseteq Handed
  BY <1>1, InSeq
<1>3. ASSUME NEW e \in Held
      PROVE  e.offs \in Seq(Known) /\ In(e.offs) \subseteq Alike(e) /\ e.offs # <<>>
  <2>1. e.offs \in Seq(Alike(e)) /\ e.offs # <<>> /\ Alike(e) \subseteq Known
    BY DEF Held, Alike
  <2>. QED  BY <2>1, SeqMono, InSeq
<1>. QED  BY <1>1, <1>2, <1>3

LEMMA AwaitsKept ==
  ASSUME NEW e, Awaits(e), In(second') \subseteq In(second),
         \A s \in Sources : In(first'[s]) \subseteq In(first[s]),
         disordered \subseteq disordered', faults > 0 => faults' > 0
  PROVE  Awaits(e)'
<1>1. ASSUME NEW q \in In(e.offs)
      PROVE  /\ \A r \in In(second') : OrRepeated(q, r, disordered', faults' > 0)
             /\ \A s \in Sources : \A r \in In(first'[s]) :
                   OrRepeated(q, r, disordered', faults' > 0)
  <2>1. /\ \A r \in In(second') : OrRepeated(q, r, disordered, faults > 0)
        /\ \A s \in Sources : \A r \in In(first'[s]) :
              OrRepeated(q, r, disordered, faults > 0)
    BY <1>1 DEF Awaits
  <2>. QED  BY <2>1, OrderMono
<1>. QED  BY <1>1 DEF Awaits

LEMMA CompleteKept ==
  ASSUME ReassemblyInv, NEW ps \in Handed, Complete(ps),
         \A s \in Sources : \A k \in 1..Len(size[s]) : size'[s][k] = size[s][k]
  PROVE  Complete(ps)'
<1>1. ps \in Seq(Alike(ps[1])) /\ ps # <<>>  BY DEF Handed
<1>2. ps[1] \in Known  BY <1>1 DEF Alike
<1>3. ps[1].src \in Sources /\ ps[1].pkt \in 1..Len(size[ps[1].src])
  BY <1>2 DEF Known, Piece
<1>4. size'[ps[1].src][ps[1].pkt] = size[ps[1].src][ps[1].pkt]  BY <1>3
<1>. QED  BY <1>4 DEF Complete

LEMMA InitOrder == Init => OrderInv
<1>. SUFFICES ASSUME Init PROVE OrderInv  OBVIOUS
<1>1. second = <<>> /\ list = <<>> /\ delivered = <<>> /\ \A s \in Sources : first[s] = <<>>
  BY DEF Init
<1>2. In(<<>>) = {} /\ Sorted(<<>>, disordered, faults > 0)  BY SortedShort
<1>3. disordered = {}  BY DEF Init
<1>. QED  BY <1>1, <1>2, <1>3 DEF OrderInv, LinksSorted, EntriesTallied, AllComplete

(* A new packet comes after all there have been. *)
LEMMA SendOrder ==
  ASSUME ReassemblyInv, OrderInv,
         NEW s \in Sources, NEW n \in Sizes, SendPacket(s, n)
  PROVE  OrderInv'
<1>. DEFINE k == Len(size[s]) + 1
            p == [src |-> s, id |-> count_id[s], off |-> 0, size |-> n, more |-> FALSE, pkt |-> k]
            new == Sent(p, FirstMtu)
<1>1. /\ size' = [size EXCEPT ![s] = Append(@, n)]
      /\ first' = [first EXCEPT ![s] = @ \o new]
      /\ UNCHANGED <<second, list, delivered, recv, faults, disordered>>
      /\ Len(size[s]) < MaxPackets
  BY DEF SendPacket
<1>2. /\ size \in [Sources -> Seq(Sizes)] /\ count_id \in [Sources -> 0..(ID_MODULUS - 1)]
      /\ first \in [Sources -> Seq(Piece)]
  BY DEF ReassemblyInv, TypeOK
<1>3. MaxPackets \in Nat /\ n \in Nat /\ n >= 1 /\ FirstMtu \in Nat
      /\ FirstMtu >= NET_HEADER_SIZE + 8
  BY ReassemblyAssumption
<1>4. size[s] \in Seq(Sizes) /\ Len(size[s]) \in Nat  BY <1>2
<1>5. k \in 1..MaxPackets  BY <1>1, <1>3, <1>4
<1>6. p \in Piece /\ p.src = s /\ p.pkt = k /\ p.size >= 1
  BY <1>2, <1>3, <1>5 DEF Piece
<1>. HIDE DEF p, new
<1>7. new \in Seq(PiecesOf(p)) /\ Sorted(new, {}, FALSE)
  BY <1>3, <1>6, SentCut, SentSorted DEF new
<1>8. \A r \in In(new) : r \in Piece /\ r.src = s /\ r.pkt = k
  <2>1. In(new) \subseteq PiecesOf(p)  BY <1>7, InSeq
  <2>. QED  BY <1>6, <2>1 DEF PiecesOf
<1>9. ASSUME NEW q \in Known, NEW r \in In(new)  PROVE OrRepeated(q, r, disordered, faults > 0)
  <2>1. q.pkt \in Nat /\ q.pkt <= Len(size[q.src])  BY DEF Known, Piece
  <2>2. q.src = s => q.pkt < k  BY <1>4, <2>1
  <2>3. r.src = s /\ r.pkt = k /\ k \in Nat  BY <1>4, <1>5, <1>8
  <2>4. ~(q.src = r.src /\ q.pkt = r.pkt)  BY <2>1, <2>2, <2>3
  <2>. QED  BY <2>4 DEF OrRepeated, InOrder
<1>10. LinksSorted /\ EntriesTallied /\ AllComplete  BY DEF OrderInv
<1>11. first'[s] = first[s] \o new /\ \A t \in Sources : t # s => first'[t] = first[t]
  BY <1>1, <1>2
<1>12. first[s] \in Seq(Piece) /\ new \in Seq(Piece) /\ In(first[s]) \subseteq Known
  <2>1. PiecesOf(p) \subseteq Piece  BY DEF PiecesOf
  <2>. QED  BY <1>2, <1>7, <2>1, SeqMono, AllKnown
<1>13. In(first'[s]) = In(first[s]) \cup In(new)  BY <1>11, <1>12, InConcat
<1>14. Sorted(first'[s], disordered, faults > 0)
  <2>1. Sorted(first[s], disordered, faults > 0)  BY <1>10 DEF LinksSorted
  <2>2. \A q \in In(first[s]) : \A r \in In(new) : OrRepeated(q, r, disordered, faults > 0)
    BY <1>9, <1>12
  <2>3. Sorted(new, disordered, faults > 0)  BY <1>7, SortedMono
  <2>4. Sorted(first[s] \o new, disordered, faults > 0)
    BY ONLY <1>12, <2>1, <2>2, <2>3, SortedConcat
  <2>. QED  BY <1>11, <2>4
<1>15. LinksSorted'
  <2>1. \A t \in Sources : /\ Sorted(first'[t], disordered, faults > 0)
                            /\ \A r \in In(first'[t]) : r.src = t
    BY <1>8, <1>10, <1>11, <1>13, <1>14 DEF LinksSorted
  <2>2. /\ second' = second /\ Sorted(second, disordered, faults > 0)
        /\ \A r \in In(second) : ~CutAgain(r)
    BY <1>1, <1>10 DEF LinksSorted
  <2>3. ASSUME NEW q \in In(second), NEW t \in Sources, NEW r \in In(first'[t])
        PROVE  OrRepeated(q, r, disordered, faults > 0)
    <3>1. q \in Known  BY AllKnown
    <3>2. r \in In(first[t]) => OrRepeated(q, r, disordered, faults > 0)
      BY <1>10 DEF LinksSorted
    <3>. QED  BY <1>9, <1>11, <1>13, <3>1, <3>2
  <2>. QED  BY <1>1, <2>1, <2>2, <2>3 DEF LinksSorted
<1>16. EntriesTallied'
  <2>1. ASSUME NEW e \in In(list), ~e.ring, InPlace(e.offs[1], disordered)
        PROVE  Tallied(e) /\ Awaits(e)'
    <3>1. Tallied(e) /\ Awaits(e)  BY <1>10, <2>1 DEF EntriesTallied
    <3>2. In(e.offs) \subseteq Known  BY AllKnown DEF Alike
    <3>3. ASSUME NEW q \in In(e.offs), NEW t \in Sources, NEW r \in In(first'[t])
          PROVE  OrRepeated(q, r, disordered, faults > 0)
      <4>1. r \in In(first[t]) => OrRepeated(q, r, disordered, faults > 0)
        BY <3>1 DEF Awaits
      <4>. QED  BY <1>9, <1>11, <1>13, <3>2, <4>1
    <3>. QED  BY <1>1, <3>1, <3>3 DEF Awaits
  <2>. QED  BY <1>1, <2>1 DEF EntriesTallied
<1>17. AllComplete'
  <2>1. \A t \in Sources : \A i \in 1..Len(size[t]) : size'[t][i] = size[t][i]
    BY <1>1, <1>2
  <2>2. ASSUME NEW ps \in In(delivered), InPlace(ps[1], disordered)  PROVE Complete(ps)'
    <3>1. ps \in Handed /\ Complete(ps)  BY <1>10, <2>2, AllKnown DEF AllComplete
    <3>. QED  BY <2>1, <3>1, CompleteKept
  <2>. QED  BY <1>1, <2>2 DEF AllComplete
<1>18. (faults = 0 => disordered = {})'  BY <1>1 DEF OrderInv
<1>. QED  BY <1>15, <1>16, <1>17, <1>18 DEF OrderInv

(* What the router makes of a piece stands where the piece stood.          *)
LEMMA ForwardOrder ==
  ASSUME ReassemblyInv, OrderInv, NEW s \in Sources, Forward(s)
  PROVE  OrderInv'
<1>. DEFINE p == Head(first[s])
            rest == Tail(first[s])
            new == Sent(p, SecondMtu)
<1>1. /\ first[s] # <<>> /\ first' = [first EXCEPT ![s] = rest]
      /\ second' = second \o new
      /\ UNCHANGED <<size, list, delivered, faults, disordered>>
  BY DEF Forward
<1>2. first \in [Sources -> Seq(Piece)] /\ second \in Seq(Piece)
  BY DEF ReassemblyInv, TypeOK
<1>3. LinksSorted /\ EntriesTallied /\ AllComplete  BY DEF OrderInv
<1>4. p \in In(first[s]) /\ p \in Piece /\ p \in Known /\ p.size >= 1 /\ p.src = s
  <2>1. p \in In(first[s])  BY <1>1, <1>2, InSeq
  <2>2. p \in Known /\ p.src = s  BY <1>3, <2>1, AllKnown DEF LinksSorted
  <2>. QED  BY <2>1, <2>2 DEF Known
<1>5. /\ In(rest) \subseteq In(first[s]) /\ Sorted(rest, disordered, faults > 0)
      /\ \A r \in In(rest) : OrRepeated(p, r, disordered, faults > 0)
  <2>1. first[s] \in Seq(Piece) /\ Sorted(first[s], disordered, faults > 0)
    BY <1>2, <1>3 DEF LinksSorted
  <2>2. /\ Sorted(rest, disordered, faults > 0)
        /\ \A r \in In(rest) : OrRepeated(p, r, disordered, faults > 0)
    BY ONLY <1>1, <2>1, SortedTail
  <2>3. In(rest) \subseteq In(first[s])  BY <1>1, <2>1, InTail
  <2>. QED  BY <2>2, <2>3
<1>6. /\ new \in Seq(PiecesOf(p)) /\ Sorted(new, {}, FALSE)
      /\ \A r \in In(new) : \A q \in Piece :
            /\ OrRepeated(q, p, disordered, faults > 0)
                  => OrRepeated(q, r, disordered, faults > 0)
            /\ OrRepeated(p, q, disordered, faults > 0)
                  => OrRepeated(r, q, disordered, faults > 0)
            /\ ~CutAgain(r)
  <2>1. new \in Seq(PiecesOf(p)) /\ Sorted(new, {}, FALSE)
    BY <1>4, ReassemblyAssumption, SentCut, SentSorted
  <2>. HIDE DEF p
  <2>. QED  BY <1>4, <2>1, SentBetween
<1>. HIDE DEF p, rest, new
<1>7. In(new) \subseteq PiecesOf(p)  BY <1>6, InSeq
<1>8. new \in Seq(Piece) /\ \A r \in In(new) : r \in Piece /\ r.src = s
  <2>1. PiecesOf(p) \subseteq Piece  BY DEF PiecesOf
  <2>. QED  BY <1>4, <1>6, <1>7, <2>1, SeqMono DEF PiecesOf
<1>9. In(second') = In(second) \cup In(new)  BY <1>1, <1>2, <1>8, InConcat
<1>10. first'[s] = rest /\ \A t \in Sources : t # s => first'[t] = first[t]
  BY <1>1, <1>2
<1>11. \A t \in Sources : In(first'[t]) \subseteq In(first[t])  BY <1>5, <1>10
<1>12. In(second) \subseteq Piece /\ \A t \in Sources : In(first[t]) \subseteq Piece
  BY AllKnown DEF Known
<1>13. ASSUME NEW q \in Piece, NEW r \in In(new), OrRepeated(q, p, disordered, faults > 0)
       PROVE  OrRepeated(q, r, disordered, faults > 0)
  BY <1>6, <1>13
<1>14. Sorted(second', disordered, faults > 0) /\ \A r \in In(second') : ~CutAgain(r)
  <2>1. Sorted(second, disordered, faults > 0)  BY <1>3 DEF LinksSorted
  <2>2. Sorted(new, disordered, faults > 0)  BY <1>6, SortedMono
  <2>3. \A q \in In(second) : OrRepeated(q, p, disordered, faults > 0)
    BY <1>3, <1>4 DEF LinksSorted
  <2>4. \A q \in In(second) : \A r \in In(new) : OrRepeated(q, r, disordered, faults > 0)
    BY <1>12, <1>13, <2>3
  <2>5. Sorted(second \o new, disordered, faults > 0)
    BY ONLY <1>2, <1>8, <2>1, <2>2, <2>4, SortedConcat
  <2>6. \A r \in In(second) : ~CutAgain(r)  BY <1>3 DEF LinksSorted
  <2>7. \A r \in In(new) : ~CutAgain(r)  BY <1>4, <1>6
  <2>. QED  BY <1>1, <1>9, <2>5, <2>6, <2>7
<1>15. LinksSorted'
  <2>1. \A t \in Sources : /\ Sorted(first'[t], disordered, faults > 0)
                            /\ \A r \in In(first'[t]) : r.src = t
    BY <1>3, <1>5, <1>10, <1>11 DEF LinksSorted
  <2>2. ASSUME NEW q \in In(second'), NEW t \in Sources, NEW r \in In(first'[t])
        PROVE  OrRepeated(q, r, disordered, faults > 0)
    <3>1. CASE q \in In(second)  BY <1>3, <1>11, <3>1 DEF LinksSorted
    <3>2. CASE q \in In(new) /\ t = s
      <4>1. OrRepeated(p, r, disordered, faults > 0) /\ r \in Piece
        BY <1>5, <1>10, <1>11, <1>12, <3>2
      <4>. QED  BY <1>6, <3>2, <4>1
    <3>3. CASE q \in In(new) /\ t # s
      <4>1. q.src = s /\ r.src = t  BY <1>8, <2>1, <3>3
      <4>. QED  BY <3>3, <4>1 DEF OrRepeated, InOrder
    <3>. QED  BY <1>9, <3>1, <3>2, <3>3
  <2>. QED  BY <1>1, <1>14, <2>1, <2>2 DEF LinksSorted
<1>16. EntriesTallied'
  <2>1. ASSUME NEW e \in In(list), ~e.ring, InPlace(e.offs[1], disordered)
        PROVE  Tallied(e) /\ Awaits(e)'
    <3>1. Tallied(e) /\ Awaits(e)  BY <1>3, <2>1 DEF EntriesTallied
    <3>2. In(e.offs) \subseteq Piece  BY AllKnown DEF Alike, Known
    <3>3. ASSUME NEW q \in In(e.offs), NEW r \in In(second')
          PROVE  OrRepeated(q, r, disordered, faults > 0)
      <4>1. r \in In(second) => OrRepeated(q, r, disordered, faults > 0)
        BY <3>1 DEF Awaits
      <4>2. OrRepeated(q, p, disordered, faults > 0)  BY <1>4, <3>1 DEF Awaits
      <4>3. r \in In(new) => OrRepeated(q, r, disordered, faults > 0)
        BY <1>13, <3>2, <4>2
      <4>. QED  BY <1>9, <4>1, <4>3
    <3>4. \A q \in In(e.offs) : \A t \in Sources : \A r \in In(first'[t]) :
             OrRepeated(q, r, disordered, faults > 0)
      BY <1>11, <3>1 DEF Awaits
    <3>. QED  BY <1>1, <3>1, <3>3, <3>4 DEF Awaits
  <2>. QED  BY <1>1, <2>1 DEF EntriesTallied
<1>17. AllComplete'  BY <1>1, <1>3 DEF AllComplete, Complete
<1>18. (faults = 0 => disordered = {})'  BY <1>1 DEF OrderInv
<1>. QED  BY <1>15, <1>16, <1>17, <1>18 DEF OrderInv

(* A fault keeps the order of the packets it does not put out of order.    *)
LEMMA DoubledSorted ==
  ASSUME NEW S, NEW q \in Seq(S), q # <<>>, NEW d, NEW w, Sorted(q, d, w),
         NEW e, d \subseteq e, CutAgain(Head(q)) => ~InPlace(Head(q), e)
  PROVE  Sorted(Doubled(q), e, TRUE) /\ In(Doubled(q)) \subseteq In(q)
<1>. DEFINE p == Head(q)
            a == <<p>>
<1>1. p \in In(q) /\ p \in S  BY InSeq
<1>2. Sorted(q, e, TRUE)  BY SortedMono
<1>3. OrRepeated(p, p, e, TRUE)  BY DEF OrRepeated, InOrder, InPlace
<1>4. \A r \in In(q) : OrRepeated(p, r, e, TRUE)
  <2>1. \A r \in In(Tail(q)) : OrRepeated(p, r, e, TRUE)  BY <1>2, SortedTail
  <2>2. \A r \in In(q) : r = p \/ r \in In(Tail(q))  BY InTail
  <2>. QED  BY <1>3, <2>1, <2>2
<1>5. Sorted(a, e, TRUE) /\ In(a) = {p}  BY SortedShort
<1>6. a \in Seq(S)  BY <1>1
<1>7. Doubled(q) = a \o q  BY DEF Doubled
<1>. HIDE DEF a, p
<1>8. Sorted(a \o q, e, TRUE)  BY <1>2, <1>4, <1>5, <1>6, SortedConcat
<1>9. In(a \o q) = In(a) \cup In(q)  BY ONLY <1>6, q \in Seq(S), InConcat
<1>. QED  BY <1>1, <1>5, <1>7, <1>8, <1>9

LEMMA SwappedSorted ==
  ASSUME NEW S, NEW q \in Seq(S), Len(q) > 1, NEW d, NEW w, Sorted(q, d, w),
         NEW e, d \subseteq e, Reordered(q) \subseteq e
  PROVE  Sorted(Swapped(q), e, TRUE) /\ In(Swapped(q)) \subseteq In(q)
<1>. DEFINE n == Len(q)
            r == Swapped(q)
            From(i) == IF i = 1 THEN 2 ELSE IF i = 2 THEN 1 ELSE i
<1>1. n \in Nat /\ n > 1 /\ DOMAIN q = 1..n  OBVIOUS
<1>2. DOMAIN r = 1..n /\ \A i \in 1..n : r[i] = q[From(i)]
  <2>. DEFINE a == <<q[2], q[1]>>
              b == SubSeq(q, 3, n)
  <2>1. q[1] \in S /\ q[2] \in S  BY <1>1
  <2>2. a \in Seq(S) /\ Len(a) = 2 /\ a[1] = q[2] /\ a[2] = q[1]  BY <2>1
  <2>3. b \in Seq(S) /\ Len(b) = n - 2 /\ \A i \in 1..(n - 2) : b[i] = q[3 + i - 1]
    BY <1>1
  <2>4. r = a \o b  BY DEF Swapped
  <2>. HIDE DEF a, b, r, n
  <2>5. /\ a \o b \in Seq(S) /\ Len(a \o b) = Len(a) + Len(b)
        /\ \A i \in 1..(Len(a) + Len(b)) :
              (a \o b)[i] = IF i <= Len(a) THEN a[i] ELSE b[i - Len(a)]
    BY <2>2, <2>3, ConcatProperties
  <2>6. Len(r) = n /\ DOMAIN r = 1..n  BY <1>1, <2>2, <2>3, <2>4, <2>5
  <2>7. ASSUME NEW i \in 1..n  PROVE r[i] = q[From(i)]
    <3>1. CASE i = 1  BY <1>1, <2>2, <2>3, <2>4, <2>5, <3>1
    <3>2. CASE i = 2  BY <1>1, <2>2, <2>3, <2>4, <2>5, <3>2
    <3>3. CASE i # 1 /\ i # 2
      <4>1. i - 2 \in 1..(n - 2) /\ ~(i <= 2) /\ 3 + (i - 2) - 1 = i  BY <1>1, <3>3
      <4>2. r[i] = b[i - 2]  BY <1>1, <2>2, <2>3, <2>4, <2>5, <4>1
      <4>. QED  BY <2>3, <3>3, <4>1, <4>2
    <3>. QED  BY <3>1, <3>2, <3>3
  <2>. QED  BY <2>6, <2>7
<1>. HIDE DEF r, n
<1>3. \A i \in 1..n : From(i) \in 1..n  BY <1>1
<1>4. In(r) \subseteq In(q)
  <2>1. ASSUME NEW x \in In(r)  PROVE x \in In(q)
    <3>1. PICK i \in 1..n : x = r[i]  BY <1>2 DEF In
    <3>2. From(i) \in DOMAIN q /\ x = q[From(i)]  BY <1>1, <1>2, <1>3, <3>1
    <3>. HIDE DEF From
    <3>. QED  BY <3>2 DEF In
  <2>. QED  BY <2>1
<1>5. ASSUME NEW i \in 1..n, NEW j \in 1..n, i < j
      PROVE  OrRepeated(r[i], r[j], e, TRUE)
  <2>1. CASE i = 1 /\ j = 2
    <3>1. r[i] = q[2] /\ r[j] = q[1]  BY <1>2, <2>1
    <3>2. q[2].src = q[1].src /\ q[2].pkt = q[1].pkt => PacketOf(q[2]) \in e
      BY DEF Reordered, PacketOf
    <3>. QED  BY <3>1, <3>2 DEF OrRepeated, InOrder, InPlace
  <2>2. CASE ~(i = 1 /\ j = 2)
    <3>1. From(i) < From(j)  BY <1>1, <1>5, <2>2
    <3>2. OrRepeated(q[From(i)], q[From(j)], d, w)
      <4>1. From(i) \in DOMAIN q /\ From(j) \in DOMAIN q  BY <1>1, <1>3
      <4>. HIDE DEF From
      <4>. QED  BY <3>1, <4>1 DEF Sorted
    <3>3. OrRepeated(r[i], r[j], d, w)  BY <1>2, <3>2
    <3>. QED  BY <3>3, OrderMono
  <2>. QED  BY <2>1, <2>2
<1>6. Sorted(r, e, TRUE)  BY <1>2, <1>5 DEF Sorted
<1>. QED  BY <1>4, <1>6 DEF r

LEMMA DisturbedSorted ==
  ASSUME NEW S, NEW q \in Seq(S), NEW r, NEW d, NEW c, Disturbs(q, r, d, c),
         NEW b, NEW w, Sorted(q, b, w),
         q # <<>> /\ CutAgain(Head(q)) => PacketOf(Head(q)) \in c
  PROVE  Sorted(r, b \cup d, TRUE) /\ In(r) \subseteq In(q)
<1>. DEFINE e == b \cup d
<1>1. b \subseteq e /\ d \subseteq e  OBVIOUS
<1>. HIDE DEF e
<1>2. CASE q # <<>> /\ r = Tail(q) /\ d = {}
  <2>1. Sorted(Tail(q), b, w) /\ In(Tail(q)) \subseteq In(q)  BY <1>2, SortedTail, InTail
  <2>2. Sorted(Tail(q), e, TRUE)  BY <1>1, <2>1, SortedMono
  <2>. QED  BY <1>2, <2>1, <2>2 DEF e
<1>3. CASE q # <<>> /\ r = Doubled(q) /\ d = c
  <2>1. CutAgain(Head(q)) => ~InPlace(Head(q), e)  BY <1>1, <1>3 DEF InPlace
  <2>2. Sorted(Doubled(q), e, TRUE) /\ In(Doubled(q)) \subseteq In(q)
    BY <1>1, <1>3, <2>1, DoubledSorted
  <2>. QED  BY <1>3, <2>2 DEF e
<1>4. CASE Len(q) > 1 /\ r = Swapped(q) /\ d = Reordered(q)
  <2>1. Sorted(Swapped(q), e, TRUE) /\ In(Swapped(q)) \subseteq In(q)
    BY <1>1, <1>4, SwappedSorted
  <2>. QED  BY <1>4, <2>1 DEF e
<1>. QED  BY <1>2, <1>3, <1>4 DEF Disturbs

LEMMA LinkOrder ==
  ASSUME ReassemblyInv, OrderInv,
         UNCHANGED <<size, list, delivered>>, disordered \subseteq disordered',
         faults' > 0, In(second') \subseteq In(second), Sorted(second', disordered', TRUE),
         \A s \in Sources : /\ Sorted(first'[s], disordered', TRUE)
                            /\ In(first'[s]) \subseteq In(first[s])
  PROVE  OrderInv'
<1>1. LinksSorted /\ EntriesTallied /\ AllComplete  BY DEF OrderInv
<1>2. LinksSorted'
  <2>1. /\ \A s \in Sources : /\ Sorted(first'[s], disordered', faults' > 0)
                              /\ \A r \in In(first'[s]) : r.src = s
        /\ Sorted(second', disordered', faults' > 0)
        /\ \A r \in In(second') : ~CutAgain(r)
    BY <1>1 DEF LinksSorted
  <2>2. ASSUME NEW q \in In(second'), NEW s \in Sources, NEW r \in In(first'[s])
        PROVE  OrRepeated(q, r, disordered', faults' > 0)
    <3>1. OrRepeated(q, r, disordered, faults > 0)  BY <1>1 DEF LinksSorted
    <3>. QED  BY <3>1, OrderMono
  <2>. QED  BY <2>1, <2>2 DEF LinksSorted
<1>3. EntriesTallied'
  <2>1. ASSUME NEW e \in In(list), ~e.ring, InPlace(e.offs[1], disordered')
        PROVE  Tallied(e) /\ Awaits(e)'
    <3>1. InPlace(e.offs[1], disordered)  BY <2>1 DEF InPlace
    <3>. QED  BY <1>1, <2>1, <3>1, AwaitsKept DEF EntriesTallied
  <2>. QED  BY <2>1 DEF EntriesTallied
<1>4. AllComplete'
  <2>1. \A p : InPlace(p, disordered') => InPlace(p, disordered)  BY DEF InPlace
  <2>. QED  BY <1>1, <2>1 DEF AllComplete, Complete
<1>5. faults' # 0  OBVIOUS
<1>. QED  BY <1>2, <1>3, <1>4, <1>5 DEF OrderInv

LEMMA FaultOrder ==
  ASSUME ReassemblyInv, OrderInv, NetworkFaults
  PROVE  OrderInv'
<1>1. LinksSorted  BY DEF OrderInv
<1>2. first \in [Sources -> Seq(Known)] /\ second \in Seq(Known) /\ faults \in Nat
  BY DEF ReassemblyInv, OriginInv, TypeOK
<1>3. UNCHANGED <<size, list, delivered>> /\ faults' > 0  BY <1>2, FaultForm
<1>4. PICK d : /\ disordered' = disordered \cup d
               /\ \/ second' = second /\ \E s \in Sources :
                        /\ first' = [first EXCEPT ![s] = first'[s]]
                        /\ Disturbs(first[s], first'[s], d, TwiceCut(first[s]))
                  \/ first' = first /\ Disturbs(second, second', d, {})
  BY FaultForm
<1>5. /\ Sorted(second, disordered, faults > 0) /\ \A r \in In(second) : ~CutAgain(r)
      /\ \A s \in Sources : Sorted(first[s], disordered, faults > 0)
  BY <1>1 DEF LinksSorted
<1>6. /\ Sorted(second, disordered', TRUE)
      /\ \A s \in Sources : Sorted(first[s], disordered', TRUE)
  BY <1>4, <1>5, SortedMono
<1>7. CASE second' = second /\ \E s \in Sources :
                /\ first' = [first EXCEPT ![s] = first'[s]]
                /\ Disturbs(first[s], first'[s], d, TwiceCut(first[s]))
  <2>1. PICK s \in Sources : /\ first' = [first EXCEPT ![s] = first'[s]]
                             /\ Disturbs(first[s], first'[s], d, TwiceCut(first[s]))
    BY <1>7
  <2>. DEFINE q == first[s]
  <2>2. q \in Seq(Known) /\ Sorted(q, disordered, faults > 0)  BY <1>2, <1>5
  <2>3. CutAgain(Head(q)) => PacketOf(Head(q)) \in TwiceCut(q)  BY DEF TwiceCut
  <2>4. Disturbs(q, first'[s], d, TwiceCut(q))  BY <2>1
  <2>. HIDE DEF q
  <2>5. Sorted(first'[s], disordered \cup d, TRUE) /\ In(first'[s]) \subseteq In(q)
    BY <2>2, <2>3, <2>4, DisturbedSorted
  <2>6. \A t \in Sources : t # s => first'[t] = first[t]  BY <1>2, <2>1
  <2>7. \A t \in Sources : /\ Sorted(first'[t], disordered', TRUE)
                            /\ In(first'[t]) \subseteq In(first[t])
    BY <1>4, <1>6, <2>5, <2>6 DEF q
  <2>. QED  BY <1>3, <1>4, <1>6, <1>7, <2>7, LinkOrder
<1>8. CASE first' = first /\ Disturbs(second, second', d, {})
  <2>1. second # <<>> => ~CutAgain(Head(second))  BY <1>2, <1>5, InSeq
  <2>2. Sorted(second', disordered \cup d, TRUE) /\ In(second') \subseteq In(second)
    BY <1>2, <1>5, <1>8, <2>1, DisturbedSorted
  <2>. QED  BY <1>3, <1>4, <1>6, <1>8, <2>2, LinkOrder
<1>. QED  BY <1>4, <1>7, <1>8

(* The destination: what arrives comes before what is still on the way.    *)
LEMMA ArrivedOrder ==
  ASSUME ReassemblyInv, OrderInv, Receive
  PROVE  LET p == Head(second)
         IN  /\ p \in Known /\ p \in In(second)
             /\ In(second') \subseteq In(second) /\ Sorted(second', disordered, faults > 0)
             /\ \A r \in In(second') : OrRepeated(p, r, disordered, faults > 0)
             /\ \A s \in Sources : \A r \in In(first'[s]) :
                   OrRepeated(p, r, disordered, faults > 0)
             /\ UNCHANGED <<size, first, faults, disordered>>
<1>1. second # <<>> /\ second' = Tail(second) /\ UNCHANGED <<size, first, faults, disordered>>
  BY DEF Receive
<1>2. second \in Seq(Known)  BY AllKnown
<1>3. LinksSorted  BY DEF OrderInv
<1>4. Sorted(second, disordered, faults > 0)  BY <1>3 DEF LinksSorted
<1>5. Head(second) \in In(second) /\ Head(second) \in Known
  BY <1>1, <1>2, InSeq
<1>6. In(second') \subseteq In(second) /\ Sorted(second', disordered, faults > 0)
      /\ \A r \in In(second') : OrRepeated(Head(second), r, disordered, faults > 0)
  BY <1>1, <1>2, <1>4, InTail, SortedTail
<1>7. \A s \in Sources : \A r \in In(first'[s]) :
         OrRepeated(Head(second), r, disordered, faults > 0)
  BY <1>1, <1>3, <1>5 DEF LinksSorted
<1>. QED  BY <1>1, <1>5, <1>6, <1>7

(* f is the one entry it touches: new, or an old one and the piece.        *)
LEMMA ReceiveOrder ==
  ASSUME ReassemblyInv, OrderInv, Receive, MaxPackets <= ID_MODULUS,
         NEW f \in Held,
         ~f.ring /\ InPlace(f.offs[1], disordered) =>
            /\ Tallied(f)
            /\ \A q \in In(f.offs) :
                  \/ q = Head(second)
                  \/ \E e \in In(list) : ~e.ring /\ InPlace(e.offs[1], disordered)
                                         /\ q \in In(e.offs),
         \A e \in In(list') : e \in In(list) \/ e = f,
         \A ps \in In(delivered') : \/ ps \in In(delivered)
                                    \/ ps = f.offs /\ f.total = f.count /\ ~f.ring
  PROVE  OrderInv'
<1>. DEFINE p == Head(second)
<1>1. LinksSorted /\ EntriesTallied /\ AllComplete  BY DEF OrderInv
<1>2. /\ p \in Known /\ p \in In(second)
      /\ In(second') \subseteq In(second) /\ Sorted(second', disordered, faults > 0)
      /\ \A r \in In(second') : OrRepeated(p, r, disordered, faults > 0)
      /\ \A s \in Sources : \A r \in In(first'[s]) :
            OrRepeated(p, r, disordered, faults > 0)
      /\ UNCHANGED <<size, first, faults, disordered>>
  BY ArrivedOrder
<1>. HIDE DEF p
<1>3. LinksSorted'  BY <1>1, <1>2 DEF LinksSorted
<1>4. ASSUME NEW e \in In(list), ~e.ring, InPlace(e.offs[1], disordered)
      PROVE  Tallied(e) /\ Awaits(e)'
  BY <1>1, <1>2, <1>4, AwaitsKept DEF EntriesTallied
<1>5. ASSUME ~f.ring, InPlace(f.offs[1], disordered)  PROVE Awaits(f)'
  <2>1. ASSUME NEW q \in In(f.offs)
        PROVE  /\ \A r \in In(second') : OrRepeated(q, r, disordered, faults > 0)
               /\ \A s \in Sources : \A r \in In(first'[s]) :
                     OrRepeated(q, r, disordered, faults > 0)
    <3>1. CASE q = p  BY <1>2, <3>1
    <3>2. CASE \E e \in In(list) : ~e.ring /\ InPlace(e.offs[1], disordered)
                                   /\ q \in In(e.offs)
      BY <1>2, <1>4, <3>2 DEF Awaits
    <3>. QED  BY <1>5, <3>1, <3>2 DEF p
  <2>. QED  BY <1>2, <2>1 DEF Awaits
<1>6. EntriesTallied'  BY <1>2, <1>4, <1>5 DEF EntriesTallied
<1>7. AllComplete'
  <2>1. ASSUME NEW ps \in In(delivered'), InPlace(ps[1], disordered)  PROVE Complete(ps)
    <3>1. CASE ps \in In(delivered)  BY <1>1, <2>1, <3>1 DEF AllComplete
    <3>2. CASE ps = f.offs /\ f.total = f.count /\ ~f.ring
      BY <2>1, <3>2, TalliedComplete
    <3>. QED  BY <3>1, <3>2
  <2>. QED  BY <1>2, <2>1 DEF AllComplete, Complete
<1>8. (faults = 0 => disordered = {})'  BY <1>2 DEF OrderInv
<1>. QED  BY <1>3, <1>6, <1>7, <1>8 DEF OrderInv

(* Handing up, or keeping, an entry. *)
LEMMA HandUpIn ==
  ASSUME ReassemblyInv, NEW f \in Held, NEW rest, In(rest) \subseteq In(list),
         HandUp(f, rest)
  PROVE  /\ \A e \in In(list') : e \in In(list)
         /\ \A ps \in In(delivered') : ps \in In(delivered) \/ (ps = f.offs /\ ~f.ring)
<1>1. CASE f.ring  BY <1>1 DEF HandUp
<1>2. CASE ~f.ring
  <2>1. delivered' = Append(delivered, f.offs) /\ list' = rest  BY <1>2 DEF HandUp
  <2>2. delivered \in Seq(Handed) /\ f.offs \in Handed  BY AllKnown, HeldHanded
  <2>. DEFINE ps == f.offs
              a == <<ps>>
  <2>3. delivered' = delivered \o a  BY <2>1, <2>2, AppendIsConcat
  <2>4. a \in Seq(Handed)  BY <2>2
  <2>5. In(a) = {ps}  BY SortedShort
  <2>. HIDE DEF a, ps
  <2>6. In(delivered \o a) = In(delivered) \cup In(a)  BY ONLY <2>2, <2>4, InConcat
  <2>7. \A x \in In(delivered') : x \in In(delivered) \/ x = ps  BY <2>3, <2>5, <2>6
  <2>. QED  BY <1>2, <2>1, <2>7 DEF ps
<1>. QED  BY <1>1, <1>2

LEMMA ReceiveFirstOrder ==
  ASSUME ReassemblyInv, OrderInv, MaxPackets <= ID_MODULUS,
         ReceiveFirst
  PROVE  OrderInv'
<1>. DEFINE p == Head(second)
            e == NewEntry(p)
<1>1. Receive  BY DEF ReceiveFirst
<1>2. p \in Known  BY <1>1, ArrivedOrder
<1>3. e \in Held /\ ~e.ring /\ Tallied(e) /\ In(e.offs) = {p}
  BY <1>2, NewHeld, NewTallied
<1>4. \/ e.total = e.count /\ HandUp(e, <<>>)
      \/ list' = <<e>> /\ UNCHANGED <<delivered, recv>>
  BY DEF ReceiveFirst
<1>. HIDE DEF e
<1>5. /\ \A x \in In(list') : x \in In(list) \/ x = e
      /\ \A ps \in In(delivered') : \/ ps \in In(delivered)
                                    \/ ps = e.offs /\ e.total = e.count /\ ~e.ring
  <2>1. CASE e.total = e.count /\ HandUp(e, <<>>)
    <3>1. In(<<>>) \subseteq In(list)  BY SortedShort
    <3>. QED  BY <1>3, <2>1, <3>1, HandUpIn
  <2>2. CASE list' = <<e>> /\ UNCHANGED <<delivered, recv>>
    <3>1. In(list') = {e}  BY <2>2, SortedShort
    <3>. QED  BY <2>2, <3>1
  <2>. QED  BY <1>4, <2>1, <2>2
<1>. QED  BY <1>1, <1>3, <1>5, ReceiveOrder DEF p

LEMMA ReceiveNewOrder ==
  ASSUME ReassemblyInv, OrderInv, MaxPackets <= ID_MODULUS,
         ReceiveNew
  PROVE  OrderInv'
<1>. DEFINE p == Head(second)
            e == NewEntry(p)
<1>1. Receive  BY DEF ReceiveNew
<1>2. p \in Known  BY <1>1, ArrivedOrder
<1>3. e \in Held /\ ~e.ring /\ Tallied(e) /\ In(e.offs) = {p}
  BY <1>2, NewHeld, NewTallied
<1>4. \/ recv' = "crashed" /\ UNCHANGED <<list, delivered>>
      \/ list' = <<e>> \o list /\ UNCHANGED <<delivered, recv>>
  BY DEF ReceiveNew
<1>. HIDE DEF e
<1>5. \A x \in In(list') : x \in In(list) \/ x = e
  <2>1. CASE UNCHANGED list  BY <2>1
  <2>2. CASE list' = <<e>> \o list
    <3>. DEFINE a == <<e>>
    <3>1. a \in Seq(Held) /\ list \in Seq(Held)  BY <1>3, AllKnown
    <3>2. In(a) = {e}  BY SortedShort
    <3>3. list' = a \o list  BY <2>2
    <3>. HIDE DEF a
    <3>4. In(a \o list) = In(a) \cup In(list)  BY ONLY <3>1, InConcat
    <3>. QED  BY <3>2, <3>3, <3>4
  <2>. QED  BY <1>4, <2>1, <2>2
<1>6. delivered' = delivered  BY <1>4
<1>. QED  BY <1>1, <1>3, <1>5, <1>6, ReceiveOrder DEF p

(* In the list an entry is replaced or left out. *)
LEMMA InWithout ==
  ASSUME NEW i \in 1..Len(list), list \in Seq(Held)
  PROVE  In(Without(i)) \subseteq In(list)
<1>. SUFFICES ASSUME NEW x \in In(Without(i)) PROVE x \in In(list)  OBVIOUS
<1>. DEFINE n == Len(list)
            a == SubSeq(list, 1, i - 1)
            b == SubSeq(list, i + 1, n)
<1>1. /\ a \in Seq(Held) /\ Len(a) = i - 1 /\ \A j \in 1..(i - 1) : a[j] = list[j]
      /\ DOMAIN list = 1..n /\ n \in Nat
  OBVIOUS
<1>2. /\ b \in Seq(Held) /\ Len(b) = n - i /\ \A j \in 1..(n - i) : b[j] = list[i + j]
  OBVIOUS
<1>. HIDE DEF a, b, n
<1>3. In(a \o b) = In(a) \cup In(b)  BY ONLY <1>1, <1>2, InConcat
<1>4. x \in In(a) \/ x \in In(b)  BY <1>3 DEF Without, a, b, n
<1>5. ASSUME x \in In(a)  PROVE x \in In(list)
  <2>1. PICK j \in 1..(i - 1) : x = a[j]  BY <1>1, <1>5 DEF In
  <2>2. j \in DOMAIN list /\ x = list[j]  BY <1>1, <2>1 DEF n
  <2>. QED  BY <2>2 DEF In
<1>6. ASSUME x \in In(b)  PROVE x \in In(list)
  <2>1. PICK j \in 1..(n - i) : x = b[j]  BY <1>2, <1>6 DEF In
  <2>2. i + j \in DOMAIN list /\ x = list[i + j]  BY <1>1, <1>2, <2>1 DEF n
  <2>. QED  BY <2>2 DEF In
<1>. QED  BY <1>4, <1>5, <1>6

LEMMA InExcept ==
  ASSUME NEW i \in 1..Len(list), list \in Seq(Held), NEW f, NEW x \in In([list EXCEPT ![i] = f])
  PROVE  x \in In(list) \/ x = f
<1>1. DOMAIN list = 1..Len(list) /\ DOMAIN [list EXCEPT ![i] = f] = 1..Len(list)  OBVIOUS
<1>2. PICK j \in 1..Len(list) : x = [list EXCEPT ![i] = f][j]  BY <1>1 DEF In
<1>3. CASE j = i  BY <1>1, <1>2, <1>3
<1>4. CASE j # i
  <2>1. x = list[j]  BY <1>1, <1>2, <1>4
  <2>. QED  BY <1>1, <2>1 DEF In
<1>. QED  BY <1>3, <1>4

(* The pieces of an entry are of one packet and end where its last does or *)
(* before.                                                                 *)
LEMMA EntryOrder ==
  ASSUME ReassemblyInv, MaxPackets <= ID_MODULUS, NEW e \in Held, Tallied(e),
         NEW q \in In(e.offs)
  PROVE  LET last == e.offs[Len(e.offs)]
         IN  /\ last \in In(e.offs) /\ last \in Alike(e) /\ q \in Alike(e)
             /\ q.src = last.src /\ q.pkt = last.pkt
             /\ q = last \/ Ends(q) <= last.off
             /\ Ends(q) <= Ends(last)
<1>. DEFINE ps == e.offs
            n == Len(ps)
            last == ps[n]
<1>1. ps \in Seq(Known) /\ In(ps) \subseteq Alike(e) /\ ps # <<>>  BY AllKnown
<1>2. last \in In(ps)  BY <1>1, InSeq
<1>3. q \in Alike(e) /\ last \in Alike(e)  BY <1>1, <1>2
<1>4. q \in Known /\ last \in Known /\ q.src = last.src /\ q.id = last.id
  BY <1>3 DEF Alike
<1>5. q.pkt = last.pkt  BY <1>4, SameNumber
<1>6. DOMAIN ps = 1..n /\ n \in Nat /\ n \in 1..n  BY <1>1
<1>7. q = last \/ InOrder(q, last, {})
  <2>1. PICK j \in 1..n : q = ps[j]  BY <1>6 DEF In
  <2>2. j = n \/ j < n  BY <1>6
  <2>3. Sorted(ps, {}, FALSE)  BY DEF Tallied
  <2>. QED  BY <1>6, <2>1, <2>2, <2>3 DEF Sorted, OrRepeated
<1>8. /\ Ends(q) \in Nat /\ last.off \in Nat /\ last.size \in Nat
      /\ Ends(last) = last.off + last.size /\ q.pkt \in Nat
  BY <1>4, NumbersOf DEF Known
<1>9. q = last \/ Ends(q) <= last.off  BY <1>4, <1>5, <1>7, <1>8 DEF InOrder, InPlace
<1>10. Ends(q) <= Ends(last)  BY <1>8, <1>9
<1>. QED  BY <1>2, <1>3, <1>4, <1>5, <1>9, <1>10

(* A piece for an entry of pieces in order follows them all or is the last *)
(* once more.                                                              *)
LEMMA FollowsAll ==
  ASSUME ReassemblyInv, MaxPackets <= ID_MODULUS, NEW e \in Held, Tallied(e),
         NEW p \in Alike(e), NEW d, NEW w, InPlace(p, d),
         \A q \in In(e.offs) : OrRepeated(q, p, d, w),
         e.offs[Len(e.offs)].off # p.off
  PROVE  \A q \in In(e.offs) : q.src = p.src /\ q.pkt = p.pkt /\ Ends(q) <= p.off
<1>. DEFINE last == e.offs[Len(e.offs)]
<1>1. last \in In(e.offs)
  <2>1. e.offs \in Seq(Known) /\ e.offs # <<>>  BY AllKnown
  <2>. QED  BY <2>1, InSeq
<1>2. last \in Alike(e)  BY <1>1, EntryOrder
<1>3. last \in Known /\ p \in Known /\ last.src = p.src /\ last.id = p.id
  BY <1>2 DEF Alike
<1>4. last.pkt = p.pkt  BY <1>3, SameNumber
<1>5. InOrder(last, p, d)  BY <1>1 DEF OrRepeated
<1>6. Ends(last) \in Nat /\ p.off \in Nat /\ p.pkt \in Nat  BY <1>3, NumbersOf DEF Known
<1>7. Ends(last) <= p.off  BY <1>3, <1>4, <1>5, <1>6 DEF InOrder, InPlace, PacketOf
<1>8. ASSUME NEW q \in In(e.offs)
      PROVE  q.src = p.src /\ q.pkt = p.pkt /\ Ends(q) <= p.off
  <2>1. q \in Alike(e) /\ q.src = last.src /\ q.pkt = last.pkt /\ Ends(q) <= Ends(last)
    BY EntryOrder
  <2>2. Ends(q) \in Nat  BY <2>1, NumbersOf DEF Alike, Known
  <2>. QED  BY <1>3, <1>4, <1>6, <1>7, <2>1, <2>2
<1>. QED  BY <1>8

LEMMA ReceiveMoreOrder ==
  ASSUME ReassemblyInv, OrderInv, MaxPackets <= ID_MODULUS,
         ReceiveMore
  PROVE  OrderInv'
<1>. DEFINE p == Head(second)
            i == Entry(p)
            e == list[i]
            longer == Counted([e EXCEPT !.offs = Append(@, p)], p)
            closed == Counted(Ring(e, p), p)
            Goes(f) == IF f.total = f.count THEN HandUp(f, Without(i))
                       ELSE list' = [list EXCEPT ![i] = f] /\ UNCHANGED <<delivered, recv>>
<1>1. Receive /\ Entries(p) # {}  BY DEF ReceiveMore
<1>2. p \in Known /\ p \in In(second)  BY <1>1, ArrivedOrder
<1>3. i \in 1..Len(list) /\ e \in Held /\ IsEntryOf(e, p)
  BY <1>1, <1>2, EntryFound
<1>4. p \in Alike(e) /\ p \in Piece  BY <1>2, <1>3 DEF Alike, IsEntryOf, Known
<1>5. e \in In(list)  BY <1>3 DEF In
<1>6. ~e.ring /\ InPlace(e.offs[1], disordered) => Tallied(e) /\ Awaits(e)
  BY <1>5 DEF OrderInv, EntriesTallied
<1>7. list \in Seq(Held)  BY AllKnown
<1>8. \/ ~e.ring /\ e.offs[Len(e.offs)].off # p.off /\ Goes(longer)
      \/ Matches(e, p) # {} /\ Goes(closed)
      \/ UNCHANGED <<list, delivered>>
  <2>1. CASE AddOutcome(e, p) = "append"
    <3>1. Goes(longer)  BY <2>1 DEF ReceiveMore
    <3>2. ~e.ring /\ e.offs[Len(e.offs)].off # p.off  BY <2>1 DEF AddOutcome
    <3>. QED  BY <3>1, <3>2
  <2>2. CASE AddOutcome(e, p) = "same"  BY <2>2 DEF ReceiveMore
  <2>3. CASE AddOutcome(e, p) = "ring"
    <3>1. Matches(e, p) # {}  BY <2>3 DEF AddOutcome
    <3>2. Goes(closed)  BY <2>3 DEF ReceiveMore
    <3>. QED  BY <3>1, <3>2
  <2>4. CASE AddOutcome(e, p) = "null"  BY <2>4 DEF ReceiveMore
  <2>5. CASE AddOutcome(e, p) = "endless"  BY <2>5 DEF ReceiveMore
  <2>6. AddOutcome(e, p) \in {"append", "same", "ring", "null", "endless"}
    BY DEF AddOutcome
  <2>. QED  BY <2>1, <2>2, <2>3, <2>4, <2>5, <2>6
<1>9. closed.ring = TRUE
  <2>1. e \in EntryType  BY <1>3 DEF Held
  <2>. QED  BY <2>1 DEF Counted, Ring, EntryType
<1>. HIDE DEF p, i, e, longer, closed
<1>10. ASSUME NEW f \in Held, Goes(f)
       PROVE  /\ \A x \in In(list') : x \in In(list) \/ x = f
              /\ \A ps \in In(delivered') : \/ ps \in In(delivered)
                                            \/ ps = f.offs /\ f.total = f.count /\ ~f.ring
  <2>1. CASE f.total = f.count
    <3>1. HandUp(f, Without(i))  BY <1>10, <2>1
    <3>2. In(Without(i)) \subseteq In(list)  BY <1>3, <1>7, InWithout
    <3>. QED  BY <2>1, <3>1, <3>2, HandUpIn
  <2>2. CASE f.total # f.count
    <3>1. list' = [list EXCEPT ![i] = f] /\ delivered' = delivered  BY <1>10, <2>2
    <3>. QED  BY <1>3, <1>7, <3>1, InExcept
  <2>. QED  BY <2>1, <2>2
<1>. HIDE DEF Goes
<1>11. CASE ~e.ring /\ e.offs[Len(e.offs)].off # p.off /\ Goes(longer)
  <2>1. longer \in Held /\ longer.offs = Append(e.offs, p)
    <3>. DEFINE g == [e EXCEPT !.offs = Append(@, p)]
    <3>1. g \in Held  BY <1>3, <1>4, AppendHeld
    <3>2. g.offs = Append(e.offs, p)  BY <1>3 DEF Held, EntryType
    <3>. HIDE DEF g
    <3>3. Counted(g, p) \in Held /\ Counted(g, p).offs = g.offs  BY <1>4, <3>1, CountedHeld
    <3>. QED  BY <3>2, <3>3 DEF longer, g
  <2>2. ASSUME InPlace(longer.offs[1], disordered)
        PROVE  /\ Tallied(longer)
               /\ \A q \in In(longer.offs) :
                     \/ q = p
                     \/ \E x \in In(list) : ~x.ring /\ InPlace(x.offs[1], disordered)
                                            /\ q \in In(x.offs)
    <3>1. InPlace(e.offs[1], disordered) /\ InPlace(p, disordered)
      <4>1. e.offs \in Seq(Known) /\ e.offs # <<>> /\ In(e.offs) \subseteq Alike(e)
        BY <1>3, AllKnown
      <4>2. longer.offs[1] = e.offs[1]  BY <1>2, <2>1, <4>1, AppendProperties
      <4>3. e.offs[1] \in Alike(e)
        <5>1. Head(e.offs) \in In(e.offs) /\ Head(e.offs) = e.offs[1]  BY <4>1, InSeq
        <5>. QED  BY <4>1, <5>1
      <4>4. /\ e.offs[1] \in Known /\ p \in Known
            /\ e.offs[1].src = p.src /\ e.offs[1].id = p.id
        BY <1>4, <4>3 DEF Alike
      <4>5. e.offs[1].pkt = p.pkt  BY <4>4, SameNumber
      <4>. QED  BY <2>2, <4>2, <4>4, <4>5 DEF InPlace, PacketOf
    <3>2. Tallied(e) /\ Awaits(e)  BY <1>6, <1>11, <3>1
    <3>3. \A q \in In(e.offs) : OrRepeated(q, p, disordered, faults > 0)
      BY <1>2, <3>2 DEF Awaits
    <3>4. \A q \in In(e.offs) : q.src = p.src /\ q.pkt = p.pkt /\ Ends(q) <= p.off
      BY <1>3, <1>4, <1>11, <3>1, <3>2, <3>3, FollowsAll
    <3>5. Tallied(longer) /\ In(longer.offs) = In(e.offs) \cup {p}
      BY <1>2, <1>3, <1>11, <3>2, <3>4, AppendTallied DEF longer
    <3>. QED  BY <1>5, <1>11, <3>1, <3>5
  <2>. QED  BY <1>1, <1>10, <1>11, <2>1, <2>2, ReceiveOrder DEF p
<1>12. CASE Matches(e, p) # {} /\ Goes(closed)
  <2>1. closed \in Held  BY <1>3, <1>4, <1>12, RingHeld, CountedHeld DEF closed
  <2>. QED  BY <1>1, <1>9, <1>10, <1>12, <2>1, ReceiveOrder
<1>13. CASE UNCHANGED <<list, delivered>>
  <2>1. ~e.ring /\ InPlace(e.offs[1], disordered) =>
           /\ Tallied(e)
           /\ \A q \in In(e.offs) : \E x \in In(list) :
                 ~x.ring /\ InPlace(x.offs[1], disordered) /\ q \in In(x.offs)
    BY <1>5, <1>6
  <2>. QED  BY <1>1, <1>3, <1>13, <2>1, ReceiveOrder
<1>. QED  BY <1>8, <1>11, <1>12, <1>13

LEMMA NextOrder ==
  ASSUME MaxPackets <= ID_MODULUS  PROVE ReassemblyInv /\ OrderInv /\ [Next]_vars => OrderInv'
<1>. SUFFICES ASSUME ReassemblyInv, OrderInv, [Next]_vars PROVE OrderInv'  OBVIOUS
<1>1. CASE UNCHANGED vars
  BY <1>1 DEF vars, OrderInv, LinksSorted, EntriesTallied, AllComplete, Awaits, Complete
<1>2. CASE Next
  BY <1>2, SendOrder, ForwardOrder, FaultOrder, ReceiveFirstOrder, ReceiveNewOrder,
     ReceiveMoreOrder
  DEF Next, Destination, NetworkFaults
<1>. QED  BY <1>1, <1>2

(* However often the network loses, repeats and swaps datagrams: the       *)
(* pieces of every packet of which none have changed places come in order  *)
(* on both links, and its entry, if it was not closed to a ring, has them  *)
(* in order and counts as many bytes as the packet has only when all of    *)
(* them are there.                                                         *)
THEOREM OrderKept ==
  ASSUME MaxPackets <= ID_MODULUS  PROVE Spec => []OrderInv
<1>1. ReassemblyInv /\ OrderInv /\ [Next]_vars => OrderInv'  BY NextOrder
<1>. QED  BY <1>1, InitOrder, PiecesKeepOrigin, PTL DEF Spec

(* What is handed up of such a packet is the packet as it was sent, from   *)
(* its first byte to its last, for all sizes and MTUs and any number of    *)
(* faults on either link, as long as no source has sent more packets than  *)
(* there are ids.                                                          *)
THEOREM DeliveredWhole ==
  ASSUME MaxPackets <= ID_MODULUS  PROVE Spec => []DeliveredIntact
<1>1. OrderInv => DeliveredIntact
  BY DEF OrderInv, AllComplete, DeliveredIntact, In, InPlace
<1>. QED  BY <1>1, OrderKept, PTL

-----------------------------------------------------------------------------
(* Without a fault.  Whether everything arrives depends on the MTUs: a     *)
(* piece as large as its link is refused, and one longer than the largest  *)
(* MTU less the link's header and checksum is cut off.  NothingRefused is  *)
(* what has to be true of the MTUs and the sizes: the sources and the      *)
(* router send all pieces of every packet there may be.  PiecesFit, at the *)
(* end, says when that is so.                                              *)
CutOnce(p)  == In(fragpack(p, FirstMtu))
CutTwice(p) == UNION {In(fragpack(g, SecondMtu)) : g \in CutOnce(p)}
Whole(p)    == p.off = 0 /\ ~p.more /\ p.size \in Sizes
NothingRefused ==
    \A p \in Piece : Whole(p) =>
        /\ Sent(p, FirstMtu) = fragpack(p, FirstMtu)
        /\ \A g \in CutOnce(p) : Sent(g, SecondMtu) = fragpack(g, SecondMtu)

(* r starts where q ends. *)
Follows(q, r) == q.src = r.src /\ q.pkt = r.pkt /\ Ends(q) = r.off

(* Of one cut: the pieces form a chain from the first byte of p to its     *)
(* last, *)
LEMMA CutChain ==
  ASSUME NEW p \in Piece, p.size >= 1, NEW mtu \in Nat, mtu >= NET_HEADER_SIZE + 8
  PROVE  LET cut == In(fragpack(p, mtu))
         IN  /\ cut \subseteq PiecesOf(p)
             /\ \A r \in cut : r.off = p.off \/ \E q \in cut : Follows(q, r)
             /\ \E r \in cut : Ends(r) = Ends(p)
<1>. DEFINE f  == FragSize(mtu)
            n  == (p.size + f - 1) \div f
            ps == Pieces(p, mtu)
<1>1. CASE p.size + NET_HEADER_SIZE <= mtu
  <2>1. In(fragpack(p, mtu)) = {p}  BY <1>1, SortedShort DEF fragpack
  <2>2. fragpack(p, mtu) \in Seq(PiecesOf(p))  BY PiecesCut
  <2>3. In(fragpack(p, mtu)) \subseteq PiecesOf(p)  BY <2>2, InSeq
  <2>. QED  BY <2>1, <2>3
<1>2. CASE ~(p.size + NET_HEADER_SIZE <= mtu)
  <2>1. /\ n \in Nat /\ n >= 1 /\ ps \in Seq(PiecesOf(p)) /\ Len(ps) = n
        /\ \A i \in 1..n : /\ ps[i].off = p.off + (i - 1) * f
                           /\ (i - 1) * f \in Nat
                           /\ i < n => ps[i].size = f
        /\ Ends(ps[n]) = Ends(p)
    BY CutForm
  <2>2. f \in Nat /\ p.off \in Nat  BY FragPositive, NumbersOf
  <2>3. fragpack(p, mtu) = ps  BY <1>2 DEF fragpack
  <2>. HIDE DEF f, n, ps
  <2>4. DOMAIN ps = 1..n /\ n \in 1..n  BY <2>1
  <2>5. In(ps) \subseteq PiecesOf(p)  BY <2>1, InSeq
  <2>6. ASSUME NEW r \in In(ps)  PROVE r.off = p.off \/ \E q \in In(ps) : Follows(q, r)
    <3>1. PICK i \in 1..n : r = ps[i]  BY <2>4 DEF In
    <3>2. CASE i = 1
      <4>1. (1 - 1) * f = 0  BY <2>2
      <4>2. ps[1].off = p.off + (1 - 1) * f  BY <2>1, <3>2
      <4>. QED  BY <2>2, <3>1, <3>2, <4>1, <4>2
    <3>3. CASE i # 1
      <4>1. i - 1 \in 1..n /\ i - 1 < n  BY <2>1, <3>3
      <4>2. ps[i - 1].size = f /\ ps[i - 1].off = p.off + ((i - 1) - 1) * f
            /\ ((i - 1) - 1) * f \in Nat
        BY <2>1, <4>1
      <4>3. ((i - 1) - 1) * f + f = (i - 1) * f  BY <2>2, <4>1
      <4>4. Ends(ps[i - 1]) = ps[i].off  BY <2>1, <2>2, <4>2, <4>3 DEF Ends
      <4>5. ps[i - 1] \in In(ps)  BY <2>4, <4>1 DEF In
      <4>. QED  BY <2>5, <3>1, <4>4, <4>5 DEF Follows, PiecesOf
    <3>. QED  BY <3>2, <3>3
  <2>7. ps[n] \in In(ps)  BY <2>4 DEF In
  <2>. QED  BY <2>1, <2>3, <2>5, <2>6, <2>7
<1>. QED  BY <1>1, <1>2

(* on a grid of FragSize, but for the end of what ends p and for a p that  *)
(* is not cut.                                                             *)
LEMMA CutGrid ==
  ASSUME NEW p \in Piece, p.size >= 1, NEW mtu \in Nat, mtu >= NET_HEADER_SIZE + 8,
         NEW x \in In(fragpack(p, mtu))
  PROVE  LET f == FragSize(mtu)
         IN  \E j \in Nat : /\ j * f \in Nat /\ x.off = p.off + j * f
                            /\ x.size = f \/ Ends(x) = Ends(p)
                            /\ \/ p.size + NET_HEADER_SIZE > mtu /\ x.size <= f
                               \/ p.size + NET_HEADER_SIZE <= mtu /\ j = 0 /\ x = p
<1>. DEFINE f  == FragSize(mtu)
            n  == (p.size + f - 1) \div f
            ps == Pieces(p, mtu)
<1>0. f \in Nat /\ p.off \in Nat /\ p.size \in Nat /\ NET_HEADER_SIZE \in Nat
  BY FragPositive, NumbersOf DEF NET_HEADER_SIZE
<1>1. CASE p.size + NET_HEADER_SIZE <= mtu
  <2>1. x = p  BY <1>1, SortedShort DEF fragpack
  <2>. HIDE DEF f
  <2>2. 0 \in Nat /\ 0 * f = 0 /\ p.off = p.off + 0 * f  BY <1>0
  <2>. QED  BY <1>1, <2>1, <2>2 DEF f
<1>2. CASE ~(p.size + NET_HEADER_SIZE <= mtu)
  <2>1. /\ n \in Nat /\ n >= 1 /\ ps \in Seq(PiecesOf(p)) /\ Len(ps) = n
        /\ \A i \in 1..n : /\ ps[i].off = p.off + (i - 1) * f
                           /\ (i - 1) * f \in Nat
                           /\ i < n => ps[i].size = f
                           /\ ps[i].size <= f
        /\ Ends(ps[n]) = Ends(p)
    BY CutForm
  <2>3. fragpack(p, mtu) = ps  BY <1>2 DEF fragpack
  <2>4. p.size + NET_HEADER_SIZE > mtu  BY <1>0, <1>2
  <2>. HIDE DEF f, n, ps
  <2>5. DOMAIN ps = 1..n  BY <2>1
  <2>6. PICK i \in 1..n : x = ps[i]  BY <2>3, <2>5 DEF In
  <2>7. i - 1 \in Nat /\ (i < n \/ i = n)  BY <2>1
  <2>8. x.off = p.off + (i - 1) * f /\ (i - 1) * f \in Nat
        /\ (x.size = f \/ Ends(x) = Ends(p)) /\ x.size <= f
    BY <2>1, <2>6, <2>7
  <2>. QED  BY <2>4, <2>7, <2>8 DEF f
<1>. QED  BY <1>1, <1>2

LEMMA FragMultiple ==
  ASSUME NEW mtu \in Nat, mtu >= NET_HEADER_SIZE + 8
  PROVE  \E k \in Nat : FragSize(mtu) = 8 * k /\ k >= 1
                        /\ mtu < FragSize(mtu) + NET_HEADER_SIZE + 8
<1>1. (mtu - 20) \div 8 \in Nat /\ (mtu - 20) \div 8 >= 1
      /\ mtu - 20 < 8 * ((mtu - 20) \div 8) + 8
  BY DEF NET_HEADER_SIZE
<1>. QED  BY <1>1 DEF FragSize, NET_HEADER_SIZE

LEMMA EightMultiple ==
  ASSUME NEW j \in Nat, NEW k \in Nat
  PROVE  \E m \in Nat : j * (8 * k) = 8 * m
<1>1. j * k \in Nat  BY Products
<1>2. j * (8 * k) = 8 * (j * k)  OBVIOUS
<1>. QED  BY <1>1, <1>2

(* Cut twice: a piece is shorter than the way to it from any but the one   *)
(* before it.  The bytes from the start of q, which is not the one before  *)
(* r, to r are more than r has.                                            *)
LEMMA FarApart ==
  ASSUME NEW p \in Piece, p.off = 0, p.size >= 1,
         NEW q \in CutTwice(p), NEW r \in CutTwice(p), Ends(q) < r.off
  PROVE  r.size < r.off - q.off
<1>. DEFINE f == FragSize(FirstMtu)
            h == FragSize(SecondMtu)
<1>1. FirstMtu \in Nat /\ FirstMtu >= NET_HEADER_SIZE + 8
      /\ SecondMtu \in Nat /\ SecondMtu >= NET_HEADER_SIZE + 8
  BY ReassemblyAssumption
<1>2. PICK x \in CutOnce(p) : q \in In(fragpack(x, SecondMtu))  BY DEF CutTwice
<1>3. PICK y \in CutOnce(p) : r \in In(fragpack(y, SecondMtu))  BY DEF CutTwice
<1>4. x \in PiecesOf(p) /\ y \in PiecesOf(p)  BY <1>1, CutChain DEF CutOnce
<1>5. /\ x \in Piece /\ x.size >= 1 /\ y \in Piece /\ y.size >= 1
      /\ Ends(x) <= Ends(p) /\ Ends(y) <= Ends(p)
  BY <1>4 DEF PiecesOf
<1>6. q \in PiecesOf(x) /\ r \in PiecesOf(y)  BY <1>1, <1>2, <1>3, <1>5, CutChain
<1>7. /\ q \in Piece /\ q.size >= 1 /\ Ends(q) <= Ends(x)
      /\ r \in Piece /\ r.size >= 1 /\ Ends(r) <= Ends(y) /\ y.off <= r.off
  BY <1>6 DEF PiecesOf
<1>8. PICK a \in Nat : /\ a * f \in Nat /\ x.off = p.off + a * f
                       /\ x.size = f \/ Ends(x) = Ends(p)
  BY <1>1, <1>2, CutGrid DEF CutOnce
<1>9. PICK b \in Nat : /\ b * f \in Nat /\ y.off = p.off + b * f
                       /\ \/ y.size <= f
                          \/ p.size + NET_HEADER_SIZE <= FirstMtu /\ y = p
  BY <1>1, <1>3, CutGrid DEF CutOnce
<1>10. PICK j \in Nat : /\ j * h \in Nat /\ q.off = x.off + j * h
                        /\ q.size = h \/ Ends(q) = Ends(x)
  BY <1>1, <1>2, <1>5, CutGrid
<1>11. PICK l \in Nat : /\ l * h \in Nat /\ r.off = y.off + l * h
                        /\ \/ r.size <= h
                           \/ y.size + NET_HEADER_SIZE <= SecondMtu /\ l = 0 /\ r = y
  BY <1>1, <1>3, <1>5, CutGrid
<1>12. PICK kf \in Nat : f = 8 * kf /\ kf >= 1  BY <1>1, FragMultiple
<1>13. PICK kh \in Nat : h = 8 * kh /\ kh >= 1 /\ SecondMtu < h + NET_HEADER_SIZE + 8
  BY <1>1, FragMultiple
<1>. HIDE DEF f, h
<1>14. f \in Nat /\ f >= 8 /\ h \in Nat /\ h >= 8  BY <1>12, <1>13
<1>15. /\ q.off = a * f + j * h /\ r.off = b * f + l * h
       /\ q.off \in Nat /\ q.size \in Nat /\ Ends(q) = q.off + q.size
       /\ r.off \in Nat /\ r.size \in Nat /\ Ends(r) = r.off + r.size
       /\ x.off = a * f /\ x.size \in Nat /\ Ends(x) = a * f + x.size
       /\ y.off = b * f /\ y.size \in Nat /\ Ends(y) = b * f + y.size
       /\ p.size \in Nat /\ Ends(p) = p.size
  BY <1>5, <1>7, <1>8, <1>9, <1>10, <1>11, NumbersOf
<1>16. PICK ma \in Nat : a * f = 8 * ma  BY <1>12, EightMultiple
<1>17. PICK mb \in Nat : b * f = 8 * mb  BY <1>12, EightMultiple
<1>18. PICK mj \in Nat : j * h = 8 * mj  BY <1>13, EightMultiple
<1>19. PICK ml \in Nat : l * h = 8 * ml  BY <1>13, EightMultiple
<1>20. q.off = 8 * (ma + mj) /\ r.off = 8 * (mb + ml)
  BY <1>15, <1>16, <1>17, <1>18, <1>19
(* q is as large as the router makes them: *)
<1>21. CASE q.size = h
  <2>1. Ends(q) = 8 * (ma + mj + kh)  BY <1>13, <1>15, <1>20, <1>21
  <2>2. r.off >= Ends(q) + 8
    <3>1. ma + mj + kh < mb + ml  BY <1>20, <2>1
    <3>. QED  BY <1>20, <2>1, <3>1
  <2>3. r.off - q.off >= h + 8  BY <1>15, <1>21, <2>2
  <2>4. r.size < h + 8
    <3>1. CASE r.size <= h  BY <1>14, <1>15, <3>1
    <3>2. CASE y.size + NET_HEADER_SIZE <= SecondMtu /\ r = y
      BY <1>1, <1>13, <1>14, <1>15, <3>2 DEF NET_HEADER_SIZE
    <3>. QED  BY <1>11, <3>1, <3>2
  <2>. QED  BY <1>14, <1>15, <2>3, <2>4
(* or ends with x, which is one the source makes, for x does not end p.    *)
<1>22. CASE Ends(q) = Ends(x)
  <2>1. Ends(x) # Ends(p)
    <3>1. Ends(p) \in Nat /\ Ends(y) \in Nat /\ Ends(r) \in Nat /\ Ends(x) \in Nat
      BY <1>5, <1>7, NumbersOf
    <3>2. r.off < Ends(r)  BY <1>7, <1>15
    <3>. QED  BY ONLY <1>5, <1>7, <1>15, <1>22, <3>1, <3>2, Ends(q) < r.off
  <2>2. x.size = f /\ Ends(q) = a * f + f  BY <1>8, <1>15, <1>22, <2>1
  <2>3. y.size <= f
    <3>1. ASSUME p.size + NET_HEADER_SIZE <= FirstMtu  PROVE FALSE
      <4>1. In(fragpack(p, FirstMtu)) = {p}  BY <3>1, SortedShort DEF fragpack
      <4>2. x = p  BY <4>1 DEF CutOnce
      <4>. QED  BY <2>1, <4>2
    <3>. QED  BY <1>9, <3>1
  <2>4. a < b
    <3>1. ASSUME b <= a  PROVE FALSE
      <4>1. b * f <= a * f
        <5>1. CASE b = a  BY <1>8, <5>1
        <5>2. CASE b < a  BY <1>8, <1>9, <1>14, <5>2, Multiples
        <5>. QED  BY <3>1, <5>1, <5>2
      <4>2. Ends(y) <= a * f + f  BY <1>8, <1>9, <1>14, <1>15, <2>3, <4>1
      <4>. QED  BY <1>7, <1>8, <1>9, <1>14, <1>15, <2>2, <4>2
    <3>. QED  BY <3>1
  <2>5. a * f + f <= b * f  BY <1>14, <2>4, Multiples
  <2>6. q.size >= 8
    <3>1. q.size = 8 * (ma + kf - (ma + mj))  BY <1>12, <1>15, <1>16, <1>20, <2>2
    <3>2. ma + kf - (ma + mj) >= 1  BY <1>7, <3>1
    <3>. QED  BY <3>1, <3>2
  <2>7. CASE l = 0
    <3>1. r.off = b * f /\ a + 1 # b
      <4>1. 0 * h = 0  BY <1>14
      <4>2. r.off = b * f  BY <1>9, <1>15, <2>7, <4>1
      <4>3. (a + 1) * f = a * f + f  BY <1>14
      <4>. QED  BY <1>8, <1>14, <1>15, <2>2, <4>2, <4>3
    <3>2. a + 1 \in Nat /\ a + 1 < b /\ (a + 1) * f = a * f + f
      BY <1>14, <2>4, <3>1
    <3>3. (a + 1) * f + f <= b * f  BY <1>14, <3>2, Multiples
    <3>4. r.size <= f  BY <1>7, <1>14, <1>15, <2>3, <3>1
    <3>. QED  BY <1>8, <1>9, <1>14, <1>15, <2>2, <2>6, <3>1, <3>2, <3>3, <3>4
  <2>8. CASE l # 0
    <3>1. r.size <= h  BY <1>11, <2>8
    <3>2. h <= l * h
      <4>1. 0 < l  BY <2>8
      <4>2. 0 * h + h <= l * h  BY <1>14, <4>1, Multiples
      <4>3. 0 * h = 0  BY <1>14
      <4>. QED  BY <1>11, <1>14, <4>2, <4>3
    <3>. QED  BY <1>8, <1>9, <1>11, <1>14, <1>15, <2>2, <2>5, <2>6, <3>1, <3>2
  <2>. QED  BY <2>7, <2>8
<1>. QED  BY <1>10, <1>21, <1>22

(* Where the pieces are: on a link or in the list. *)
OnLinks == In(second) \cup UNION {In(first[s]) : s \in Sources}
Stored  == UNION {In(e.offs) : e \in In(list)}

Packet(s, k) == [src |-> s, id |-> (k - 1) % ID_MODULUS, off |-> 0,
                 size |-> size[s][k], more |-> FALSE, pkt |-> k]
Once  == {p \in Known : p \in CutOnce(Packet(p.src, p.pkt))}
Twice == {p \in Known : p \in CutTwice(Packet(p.src, p.pkt))}

(* Without a fault no piece is missing: the one before it is on its way or *)
(* in the list,                                                            *)
NoGap == \A r \in OnLinks : r.off = 0 \/ \E q \in OnLinks \cup Stored : Follows(q, r)

(* an entry has all bytes up to the end of its last piece, and is the only *)
(* one of its packet,                                                      *)
Growing(e) ==
    /\ ~e.ring /\ e.count = Ends(e.offs[Len(e.offs)]) /\ e.total = 0
    /\ \A q \in In(e.offs) : \A r \in In(second) : InOrder(q, r, {})
OneEach == \A i, j \in DOMAIN list : IsEntryOf(list[i], list[j]) => i = j

(* and the last piece of a packet is on its way until it is handed up.     *)
LastOfEntry(e) == \E r \in OnLinks : IsEntryOf(e, r) /\ ~r.more
HandedUp(s, k) == \E ps \in In(delivered) : ps[1].src = s /\ ps[1].pkt = k
LastOf(s, k)   == \E r \in OnLinks : r.src = s /\ r.pkt = k /\ ~r.more

Smooth ==
    /\ Sorted(second, {}, FALSE)
    /\ \A s \in Sources : In(first[s]) \subseteq Once
    /\ In(second) \subseteq Twice /\ Stored \subseteq Twice
    /\ NoGap
    /\ \A e \in In(list) : Growing(e) /\ LastOfEntry(e)
    /\ OneEach
    /\ \A r \in OnLinks : LastOf(r.src, r.pkt)
    /\ \A s \in Sources : \A k \in DOMAIN size[s] : LastOf(s, k) \/ HandedUp(s, k)

SmoothInv == faults = 0 /\ recv = "runs" => Smooth

(* Without a fault nothing is out of order, and nothing comes twice.       *)
LEMMA NoneDisordered ==
  ASSUME OrderInv, faults = 0
  PROVE  /\ \A q \in In(second) : \A s \in Sources : \A r \in In(first[s]) : InOrder(q, r, {})
         /\ \A e \in In(list) : ~e.ring =>
               /\ Tallied(e)
               /\ \A q \in In(e.offs) : \A s \in Sources : \A r \in In(first[s]) :
                     InOrder(q, r, {})
<1>1. LinksSorted /\ EntriesTallied /\ disordered = {} /\ ~(faults > 0)  BY DEF OrderInv
<1>2. \A q, r : OrRepeated(q, r, disordered, faults > 0) => InOrder(q, r, {})
  BY <1>1 DEF OrRepeated
<1>3. \A e \in In(list) : ~e.ring => Tallied(e) /\ Awaits(e)
  BY <1>1 DEF EntriesTallied, InPlace
<1>. QED  BY <1>1, <1>2, <1>3 DEF LinksSorted, Awaits

LEMMA PacketPiece ==
  ASSUME ReassemblyInv, NEW p \in Known
  PROVE  LET whole == Packet(p.src, p.pkt)
         IN  /\ whole \in Piece /\ Whole(whole) /\ whole.size >= 1
             /\ whole.size = size[p.src][p.pkt] /\ whole.off = 0
<1>1. /\ p.src \in Sources /\ p.pkt \in 1..Len(size[p.src]) /\ p.pkt \in 1..MaxPackets
      /\ p.id = (p.pkt - 1) % ID_MODULUS /\ p.id \in 0..(ID_MODULUS - 1)
  BY DEF Known, Piece
<1>2. size[p.src] \in Seq(Sizes)  BY <1>1 DEF ReassemblyInv, TypeOK
<1>3. size[p.src][p.pkt] \in Sizes  BY <1>1, <1>2
<1>4. size[p.src][p.pkt] \in Nat /\ size[p.src][p.pkt] >= 1 /\ 0 \in Nat
  <2>. DEFINE n == size[p.src][p.pkt]
  <2>1. n \in Nat /\ n # 0  BY <1>3, ReassemblyAssumption
  <2>. HIDE DEF n
  <2>2. n >= 1  BY <2>1
  <2>. QED  BY <2>1, <2>2 DEF n
<1>. QED  BY <1>1, <1>3, <1>4 DEF Packet, Whole, Piece

(* The pieces of one packet one cannot be before and after another.        *)
LEMMA NotBack ==
  ASSUME NEW p \in Known, NEW q \in Known, InOrder(p, q, {})
  PROVE  ~Follows(q, p)
<1>1. p \in Piece /\ q \in Piece /\ p.size >= 1 /\ q.size >= 1  BY DEF Known
<1>2. /\ Ends(p) = p.off + p.size /\ Ends(q) = q.off + q.size
      /\ p.off \in Nat /\ p.size \in Nat /\ q.off \in Nat /\ q.size \in Nat /\ p.pkt \in Nat
  BY <1>1, NumbersOf
<1>. QED  BY <1>1, <1>2 DEF InOrder, InPlace, Follows

LEMMA NotItself ==
  ASSUME NEW p \in Known
  PROVE  ~Follows(p, p)
<1>1. p \in Piece /\ p.size >= 1  BY DEF Known
<1>2. Ends(p) = p.off + p.size /\ p.off \in Nat /\ p.size \in Nat  BY <1>1, NumbersOf
<1>. QED  BY <1>1, <1>2 DEF Follows

LEMMA InitSmooth == Init => SmoothInv
<1>. SUFFICES ASSUME Init PROVE Smooth  BY DEF SmoothInv
<1>1. second = <<>> /\ list = <<>> /\ \A s \in Sources : first[s] = <<>> /\ size[s] = <<>>
  BY DEF Init
<1>2. In(<<>>) = {} /\ Sorted(<<>>, {}, FALSE)  BY SortedShort
<1>3. OnLinks = {} /\ Stored = {}  BY <1>1, <1>2 DEF OnLinks, Stored
<1>4. DOMAIN <<>> = {}  OBVIOUS
<1>. QED  BY <1>1, <1>2, <1>3, <1>4 DEF Smooth, NoGap, OneEach

(* A new packet is cut and stays what it is. *)
LEMMA SendSmooth ==
  ASSUME NothingRefused, ReassemblyInv, OrderInv, Smooth, faults = 0,
         NEW s \in Sources, NEW n \in Sizes, SendPacket(s, n)
  PROVE  Smooth'
<1>. DEFINE k == Len(size[s]) + 1
            p == [src |-> s, id |-> count_id[s], off |-> 0, size |-> n, more |-> FALSE, pkt |-> k]
            new == fragpack(p, FirstMtu)
<1>1. /\ size' = [size EXCEPT ![s] = Append(@, n)]
      /\ first' = [first EXCEPT ![s] = @ \o Sent(p, FirstMtu)]
      /\ UNCHANGED <<second, list, delivered, recv, faults>>
      /\ Len(size[s]) < MaxPackets
  BY DEF SendPacket
<1>2. /\ size \in [Sources -> Seq(Sizes)] /\ count_id \in [Sources -> 0..(ID_MODULUS - 1)]
      /\ first \in [Sources -> Seq(Piece)]
  BY DEF ReassemblyInv, TypeOK
<1>3. MaxPackets \in Nat /\ n \in Nat /\ n >= 1 /\ FirstMtu \in Nat
      /\ FirstMtu >= NET_HEADER_SIZE + 8
  BY ReassemblyAssumption
<1>4. size[s] \in Seq(Sizes) /\ Len(size[s]) \in Nat  BY <1>2
<1>5. k \in 1..MaxPackets  BY <1>1, <1>3, <1>4
<1>6. p \in Piece /\ p.src = s /\ p.pkt = k /\ p.size >= 1 /\ p.off = 0 /\ p.more = FALSE
      /\ p.id = count_id[s] /\ p.size = n
  BY <1>2, <1>3, <1>5 DEF Piece
<1>7. ReassemblyInv'  BY SendStep
<1>8. ASSUME NEW i \in Nat, i = k  PROVE Packet(s, i)' = p
  <2>1. size'[s][i] = n  BY <1>1, <1>2, <1>4, <1>8
  <2>2. count_id[s] = Len(size[s]) % ID_MODULUS /\ i - 1 = Len(size[s])
    BY <1>4, <1>8 DEF ReassemblyInv, OriginInv
  <2>. QED  BY <1>8, <2>1, <2>2 DEF Packet
<1>. HIDE DEF p
<1>9. Sent(p, FirstMtu) = new  BY <1>6 DEF NothingRefused, Whole
<1>10. /\ In(new) \subseteq PiecesOf(p)
       /\ \A r \in In(new) : r.off = 0 \/ \E q \in In(new) : Follows(q, r)
       /\ \E r \in In(new) : Ends(r) = Ends(p)
  BY <1>3, <1>6, CutChain
<1>11. new \in Seq(Piece)
  <2>1. new \in Seq(PiecesOf(p))  BY <1>3, <1>6, PiecesCut
  <2>2. PiecesOf(p) \subseteq Piece  BY DEF PiecesOf
  <2>. QED  BY <2>1, <2>2, SeqMono
<1>12. In(new) = CutOnce(p)  BY DEF CutOnce
<1>. HIDE DEF new
<1>13. first'[s] = first[s] \o new /\ \A t \in Sources : t # s => first'[t] = first[t]
  BY <1>1, <1>2, <1>9
<1>14. In(first'[s]) = In(first[s]) \cup In(new)
  <2>1. first[s] \in Seq(Piece)  BY <1>2
  <2>. QED  BY <1>11, <1>13, <2>1, InConcat
<1>15. OnLinks' = OnLinks \cup In(new) /\ Stored' = Stored
  BY <1>1, <1>13, <1>14 DEF OnLinks, Stored
<1>16. ASSUME NEW q \in Known
       PROVE  q \in Known' /\ Packet(q.src, q.pkt)' = Packet(q.src, q.pkt)
  <2>1. q \in Piece /\ q.src \in Sources /\ q.pkt \in 1..Len(size[q.src])
    BY DEF Known, Piece
  <2>2. size'[q.src][q.pkt] = size[q.src][q.pkt] /\ q.pkt <= Len(size'[q.src])
    <3>1. size[q.src] \in Seq(Sizes)  BY <1>2, <2>1
    <3>2. CASE q.src = s  BY <1>1, <1>2, <1>4, <2>1, <3>2
    <3>3. CASE q.src # s  BY <1>1, <1>2, <2>1, <3>3
    <3>. QED  BY <3>2, <3>3
  <2>. QED  BY <2>1, <2>2 DEF Known, Packet
<1>17. Once \subseteq Once' /\ Twice \subseteq Twice'  BY <1>16 DEF Once, Twice
<1>18. In(new) \subseteq Once'
  <2>1. ASSUME NEW r \in In(new)  PROVE r \in Once'
    <3>1. r.src = s /\ r.pkt = k  BY <1>6, <1>10 DEF PiecesOf
    <3>2. r \in In(first'[s])  BY <1>14
    <3>3. r \in Known'
      <4>1. first'[s] \in Seq(Known')  BY <1>7 DEF ReassemblyInv, OriginInv
      <4>. QED  BY <3>2, <4>1, InSeq
    <3>4. r.pkt \in Nat  BY <1>4, <3>1
    <3>5. Packet(r.src, r.pkt)' = p  BY <1>8, <3>1, <3>4
    <3>. QED  BY <1>12, <3>3, <3>5 DEF Once
  <2>. QED  BY <2>1
<1>19. \E r \in In(new) : r.src = s /\ r.pkt = k /\ ~r.more
  <2>1. PICK r \in In(new) : Ends(r) = Ends(p)  BY <1>10
  <2>2. r \in PiecesOf(p) /\ r \in Piece /\ Ends(r) \in Nat  BY <1>10, NumbersOf DEF PiecesOf
  <2>3. ~(Ends(r) < Ends(p))  BY <2>1, <2>2
  <2>4. ~r.more  BY <1>6, <2>2, <2>3 DEF PiecesOf
  <2>. QED  BY <1>6, <2>2, <2>4 DEF PiecesOf
<1>20. \A t \in Sources : In(first'[t]) \subseteq Once'
  BY <1>13, <1>14, <1>17, <1>18 DEF Smooth
<1>21. (In(second) \subseteq Twice)' /\ (Stored \subseteq Twice)' /\ Sorted(second, {}, FALSE)'
  BY <1>1, <1>15, <1>17 DEF Smooth
<1>22. NoGap'  BY <1>10, <1>15 DEF Smooth, NoGap
<1>23. \A e \in In(list)' : Growing(e)' /\ LastOfEntry(e)'
  BY <1>1, <1>15 DEF Smooth, Growing, LastOfEntry
<1>24. OneEach'  BY <1>1 DEF Smooth, OneEach
<1>25. ASSUME NEW t \in Sources, NEW i \in DOMAIN size'[t]
       PROVE  LastOf(t, i)' \/ HandedUp(t, i)'
  <2>1. CASE t = s /\ i = k  BY <1>15, <1>19, <2>1 DEF LastOf
  <2>2. CASE ~(t = s /\ i = k)
    <3>1. i \in DOMAIN size[t]
      <4>1. CASE t # s  BY <1>1, <1>2, <4>1
      <4>2. CASE t = s
        <5>1. size'[s] = Append(size[s], n)  BY <1>1, <1>2
        <5>2. DOMAIN size'[s] = 1..k /\ DOMAIN size[s] = 1..Len(size[s])  BY <1>4, <5>1
        <5>3. i \in 1..k /\ i # k  BY <2>2, <4>2, <5>2
        <5>. QED  BY <1>4, <4>2, <5>2, <5>3
      <4>. QED  BY <4>1, <4>2
    <3>2. LastOf(t, i) \/ HandedUp(t, i)  BY <3>1 DEF Smooth
    <3>. QED  BY <1>1, <1>15, <3>2 DEF LastOf, HandedUp
  <2>. QED  BY <2>1, <2>2
<1>26. ASSUME NEW r \in OnLinks'  PROVE LastOf(r.src, r.pkt)'
  <2>1. CASE r \in OnLinks
    <3>1. LastOf(r.src, r.pkt)  BY <2>1 DEF Smooth
    <3>. QED  BY <1>15, <3>1 DEF LastOf
  <2>2. CASE r \in In(new)
    <3>1. r.src = s /\ r.pkt = k  BY <1>6, <1>10, <2>2 DEF PiecesOf
    <3>. QED  BY <1>15, <1>19, <3>1 DEF LastOf
  <2>. QED  BY <1>15, <2>1, <2>2
<1>. QED  BY <1>20, <1>21, <1>22, <1>23, <1>24, <1>25, <1>26 DEF Smooth

(* The router cuts what the source has cut. *)
LEMMA ForwardSmooth ==
  ASSUME NothingRefused, ReassemblyInv, OrderInv, Smooth, faults = 0,
         NEW s \in Sources, Forward(s)
  PROVE  Smooth'
<1>. DEFINE p == Head(first[s])
            rest == Tail(first[s])
            whole == Packet(p.src, p.pkt)
            new == fragpack(p, SecondMtu)
<1>1. /\ first[s] # <<>> /\ first' = [first EXCEPT ![s] = rest]
      /\ second' = second \o Sent(p, SecondMtu)
      /\ UNCHANGED <<size, list, delivered, faults>>
  BY DEF Forward
<1>2. first \in [Sources -> Seq(Piece)] /\ second \in Seq(Piece)
  BY DEF ReassemblyInv, TypeOK
<1>3. /\ \A q \in In(second) : \A r \in In(first[s]) : InOrder(q, r, {})
      /\ \A e \in In(list) : ~e.ring =>
            \A q \in In(e.offs) : \A r \in In(first[s]) : InOrder(q, r, {})
  BY NoneDisordered
<1>4. p \in In(first[s]) /\ p \in Once /\ p \in Piece /\ p \in Known /\ p.size >= 1
  <2>1. p \in In(first[s])  BY <1>1, <1>2, InSeq
  <2>2. p \in Once  BY <2>1 DEF Smooth
  <2>. QED  BY <2>1, <2>2 DEF Once, Known
<1>5. Sent(p, SecondMtu) = new
  <2>1. whole \in Piece /\ Whole(whole)  BY <1>4, PacketPiece
  <2>2. p \in CutOnce(whole)  BY <1>4 DEF Once
  <2>. QED  BY <2>1, <2>2 DEF NothingRefused
<1>6. SecondMtu \in Nat /\ SecondMtu >= NET_HEADER_SIZE + 8  BY ReassemblyAssumption
<1>7. /\ In(new) \subseteq PiecesOf(p)
      /\ \A r \in In(new) : r.off = p.off \/ \E q \in In(new) : Follows(q, r)
      /\ \E r \in In(new) : Ends(r) = Ends(p)
  BY <1>4, <1>6, CutChain
<1>8. new \in Seq(PiecesOf(p)) /\ Sorted(new, {}, FALSE)  BY <1>4, <1>6, PiecesCut, CutSorted
<1>9. In(new) \subseteq CutTwice(whole)  BY <1>4 DEF CutTwice, Once
<1>. HIDE DEF whole
<1>10. \A t \in Sources : \A x \in In(first[t]) : (x = p /\ t = s) \/ x \in In(first'[t])
  <2>1. \A x \in In(first[s]) : x = p \/ x \in In(rest)  BY <1>1, <1>2, InTail
  <2>2. first'[s] = rest /\ \A t \in Sources : t # s => first'[t] = first[t]  BY <1>1, <1>2
  <2>. QED  BY <2>1, <2>2
<1>11. \A t \in Sources : In(first'[t]) \subseteq In(first[t])
  <2>1. In(rest) \subseteq In(first[s])  BY <1>1, <1>2, InTail
  <2>2. first'[s] = rest /\ \A t \in Sources : t # s => first'[t] = first[t]  BY <1>1, <1>2
  <2>. QED  BY <2>1, <2>2
<1>. HIDE DEF p, rest, new
<1>12. new \in Seq(Piece)
  <2>1. PiecesOf(p) \subseteq Piece  BY DEF PiecesOf
  <2>. QED  BY <1>8, <2>1, SeqMono
<1>13. second' = second \o new /\ In(second') = In(second) \cup In(new)
  BY <1>1, <1>2, <1>5, <1>12, InConcat
<1>14. /\ In(new) \subseteq OnLinks'
       /\ \A x \in OnLinks : x = p \/ x \in OnLinks'
       /\ \A x \in OnLinks' : x \in OnLinks \/ x \in In(new)
       /\ p \in OnLinks
  BY <1>4, <1>10, <1>11, <1>13 DEF OnLinks
<1>15. Stored' = Stored  BY <1>1 DEF Stored
<1>16. \A r \in In(new) : /\ r \in Known /\ r.src = p.src /\ r.pkt = p.pkt /\ r.id = p.id
                          /\ r \in Piece
  BY <1>4, <1>7, KnownCut DEF PiecesOf
<1>17. In(new) \subseteq Twice  BY <1>9, <1>16 DEF Twice, whole
<1>18. PICK z \in In(new) : Ends(z) = Ends(p)  BY <1>7
<1>19. ~p.more => ~z.more
  <2>1. Ends(z) \in Nat  BY <1>16, NumbersOf
  <2>2. ~(Ends(z) < Ends(p))  BY <1>18, <2>1
  <2>. QED  BY <1>7, <2>2 DEF PiecesOf
<1>20. z \in OnLinks' /\ z.src = p.src /\ z.pkt = p.pkt /\ z.id = p.id
  BY <1>14, <1>16, <1>18
<1>21. Once' = Once /\ Twice' = Twice  BY <1>1 DEF Once, Twice, Packet, Known
<1>22. /\ (\A t \in Sources : In(first[t]) \subseteq Once)'
       /\ (In(second) \subseteq Twice)' /\ (Stored \subseteq Twice)'
  BY <1>11, <1>13, <1>15, <1>17, <1>21 DEF Smooth
<1>23. ASSUME NEW q \in Piece, NEW r \in In(new), InOrder(q, p, {})  PROVE InOrder(q, r, {})
  BY <1>4, <1>7, <1>23, CutAfter
<1>24. Sorted(second', {}, FALSE)
  <2>1. Sorted(second, {}, FALSE)  BY DEF Smooth
  <2>2. \A q \in In(second) : InOrder(q, p, {}) /\ q \in Piece
    BY <1>3, <1>4, AllKnown DEF Known
  <2>3. \A q \in In(second) : \A r \in In(new) : OrRepeated(q, r, {}, FALSE)
    BY <1>23, <2>2 DEF OrRepeated
  <2>4. Sorted(second \o new, {}, FALSE)
    BY ONLY <1>2, <1>8, <1>12, <2>1, <2>3, SortedConcat
  <2>. QED  BY <1>13, <2>4
<1>25. NoGap'
  <2>1. ASSUME NEW q \in OnLinks \cup Stored, NEW r, Follows(q, r)
        PROVE  \E x \in OnLinks' \cup Stored' : Follows(x, r)
    <3>1. CASE q = p  BY <1>18, <1>20, <2>1, <3>1 DEF Follows
    <3>2. CASE q # p  BY <1>14, <1>15, <2>1, <3>2
    <3>. QED  BY <3>1, <3>2
  <2>2. ASSUME NEW r \in OnLinks
        PROVE  r.off = 0 \/ \E q \in OnLinks' \cup Stored' : Follows(q, r)
    BY <2>1 DEF Smooth, NoGap
  <2>3. ASSUME NEW r \in In(new)
        PROVE  r.off = 0 \/ \E q \in OnLinks' \cup Stored' : Follows(q, r)
    <3>1. CASE r.off = p.off
      <4>1. p.off = 0 \/ \E q \in OnLinks' \cup Stored' : Follows(q, p)  BY <1>14, <2>2
      <4>. QED  BY <1>16, <3>1, <4>1 DEF Follows
    <3>2. CASE r.off # p.off  BY <1>7, <1>14, <3>2
    <3>. QED  BY <3>1, <3>2
  <2>. QED  BY <1>14, <2>2, <2>3 DEF NoGap
<1>26. ASSUME NEW e \in In(list)  PROVE Growing(e)' /\ LastOfEntry(e)'
  <2>1. Growing(e) /\ LastOfEntry(e)  BY DEF Smooth
  <2>2. \A q \in In(e.offs) : \A r \in In(first[s]) : InOrder(q, r, {})
    BY <1>3, <2>1 DEF Growing
  <2>3. ASSUME NEW q \in In(e.offs), NEW r \in In(second')  PROVE InOrder(q, r, {})
    <3>1. q \in Piece
      <4>1. e \in Held  BY AllKnown
      <4>2. q \in Alike(e)  BY <4>1, AllKnown
      <4>. QED  BY <4>2 DEF Alike, Known
    <3>2. InOrder(q, p, {})  BY <1>4, <2>2
    <3>. QED  BY <1>13, <1>23, <2>1, <3>1, <3>2 DEF Growing
  <2>4. Growing(e)'  BY <2>1, <2>3 DEF Growing
  <2>5. PICK r \in OnLinks : IsEntryOf(e, r) /\ ~r.more  BY <2>1 DEF LastOfEntry
  <2>6. LastOfEntry(e)'
    <3>1. CASE r = p  BY <1>19, <1>20, <2>5, <3>1 DEF LastOfEntry, IsEntryOf
    <3>2. CASE r # p  BY <1>14, <2>5, <3>2 DEF LastOfEntry
    <3>. QED  BY <3>1, <3>2
  <2>. QED  BY <2>4, <2>6
<1>27. OneEach'  BY <1>1 DEF Smooth, OneEach
<1>28. ASSUME NEW t, NEW k, LastOf(t, k)  PROVE LastOf(t, k)'
  <2>1. PICK r \in OnLinks : r.src = t /\ r.pkt = k /\ ~r.more  BY <1>28 DEF LastOf
  <2>2. CASE r = p  BY <1>19, <1>20, <2>1, <2>2 DEF LastOf
  <2>3. CASE r # p  BY <1>14, <2>1, <2>3 DEF LastOf
  <2>. QED  BY <2>2, <2>3
<1>29. ASSUME NEW r \in OnLinks'  PROVE LastOf(r.src, r.pkt)'
  <2>1. CASE r \in OnLinks  BY <1>28, <2>1 DEF Smooth
  <2>2. CASE r \in In(new)
    <3>1. LastOf(p.src, p.pkt)  BY <1>14 DEF Smooth
    <3>2. r.src = p.src /\ r.pkt = p.pkt  BY <1>16, <2>2
    <3>3. LastOf(r.src, r.pkt)  BY <3>1, <3>2
    <3>. QED  BY <1>28, <3>3
  <2>. QED  BY <1>14, <2>1, <2>2
<1>30. ASSUME NEW t \in Sources, NEW k \in DOMAIN size[t]
       PROVE  LastOf(t, k)' \/ HandedUp(t, k)'
  <2>1. LastOf(t, k) \/ HandedUp(t, k)  BY DEF Smooth
  <2>2. HandedUp(t, k) => HandedUp(t, k)'  BY <1>1 DEF HandedUp
  <2>. QED  BY <1>28, <2>1, <2>2
<1>. QED  BY <1>1, <1>22, <1>24, <1>25, <1>26, <1>27, <1>29, <1>30 DEF Smooth

(* What arrives at the destination is the next of its packet: its first,   *)
(* and the packet has no entry, or it starts where the entry ends.         *)
LEMMA ArrivedSmooth ==
  ASSUME ReassemblyInv, OrderInv, Smooth, faults = 0, Receive
  PROVE  LET p == Head(second)
         IN  /\ p \in Twice /\ p \in Known /\ p \in OnLinks
             /\ In(second') \subseteq In(second) /\ Sorted(second', {}, FALSE)
             /\ OnLinks' \subseteq OnLinks
             /\ \A x \in OnLinks : x = p \/ x \in OnLinks'
             /\ \A r \in OnLinks' : InOrder(p, r, {})
             /\ UNCHANGED <<size, first, faults>>
<1>. DEFINE p == Head(second)
<1>1. second # <<>> /\ second' = Tail(second) /\ UNCHANGED <<size, first, faults>>
  BY DEF Receive
<1>2. second \in Seq(Known)  BY AllKnown
<1>3. \A q \in In(second) : \A s \in Sources : \A r \in In(first[s]) : InOrder(q, r, {})
  BY NoneDisordered
<1>4. Sorted(second, {}, FALSE)  BY DEF Smooth
<1>5. p \in In(second) /\ p \in Known  BY <1>1, <1>2, InSeq
<1>6. /\ In(second') \subseteq In(second) /\ \A x \in In(second) : x = p \/ x \in In(second')
      /\ Sorted(second', {}, FALSE) /\ \A r \in In(second') : InOrder(p, r, {})
  <2>1. /\ In(Tail(second)) \subseteq In(second)
        /\ \A x \in In(second) : x = p \/ x \in In(Tail(second))
    BY <1>1, <1>2, InTail
  <2>2. /\ Sorted(Tail(second), {}, FALSE)
        /\ \A r \in In(Tail(second)) : OrRepeated(p, r, {}, FALSE)
    BY <1>1, <1>2, <1>4, SortedTail
  <2>3. \A r \in In(Tail(second)) : InOrder(p, r, {})  BY <2>2 DEF OrRepeated
  <2>. QED  BY <1>1, <2>1, <2>2, <2>3
<1>7. \A s \in Sources : \A r \in In(first'[s]) : InOrder(p, r, {})
  BY <1>1, <1>3, <1>5
<1>. HIDE DEF p
<1>8. /\ OnLinks' \subseteq OnLinks /\ (\A x \in OnLinks : x = p \/ x \in OnLinks')
      /\ (\A r \in OnLinks' : InOrder(p, r, {})) /\ p \in OnLinks
  BY <1>1, <1>5, <1>6, <1>7 DEF OnLinks
<1>9. p \in Twice  BY <1>5 DEF Smooth
<1>. QED  BY <1>1, <1>5, <1>6, <1>8, <1>9 DEF p

LEMMA NextOfPacket ==
  ASSUME MaxPackets <= ID_MODULUS, ReassemblyInv, OrderInv, Smooth, faults = 0, Receive
  PROVE  LET p == Head(second)
             e == list[Entry(p)]
         IN  \/ p.off = 0 /\ Entries(p) = {}
             \/ /\ Entries(p) # {} /\ Ends(e.offs[Len(e.offs)]) = p.off
                /\ \A q \in In(e.offs) : q.src = p.src /\ q.pkt = p.pkt /\ Ends(q) <= p.off
<1>. DEFINE p == Head(second)
            e == list[Entry(p)]
<1>1. p \in Known /\ p \in In(second) /\ p \in OnLinks
  BY ArrivedSmooth, ArrivedOrder
<1>2. /\ \A x \in OnLinks : x = p \/ x \in OnLinks'
      /\ \A r \in OnLinks' : InOrder(p, r, {})
      /\ OnLinks' \subseteq OnLinks
  BY ArrivedSmooth
<1>3. OnLinks \subseteq Known
  <2>1. /\ In(second) \subseteq Known /\ \A s \in Sources : In(first[s]) \subseteq Known
    BY AllKnown
  <2>. QED  BY <2>1 DEF OnLinks
<1>. HIDE DEF p
<1>4. ASSUME NEW q \in OnLinks  PROVE ~Follows(q, p)
  <2>1. CASE q = p  BY <1>1, <2>1, NotItself
  <2>2. CASE q # p
    <3>1. InOrder(p, q, {}) /\ q \in Known  BY <1>2, <1>3, <2>2
    <3>. QED  BY <1>1, <3>1, NotBack
  <2>. QED  BY <2>1, <2>2
<1>5. CASE Entries(p) = {}
  <2>1. ASSUME p.off # 0  PROVE FALSE
    <3>1. PICK q \in Stored : Follows(q, p)  BY <1>1, <1>4, <2>1 DEF Smooth, NoGap
    <3>2. PICK x \in In(list) : q \in In(x.offs)  BY <3>1 DEF Stored
    <3>3. x \in Held  BY <3>2, AllKnown
    <3>4. q \in Alike(x)  BY <3>2, <3>3, AllKnown
    <3>5. q.src = x.src /\ q.id = x.id /\ q \in Known  BY <3>4 DEF Alike
    <3>6. q.id = p.id  BY <1>1, <3>1, <3>5 DEF Follows, Known
    <3>7. IsEntryOf(x, p)  BY <3>1, <3>5, <3>6 DEF IsEntryOf, Follows
    <3>8. PICK i \in DOMAIN list : x = list[i]  BY <3>2 DEF In
    <3>. QED  BY <1>5, <3>7, <3>8 DEF Entries
  <2>. QED  BY <1>5, <2>1 DEF p
<1>6. CASE Entries(p) # {}
  <2>. DEFINE i == Entry(p)
              last == e.offs[Len(e.offs)]
  <2>1. i \in 1..Len(list) /\ e \in Held /\ IsEntryOf(e, p)
    BY <1>1, <1>6, EntryFound DEF p
  <2>2. e \in In(list) /\ DOMAIN list = 1..Len(list)
    <3>1. list \in Seq(Held)  BY AllKnown
    <3>. QED  BY <2>1, <3>1 DEF In, p
  <2>3. p \in Alike(e)  BY <1>1, <2>1 DEF Alike, IsEntryOf
  <2>4. Growing(e)  BY <2>2 DEF Smooth
  <2>5. Tallied(e)  BY <2>2, <2>4, NoneDisordered DEF Growing
  <2>. HIDE DEF i, e
  <2>6. e.offs \in Seq(Known) /\ e.offs # <<>>  BY <2>1, AllKnown
  <2>7. last \in In(e.offs)  BY <2>6, InSeq
  <2>8. ASSUME NEW q \in In(e.offs)
        PROVE  q.src = p.src /\ q.pkt = p.pkt /\ Ends(q) <= p.off /\ q \in Known
    <3>1. q \in Alike(e)  BY <2>1, AllKnown
    <3>2. q \in Known /\ q.src = p.src /\ q.id = p.id  BY <2>3, <3>1 DEF Alike
    <3>3. q.pkt = p.pkt  BY <1>1, <3>2, SameNumber
    <3>4. InOrder(q, p, {})  BY <1>1, <2>4 DEF Growing
    <3>5. p.pkt \in Nat  BY <1>1 DEF Known, Piece
    <3>. QED  BY <3>2, <3>3, <3>4, <3>5 DEF InOrder, InPlace
  <2>9. /\ last \in Known /\ Ends(last) <= p.off /\ Ends(last) \in Nat /\ p.off \in Nat
        /\ last.size >= 1 /\ last.size \in Nat /\ last.off \in Nat
        /\ Ends(last) = last.off + last.size
    <3>1. last \in Known /\ Ends(last) <= p.off  BY <2>7, <2>8
    <3>2. last \in Piece /\ p \in Piece /\ last.size >= 1  BY <1>1, <3>1 DEF Known
    <3>. QED  BY <3>1, <3>2, NumbersOf
  <2>10. PICK q \in Stored : Follows(q, p)
    <3>1. p.off # 0  BY <2>9
    <3>. QED  BY <1>1, <1>4, <3>1 DEF Smooth, NoGap
  <2>11. q \in In(e.offs)
    <3>1. PICK x \in In(list) : q \in In(x.offs)  BY <2>10 DEF Stored
    <3>2. PICK j \in DOMAIN list : x = list[j]  BY <3>1 DEF In
    <3>3. x \in Held  BY <3>1, AllKnown
    <3>4. q \in Alike(x)  BY <3>1, <3>3, AllKnown
    <3>5. q.src = x.src /\ q.id = x.id /\ q \in Known  BY <3>4 DEF Alike
    <3>6. q.id = p.id  BY <1>1, <2>10, <3>5 DEF Follows, Known
    <3>7. e = list[i]  BY DEF e, i
    <3>8. IsEntryOf(x, e)  BY <2>1, <2>10, <3>5, <3>6 DEF IsEntryOf, Follows
    <3>9. j = i  BY <2>1, <2>2, <3>2, <3>7, <3>8 DEF Smooth, OneEach
    <3>. QED  BY <3>1, <3>2, <3>7, <3>9
  <2>12. Ends(q) = p.off /\ Ends(q) <= Ends(last)
    <3>1. Ends(q) <= Ends(last)  BY <2>1, <2>5, <2>11, EntryOrder
    <3>. QED  BY <2>10, <3>1 DEF Follows
  <2>13. Ends(last) = p.off  BY <2>9, <2>12
  <2>. QED  BY <1>6, <2>8, <2>13 DEF e, p
<1>. QED  BY <1>5, <1>6 DEF p

(* No piece of the chain is taken for the one before it but the last.      *)
LEMMA NoMatch ==
  ASSUME ReassemblyInv, NEW e \in Held, Tallied(e), ~e.ring, MaxPackets <= ID_MODULUS,
         In(e.offs) \subseteq Twice,
         NEW p \in Twice, Ends(e.offs[Len(e.offs)]) = p.off,
         \A q \in In(e.offs) : q.src = p.src /\ q.pkt = p.pkt
  PROVE  AddOutcome(e, p) = "append"
<1>. DEFINE ps == e.offs
            n == Len(ps)
            last == ps[n]
            whole == Packet(p.src, p.pkt)
<1>1. ps \in Seq(Known) /\ ps # <<>> /\ DOMAIN ps = 1..n /\ n \in Nat /\ n \in 1..n
  <2>1. ps \in Seq(Known) /\ ps # <<>>  BY AllKnown
  <2>. QED  BY <2>1
<1>2. last \in In(ps) /\ last \in Known /\ last \in Piece /\ last.size >= 1
  BY <1>1, InSeq DEF Known
<1>3. Ends(last) = last.off + last.size /\ last.off \in Nat /\ last.size \in Nat
  BY <1>2, NumbersOf
<1>4. p \in Known /\ p \in Piece /\ p.off \in Nat /\ p.size \in Nat
  BY NumbersOf DEF Twice, Known
<1>5. whole \in Piece /\ whole.off = 0 /\ whole.size >= 1 /\ p \in CutTwice(whole)
  BY <1>4, PacketPiece DEF Twice
<1>6. last.off # p.off  BY <1>2, <1>3
<1>7. Matches(e, p) = {}
  <2>1. ASSUME NEW i \in 1..(n - 1)  PROVE ps[i].off + p.size # p.off
    <3>1. i \in DOMAIN ps /\ n \in DOMAIN ps /\ i < n  BY <1>1
    <3>2. ps[i] \in In(ps) /\ ps[i] \in Known  BY <1>1, <3>1 DEF In
    <3>3. InOrder(ps[i], last, {})  BY <3>1 DEF Tallied, Sorted, OrRepeated
    <3>4. ps[i].src = p.src /\ ps[i].pkt = p.pkt /\ last.src = p.src /\ last.pkt = p.pkt
      BY <1>2, <3>2
    <3>5. ps[i] \in Piece /\ ps[i].off \in Nat /\ Ends(ps[i]) \in Nat /\ p.pkt \in Nat
      BY <1>4, <3>2, NumbersOf DEF Known
    <3>6. Ends(ps[i]) <= last.off  BY <3>3, <3>4, <3>5 DEF InOrder, InPlace
    <3>7. Ends(ps[i]) < p.off  BY <1>2, <1>3, <3>5, <3>6
    <3>8. ps[i] \in CutTwice(whole)
      <4>1. ps[i] \in Twice  BY <3>2
      <4>2. ps[i] \in CutTwice(Packet(ps[i].src, ps[i].pkt))  BY <4>1 DEF Twice
      <4>. QED  BY <3>4, <4>2
    <3>. HIDE DEF whole, ps
    <3>9. p.size < p.off - ps[i].off  BY <1>5, <3>7, <3>8, FarApart
    <3>. QED  BY <1>4, <3>5, <3>9
  <2>. QED  BY <2>1 DEF Matches
<1>. QED  BY <1>6, <1>7 DEF AddOutcome

LEMMA SameCuts ==
  ASSUME UNCHANGED size
  PROVE  Once' = Once /\ Twice' = Twice
BY DEF Once, Twice, Packet, Known

(* A piece that is not its packet's last is kept, in the entry f. *)
LEMMA KeptSmooth ==
  ASSUME ReassemblyInv, OrderInv, Smooth, faults = 0, Receive, Head(second).more,
         NEW f, ~f.ring, f.count = Ends(f.offs[Len(f.offs)]), f.total = 0,
         IsEntryOf(f, Head(second)),
         \A q \in In(f.offs) : q = Head(second) \/ \E e \in In(list) : q \in In(e.offs),
         \A e \in In(list') : e \in In(list) \/ e = f,
         Stored' = Stored \cup {Head(second)}, delivered' = delivered, OneEach'
  PROVE  Smooth'
<1>. DEFINE p == Head(second)
<1>1. /\ p \in Twice /\ p \in Known /\ p \in OnLinks
      /\ In(second') \subseteq In(second) /\ Sorted(second', {}, FALSE)
      /\ OnLinks' \subseteq OnLinks
      /\ \A x \in OnLinks : x = p \/ x \in OnLinks'
      /\ \A r \in OnLinks' : InOrder(p, r, {})
      /\ UNCHANGED <<size, first, faults>>
  BY ArrivedSmooth
<1>2. Once' = Once /\ Twice' = Twice  BY <1>1, SameCuts
<1>3. p.more /\ Stored' = Stored \cup {p} /\ IsEntryOf(f, p)  OBVIOUS
<1>4. \A q \in In(f.offs) : q = p \/ \E e \in In(list) : q \in In(e.offs)  OBVIOUS
<1>. HIDE DEF p
<1>5. /\ (\A s \in Sources : In(first[s]) \subseteq Once)'
      /\ (In(second) \subseteq Twice)' /\ (Stored \subseteq Twice)'
  BY <1>1, <1>2, <1>3 DEF Smooth
<1>6. NoGap'
  <2>1. ASSUME NEW r \in OnLinks'
        PROVE  r.off = 0 \/ \E q \in OnLinks' \cup Stored' : Follows(q, r)
    <3>1. r.off = 0 \/ \E q \in OnLinks \cup Stored : Follows(q, r)
      BY <1>1 DEF Smooth, NoGap
    <3>. QED  BY <1>1, <1>3, <3>1
  <2>. QED  BY <2>1 DEF NoGap
<1>7. In(second') \subseteq OnLinks'  BY DEF OnLinks
<1>8. ASSUME NEW e \in In(list)  PROVE Growing(e)' /\ LastOfEntry(e)'
  <2>1. Growing(e) /\ LastOfEntry(e)  BY DEF Smooth
  <2>2. Growing(e)'  BY <1>1, <2>1 DEF Growing
  <2>. QED  BY <1>1, <1>3, <2>1, <2>2 DEF LastOfEntry
<1>9. Growing(f)' /\ LastOfEntry(f)'
  <2>1. ASSUME NEW q \in In(f.offs), NEW r \in In(second')  PROVE InOrder(q, r, {})
    <3>1. CASE q = p  BY <1>1, <1>7, <3>1
    <3>2. CASE \E e \in In(list) : q \in In(e.offs)  BY <1>1, <3>2 DEF Smooth, Growing
    <3>. QED  BY <1>4, <3>1, <3>2
  <2>2. Growing(f)'  BY <2>1 DEF Growing
  <2>3. PICK r \in OnLinks : r.src = p.src /\ r.pkt = p.pkt /\ ~r.more
    BY <1>1 DEF Smooth, LastOf
  <2>4. r \in Known
    <3>1. /\ In(second) \subseteq Known /\ \A s \in Sources : In(first[s]) \subseteq Known
      BY AllKnown
    <3>. QED  BY <3>1 DEF OnLinks
  <2>5. r.id = p.id  BY <1>1, <2>3, <2>4 DEF Known
  <2>6. r \in OnLinks'  BY <1>1, <1>3, <2>3
  <2>7. IsEntryOf(f, r)  BY <1>3, <2>3, <2>5 DEF IsEntryOf
  <2>. QED  BY <2>2, <2>3, <2>6, <2>7 DEF LastOfEntry
<1>10. ASSUME NEW s, NEW k, LastOf(s, k)  PROVE LastOf(s, k)'
  BY <1>1, <1>3, <1>10 DEF LastOf
<1>11. \A r \in OnLinks' : LastOf(r.src, r.pkt)'  BY <1>1, <1>10 DEF Smooth
<1>12. \A s \in Sources : \A k \in DOMAIN size'[s] : LastOf(s, k)' \/ HandedUp(s, k)'
  BY <1>1, <1>10 DEF Smooth, HandedUp
<1>13. \A e \in In(list') : Growing(e)' /\ LastOfEntry(e)'  BY <1>8, <1>9
<1>. QED  BY <1>1, <1>5, <1>6, <1>11, <1>12, <1>13 DEF Smooth

(* With the last one the packet is handed up. *)
LEMMA HandedSmooth ==
  ASSUME ReassemblyInv, OrderInv, Smooth, faults = 0, Receive, ~Head(second).more,
         \A e \in In(list') : e \in In(list) /\ ~IsEntryOf(e, Head(second)),
         \A q \in Stored : \/ q \in Stored'
                           \/ q.src = Head(second).src /\ q.pkt = Head(second).pkt,
         Stored' \subseteq Stored, OneEach',
         \A ps \in In(delivered) : ps \in In(delivered'),
         \E ps \in In(delivered') : ps[1].src = Head(second).src /\ ps[1].pkt = Head(second).pkt
  PROVE  Smooth'
<1>. DEFINE p == Head(second)
<1>1. /\ p \in Twice /\ p \in Known /\ p \in OnLinks
      /\ In(second') \subseteq In(second) /\ Sorted(second', {}, FALSE)
      /\ OnLinks' \subseteq OnLinks
      /\ \A x \in OnLinks : x = p \/ x \in OnLinks'
      /\ \A r \in OnLinks' : InOrder(p, r, {})
      /\ UNCHANGED <<size, first, faults>>
  BY ArrivedSmooth
<1>2. Once' = Once /\ Twice' = Twice  BY <1>1, SameCuts
<1>3. /\ ~p.more
      /\ \A e \in In(list') : e \in In(list) /\ ~IsEntryOf(e, p)
      /\ \A q \in Stored : q \in Stored' \/ (q.src = p.src /\ q.pkt = p.pkt)
      /\ \E ps \in In(delivered') : ps[1].src = p.src /\ ps[1].pkt = p.pkt
  OBVIOUS
<1>. HIDE DEF p
<1>4. OnLinks \subseteq Known
  <2>1. /\ In(second) \subseteq Known /\ \A s \in Sources : In(first[s]) \subseteq Known
    BY AllKnown
  <2>. QED  BY <2>1 DEF OnLinks
<1>5. ASSUME NEW r \in OnLinks'  PROVE ~(r.src = p.src /\ r.pkt = p.pkt)
  <2>1. SUFFICES ASSUME r.src = p.src, r.pkt = p.pkt PROVE FALSE  OBVIOUS
  <2>2. r \in Known /\ InOrder(p, r, {}) /\ p.pkt \in Nat  BY <1>1, <1>4 DEF Known, Piece
  <2>3. Ends(p) <= r.off  BY <2>1, <2>2 DEF InOrder, InPlace
  <2>. QED  BY <1>1, <1>3, <2>1, <2>2, <2>3, NotTheLast
<1>6. /\ (\A s \in Sources : In(first[s]) \subseteq Once)'
      /\ (In(second) \subseteq Twice)' /\ (Stored \subseteq Twice)'
  BY <1>1, <1>2 DEF Smooth
<1>7. NoGap'
  <2>1. ASSUME NEW r \in OnLinks'
        PROVE  r.off = 0 \/ \E q \in OnLinks' \cup Stored' : Follows(q, r)
    <3>1. CASE r.off = 0  BY <3>1
    <3>2. CASE r.off # 0
      <4>1. PICK q \in OnLinks \cup Stored : Follows(q, r)
        BY <1>1, <3>2 DEF Smooth, NoGap
      <4>2. ~(q.src = p.src /\ q.pkt = p.pkt)  BY <1>5, <4>1 DEF Follows
      <4>3. q \in OnLinks' \cup Stored'  BY <1>1, <1>3, <4>1, <4>2
      <4>. QED  BY <4>1, <4>3
    <3>. QED  BY <3>1, <3>2
  <2>. QED  BY <2>1 DEF NoGap
<1>8. ASSUME NEW e \in In(list')  PROVE Growing(e)' /\ LastOfEntry(e)'
  <2>1. Growing(e) /\ LastOfEntry(e) /\ ~IsEntryOf(e, p)  BY <1>3 DEF Smooth
  <2>2. Growing(e)'  BY <1>1, <2>1 DEF Growing
  <2>. QED  BY <1>1, <2>1, <2>2 DEF LastOfEntry
<1>9. ASSUME NEW s, NEW k, LastOf(s, k), ~(s = p.src /\ k = p.pkt)  PROVE LastOf(s, k)'
  BY <1>1, <1>9 DEF LastOf
<1>10. \A r \in OnLinks' : LastOf(r.src, r.pkt)'  BY <1>1, <1>5, <1>9 DEF Smooth
<1>11. ASSUME NEW s \in Sources, NEW k \in DOMAIN size'[s]
       PROVE  LastOf(s, k)' \/ HandedUp(s, k)'
  <2>1. LastOf(s, k) \/ HandedUp(s, k)  BY <1>1 DEF Smooth
  <2>2. HandedUp(s, k) => HandedUp(s, k)'  BY DEF HandedUp
  <2>3. s = p.src /\ k = p.pkt => HandedUp(s, k)'  BY <1>3 DEF HandedUp
  <2>. QED  BY <1>9, <2>1, <2>2, <2>3
<1>. QED  BY <1>1, <1>6, <1>7, <1>8, <1>10, <1>11 DEF Smooth

(* One entry of each packet: in front of the list comes one of a packet    *)
(* that has none, *)
LEMMA OneInFront ==
  ASSUME list \in Seq(Held), NEW p, Entries(p) = {}, OneEach,
         NEW e \in Held, IsEntryOf(e, p), list' = <<e>> \o list
  PROVE  OneEach' /\ In(list') = {e} \cup In(list)
<1>. DEFINE n == Len(list)
            a == <<e>>
<1>1. n \in Nat /\ DOMAIN list = 1..n /\ a \in Seq(Held) /\ Len(a) = 1 /\ a[1] = e
  OBVIOUS
<1>2. list' = a \o list  OBVIOUS
<1>3. In(a) = {e}  BY SortedShort
<1>. HIDE DEF a, n
<1>4. In(a \o list) = In(a) \cup In(list)  BY ONLY <1>1, list \in Seq(Held), InConcat
<1>5. /\ Len(a \o list) = n + 1 /\ a \o list \in Seq(Held)
      /\ \A j \in 1..(n + 1) : (a \o list)[j] = IF j <= 1 THEN a[j] ELSE list[j - 1]
  <2>1. /\ Len(a \o list) = Len(a) + Len(list) /\ a \o list \in Seq(Held)
        /\ \A j \in 1..(Len(a) + Len(list)) :
              (a \o list)[j] = IF j <= Len(a) THEN a[j] ELSE list[j - Len(a)]
    BY ONLY <1>1, list \in Seq(Held), ConcatProperties
  <2>2. Len(a) + Len(list) = n + 1  BY <1>1 DEF n
  <2>. QED  BY <1>1, <2>1, <2>2
<1>6. /\ DOMAIN list' = 1..(n + 1) /\ list'[1] = e
      /\ \A j \in 1..(n + 1) : j # 1 => j - 1 \in 1..n /\ list'[j] = list[j - 1]
  BY <1>1, <1>2, <1>5
<1>7. ASSUME NEW j \in 1..n  PROVE ~IsEntryOf(list[j], e) /\ ~IsEntryOf(e, list[j])
  <2>1. ~IsEntryOf(list[j], p)  BY <1>1 DEF Entries
  <2>. QED  BY <2>1 DEF IsEntryOf
<1>8. ASSUME NEW i \in 1..(n + 1), NEW j \in 1..(n + 1), IsEntryOf(list'[i], list'[j])
      PROVE  i = j
  <2>1. CASE i = 1 \/ j = 1  BY <1>6, <1>7, <1>8, <2>1
  <2>2. CASE i # 1 /\ j # 1
    <3>1. /\ i - 1 \in 1..n /\ j - 1 \in 1..n
          /\ list'[i] = list[i - 1] /\ list'[j] = list[j - 1]
      BY <1>6, <2>2
    <3>2. i - 1 = j - 1  BY <1>1, <1>8, <3>1 DEF OneEach
    <3>. QED  BY <3>2
  <2>. QED  BY <2>1, <2>2
<1>9. OneEach'  BY <1>6, <1>8 DEF OneEach
<1>. QED  BY <1>2, <1>3, <1>4, <1>9

(* in the place of one comes one of the same packet, *)
LEMMA OneInPlace ==
  ASSUME list \in Seq(Held), NEW i \in 1..Len(list), OneEach,
         NEW f, f.id = list[i].id, f.src = list[i].src, list' = [list EXCEPT ![i] = f]
  PROVE  /\ OneEach'
         /\ f \in In(list') /\ \A x \in In(list') : x \in In(list) \/ x = f
         /\ \A x \in In(list) : x \in In(list') \/ x = list[i]
<1>. DEFINE n == Len(list)
<1>1. /\ n \in Nat /\ DOMAIN list = 1..n /\ DOMAIN list' = 1..n
      /\ list'[i] = f /\ \A j \in 1..n : j # i => list'[j] = list[j]
  OBVIOUS
<1>2. f \in In(list')  BY <1>1 DEF In
<1>3. \A x \in In(list') : x \in In(list) \/ x = f  BY InExcept
<1>4. ASSUME NEW x \in In(list), x # list[i]  PROVE x \in In(list')
  <2>1. PICK j \in 1..n : x = list[j]  BY <1>1 DEF In
  <2>2. j \in DOMAIN list' /\ list'[j] = x  BY <1>1, <1>4, <2>1
  <2>. QED  BY <2>2 DEF In
<1>5. \A j \in 1..n : list'[j].id = list[j].id /\ list'[j].src = list[j].src  BY <1>1
<1>. HIDE DEF n
<1>6. ASSUME NEW j \in DOMAIN list', NEW k \in DOMAIN list', IsEntryOf(list'[j], list'[k])
      PROVE  j = k
  <2>1. IsEntryOf(list[j], list[k])  BY <1>1, <1>5, <1>6 DEF IsEntryOf
  <2>. QED  BY <1>1, <2>1 DEF OneEach
<1>7. OneEach'  BY <1>6 DEF OneEach
<1>. QED  BY <1>2, <1>3, <1>4, <1>7

(* and without the entry of a packet none of it is left.                   *)
LEMMA OneLess ==
  ASSUME list \in Seq(Held), NEW p, NEW i \in 1..Len(list), IsEntryOf(list[i], p), OneEach,
         list' = Without(i)
  PROVE  /\ OneEach' /\ \A x \in In(list') : x \in In(list) /\ ~IsEntryOf(x, p)
         /\ \A x \in In(list) : x \in In(list') \/ x = list[i]
<1>. DEFINE n == Len(list)
            a == SubSeq(list, 1, i - 1)
            b == SubSeq(list, i + 1, n)
<1>1. /\ a \in Seq(Held) /\ Len(a) = i - 1 /\ \A j \in 1..(i - 1) : a[j] = list[j]
      /\ DOMAIN list = 1..n /\ n \in Nat
  OBVIOUS
<1>2. /\ b \in Seq(Held) /\ Len(b) = n - i /\ \A j \in 1..(n - i) : b[j] = list[i + j]
  OBVIOUS
<1>3. list' = a \o b  BY DEF Without
<1>4. i \in 1..n  OBVIOUS
<1>. HIDE DEF a, b, n
<1>5. /\ Len(a \o b) = n - 1 /\ a \o b \in Seq(Held)
      /\ \A j \in 1..(n - 1) : (a \o b)[j] = IF j <= i - 1 THEN a[j] ELSE b[j - (i - 1)]
  <2>1. Len(a) + Len(b) = n - 1  BY <1>1, <1>2, <1>4
  <2>2. /\ Len(a \o b) = Len(a) + Len(b) /\ a \o b \in Seq(Held)
        /\ \A j \in 1..(Len(a) + Len(b)) :
              (a \o b)[j] = IF j <= Len(a) THEN a[j] ELSE b[j - Len(a)]
    BY ONLY <1>1, <1>2, ConcatProperties
  <2>. QED  BY <1>1, <2>1, <2>2
<1>6. DOMAIN list' = 1..(n - 1)  BY <1>1, <1>3, <1>5
<1>. DEFINE At(j) == IF j < i THEN j ELSE j + 1
<1>7. ASSUME NEW j \in 1..(n - 1)
      PROVE  At(j) \in 1..n /\ At(j) # i /\ list'[j] = list[At(j)]
  <2>1. CASE j < i
    <3>1. j \in 1..(i - 1) /\ j <= i - 1 /\ At(j) = j  BY <1>1, <1>4, <2>1
    <3>2. list'[j] = list[j]  BY <1>1, <1>3, <1>5, <3>1
    <3>. QED  BY <1>1, <1>4, <2>1, <3>1, <3>2
  <2>2. CASE ~(j < i)
    <3>1. j - (i - 1) \in 1..(n - i) /\ ~(j <= i - 1) /\ i + (j - (i - 1)) = j + 1
      BY <1>1, <1>4, <2>2
    <3>2. list'[j] = list[j + 1]  BY <1>2, <1>3, <1>5, <3>1
    <3>. QED  BY <1>1, <1>4, <2>2, <3>2
  <2>. QED  BY <2>1, <2>2
<1>8. ASSUME NEW j \in 1..(n - 1), NEW k \in 1..(n - 1), At(j) = At(k)  PROVE j = k
  BY <1>1, <1>4, <1>8
<1>. HIDE DEF At
<1>9. OneEach'
  <2>1. ASSUME NEW j \in 1..(n - 1), NEW k \in 1..(n - 1), IsEntryOf(list'[j], list'[k])
        PROVE  j = k
    <3>1. At(j) = At(k)  BY <1>1, <1>7, <2>1 DEF OneEach
    <3>. QED  BY <1>8, <3>1
  <2>. QED  BY <1>6, <2>1 DEF OneEach
<1>10. ASSUME NEW x \in In(list')  PROVE x \in In(list) /\ ~IsEntryOf(x, p)
  <2>1. PICK j \in 1..(n - 1) : x = list'[j]  BY <1>6 DEF In
  <2>2. At(j) \in DOMAIN list /\ At(j) # i /\ x = list[At(j)]  BY <1>1, <1>7, <2>1
  <2>3. x \in In(list)  BY <2>2 DEF In
  <2>4. IsEntryOf(x, p) => IsEntryOf(x, list[i])  BY DEF IsEntryOf
  <2>. QED  BY <1>1, <1>4, <2>2, <2>3, <2>4 DEF OneEach
<1>11. ASSUME NEW x \in In(list), x # list[i]  PROVE x \in In(list')
  <2>1. PICK k \in 1..n : x = list[k]  BY <1>1 DEF In
  <2>2. CASE k < i
    <3>1. k \in 1..(n - 1) /\ At(k) = k  BY <1>1, <1>4, <2>1, <2>2 DEF At
    <3>. QED  BY <1>6, <1>7, <2>1, <3>1 DEF In
  <2>3. CASE ~(k < i)
    <3>1. k # i  BY <1>11, <2>1
    <3>2. k - 1 \in 1..(n - 1) /\ At(k - 1) = k  BY <1>1, <1>4, <2>1, <2>3, <3>1 DEF At
    <3>. QED  BY <1>6, <1>7, <2>1, <3>2 DEF In
  <2>. QED  BY <2>2, <2>3
<1>. QED  BY <1>9, <1>10, <1>11

(* What is handed up is there. *)
LEMMA HandUpAdds ==
  ASSUME ReassemblyInv, NEW f \in Held, ~f.ring, NEW rest, HandUp(f, rest)
  PROVE  /\ list' = rest /\ recv' = recv
         /\ f.offs \in In(delivered') /\ \A ps \in In(delivered) : ps \in In(delivered')
<1>1. delivered' = Append(delivered, f.offs) /\ list' = rest /\ recv' = recv
  BY DEF HandUp
<1>2. delivered \in Seq(Handed) /\ f.offs \in Handed
  <2>1. f.offs \in Handed  BY HeldHanded
  <2>. QED  BY <2>1, AllKnown
<1>. DEFINE ps == f.offs
            a == <<ps>>
<1>3. delivered' = delivered \o a  BY <1>1, <1>2, AppendIsConcat
<1>4. a \in Seq(Handed)  BY <1>2
<1>5. In(a) = {ps}  BY SortedShort
<1>. HIDE DEF a, ps
<1>6. In(delivered \o a) = In(delivered) \cup In(a)  BY ONLY <1>2, <1>4, InConcat
<1>. QED  BY <1>1, <1>3, <1>5, <1>6 DEF ps

(* The entry of the first piece of a packet has all bytes so far.          *)
LEMMA NewGrowing ==
  ASSUME NEW p \in Known, p.off = 0
  PROVE  LET e == NewEntry(p)
         IN  /\ e \in Held /\ ~e.ring /\ In(e.offs) = {p} /\ e.offs[1] = p
             /\ e.count = Ends(e.offs[Len(e.offs)]) /\ IsEntryOf(e, p)
             /\ e.total = (IF p.more THEN 0 ELSE e.count) /\ e.count # 0
<1>. DEFINE e == NewEntry(p)
<1>1. p \in Piece /\ p.size >= 1  BY DEF Known
<1>2. p.off \in Nat /\ p.size \in Nat /\ Ends(p) = p.off + p.size
  BY <1>1, NumbersOf
<1>3. /\ e.offs = <<p>> /\ e.count = p.size /\ e.id = p.id /\ e.src = p.src
      /\ e.total = IF islastfrag(p) THEN Ends(p) ELSE 0
  BY DEF NewEntry
<1>4. e \in Held /\ ~e.ring /\ In(e.offs) = {p} /\ e.offs[Len(e.offs)] = p
  BY NewHeld, NewTallied
<1>. HIDE DEF e
<1>5. e.offs[1] = p  BY <1>3
<1>6. e.count = Ends(p) /\ e.count # 0  BY <1>1, <1>2, <1>3
<1>7. e.total = (IF p.more THEN 0 ELSE e.count)  BY <1>3, <1>6 DEF islastfrag
<1>. QED  BY <1>3, <1>4, <1>5, <1>6, <1>7 DEF IsEntryOf, e

LEMMA NewSmooth ==
  ASSUME MaxPackets <= ID_MODULUS, ReassemblyInv, OrderInv, Smooth, faults = 0, Receive,
         Head(second).more, Entries(Head(second)) = {},
         list' = <<NewEntry(Head(second))>> \o list, delivered' = delivered
  PROVE  Smooth'
<1>. DEFINE p == Head(second)
            e == NewEntry(p)
<1>1. p \in Known  BY ArrivedSmooth
<1>2. p.off = 0  BY NextOfPacket
<1>3. /\ e \in Held /\ ~e.ring /\ In(e.offs) = {p} /\ IsEntryOf(e, p)
      /\ e.count = Ends(e.offs[Len(e.offs)]) /\ e.total = 0
  BY <1>1, <1>2, NewGrowing
<1>4. list \in Seq(Held) /\ OneEach  BY AllKnown DEF Smooth
<1>5. p.more /\ Entries(p) = {} /\ list' = <<e>> \o list  OBVIOUS
<1>. HIDE DEF e, p
<1>6. OneEach' /\ In(list') = {e} \cup In(list)  BY <1>3, <1>4, <1>5, OneInFront
<1>7. Stored' = Stored \cup {p}  BY <1>3, <1>6 DEF Stored
<1>. QED  BY <1>3, <1>5, <1>6, <1>7, KeptSmooth DEF p

LEMMA ReceiveFirstSmooth ==
  ASSUME MaxPackets <= ID_MODULUS, ReassemblyInv, OrderInv, Smooth, faults = 0, ReceiveFirst
  PROVE  Smooth' /\ recv' = recv
<1>. DEFINE p == Head(second)
            e == NewEntry(p)
<1>1. Receive /\ list = <<>>  BY DEF ReceiveFirst
<1>2. p \in Known  BY <1>1, ArrivedSmooth
<1>3. Entries(p) = {} /\ Stored = {} /\ In(list) = {}
  <2>1. DOMAIN list = {}  BY <1>1
  <2>2. Entries(p) = {}  BY <2>1 DEF Entries
  <2>3. In(list) = {}  BY <1>1, SortedShort
  <2>. QED  BY <2>2, <2>3 DEF Stored
<1>4. p.off = 0  BY <1>1, <1>3, NextOfPacket
<1>5. /\ e \in Held /\ ~e.ring /\ e.offs[1] = p
      /\ e.total = (IF p.more THEN 0 ELSE e.count) /\ e.count # 0
  BY <1>2, <1>4, NewGrowing
<1>6. IF e.total = e.count THEN HandUp(e, <<>>)
      ELSE list' = <<e>> /\ UNCHANGED <<delivered, recv>>
  BY DEF ReceiveFirst
<1>7. CASE p.more
  <2>1. list' = <<e>> /\ UNCHANGED <<delivered, recv>>  BY <1>5, <1>6, <1>7
  <2>2. <<e>> \o <<>> = <<e>>
    <3>1. <<e>> \in Seq(Held)  BY <1>5
    <3>. HIDE DEF e
    <3>. QED  BY ONLY <3>1, ConcatEmptySeq
  <2>. QED  BY <1>1, <1>3, <1>7, <2>1, <2>2, NewSmooth
<1>8. CASE ~p.more
  <2>. HIDE DEF e
  <2>1. HandUp(e, <<>>)  BY <1>5, <1>6, <1>8
  <2>2. /\ list' = <<>> /\ recv' = recv
        /\ e.offs \in In(delivered') /\ \A ps \in In(delivered) : ps \in In(delivered')
    BY <1>5, <2>1, HandUpAdds
  <2>3. In(list') = {} /\ Stored' = {} /\ OneEach'
    <3>1. In(list') = {}  BY <2>2, SortedShort
    <3>2. DOMAIN list' = {}  BY <2>2
    <3>. QED  BY <3>1, <3>2 DEF Stored, OneEach
  <2>4. \E ps \in In(delivered') : ps[1].src = p.src /\ ps[1].pkt = p.pkt
    BY <1>5, <2>2
  <2>. QED  BY <1>1, <1>3, <1>8, <2>2, <2>3, <2>4, HandedSmooth DEF p
<1>. QED  BY <1>7, <1>8

LEMMA ReceiveNewSmooth ==
  ASSUME MaxPackets <= ID_MODULUS, ReassemblyInv, OrderInv, Smooth, faults = 0, ReceiveNew
  PROVE  \/ Smooth' /\ recv' = recv
         \/ ~Head(second).more /\ recv' = "crashed"
<1>1. Receive /\ Entries(Head(second)) = {}  BY DEF ReceiveNew
<1>2. CASE Head(second).more
  <2>1. list' = <<NewEntry(Head(second))>> \o list /\ UNCHANGED <<delivered, recv>>
    BY <1>2 DEF ReceiveNew, islastfrag
  <2>. QED  BY <1>1, <1>2, <2>1, NewSmooth
<1>3. CASE ~Head(second).more  BY <1>3 DEF ReceiveNew, islastfrag
<1>. QED  BY <1>2, <1>3

LEMMA ReceiveMoreSmooth ==
  ASSUME MaxPackets <= ID_MODULUS, ReassemblyInv, OrderInv, Smooth, faults = 0, ReceiveMore
  PROVE  Smooth' /\ recv' = recv
<1>. DEFINE p == Head(second)
            i == Entry(p)
            e == list[i]
            f == Counted([e EXCEPT !.offs = Append(@, p)], p)
<1>1. Receive /\ Entries(p) # {}  BY DEF ReceiveMore
<1>2. p \in Known /\ p \in Twice /\ p \in Piece /\ p.size >= 1
  <2>1. p \in Known /\ p \in Twice  BY <1>1, ArrivedSmooth
  <2>. QED  BY <2>1 DEF Known
<1>3. i \in 1..Len(list) /\ e \in Held /\ IsEntryOf(e, p)  BY <1>1, <1>2, EntryFound
<1>4. list \in Seq(Held) /\ OneEach  BY AllKnown DEF Smooth
<1>5. e \in In(list)  BY <1>3, <1>4 DEF In
<1>6. /\ Ends(e.offs[Len(e.offs)]) = p.off
      /\ \A q \in In(e.offs) : q.src = p.src /\ q.pkt = p.pkt /\ Ends(q) <= p.off
  BY <1>1, NextOfPacket
<1>7. Growing(e) /\ In(e.offs) \subseteq Twice
  <2>1. Growing(e) /\ Stored \subseteq Twice  BY <1>5 DEF Smooth
  <2>2. In(e.offs) \subseteq Stored  BY <1>5 DEF Stored
  <2>. QED  BY <2>1, <2>2
<1>8. ~e.ring /\ e.count = p.off /\ e.total = 0  BY <1>6, <1>7 DEF Growing
<1>9. Tallied(e)  BY <1>5, <1>8, NoneDisordered
<1>10. p.off \in Nat /\ p.size \in Nat /\ Ends(p) = p.off + p.size  BY <1>2, NumbersOf
<1>. DEFINE Kept == list' = [list EXCEPT ![i] = f] /\ UNCHANGED <<delivered, recv>>
<1>11. IF f.total = f.count THEN HandUp(f, Without(i)) ELSE Kept
  <2>1. AddOutcome(e, p) = "append"
    <3>. HIDE DEF e, p
    <3>. QED  BY <1>2, <1>3, <1>6, <1>7, <1>8, <1>9, NoMatch
  <2>. QED  BY <2>1 DEF ReceiveMore
<1>12. /\ f.ring = e.ring /\ f.count = e.count + p.size /\ f.id = e.id /\ f.src = e.src
       /\ f.total = IF islastfrag(p) THEN Ends(p) ELSE e.total
  <2>1. [e EXCEPT !.offs = Append(@, p)] = [e EXCEPT !.offs = Append(e.offs, p)]  OBVIOUS
  <2>2. e \in EntryType  BY <1>3 DEF Held
  <2>. QED  BY <2>1, <2>2 DEF Counted, EntryType
<1>13. f \in Held
  <2>1. p \in Alike(e)  BY <1>2, <1>3 DEF Alike, IsEntryOf
  <2>. QED  BY <1>2, <1>3, <2>1, AppendHeld, CountedHeld
<1>14. In(f.offs) = In(e.offs) \cup {p} /\ f.offs[Len(f.offs)] = p
  <2>. HIDE DEF e, p
  <2>. QED  BY <1>2, <1>3, <1>6, <1>8, <1>9, AppendTallied
<1>. HIDE DEF p, i, e, f
<1>15. ~f.ring /\ f.count = Ends(p) /\ f.count # 0
       /\ f.total = (IF p.more THEN 0 ELSE f.count)
  BY <1>2, <1>8, <1>10, <1>12 DEF islastfrag
<1>16. e = list[i]  BY DEF e
<1>17. CASE p.more
  <2>1. Kept  BY <1>11, <1>15, <1>17
  <2>2. /\ OneEach'
        /\ f \in In(list') /\ \A x \in In(list') : x \in In(list) \/ x = f
        /\ \A x \in In(list) : x \in In(list') \/ x = e
    BY <1>3, <1>4, <1>12, <1>16, <2>1, OneInPlace
  <2>3. Stored' = Stored \cup {p}
    <3>1. \A q \in Stored' : q \in Stored \cup {p}  BY <1>5, <1>14, <2>2 DEF Stored
    <3>2. \A q \in Stored : q \in Stored'  BY <1>14, <2>2 DEF Stored
    <3>3. p \in Stored'  BY <1>14, <2>2 DEF Stored
    <3>. QED  BY <3>1, <3>2, <3>3
  <2>4. IsEntryOf(f, p)  BY <1>3, <1>12 DEF IsEntryOf
  <2>5. \A q \in In(f.offs) : q = p \/ \E x \in In(list) : q \in In(x.offs)
    BY <1>5, <1>14
  <2>6. f.count = Ends(f.offs[Len(f.offs)]) /\ f.total = 0 /\ ~f.ring
    BY <1>14, <1>15, <1>17
  <2>. QED  BY <1>1, <1>17, <2>1, <2>2, <2>3, <2>4, <2>5, <2>6, KeptSmooth DEF p
<1>18. CASE ~p.more
  <2>1. HandUp(f, Without(i))  BY <1>11, <1>15, <1>18
  <2>2. /\ list' = Without(i) /\ recv' = recv
        /\ f.offs \in In(delivered') /\ \A ps \in In(delivered) : ps \in In(delivered')
    BY <1>13, <1>15, <2>1, HandUpAdds
  <2>3. /\ OneEach' /\ \A x \in In(list') : x \in In(list) /\ ~IsEntryOf(x, p)
        /\ \A x \in In(list) : x \in In(list') \/ x = e
    BY <1>3, <1>4, <1>16, <2>2, OneLess
  <2>4. Stored' \subseteq Stored  BY <2>3 DEF Stored
  <2>5. \A q \in Stored : q \in Stored' \/ (q.src = p.src /\ q.pkt = p.pkt)
    BY <1>6, <2>3 DEF Stored
  <2>6. f.offs[1].src = p.src /\ f.offs[1].pkt = p.pkt
    <3>1. f.offs \in Seq(Known) /\ f.offs # <<>>  BY <1>13, AllKnown
    <3>2. f.offs[1] \in In(f.offs)
      <4>1. 1 \in DOMAIN f.offs  BY <3>1
      <4>. QED  BY <4>1 DEF In
    <3>. QED  BY <1>6, <1>14, <3>2
  <2>7. \E ps \in In(delivered') : ps[1].src = p.src /\ ps[1].pkt = p.pkt
    BY <2>2, <2>6
  <2>. QED  BY <1>1, <1>18, <2>2, <2>3, <2>4, <2>5, <2>7, HandedSmooth DEF p
<1>. QED  BY <1>17, <1>18

(* A fault is remembered, and a thread that has stopped does not go on.    *)
LEMMA NextSmooth ==
  ASSUME MaxPackets <= ID_MODULUS, NothingRefused, ReassemblyInv, OrderInv, SmoothInv, [Next]_vars
  PROVE  SmoothInv'
<1>. SUFFICES ASSUME faults' = 0, recv' = "runs" PROVE Smooth'  BY DEF SmoothInv
<1>1. CASE UNCHANGED vars
  <2>1. Smooth  BY <1>1 DEF vars, SmoothInv
  <2>2. OnLinks' = OnLinks /\ Stored' = Stored  BY <1>1 DEF vars, OnLinks, Stored
  <2>3. Once' = Once /\ Twice' = Twice  BY <1>1, SameCuts DEF vars
  <2>4. NoGap'  BY <2>1, <2>2 DEF Smooth, NoGap
  <2>5. OneEach'  BY <1>1, <2>1 DEF vars, Smooth, OneEach
  <2>6. \A x \in In(list) : Growing(x)' /\ LastOfEntry(x)'
    BY <1>1, <2>1, <2>2 DEF vars, Smooth, Growing, LastOfEntry
  <2>7. /\ \A r \in OnLinks : LastOf(r.src, r.pkt)'
        /\ \A s \in Sources : \A k \in DOMAIN size[s] : LastOf(s, k)' \/ HandedUp(s, k)'
    BY <1>1, <2>1, <2>2 DEF vars, Smooth, LastOf, HandedUp
  <2>. QED  BY <1>1, <2>1, <2>2, <2>3, <2>4, <2>5, <2>6, <2>7 DEF vars, Smooth
<1>2. CASE Next
  <2>1. ~NetworkFaults
    <3>1. faults \in Nat  BY DEF ReassemblyInv, TypeOK
    <3>. QED  BY <3>1, FaultForm
  <2>2. CASE \E s \in Sources : \E n \in Sizes : SendPacket(s, n)
    <3>1. faults = 0 /\ recv = "runs"  BY <2>2 DEF SendPacket
    <3>. QED  BY <2>2, <3>1, SendSmooth DEF SmoothInv
  <2>3. CASE \E s \in Sources : Forward(s)
    <3>1. faults = 0 /\ recv = "runs"  BY <2>3 DEF Forward
    <3>. QED  BY <2>3, <3>1, ForwardSmooth DEF SmoothInv
  <2>4. CASE Destination
    <3>1. Receive  BY <2>4 DEF Destination, ReceiveFirst, ReceiveNew, ReceiveMore
    <3>2. faults = 0 /\ recv = "runs"  BY <3>1 DEF Receive
    <3>3. Smooth  BY <3>2 DEF SmoothInv
    <3>4. CASE ReceiveFirst  BY <3>2, <3>3, <3>4, ReceiveFirstSmooth
    <3>5. CASE ReceiveNew  BY <3>2, <3>3, <3>5, ReceiveNewSmooth
    <3>6. CASE ReceiveMore  BY <3>2, <3>3, <3>6, ReceiveMoreSmooth
    <3>. QED  BY <2>4, <3>4, <3>5, <3>6 DEF Destination
  <2>. QED  BY <1>2, <2>1, <2>2, <2>3, <2>4 DEF Next, NetworkFaults
<1>. QED  BY <1>1, <1>2

(* What comes whole was not cut at its source. *)
LEMMA WholeNotCut ==
  ASSUME ReassemblyInv, NEW p \in Twice, p.off = 0, ~p.more
  PROVE  ~WasCut(size[p.src][p.pkt])
<1>. DEFINE whole == Packet(p.src, p.pkt)
            n == size[p.src][p.pkt]
            f == FragSize(FirstMtu)
<1>1. p \in Known /\ p \in Piece /\ p \in CutTwice(whole)  BY DEF Twice, Known
<1>2. whole \in Piece /\ whole.off = 0 /\ whole.size >= 1 /\ whole.size = n
  BY <1>1, PacketPiece
<1>3. n \in Nat /\ Ends(p) <= n /\ ~(Ends(p) < n)  BY <1>1, SizeOf DEF Known
<1>4. FirstMtu \in Nat /\ FirstMtu >= NET_HEADER_SIZE + 8
      /\ SecondMtu \in Nat /\ SecondMtu >= NET_HEADER_SIZE + 8
  BY ReassemblyAssumption
<1>5. f \in Nat /\ f + NET_HEADER_SIZE <= FirstMtu
  BY <1>4, FragPositive DEF FragSize, NET_HEADER_SIZE
<1>6. PICK g \in CutOnce(whole) : p \in In(fragpack(g, SecondMtu))  BY <1>1 DEF CutTwice
<1>7. g \in PiecesOf(whole)  BY <1>2, <1>4, CutChain DEF CutOnce
<1>8. g \in Piece /\ g.size >= 1 /\ Ends(g) <= Ends(whole)  BY <1>7 DEF PiecesOf
<1>9. p \in PiecesOf(g)  BY <1>4, <1>6, <1>8, CutChain
<1>10. g.off <= p.off /\ Ends(p) <= Ends(g)  BY <1>9 DEF PiecesOf
<1>11. /\ g.off \in Nat /\ g.size \in Nat /\ Ends(g) = g.off + g.size
       /\ Ends(p) \in Nat /\ Ends(whole) = n
  BY <1>1, <1>2, <1>3, <1>8, NumbersOf
<1>12. whole.size + NET_HEADER_SIZE > FirstMtu => g.size <= f
  <2>. HIDE DEF whole
  <2>1. g \in In(fragpack(whole, FirstMtu))  BY <1>6 DEF CutOnce
  <2>2. \/ whole.size + NET_HEADER_SIZE > FirstMtu /\ g.size <= f
        \/ whole.size + NET_HEADER_SIZE <= FirstMtu
    BY <1>2, <1>4, <2>1, CutGrid
  <2>3. whole.size \in Nat  BY <1>2, NumbersOf
  <2>. HIDE DEF f
  <2>. QED  BY <1>4, <2>2, <2>3 DEF NET_HEADER_SIZE
<1>. HIDE DEF whole, n, f
<1>13. g.size = n  BY <1>3, <1>8, <1>10, <1>11
<1>14. ~(n + NET_HEADER_SIZE > FirstMtu)
  BY <1>2, <1>3, <1>4, <1>5, <1>11, <1>12, <1>13 DEF NET_HEADER_SIZE
<1>. QED  BY <1>14 DEF WasCut, n

(* All packets sent so far were cut at their source. *)
AllCut == \A s \in Sources : \A k \in DOMAIN size[s] : WasCut(size[s][k])

LEMMA NextRuns ==
  ASSUME MaxPackets <= ID_MODULUS, ReassemblyInv, OrderInv, SmoothInv, NeverStops, [Next]_vars
  PROVE  NeverStops'
<1>. SUFFICES ASSUME faults' = 0, AllCut' PROVE recv' = "runs"
  BY DEF NeverStops, AllCut
<1>1. faults = 0 /\ AllCut => recv = "runs"  BY DEF NeverStops, AllCut
<1>2. CASE UNCHANGED vars
  <2>1. AllCut  BY <1>2 DEF vars, AllCut
  <2>. QED  BY <1>1, <1>2, <2>1 DEF vars
<1>3. CASE Next
  <2>1. ~NetworkFaults
    <3>1. faults \in Nat  BY DEF ReassemblyInv, TypeOK
    <3>. QED  BY <3>1, FaultForm
  <2>2. ASSUME NEW s \in Sources, NEW n \in Sizes, SendPacket(s, n)  PROVE recv' = "runs"
    <3>1. size' = [size EXCEPT ![s] = Append(@, n)] /\ UNCHANGED <<recv, faults>>
      BY <2>2 DEF SendPacket
    <3>2. size \in [Sources -> Seq(Sizes)]  BY DEF ReassemblyInv, TypeOK
    <3>3. AllCut
      <4>1. SUFFICES ASSUME NEW t \in Sources, NEW k \in DOMAIN size[t]
                     PROVE  WasCut(size[t][k])
        BY DEF AllCut
      <4>2. size[t] \in Seq(Sizes) /\ size[s] \in Seq(Sizes)  BY <3>2
      <4>3. k \in DOMAIN size'[t] /\ size'[t][k] = size[t][k]
        <5>1. CASE t = s
          <6>1. size'[s] = Append(size[s], n)  BY <3>1, <3>2
          <6>. QED  BY <4>2, <5>1, <6>1
        <5>2. CASE t # s  BY <3>1, <3>2, <5>2
        <5>. QED  BY <5>1, <5>2
      <4>4. WasCut(size'[t][k])  BY <4>3 DEF AllCut, WasCut
      <4>. QED  BY <4>3, <4>4
    <3>. QED  BY <1>1, <3>1, <3>3
  <2>3. ASSUME NEW s \in Sources, Forward(s)  PROVE recv' = "runs"
    <3>1. UNCHANGED <<size, recv, faults>>  BY <2>3 DEF Forward
    <3>2. AllCut  BY <3>1 DEF AllCut
    <3>. QED  BY <1>1, <3>1, <3>2
  <2>4. CASE Destination
    <3>1. Receive  BY <2>4 DEF Destination, ReceiveFirst, ReceiveNew, ReceiveMore
    <3>2. faults = 0 /\ recv = "runs" /\ size' = size  BY <3>1 DEF Receive
    <3>3. Smooth /\ AllCut  BY <3>2 DEF SmoothInv, AllCut
    <3>4. CASE ReceiveFirst  BY <3>2, <3>3, <3>4, ReceiveFirstSmooth
    <3>5. CASE ReceiveMore  BY <3>2, <3>3, <3>5, ReceiveMoreSmooth
    <3>6. CASE ReceiveNew
      <4>. DEFINE p == Head(second)
      <4>1. ASSUME ~p.more  PROVE FALSE
        <5>1. p \in Twice /\ p \in Known  BY <3>1, <3>2, <3>3, ArrivedSmooth
        <5>2. p.off = 0
          <6>1. Entries(p) = {}  BY <3>6 DEF ReceiveNew
          <6>. QED  BY <3>1, <3>2, <3>3, <6>1, NextOfPacket
        <5>3. p.src \in Sources /\ p.pkt \in 1..Len(size[p.src])
          BY <5>1 DEF Known, Piece
        <5>4. size[p.src] \in Seq(Sizes)  BY <5>3 DEF ReassemblyInv, TypeOK
        <5>5. WasCut(size[p.src][p.pkt])  BY <3>3, <5>3, <5>4 DEF AllCut
        <5>. QED  BY <4>1, <5>1, <5>2, <5>5, WholeNotCut
      <4>. QED  BY <3>2, <3>3, <3>6, <4>1, ReceiveNewSmooth
    <3>. QED  BY <2>4, <3>4, <3>5, <3>6 DEF Destination
  <2>. QED  BY <1>3, <2>1, <2>2, <2>3, <2>4 DEF Next, NetworkFaults
<1>. QED  BY <1>2, <1>3

(* Without a fault the pieces of a packet come in order and without a gap, *)
(* each is put behind the ones before it, however often it was cut and     *)
(* whatever comes between them, and the last one completes it.             *)
THEOREM SmoothKept ==
  ASSUME MaxPackets <= ID_MODULUS, NothingRefused  PROVE Spec => []SmoothInv
<1>1. ReassemblyInv /\ OrderInv /\ SmoothInv /\ [Next]_vars => SmoothInv'  BY NextSmooth
<1>. QED  BY <1>1, InitSmooth, PiecesKeepOrigin, OrderKept, PTL DEF Spec

(* The thread survives them, if every packet was cut at its source: one    *)
(* that comes whole between the pieces of another makes initpacklst store  *)
(* through a NULL pointer.                                                 *)
THEOREM DestinationRuns ==
  ASSUME MaxPackets <= ID_MODULUS, NothingRefused  PROVE Spec => []NeverStops
<1>1. Init => NeverStops  BY DEF Init, NeverStops
<1>2. ReassemblyInv /\ OrderInv /\ SmoothInv /\ NeverStops /\ [Next]_vars => NeverStops'
  BY NextRuns
<1>. QED  BY <1>1, <1>2, PiecesKeepOrigin, OrderKept, SmoothKept, PTL DEF Spec

(* When the links are empty every packet has been handed up and no entry   *)
(* of the list waits for more.                                             *)
THEOREM NothingLeftBehind ==
  ASSUME MaxPackets <= ID_MODULUS, NothingRefused  PROVE Spec => []AllHandedUp
<1>1. ASSUME ReassemblyInv, SmoothInv  PROVE AllHandedUp
  <2>1. SUFFICES ASSUME faults = 0, recv = "runs", second = <<>>,
                        \A s \in Sources : first[s] = <<>>
                 PROVE  /\ list = <<>>
                        /\ \A s \in Sources : \A k \in DOMAIN size[s] :
                              \E i \in DOMAIN delivered :
                                 delivered[i][1].src = s /\ delivered[i][1].pkt = k
    BY DEF AllHandedUp
  <2>2. Smooth  BY <1>1, <2>1 DEF SmoothInv
  <2>3. OnLinks = {}
    <3>1. In(<<>>) = {}  BY SortedShort
    <3>2. In(second) = {} /\ \A s \in Sources : In(first[s]) = {}  BY <2>1, <3>1
    <3>3. \A r \in OnLinks : FALSE  BY <3>2 DEF OnLinks
    <3>. QED  BY <3>3
  <2>4. list = <<>>
    <3>1. list \in Seq(Held)  BY <1>1, AllKnown
    <3>2. list # <<>> => Head(list) \in In(list)  BY <3>1, InSeq
    <3>. QED  BY <2>2, <2>3, <3>2 DEF Smooth, LastOfEntry
  <2>5. ASSUME NEW s \in Sources, NEW k \in DOMAIN size[s]
        PROVE  \E i \in DOMAIN delivered :
                  delivered[i][1].src = s /\ delivered[i][1].pkt = k
    <3>1. HandedUp(s, k)  BY <2>2, <2>3 DEF Smooth, LastOf
    <3>. QED  BY <3>1 DEF HandedUp, In
  <2>. QED  BY <2>4, <2>5
<1>. QED  BY <1>1, PiecesKeepOrigin, SmoothKept, PTL

-----------------------------------------------------------------------------
(* When nothing is refused: the data that a link can carry are no multiple *)
(* of 8 bytes, so that no piece fills it, no packet and no end of a packet *)
(* fills it either, and the largest MTU leaves room for the link's header  *)
(* and checksum.                                                           *)
LeavesRoom(mtu) ==
    /\ (mtu - NET_HEADER_SIZE) % 8 # 0
    /\ MaxMtu >= mtu + LINK_HEADER_SIZE + CHECKSUM_SIZE - 1

LEMMA AllSent ==
  ASSUME NEW p \in Piece, p.size >= 1, NEW mtu \in Nat, mtu >= NET_HEADER_SIZE + 8,
         LeavesRoom(mtu), p.size + NET_HEADER_SIZE # mtu
  PROVE  Sent(p, mtu) = fragpack(p, mtu)
<1>. DEFINE f == FragSize(mtu)
            g == fragpack(p, mtu)[1]
<1>1. p.size \in Nat /\ MaxMtu \in Nat  BY NumbersOf, ReassemblyAssumption
<1>2. (mtu - 20) % 8 # 0 /\ MaxMtu >= mtu + 11
  BY <1>1 DEF LeavesRoom, NET_HEADER_SIZE, LINK_HEADER_SIZE, CHECKSUM_SIZE
<1>3. f \in Nat /\ f + 20 < mtu
  <2>. DEFINE m == mtu - 20
  <2>1. f = 8 * (m \div 8) /\ m \in Nat /\ m % 8 # 0
    BY <1>2 DEF FragSize, NET_HEADER_SIZE
  <2>. HIDE DEF m, f
  <2>2. m \div 8 \in Nat /\ 8 * (m \div 8) < m  BY <2>1
  <2>3. f \in Nat /\ f < m  BY <2>1, <2>2
  <2>. QED  BY <2>3 DEF m
<1>4. g.size \in Nat /\ g.size + 20 < mtu
  <2>1. CASE p.size + NET_HEADER_SIZE <= mtu
    <3>1. g = p  BY <2>1 DEF fragpack
    <3>. QED  BY <1>1, <2>1, <3>1 DEF NET_HEADER_SIZE
  <2>2. CASE ~(p.size + NET_HEADER_SIZE <= mtu)
    <3>. DEFINE n == (p.size + f - 1) \div f
                ps == Pieces(p, mtu)
    <3>1. /\ n \in Nat /\ n >= 1 /\ ps \in Seq(PiecesOf(p)) /\ Len(ps) = n
          /\ \A i \in 1..n : ps[i].size <= f
      BY CutForm
    <3>2. g = ps[1]  BY <2>2 DEF fragpack
    <3>. HIDE DEF ps, n, f, g
    <3>3. 1 \in 1..n /\ ps[1] \in PiecesOf(p)  BY <3>1
    <3>4. ps[1] \in Piece /\ ps[1].size <= f  BY <3>1, <3>3 DEF PiecesOf
    <3>5. ps[1].size \in Nat  BY <3>4, NumbersOf
    <3>. QED  BY <1>3, <3>2, <3>4, <3>5
  <2>. QED  BY <2>1, <2>2
<1>. HIDE DEF f, g
<1>5. Fits(g, mtu)
  BY <1>1, <1>2, <1>4
  DEF Fits, FitsMtu, FitsBuffer, NET_HEADER_SIZE, LINK_HEADER_SIZE, CHECKSUM_SIZE
<1>. QED  BY <1>5 DEF Sent, g

THEOREM PiecesFit ==
  ASSUME LeavesRoom(FirstMtu), LeavesRoom(SecondMtu),
         \A n \in Sizes : /\ n + NET_HEADER_SIZE # FirstMtu
                          /\ n % 8 # (SecondMtu - NET_HEADER_SIZE) % 8
  PROVE  NothingRefused
<1>. SUFFICES ASSUME NEW p \in Piece, Whole(p)
              PROVE  /\ Sent(p, FirstMtu) = fragpack(p, FirstMtu)
                     /\ \A g \in CutOnce(p) : Sent(g, SecondMtu) = fragpack(g, SecondMtu)
  BY DEF NothingRefused
<1>. DEFINE n == p.size
            f == FragSize(FirstMtu)
<1>1. n \in Sizes /\ p.off = 0  BY DEF Whole
<1>2. n \in Nat /\ n >= 1
  <2>1. n \in Nat /\ n # 0  BY <1>1, ReassemblyAssumption
  <2>. HIDE DEF n
  <2>. QED  BY <2>1
<1>3. FirstMtu \in Nat /\ FirstMtu >= NET_HEADER_SIZE + 8
      /\ SecondMtu \in Nat /\ SecondMtu >= NET_HEADER_SIZE + 8
  BY ReassemblyAssumption
<1>4. n % 8 # (SecondMtu - 20) % 8 /\ (SecondMtu - 20) % 8 # 0
  BY <1>1 DEF LeavesRoom, NET_HEADER_SIZE
<1>5. Sent(p, FirstMtu) = fragpack(p, FirstMtu)  BY <1>1, <1>2, <1>3, AllSent
<1>6. ASSUME NEW g \in CutOnce(p)  PROVE Sent(g, SecondMtu) = fragpack(g, SecondMtu)
  <2>1. g \in PiecesOf(p)  BY <1>2, <1>3, CutChain DEF CutOnce
  <2>2. g \in Piece /\ g.size >= 1  BY <2>1 DEF PiecesOf
  <2>3. PICK j \in Nat : /\ j * f \in Nat /\ g.off = p.off + j * f
                         /\ g.size = f \/ Ends(g) = Ends(p)
    BY <1>2, <1>3, CutGrid DEF CutOnce
  <2>4. PICK k \in Nat : f = 8 * k  BY <1>3, FragMultiple
  <2>5. PICK m \in Nat : j * f = 8 * m  BY <2>4, EightMultiple
  <2>6. /\ g.size \in Nat /\ Ends(g) = g.off + g.size /\ g.off \in Nat
        /\ Ends(p) = p.off + p.size
    BY <2>2, NumbersOf
  <2>. HIDE DEF n, f
  <2>7. g.size = 8 * k \/ g.size + 8 * m = n
    BY <1>1, <1>2, <2>3, <2>4, <2>5, <2>6 DEF n
  <2>8. g.size + NET_HEADER_SIZE # SecondMtu
    <3>1. SUFFICES ASSUME g.size = SecondMtu - 20 PROVE FALSE
      BY <1>3, <2>6 DEF NET_HEADER_SIZE
    <3>2. CASE g.size = 8 * k  BY <1>4, <3>1, <3>2
    <3>3. CASE g.size + 8 * m = n
      <4>1. n % 8 = g.size % 8  BY <1>2, <2>6, <3>3
      <4>. QED  BY <1>4, <3>1, <4>1
    <3>. QED  BY <2>7, <3>2, <3>3
  <2>. QED  BY <1>3, <2>2, <2>8, AllSent
<1>. QED  BY <1>5, <1>6

=============================================================================

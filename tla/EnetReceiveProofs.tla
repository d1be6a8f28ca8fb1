------------------------- MODULE EnetReceiveProofs -------------------------
(***************************************************************************)
(* Theorems about EnetReceive, for every number of descriptors, of packets *)
(* in the pool and of frames, and frames as long as the ring.              *)
(***************************************************************************)
EXTENDS EnetReceive, FiniteSetTheorems, WellFoundedInduction, TLAPS

-----------------------------------------------------------------------------
(* The inductive invariant.                                                *)

\* The k-th descriptor behind d.
Pos(d, k) == (d + k) % N

Replacing == pc \in {"replace", "recycle"}

\* The routine's position: idx is bd_count behind current, and a frame that is
\* being replaced ends there.
Cursor ==
  pc \in {"walk", "replace", "recycle"} =>
    /\ first_idx = current /\ bd_count < N /\ idx = Pos(current, bd_count)
    /\ Replacing => i <= bd_count

\* Where the frames begin that the routine has not seen yet; how far it is
\* from there round the ring to the frame in hand, and how many descriptors of
\* that frame still hold their packets.
Front == IF Replacing THEN After(idx) ELSE current
Gap   == IF Replacing THEN N - (bd_count + 1) ELSE N
Kept  == IF Replacing THEN i + 1 ELSE 0
Fd(k) == Pos(Front, k)

\* What the DMA wrote k descriptors behind the front: number of frame and of
\* fragment.
Frag(k)   == content[packets[Fd(k)]]
Number(k) == Frag(k)[1]
Part(k)   == Frag(k)[2]

\* The descriptors of q fragments from the front on, and those of the frame in
\* hand that still hold their packets, are not empty; all others are.
Occupied(q) ==
  /\ dma = Fd(q)
  /\ Kept > 0 => q <= Gap
  /\ \A k \in 0 .. N - 1 :
       empty[Fd(k)] <=> k >= q /\ ~(Gap <= k /\ k < Gap + Kept)

\* The q fragments are frames, the last of them perhaps not complete.
Frames(q) ==
  /\ \A k \in 0 .. q - 1 :
       /\ Number(k) \in 1 .. arrived /\ Part(k) \in 1 .. MaxBds
       /\ last[Fd(k)] \/ Part(k) < MaxBds
  /\ \A k \in 1 .. q - 1 :
       IF last[Fd(k - 1)] THEN Number(k - 1) < Number(k) /\ Part(k) = 1
       ELSE Number(k) = Number(k - 1) /\ Part(k) = Part(k - 1) + 1
  /\ q > 0 => Part(0) = 1
  /\ written = 0 => q = 0 \/ last[Fd(q - 1)]
  /\ written > 0 => /\ q > 0 /\ ~last[Fd(q - 1)] /\ written < length
                    /\ Number(q - 1) = arrived /\ Part(q - 1) = written

\* What the routine has walked over is the beginning of one frame.
Walked(q) ==
  pc = "walk" =>
    /\ bd_count <= q
    /\ \A k \in 0 .. bd_count - 1 :
         ~last[Fd(k)] /\ next[packets[Fd(k)]] = packets[Fd(k + 1)]
    /\ \A k \in 0 .. bd_count :
         k < q => Number(k) = Number(0) /\ Part(k) = k + 1
    /\ received = packets[current]

\* NetX got frames in the order of arrival, older than those in the ring.
Order(q) ==
  /\ \A k \in DOMAIN delivered : delivered[k] \in 1 .. arrived
  /\ \A j, k \in DOMAIN delivered : j < k => delivered[j] < delivered[k]
  /\ q > 0 => \A k \in DOMAIN delivered : delivered[k] < Number(0)

\* While its packets are replaced, the chain is the frame, in order, and the
\* first of its packets are still in the ring.
Frame == Chain(received)
Chained(q) ==
  pc = "replace" =>
    /\ Frame \in [1 .. bd_count + 1 -> Packets] /\ Frame[1] = received
    /\ \A k \in 1 .. bd_count : next[Frame[k]] = Frame[k + 1]
    /\ next[Frame[bd_count + 1]] = None
    /\ \A k \in 0 .. i : Frame[k + 1] = packets[Fd(Gap + k)]
    /\ \A k \in 1 .. bd_count + 1 : content[Frame[k]] = <<content[received][1], k>>
    /\ content[received][1] \in 1 .. arrived
    /\ \A k \in DOMAIN delivered : delivered[k] < content[received][1]
    /\ q > 0 => content[received][1] < Number(0)

Ring == \E q \in 0 .. N :
  Occupied(q) /\ Frames(q) /\ Walked(q) /\ Order(q) /\ Chained(q)

\* The packets of the frame in hand that left the ring, and the one owner of
\* each packet.
Hand == IF pc = "replace" THEN {Frame[k] : k \in i + 2 .. bd_count + 1} ELSE {}
Owners ==
  /\ \A a, b \in Bd : packets[a] = packets[b] => a = b
  /\ InRing \union pool \union netx \union Hand = Packets
  /\ InRing \intersect (pool \union netx \union Hand) = {}
  /\ pool \intersect (netx \union Hand) = {}
  /\ netx \intersect Hand = {}

Inv == TypeOK /\ Cursor /\ Ring /\ Owners

-----------------------------------------------------------------------------
(* Chains.  What the recursive function in Chain computes follows from the *)
(* least-number principle, here in a form without operators as parameters. *)

LEMMA Minimal ==
  ASSUME NEW R, IsWellFoundedOn(R, Nat), NEW T, T \subseteq Nat, T # {}
  PROVE  \E m \in T : \A k \in T : ~ (<<k, m>> \in R)
BY WFMin, Zenon

LEMMA Least ==
  ASSUME NEW R, IsWellFoundedOn(R, Nat),
         \A k, m \in Nat : k < m => <<k, m>> \in R,
         NEW T, T \subseteq Nat, T # {}
  PROVE  \E m \in T : \A k \in T : m <= k
<1>1. PICK m \in T : \A k \in T : ~ (<<k, m>> \in R)
  BY Minimal, Zenon
<1>2. ASSUME NEW k \in T PROVE m <= k
  <2>1. m \in Nat /\ k \in Nat
    OBVIOUS
  <2>2. ~ (<<k, m>> \in R)
    BY <1>1, Zenon
  <2>3. ~ (k < m)
    BY <2>1, <2>2, Zenon
  <2> QED BY <2>1, <2>3
<1> QED BY <1>2

\* A set of numbers that is not empty has a smallest element.
LEMMA Smallest ==
  ASSUME NEW T, T \subseteq Nat, T # {}
  PROVE  \E m \in T : \A k \in T : m <= k
<1>1. IsWellFoundedOn(OpToRel(<, Nat), Nat)
  BY NatLessThanWellFounded, Zenon
<1>2. \A k, m \in Nat : k < m => <<k, m>> \in OpToRel(<, Nat)
  BY DEF OpToRel
<1>3. \E R : IsWellFoundedOn(R, Nat) /\ \A k, m \in Nat : k < m => <<k, m>> \in R
  BY <1>1, <1>2, Zenon
<1> QED BY <1>3, Least, Zenon

\* What Chain computes on the way: the packets from p on, None after the last.
From(p) ==
  CHOOSE at : at = [k \in 0 .. N |->
    IF k = 0 THEN p ELSE IF at[k - 1] = None THEN None ELSE next[at[k - 1]]]

\* The sequence f follows next from p on, so it is the one computed.
LEMMA FromIs ==
  ASSUME NEW p, NEW f,
         f = [k \in 0 .. N |->
                IF k = 0 THEN p ELSE IF f[k - 1] = None THEN None ELSE next[f[k - 1]]]
  PROVE  From(p) = f
<1> DEFINE at == From(p)
<1>1. at = [k \in 0 .. N |->
               IF k = 0 THEN p ELSE IF at[k - 1] = None THEN None ELSE next[at[k - 1]]]
  BY Zenon DEF From
<1> HIDE DEF at
<1> DEFINE T == {k \in 0 .. N : at[k] # f[k]}
<1>2. T = {}
  <2>1. SUFFICES ASSUME T # {} PROVE FALSE
    OBVIOUS
  <2>2. T \subseteq Nat
    BY EnetReceiveAssumption
  <2>3. PICK m \in T : \A k \in T : m <= k
    <3> HIDE DEF T
    <3> QED BY <2>1, <2>2, Smallest
  <2>4. m \in 0 .. N /\ at[m] # f[m]
    OBVIOUS
  <2>5. CASE m = 0
    <3>1. at[0] = p /\ f[0] = p
      BY <1>1, EnetReceiveAssumption
    <3> QED BY <2>4, <2>5, <3>1
  <2>6. CASE m # 0
    <3>1. m - 1 \in 0 .. N /\ ~(m <= m - 1)
      BY <2>4, <2>6, EnetReceiveAssumption
    <3>2. m - 1 \notin T
      BY <2>3, <3>1
    <3>3. at[m - 1] = f[m - 1]
      BY <3>1, <3>2
    <3>4. at[m] = IF at[m - 1] = None THEN None ELSE next[at[m - 1]]
      BY <1>1, <2>4, <2>6
    <3>5. f[m] = IF f[m - 1] = None THEN None ELSE next[f[m - 1]]
      BY <2>4, <2>6
    <3> QED BY <2>4, <3>3, <3>4, <3>5
  <2> QED BY <2>5, <2>6
<1>3. \A k \in 0 .. N : at[k] = f[k]
  BY <1>2
<1>4. at = f
  BY <1>1, <1>3
<1> QED BY <1>4 DEF at

\* The length of a chain, from what was computed.
Length(at) ==
  CHOOSE k \in 0 .. N + 1 :
    (k = N + 1 \/ at[k] = None) /\ \A j \in 0 .. k - 1 : at[j] # None

LEMMA ChainFrom ==
  ASSUME NEW p
  PROVE  Chain(p) = [k \in 1 .. Length(From(p)) |-> From(p)[k - 1]]
BY Zenon DEF Chain, From, Length

LEMMA LengthIs ==
  ASSUME NEW at, NEW m \in 0 .. N, at[m] = None, \A j \in 0 .. m - 1 : at[j] # None
  PROVE  Length(at) = m
<1> DEFINE P(k) == (k = N + 1 \/ at[k] = None) /\ \A j \in 0 .. k - 1 : at[j] # None
<1>1. m \in 0 .. N + 1 /\ P(m)
  BY EnetReceiveAssumption
<1>2. \A k \in 0 .. N + 1 : P(k) => k = m
  <2>1. SUFFICES ASSUME NEW k \in 0 .. N + 1, P(k), k # m PROVE FALSE
    OBVIOUS
  <2>2. CASE k < m
    <3>1. k \in 0 .. m - 1 /\ k # N + 1
      BY <2>2, EnetReceiveAssumption
    <3> QED BY <2>1, <3>1
  <2>3. CASE ~(k < m)
    <3>1. m \in 0 .. k - 1
      BY <2>1, <2>3, EnetReceiveAssumption
    <3> QED BY <2>1, <3>1
  <2> QED BY <2>2, <2>3
<1>3. Length(at) = CHOOSE k \in 0 .. N + 1 : P(k)
  BY Zenon DEF Length
<1> HIDE DEF P
<1> QED BY <1>1, <1>2, <1>3

\* Packets that are linked one to the next, the last to none, are a chain.
ChainIs ==
  \A m \in 1 .. N : \A c \in [1 .. m -> Packets] :
    (\A k \in 1 .. m - 1 : next[c[k]] = c[k + 1]) /\ next[c[m]] = None =>
      Chain(c[1]) = c

LEMMA ChainOfLinks == ChainIs
<1>1. SUFFICES ASSUME NEW m \in 1 .. N, NEW c \in [1 .. m -> Packets],
                      \A k \in 1 .. m - 1 : next[c[k]] = c[k + 1], next[c[m]] = None
               PROVE  Chain(c[1]) = c
  BY Zenon DEF ChainIs
<1>0. N \in Nat \ {0, 1} /\ m \in Nat /\ \A k \in 1 .. m : c[k] \in Packets /\ c[k] # None
  BY EnetReceiveAssumption DEF Packets, None
<1> DEFINE f == [k \in 0 .. N |-> IF k < m THEN c[k + 1] ELSE None]
<1>2. ASSUME NEW k \in 0 .. N
      PROVE  f[k] = IF k = 0 THEN c[1]
                    ELSE IF f[k - 1] = None THEN None ELSE next[f[k - 1]]
  <2>1. CASE k = 0
    BY <1>0, <2>1
  <2>2. CASE k # 0 /\ k < m
    <3>1. k - 1 \in 0 .. N /\ k - 1 < m /\ k \in 1 .. m - 1 /\ (k - 1) + 1 = k
      BY <1>0, <2>2
    <3>2. f[k - 1] = c[k] /\ f[k] = c[k + 1]
      BY <2>2, <3>1
    <3>3. c[k] # None /\ next[c[k]] = c[k + 1]
      BY <1>0, <1>1, <3>1
    <3> QED BY <2>2, <3>2, <3>3
  <2>3. CASE k = m
    <3>1. k - 1 \in 0 .. N /\ k - 1 < m /\ (k - 1) + 1 = m /\ ~(k < m) /\ k # 0
      BY <1>0, <2>3
    <3>2. f[k - 1] = c[m] /\ f[k] = None
      BY <3>1
    <3>3. c[m] # None
      BY <1>0
    <3> QED BY <1>1, <3>1, <3>2, <3>3
  <2>4. CASE k > m
    <3>1. k - 1 \in 0 .. N /\ ~(k - 1 < m) /\ ~(k < m) /\ k # 0
      BY <1>0, <2>4
    <3> QED BY <3>1
  <2> QED BY <1>0, <2>1, <2>2, <2>3, <2>4
<1>3. f = [k \in 0 .. N |->
             IF k = 0 THEN c[1] ELSE IF f[k - 1] = None THEN None ELSE next[f[k - 1]]]
  <2> DEFINE g == [k \in 0 .. N |->
             IF k = 0 THEN c[1] ELSE IF f[k - 1] = None THEN None ELSE next[f[k - 1]]]
  <2>1. \A k \in 0 .. N : g[k] = f[k]
    <3> HIDE DEF f
    <3> QED BY <1>2
  <2>2. f = [k \in 0 .. N |-> f[k]] /\ g = [k \in 0 .. N |-> g[k]]
    OBVIOUS
  <2>3. f = g
    <3> HIDE DEF f, g
    <3> QED BY <2>1, <2>2
  <2> QED BY <2>3
<1>4. From(c[1]) = f
  <2> HIDE DEF f
  <2> QED BY <1>3, FromIs
<1>5. Length(f) = m
  <2>1. f[m] = None /\ \A j \in 0 .. m - 1 : f[j] # None
    BY <1>0
  <2>2. m \in 0 .. N
    BY <1>0
  <2> HIDE DEF f
  <2> QED BY <2>1, <2>2, LengthIs
<1>6. Chain(c[1]) = [k \in 1 .. m |-> f[k - 1]]
  <2>1. Chain(c[1]) = [k \in 1 .. Length(From(c[1])) |-> From(c[1])[k - 1]]
    BY ChainFrom
  <2> HIDE DEF f
  <2> QED BY <1>4, <1>5, <2>1
<1>7. \A k \in 1 .. m : f[k - 1] = c[k]
  BY <1>0
<1>8. c = [k \in 1 .. m |-> c[k]]
  OBVIOUS
<1> HIDE DEF f
<1> QED BY <1>6, <1>7, <1>8

\* No packet is a chain of none.
LEMMA ChainOfNone ==
  InChain(None) = {}
<1>0. N \in Nat \ {0, 1}
  BY EnetReceiveAssumption
<1> DEFINE f == [k \in 0 .. N |-> None]
<1>1. f = [k \in 0 .. N |->
             IF k = 0 THEN None ELSE IF f[k - 1] = None THEN None ELSE next[f[k - 1]]]
  BY <1>0
<1>2. From(None) = f
  <2> HIDE DEF f
  <2> QED BY <1>1, FromIs
<1>3. Length(f) = 0
  <2>1. f[0] = None /\ 0 \in 0 .. N /\ \A j \in 0 .. 0 - 1 : f[j] # None
    BY <1>0
  <2> HIDE DEF f
  <2> QED BY <2>1, LengthIs
<1>4. Chain(None) = [k \in 1 .. 0 |-> f[k - 1]]
  BY <1>2, <1>3, ChainFrom
<1> QED BY <1>4 DEF InChain
-----------------------------------------------------------------------------
(* Positions in the ring.                                                  *)

\* A number of the ring's size and a remainder.
LEMMA Remainder ==
  ASSUME NEW a \in Int, NEW q \in Int, NEW r \in 0 .. N - 1, a = N * q + r
  PROVE  a % N = r
BY EnetReceiveAssumption

\* What is added to a remainder may be added before.
LEMMA AddModulo ==
  ASSUME NEW a \in Int, NEW b \in Int
  PROVE  ((a % N) + b) % N = (a + b) % N
<1> DEFINE q == a \div N
           r == a % N
           s == (r + b) \div N
           t == (r + b) % N
<1>0. N \in Nat \ {0, 1}
  BY EnetReceiveAssumption
<1>1. q \in Int /\ r \in 0 .. N - 1 /\ a = N * q + r
  BY <1>0
<1>2. r + b \in Int
  BY <1>1
<1>3. s \in Int /\ t \in 0 .. N - 1 /\ r + b = N * s + t
  <2> HIDE DEF q, r
  <2> QED BY <1>0, <1>2
<1> HIDE DEF q, r, s, t
<1>4. a + b = N * (q + s) + t /\ a + b \in Int /\ q + s \in Int
  BY <1>0, <1>1, <1>3
<1>5. (a + b) % N = t
  BY <1>3, <1>4, Remainder
<1> QED BY <1>5 DEF t, r

\* A number that is less than N is its remainder.
LEMMA SmallModulo ==
  ASSUME NEW a \in 0 .. N - 1
  PROVE  a % N = a
BY EnetReceiveAssumption

\* A position is a descriptor; N positions further it is the same one.
LEMMA PosType ==
  ASSUME NEW d \in Bd, NEW k \in Int
  PROVE  Pos(d, k) \in Bd
<1>1. d + k \in Int /\ N \in Nat \ {0, 1}
  BY EnetReceiveAssumption DEF Bd
<1> QED BY <1>1 DEF Pos, Bd

\* Positions are added.
LEMMA PosAdd ==
  ASSUME NEW d \in Bd, NEW j \in Int, NEW k \in Int
  PROVE  Pos(Pos(d, j), k) = Pos(d, j + k)
<1>1. d \in Int /\ d + j \in Int /\ (d + j) + k = d + (j + k)
  BY EnetReceiveAssumption DEF Bd
<1>2. (((d + j) % N) + k) % N = ((d + j) + k) % N
  BY <1>1, AddModulo
<1> QED BY <1>1, <1>2, Zenon DEF Pos

\* Positions 0 and N are the descriptor itself.
LEMMA PosZero ==
  ASSUME NEW d \in Bd
  PROVE  Pos(d, 0) = d /\ Pos(d, N) = d
<1>0. N \in Nat \ {0, 1} /\ d \in 0 .. N - 1
  BY EnetReceiveAssumption DEF Bd
<1>1. d + 0 = d /\ d + N = N * 1 + d /\ d + N \in Int
  BY <1>0
<1>2. d % N = d
  BY <1>0, SmallModulo
<1>3. (d + N) % N = d
  BY <1>0, <1>1, Remainder
<1> QED BY <1>1, <1>2, <1>3 DEF Pos

\* The next descriptor.
LEMMA PosNext ==
  ASSUME NEW d \in Bd, NEW k \in Int
  PROVE  After(Pos(d, k)) = Pos(d, k + 1)
<1>1. After(Pos(d, k)) = Pos(Pos(d, k), 1)
  BY DEF After, Pos
<1> QED BY <1>1, PosAdd

\* N positions behind a descriptor are the N descriptors, each once.
LEMMA PosOnce ==
  ASSUME NEW d \in Bd
  PROVE  /\ \A j, k \in 0 .. N - 1 : Pos(d, j) = Pos(d, k) => j = k
         /\ \A b \in Bd : \E k \in 0 .. N - 1 : b = Pos(d, k)
<1>0. N \in Nat \ {0, 1} /\ d \in 0 .. N - 1
  BY EnetReceiveAssumption DEF Bd
<1>1. ASSUME NEW k \in 0 .. N - 1
      PROVE  /\ d + k < N => Pos(d, k) = d + k
             /\ ~(d + k < N) => Pos(d, k) = d + k - N
  <2>1. CASE d + k < N
    <3>1. d + k \in 0 .. N - 1
      BY <1>0, <2>1
    <3>2. (d + k) % N = d + k
      BY <3>1, SmallModulo
    <3> QED BY <2>1, <3>2 DEF Pos
  <2>2. CASE ~(d + k < N)
    <3>1. d + k \in Int /\ d + k - N \in 0 .. N - 1 /\ d + k = N * 1 + (d + k - N)
      BY <1>0, <2>2
    <3>2. (d + k) % N = d + k - N
      BY <3>1, Remainder
    <3> QED BY <2>2, <3>2 DEF Pos
  <2> QED BY <2>1, <2>2
<1>2. ASSUME NEW j \in 0 .. N - 1, NEW k \in 0 .. N - 1, Pos(d, j) = Pos(d, k)
      PROVE  j = k
  BY <1>0, <1>1, <1>2
<1>3. ASSUME NEW b \in Bd PROVE \E k \in 0 .. N - 1 : b = Pos(d, k)
  <2>0. b \in 0 .. N - 1
    BY DEF Bd
  <2>1. CASE d <= b
    <3>1. b - d \in 0 .. N - 1 /\ d + (b - d) = b /\ b < N
      BY <1>0, <2>0, <2>1
    <3> QED BY <1>1, <3>1
  <2>2. CASE ~(d <= b)
    <3>1. b - d + N \in 0 .. N - 1 /\ d + (b - d + N) - N = b /\ ~(d + (b - d + N) < N)
      BY <1>0, <2>0, <2>2
    <3> QED BY <1>1, <3>1
  <2> QED BY <2>1, <2>2
<1> QED BY <1>2, <1>3

\* The descriptors behind the front, and where the frame in hand is.
LEMMA Positions ==
  ASSUME TypeOK, Cursor
  PROVE  /\ Front \in Bd /\ Fd(0) = Front /\ Fd(N) = Front
         /\ \A k \in Int : Fd(k) \in Bd /\ After(Fd(k)) = Fd(k + 1)
         /\ \A j, k \in 0 .. N - 1 : Fd(j) = Fd(k) => j = k
         /\ \A b \in Bd : \E k \in 0 .. N - 1 : b = Fd(k)
         /\ Gap \in 0 .. N /\ Kept \in 0 .. N /\ Gap + Kept <= N
         /\ Replacing => TempIdx = Fd(Gap + i) /\ current = Fd(Gap)
         /\ pc = "walk" => idx = Fd(bd_count)
<1>0. /\ current \in Bd /\ first_idx \in Bd /\ idx \in Bd /\ bd_count \in 0 .. N
      /\ i \in -1 .. N /\ N \in Nat \ {0, 1}
  BY EnetReceiveAssumption DEF TypeOK
<1>1. After(idx) = Pos(idx, 1) /\ Pos(idx, 1) \in Bd
  BY <1>0, PosType DEF After, Pos
<1>2. Front \in Bd
  BY <1>0, <1>1, Zenon DEF Front
<1>3. Fd(0) = Front /\ Fd(N) = Front
  BY <1>2, PosZero DEF Fd
<1>4. \A k \in Int : Fd(k) \in Bd /\ After(Fd(k)) = Fd(k + 1)
  BY <1>2, PosType, PosNext DEF Fd
<1>5. /\ \A j, k \in 0 .. N - 1 : Fd(j) = Fd(k) => j = k
      /\ \A b \in Bd : \E k \in 0 .. N - 1 : b = Fd(k)
  BY <1>2, PosOnce, Zenon DEF Fd
<1>6. Gap \in 0 .. N /\ Kept \in 0 .. N /\ Gap + Kept <= N
  BY <1>0 DEF Gap, Kept, Cursor, Replacing
<1>7. ASSUME Replacing PROVE TempIdx = Fd(Gap + i) /\ current = Fd(Gap)
  <2>1. idx = Pos(current, bd_count) /\ first_idx = current
    BY <1>7 DEF Cursor, Replacing
  <2>2. Front = Pos(current, bd_count + 1)
    BY <1>0, <1>7, <2>1, PosNext DEF Front
  <2>3. ASSUME NEW k \in Int PROVE Fd(Gap + k) = Pos(current, N + k)
    <3>1. Gap = N - (bd_count + 1)
      BY <1>7 DEF Gap
    <3>2. Gap + k \in Int /\ bd_count + 1 \in Int /\ (bd_count + 1) + (Gap + k) = N + k
      BY <1>0, <3>1
    <3>3. Pos(Pos(current, bd_count + 1), Gap + k) = Pos(current, (bd_count + 1) + (Gap + k))
      BY <1>0, <3>2, PosAdd
    <3> QED BY <2>2, <3>2, <3>3, Zenon DEF Fd
  <2>4. ASSUME NEW k \in Int PROVE Pos(current, N + k) = Pos(current, k)
    <3>1. Pos(Pos(current, N), k) = Pos(current, N + k)
      BY <1>0, PosAdd
    <3> QED BY <1>0, <3>1, PosZero
  <2>5. TempIdx = Fd(Gap + i)
    <3>1. TempIdx = Pos(current, i)
      BY <2>1 DEF TempIdx, Pos
    <3> QED BY <1>0, <2>3, <2>4, <3>1
  <2>6. Gap + 0 = Gap
    BY <1>6
  <2>7. current = Fd(Gap)
    BY <1>0, <2>3, <2>4, <2>6, PosZero
  <2> QED BY <2>5, <2>7
<1>8. ASSUME pc = "walk" PROVE idx = Fd(bd_count)
  <2>1. Front = current
    BY <1>8 DEF Front, Replacing
  <2> QED BY <1>8, <2>1 DEF Cursor, Fd
<1> QED BY <1>2, <1>3, <1>4, <1>5, <1>6, <1>7, <1>8

-----------------------------------------------------------------------------
(* The frame in hand.                                                      *)

\* The packets of the frame that left the ring are the ones that the routine
\* releases, or hands to NetX; and the chain is one frame.
LEMMA HandIs ==
  ASSUME Inv, pc = "replace"
  PROVE  /\ i >= 0 => InChain(next[packets[TempIdx]]) = Hand
         /\ i < 0 => InChain(received) = Hand
         /\ InChain(received) \subseteq Packets /\ Hand \subseteq Packets
         /\ FrameOf(received) = content[received][1]
         /\ content[received][1] \in 1 .. arrived
<1>t. TypeOK /\ Cursor /\ Ring
  BY DEF Inv
<1>0. /\ bd_count \in 0 .. N - 1 /\ i \in -1 .. bd_count /\ N \in Nat \ {0, 1}
      /\ Replacing
  BY <1>t, EnetReceiveAssumption DEF TypeOK, Cursor, Replacing
<1>1. PICK q \in 0 .. N : Chained(q)
  BY <1>t DEF Ring
<1>2. /\ Frame \in [1 .. bd_count + 1 -> Packets] /\ Frame[1] = received
      /\ \A k \in 1 .. bd_count : next[Frame[k]] = Frame[k + 1]
      /\ next[Frame[bd_count + 1]] = None
      /\ \A k \in 0 .. i : Frame[k + 1] = packets[Fd(Gap + k)]
      /\ \A k \in 1 .. bd_count + 1 : content[Frame[k]] = <<content[received][1], k>>
      /\ content[received][1] \in 1 .. arrived
  BY <1>1 DEF Chained
<1>3. InChain(received) = {Frame[k] : k \in 1 .. bd_count + 1}
  <2>1. DOMAIN Frame = 1 .. bd_count + 1
    BY <1>2
  <2> QED BY <2>1, Zenon DEF InChain, Frame
<1>4. \A k \in 1 .. bd_count + 1 : Frame[k] \in Packets
  BY <1>2
<1>5. InChain(received) \subseteq Packets
  BY <1>3, <1>4
<1>6. Hand = {Frame[k] : k \in i + 2 .. bd_count + 1}
  BY DEF Hand
<1>7. Hand \subseteq Packets
  <2>1. \A k \in i + 2 .. bd_count + 1 : k \in 1 .. bd_count + 1
    BY <1>0
  <2> QED BY <1>4, <1>6, <2>1
<1>8. i < 0 => InChain(received) = Hand
  <2>1. i < 0 => i + 2 = 1
    BY <1>0
  <2> QED BY <1>3, <1>6, <2>1
<1>9. ASSUME i >= 0 PROVE InChain(next[packets[TempIdx]]) = Hand
  <2>1. packets[TempIdx] = Frame[i + 1]
    <3>1. TempIdx = Fd(Gap + i)
      BY <1>t, <1>0, Positions
    <3>2. i \in 0 .. i
      BY <1>0, <1>9
    <3> QED BY <1>2, <3>1, <3>2
  <2>2. CASE i = bd_count
    <3>1. Hand = {}
      BY <1>0, <1>6, <2>2
    <3>2. next[packets[TempIdx]] = None
      BY <1>2, <2>1, <2>2
    <3> QED BY <3>1, <3>2, ChainOfNone
  <2>3. CASE i # bd_count
    <3> DEFINE m == bd_count - i
               c == [k \in 1 .. m |-> Frame[(i + 1) + k]]
    <3>1. /\ m \in 1 .. N /\ i \in 0 .. bd_count - 1
          /\ \A k \in 1 .. m : (i + 1) + k \in 1 .. bd_count + 1
      BY <1>0, <1>9, <2>3
    <3>2. c \in [1 .. m -> Packets]
      BY <1>4, <3>1
    <3>3. ASSUME NEW k \in 1 .. m - 1 PROVE next[c[k]] = c[k + 1]
      <4>1. /\ k \in 1 .. m /\ k + 1 \in 1 .. m /\ (i + 1) + k \in 1 .. bd_count
            /\ (i + 1) + (k + 1) = ((i + 1) + k) + 1
        BY <1>0, <3>1
      <4>2. next[Frame[(i + 1) + k]] = Frame[((i + 1) + k) + 1]
        BY <1>2, <4>1
      <4> QED BY <4>1, <4>2
    <3>4. next[c[m]] = None
      <4>1. m \in 1 .. m /\ (i + 1) + m = bd_count + 1
        BY <1>0, <3>1
      <4> QED BY <1>2, <4>1
    <3>5. Chain(c[1]) = c
      <4> HIDE DEF c, m
      <4> QED BY <3>1, <3>2, <3>3, <3>4, ChainOfLinks DEF ChainIs
    <3>6. c[1] = next[packets[TempIdx]]
      <4>1. 1 \in 1 .. m /\ (i + 1) + 1 = i + 2 /\ i + 1 \in 1 .. bd_count
        BY <1>0, <3>1
      <4>2. next[Frame[i + 1]] = Frame[(i + 1) + 1]
        BY <1>2, <4>1
      <4> QED BY <2>1, <4>1, <4>2
    <3>7. InChain(next[packets[TempIdx]]) = {c[k] : k \in 1 .. m}
      <4>1. DOMAIN c = 1 .. m
        OBVIOUS
      <4> HIDE DEF c, m
      <4> QED BY <3>5, <3>6, <4>1 DEF InChain
    <3>8. {c[k] : k \in 1 .. m} = Hand
      <4>1. \A k \in 1 .. m : c[k] = Frame[(i + 1) + k] /\ (i + 1) + k \in i + 2 .. bd_count + 1
        BY <1>0, <3>1
      <4>2. \A k \in i + 2 .. bd_count + 1 : k - (i + 1) \in 1 .. m /\ (i + 1) + (k - (i + 1)) = k
        BY <1>0, <3>1
      <4>3. \A k \in i + 2 .. bd_count + 1 : c[k - (i + 1)] = Frame[k]
        BY <4>1, <4>2
      <4> HIDE DEF c, m
      <4> QED BY <1>6, <4>1, <4>2, <4>3
    <3> QED BY <3>7, <3>8
  <2> QED BY <2>2, <2>3
<1>10. FrameOf(received) = content[received][1]
  <2>1. DOMAIN Chain(received) = 1 .. bd_count + 1
    BY <1>2 DEF Frame
  <2>2. \A k \in 1 .. bd_count + 1 : content[Chain(received)[k]] = <<content[received][1], k>>
    BY <1>2 DEF Frame
  <2> QED BY <2>1, <2>2, Zenon DEF FrameOf
<1> QED BY <1>2, <1>5, <1>7, <1>8, <1>9, <1>10

-----------------------------------------------------------------------------
(* Types.                                                                  *)

LEMMA TypeInit == Init => TypeOK
<1> SUFFICES ASSUME Init PROVE TypeOK
  OBVIOUS
<1>1. /\ N \in Nat \ {0, 1} /\ Spare \in Nat /\ MaxFrames \in Nat /\ MaxBds \in 1 .. N
      /\ 0 \in Bd /\ \A b \in Bd : b + 1 \in Packets
  BY EnetReceiveAssumption DEF Bd, Packets
<1>2. /\ empty \in [Bd -> BOOLEAN] /\ last \in [Bd -> BOOLEAN]
      /\ packets \in [Bd -> Packets] /\ current \in Bd
      /\ next \in [Packets -> Packets \union {None}]
      /\ pool \subseteq Packets /\ netx \subseteq Packets
  BY <1>1 DEF Init
<1>3. content \in [Packets -> (0 .. MaxFrames) \X (0 .. MaxBds)]
  BY <1>1 DEF Init
<1>4. delivered \in Seq(0 .. MaxFrames)
  BY DEF Init
<1>5. /\ dma \in Bd /\ written \in 0 .. MaxBds /\ length \in 0 .. MaxBds
      /\ first_idx \in Bd /\ idx \in Bd /\ bd_count \in 0 .. N /\ i \in -1 .. N
      /\ arrived \in 0 .. MaxFrames
  BY <1>1 DEF Init
<1>6. /\ rdar \in BOOLEAN /\ rxf \in BOOLEAN /\ deferred \in BOOLEAN
      /\ ip_event \in BOOLEAN /\ isr_pc \in {"idle", "clear"}
      /\ pc \in {"idle", "pickup", "walk", "replace", "recycle"}
      /\ received \in Packets \union {None}
  BY DEF Init
<1> QED BY <1>2, <1>3, <1>4, <1>5, <1>6, Zenon DEF TypeOK

\* What the DMA writes.
LEMMA TypeDma ==
  ASSUME Inv, DmaReceive
  PROVE  TypeOK'
<1>t. TypeOK /\ Ring
  BY DEF Inv
<1>0. /\ N \in Nat \ {0, 1} /\ MaxFrames \in Nat /\ MaxBds \in 1 .. N
      /\ dma \in Bd /\ written \in 0 .. MaxBds /\ length \in 0 .. MaxBds
      /\ arrived \in 0 .. MaxFrames /\ packets[dma] \in Packets
  BY <1>t, EnetReceiveAssumption DEF TypeOK
<1>1. written > 0 => written < length
  BY <1>t DEF Ring, Frames
<1>2. /\ arrived' \in 0 .. MaxFrames /\ length' \in 0 .. MaxBds
      /\ written + 1 \in 0 .. MaxBds
  <2>1. CASE written = 0 /\ arrived < MaxFrames /\ arrived' = arrived + 1
             /\ length' \in 1 .. MaxBds
    BY <1>0, <2>1
  <2>2. CASE written > 0 /\ UNCHANGED <<arrived, length>>
    BY <1>0, <1>1, <2>2
  <2> QED BY <2>1, <2>2 DEF DmaReceive
<1>3. content' \in [Packets -> (0 .. MaxFrames) \X (0 .. MaxBds)]
  <2>1. content' = [content EXCEPT ![packets[dma]] = <<arrived', written + 1>>]
    BY DEF DmaReceive
  <2>2. <<arrived', written + 1>> \in (0 .. MaxFrames) \X (0 .. MaxBds)
    BY <1>2
  <2>3. content \in [Packets -> (0 .. MaxFrames) \X (0 .. MaxBds)]
    BY <1>t DEF TypeOK
  <2> QED BY <1>0, <2>1, <2>2, <2>3
<1>4. empty' \in [Bd -> BOOLEAN] /\ last' \in [Bd -> BOOLEAN]
  <2>1. /\ empty' = [empty EXCEPT ![dma] = FALSE]
        /\ last' = [last EXCEPT ![dma] = (written + 1 = length')]
    BY DEF DmaReceive
  <2>2. (written + 1 = length') \in BOOLEAN
    BY Zenon
  <2>3. empty \in [Bd -> BOOLEAN] /\ last \in [Bd -> BOOLEAN]
    BY <1>t DEF TypeOK
  <2> QED BY <2>1, <2>2, <2>3, Zenon
<1>5. dma' \in Bd
  BY <1>0 DEF DmaReceive, After, Bd
<1>6. written' \in 0 .. MaxBds /\ rxf' \in BOOLEAN
  <2>1. rxf \in BOOLEAN
    BY <1>t DEF TypeOK
  <2>2. CASE written + 1 = length'
    BY <1>0, <2>2 DEF DmaReceive
  <2>3. CASE written + 1 # length'
    <3>1. written' = written + 1 /\ rxf' = rxf
      BY <2>3 DEF DmaReceive
    <3> QED BY <1>2, <2>1, <3>1
  <2> QED BY <2>2, <2>3
<1>7. UNCHANGED <<packets, current, next, owners, rdar, events, pc, locals, delivered>>
  BY DEF DmaReceive
<1> QED BY <1>t, <1>2, <1>3, <1>4, <1>5, <1>6, <1>7
        DEF TypeOK, owners, events, locals

\* The steps of the IP thread, but for those that look at a chain.
LEMMA TypeThread ==
  ASSUME Inv, DeferredPickup \/ WalkLink \/ WalkLast \/ Replace \/ Recycle
  PROVE  TypeOK'
<1>t. TypeOK /\ Cursor
  BY DEF Inv
<1>0. /\ N \in Nat \ {0, 1} /\ bd_count \in 0 .. N /\ i \in -1 .. N
      /\ idx \in Bd /\ first_idx \in Bd /\ current \in Bd
      /\ packets \in [Bd -> Packets] /\ empty \in [Bd -> BOOLEAN]
      /\ next \in [Packets -> Packets \union {None}]
      /\ None \in Packets \union {None}
      /\ pc = "walk" => bd_count < N
  BY <1>t, EnetReceiveAssumption DEF TypeOK, Cursor
<1>1. After(idx) \in Bd /\ TempIdx \in Bd
  <2>1. \A a \in Int : a % N \in Bd
    BY <1>0 DEF Bd
  <2>2. idx + 1 \in Int /\ first_idx + i \in Int
    BY <1>0 DEF Bd
  <2> QED BY <2>1, <2>2 DEF After, TempIdx
<1>2. CASE DeferredPickup
  <2>1. /\ UNCHANGED <<ring, packets, current, memory, owners, enet, isr_pc, ip_event, i, history>>
        /\ deferred' = FALSE
    BY <1>2 DEF DeferredPickup
  <2>2. /\ pc' \in {"walk", "idle"} /\ first_idx' \in Bd /\ idx' \in Bd
        /\ bd_count' \in 0 .. N /\ received' \in Packets \union {None}
    <3>1. CASE deferred
      BY <1>0, <1>2, <3>1 DEF DeferredPickup
    <3>2. CASE ~deferred
      BY <1>2, <1>t, <3>2 DEF DeferredPickup, TypeOK
    <3> QED BY <3>1, <3>2
  <2> QED BY <1>t, <2>1, <2>2 DEF TypeOK, ring, memory, owners, enet, history
<1>3. CASE WalkLink
  <2>1. /\ UNCHANGED <<ring, packets, current, content, owners, enet, events, pc, first_idx,
                       i, received, history>>
        /\ next' = [next EXCEPT ![packets[idx]] = packets[After(idx)]]
        /\ bd_count' = bd_count + 1 /\ idx' = After(idx) /\ pc = "walk"
    BY <1>3 DEF WalkLink
  <2>2. next' \in [Packets -> Packets \union {None}]
    BY <1>0, <1>1, <2>1
  <2>3. bd_count' \in 0 .. N
    BY <1>0, <2>1
  <2> QED BY <1>t, <1>1, <2>1, <2>2, <2>3 DEF TypeOK, ring, owners, enet, events, history
<1>4. CASE WalkLast
  <2>1. /\ UNCHANGED <<ring, packets, current, content, owners, enet, events, first_idx,
                       idx, bd_count, received, history>>
        /\ next' = [next EXCEPT ![packets[idx]] = None]
        /\ i' = bd_count /\ pc' = "replace"
    BY <1>4 DEF WalkLast
  <2>2. next' \in [Packets -> Packets \union {None}]
    BY <1>0, <2>1
  <2>3. i' \in -1 .. N
    BY <1>0, <2>1
  <2> QED BY <1>t, <2>1, <2>2, <2>3 DEF TypeOK, ring, owners, enet, events, history
<1>5. CASE Replace
  <2>1. PICK p \in pool : pool' = pool \ {p} /\ packets' = [packets EXCEPT ![TempIdx] = p]
    BY <1>5 DEF Replace
  <2>2. /\ UNCHANGED <<last, current, memory, netx, enet, events, pc, first_idx, idx,
                       bd_count, received, history>>
        /\ empty' = [empty EXCEPT ![TempIdx] = TRUE] /\ i' = i - 1 /\ i >= 0
    BY <1>5 DEF Replace
  <2>3. packets' \in [Bd -> Packets] /\ pool' \subseteq Packets
    BY <1>0, <1>1, <1>t, <2>1 DEF TypeOK
  <2>4. empty' \in [Bd -> BOOLEAN] /\ i' \in -1 .. N
    BY <1>0, <1>1, <2>2
  <2> QED BY <1>t, <2>2, <2>3, <2>4 DEF TypeOK, memory, enet, events, history
<1>6. CASE Recycle
  <2>1. /\ UNCHANGED <<last, packets, current, memory, owners, enet, events, pc, first_idx,
                       idx, bd_count, received, history>>
        /\ empty' = [empty EXCEPT ![TempIdx] = TRUE] /\ i' = i - 1 /\ i >= 0
    BY <1>6 DEF Recycle
  <2>2. empty' \in [Bd -> BOOLEAN] /\ i' \in -1 .. N
    BY <1>0, <1>1, <2>1
  <2> QED BY <1>t, <2>1, <2>2 DEF TypeOK, memory, owners, enet, events, history
<1> QED BY <1>2, <1>3, <1>4, <1>5, <1>6

\* The steps that release a chain or hand it over.
LEMMA TypeChain ==
  ASSUME Inv, ReplaceFails \/ FrameDone
  PROVE  TypeOK'
<1>t. TypeOK /\ N \in Nat \ {0, 1}
  BY EnetReceiveAssumption DEF Inv
<1>1. CASE ReplaceFails
  <2>1. /\ UNCHANGED <<ring, packets, current, memory, netx, enet, events, locals, history>>
        /\ pool' = pool \union InChain(next[packets[TempIdx]]) /\ pc' = "recycle"
        /\ pc = "replace" /\ i >= 0
    BY <1>1 DEF ReplaceFails
  <2>2. InChain(next[packets[TempIdx]]) = Hand /\ Hand \subseteq Packets
    BY <2>1, HandIs
  <2>3. pool' \subseteq Packets
    BY <1>t, <2>1, <2>2 DEF TypeOK
  <2> QED BY <1>t, <2>1, <2>3 DEF TypeOK, ring, memory, enet, events, locals, history
<1>2. CASE FrameDone
  <2>1. /\ UNCHANGED <<ring, packets, memory, pool, enet, events, i, arrived>>
        /\ first_idx' = After(idx) /\ current' = After(idx) /\ idx' = After(idx)
        /\ received' = packets[After(idx)] /\ bd_count' = 0 /\ pc' = "walk"
        /\ pc \in {"replace", "recycle"} /\ i < 0
    BY <1>2 DEF FrameDone
  <2>2. After(idx) \in Bd /\ packets[After(idx)] \in Packets
    <3>1. \A a \in Int : a % N \in Bd
      BY <1>t DEF Bd
    <3>2. idx + 1 \in Int
      BY <1>t DEF TypeOK, Bd
    <3> QED BY <1>t, <3>1, <3>2 DEF After, TypeOK
  <2>3. netx' \subseteq Packets /\ delivered' \in Seq(0 .. MaxFrames)
    <3>1. CASE pc = "replace"
      <4>1. netx' = netx \union InChain(received) /\ delivered' = Append(delivered, FrameOf(received))
        BY <1>2, <3>1 DEF FrameDone
      <4>2. /\ InChain(received) \subseteq Packets /\ FrameOf(received) = content[received][1]
            /\ content[received][1] \in 1 .. arrived
        BY <3>1, HandIs
      <4>3. FrameOf(received) \in 0 .. MaxFrames
        <5>1. arrived \in 0 .. MaxFrames /\ MaxFrames \in Nat
          BY <1>t, EnetReceiveAssumption DEF TypeOK
        <5> QED BY <4>2, <5>1
      <4>4. netx \subseteq Packets /\ delivered \in Seq(0 .. MaxFrames)
        BY <1>t DEF TypeOK
      <4> QED BY <4>1, <4>2, <4>3, <4>4
    <3>2. CASE pc = "recycle"
      <4>1. UNCHANGED <<netx, delivered>>
        BY <1>2, <3>2 DEF FrameDone
      <4> QED BY <1>t, <4>1 DEF TypeOK
    <3> QED BY <2>1, <3>1, <3>2
  <2>4. bd_count' \in 0 .. N
    BY <1>t, <2>1
  <2> QED BY <1>t, <2>1, <2>2, <2>3, <2>4 DEF TypeOK, ring, memory, enet, events
<1> QED BY <1>1, <1>2

\* Steps that leave the ring and what the routine has in hand alone.
Quiet ==
  DmaStop \/ Isr \/ IpWake \/ WalkEnd \/ NetxRelease \/ UNCHANGED vars

LEMMA TypeQuiet ==
  ASSUME TypeOK, Quiet
  PROVE  TypeOK'
<1>1. CASE DmaStop
  BY <1>1 DEF TypeOK, DmaStop, ring, memory, owners, events, locals, history
<1>2. CASE Isr
  BY <1>2 DEF TypeOK, Isr, IsrReceive, IsrClear, ring, memory, owners, enet, events, locals, history
<1>3. CASE IpWake
  BY <1>3 DEF TypeOK, IpWake, ring, memory, owners, enet, locals, history
<1>4. CASE WalkEnd
  BY <1>4 DEF TypeOK, WalkEnd, ring, memory, owners, events, locals, history
<1>5. CASE NetxRelease
  <2>1. PICK p \in netx : netx' = netx \ {p} /\ pool' = pool \union {p}
    BY <1>5 DEF NetxRelease
  <2>2. UNCHANGED <<ring, packets, current, memory, enet, events, pc, locals, history>>
    BY <1>5 DEF NetxRelease
  <2>3. netx' \subseteq Packets /\ pool' \subseteq Packets
    BY <2>1 DEF TypeOK
  <2> QED BY <2>2, <2>3 DEF TypeOK, ring, memory, enet, events, locals, history
<1>6. CASE UNCHANGED vars
  BY <1>6 DEF TypeOK, vars, ring, memory, owners, enet, events, locals, history
<1> QED BY <1>1, <1>2, <1>3, <1>4, <1>5, <1>6 DEF Quiet

-----------------------------------------------------------------------------
(* Quiet steps keep the rest of the invariant.                             *)

LEMMA QuietKeeps ==
  ASSUME Inv, Quiet
  PROVE  Cursor' /\ Ring' /\ Owners'
<1>t. TypeOK /\ Cursor /\ Ring /\ Owners
  BY DEF Inv
<1>1. /\ UNCHANGED <<empty, last, packets, current, next, content, dma, written, length>>
      /\ UNCHANGED <<first_idx, idx, bd_count, i, received, arrived, delivered>>
  BY DEF Quiet, DmaStop, Isr, IsrReceive, IsrClear, IpWake, WalkEnd, NetxRelease, vars,
         ring, memory, owners, enet, events, locals, history
<1>2. pc' = pc \/ (pc = "idle" /\ pc' = "pickup") \/ (pc = "walk" /\ pc' = "idle")
  BY DEF Quiet, DmaStop, Isr, IsrReceive, IsrClear, IpWake, WalkEnd, NetxRelease, vars
<1>3. /\ pc' = "walk" => pc = "walk"
      /\ pc' = "replace" <=> pc = "replace"
      /\ Replacing' <=> Replacing
  BY <1>2 DEF Replacing
<1>4. Front' = Front /\ Gap' = Gap /\ Kept' = Kept
  BY <1>1, <1>3 DEF Front, Gap, Kept
<1>5. Frame' = Frame
  BY <1>1 DEF Frame, Chain
<1>6. Cursor'
  <2>1. pc' \in {"walk", "replace", "recycle"} => pc \in {"walk", "replace", "recycle"}
    BY <1>2
  <2> QED BY <1>t, <1>1, <1>3, <2>1 DEF Cursor
<1>7. Ring'
  <2>1. PICK q \in 0 .. N :
          Occupied(q) /\ Frames(q) /\ Walked(q) /\ Order(q) /\ Chained(q)
    BY <1>t DEF Ring
  <2>2. Occupied(q)'
    BY <1>1, <1>4, <2>1 DEF Occupied, Fd
  <2>3. Frames(q)'
    BY <1>1, <1>4, <2>1 DEF Frames, Number, Part, Frag, Fd
  <2>4. Walked(q)'
    BY <1>1, <1>3, <1>4, <2>1 DEF Walked, Number, Part, Frag, Fd
  <2>5. Order(q)'
    BY <1>1, <1>4, <2>1 DEF Order, Number, Frag, Fd
  <2>6. Chained(q)'
    BY <1>1, <1>3, <1>4, <1>5, <2>1 DEF Chained, Number, Frag, Fd
  <2> QED BY <2>2, <2>3, <2>4, <2>5, <2>6 DEF Ring
<1>8. Owners'
  <2>1. Hand' = Hand /\ InRing' = InRing
    BY <1>1, <1>3, <1>5 DEF Hand, InRing
  <2>2. CASE NetxRelease
    <3>1. PICK p \in netx : netx' = netx \ {p} /\ pool' = pool \union {p}
      BY <2>2 DEF NetxRelease
    <3> QED BY <1>t, <1>1, <2>1, <3>1 DEF Owners
  <2>3. CASE ~NetxRelease
    <3>1. UNCHANGED <<pool, netx>>
      BY <2>3 DEF Quiet, DmaStop, Isr, IsrReceive, IsrClear, IpWake, WalkEnd, vars, owners
    <3> QED BY <1>t, <1>1, <2>1, <3>1 DEF Owners
  <2> QED BY <2>2, <2>3
<1> QED BY <1>6, <1>7, <1>8

\* An event that is picked up: the walk begins at the current descriptor.
LEMMA PickupKeeps ==
  ASSUME Inv, DeferredPickup
  PROVE  Cursor' /\ Ring' /\ Owners'
<1>t. TypeOK /\ Cursor /\ Ring /\ Owners
  BY DEF Inv
<1>1. /\ UNCHANGED <<empty, last, packets, current, next, content, dma, written, length>>
      /\ UNCHANGED <<pool, netx, i, arrived, delivered>>
      /\ pc = "pickup" /\ pc' \in {"walk", "idle"}
      /\ pc' = "walk" => /\ first_idx' = current /\ idx' = current /\ bd_count' = 0
                         /\ received' = packets[current]
  BY DEF DeferredPickup, ring, memory, owners, enet, history
<1>2. current \in Bd /\ N \in Nat \ {0, 1}
  BY <1>t, EnetReceiveAssumption DEF TypeOK
<1>3. Front' = Front /\ Gap' = Gap /\ Kept' = Kept /\ Front = current
  BY <1>1 DEF Front, Gap, Kept, Replacing
<1>4. Cursor'
  BY <1>1, <1>2, PosZero DEF Cursor, Replacing
<1>5. Ring'
  <2>1. PICK q \in 0 .. N : Occupied(q) /\ Frames(q) /\ Order(q)
    BY <1>t DEF Ring
  <2>2. Occupied(q)'
    BY <1>1, <1>3, <2>1 DEF Occupied, Fd
  <2>3. Frames(q)'
    BY <1>1, <1>3, <2>1 DEF Frames, Number, Part, Frag, Fd
  <2>4. Walked(q)'
    <3>1. SUFFICES ASSUME pc' = "walk" PROVE Walked(q)'
      BY DEF Walked
    <3>2. bd_count' = 0 /\ received' = packets[current]
      BY <1>1, <3>1
    <3>3. q > 0 => Part(0)' = 0 + 1
      BY <2>3 DEF Frames
    <3> QED BY <1>1, <3>2, <3>3 DEF Walked
  <2>5. Order(q)'
    BY <1>1, <1>3, <2>1 DEF Order, Number, Frag, Fd
  <2>6. Chained(q)'
    BY <1>1 DEF Chained
  <2> QED BY <2>2, <2>3, <2>4, <2>5, <2>6 DEF Ring
<1>6. Owners'
  <2>1. Hand = {} /\ Hand' = {} /\ InRing' = InRing
    BY <1>1 DEF Hand, InRing
  <2> QED BY <1>t, <1>1, <2>1 DEF Owners
<1> QED BY <1>4, <1>5, <1>6

-----------------------------------------------------------------------------
(* The DMA writes a fragment behind the q that are in the ring.            *)

LEMMA DmaKeeps ==
  ASSUME Inv, DmaReceive
  PROVE  Cursor' /\ Ring' /\ Owners'
<1>t. TypeOK /\ Cursor /\ Ring /\ Owners
  BY DEF Inv
<1>1. /\ UNCHANGED <<packets, current, next, pool, netx, pc, first_idx, idx, bd_count, i>>
      /\ UNCHANGED <<received, delivered>>
      /\ empty[dma]
      /\ content' = [content EXCEPT ![packets[dma]] = <<arrived', written + 1>>]
      /\ empty' = [empty EXCEPT ![dma] = FALSE]
      /\ last' = [last EXCEPT ![dma] = (written + 1 = length')]
      /\ dma' = After(dma)
  BY DEF DmaReceive, owners, locals
<1>2. /\ Front' = Front /\ Gap' = Gap /\ Kept' = Kept /\ Frame' = Frame
      /\ (Replacing' <=> Replacing)
  <2>1. Front' = Front /\ Gap' = Gap /\ Kept' = Kept /\ (Replacing' <=> Replacing)
    BY <1>1 DEF Front, Gap, Kept, Replacing
  <2>2. Frame' = Frame
    BY <1>1 DEF Frame, Chain
  <2> QED BY <2>1, <2>2
<1>3. Cursor'
  BY <1>t, <1>1, <1>2 DEF Cursor
<1>4. Owners'
  <2>1. Hand' = Hand /\ InRing' = InRing
    BY <1>1, <1>2 DEF Hand, InRing
  <2> QED BY <1>t, <1>1, <2>1 DEF Owners
<1>5. PICK q \in 0 .. N : Occupied(q) /\ Frames(q) /\ Walked(q) /\ Order(q) /\ Chained(q)
  BY <1>t DEF Ring
<1>6. /\ Front \in Bd /\ Fd(0) = Front /\ Fd(N) = Front
      /\ \A k \in Int : Fd(k) \in Bd /\ After(Fd(k)) = Fd(k + 1)
      /\ \A j, k \in 0 .. N - 1 : Fd(j) = Fd(k) => j = k
      /\ Gap \in 0 .. N /\ Kept \in 0 .. N /\ Gap + Kept <= N
  BY <1>t, Positions
<1>7. N \in Nat \ {0, 1} /\ MaxBds \in 1 .. N /\ MaxFrames \in Nat
  BY EnetReceiveAssumption
<1>8. /\ dma = Fd(q) /\ (Kept > 0 => q <= Gap)
      /\ \A k \in 0 .. N - 1 : empty[Fd(k)] <=> k >= q /\ ~(Gap <= k /\ k < Gap + Kept)
  BY <1>5 DEF Occupied
<1>9. q < N
  <2>1. SUFFICES ASSUME q = N PROVE FALSE
    BY <1>7
  <2>2. dma = Fd(0) /\ 0 \in 0 .. N - 1
    BY <1>6, <1>7, <1>8, <2>1
  <2> QED BY <1>1, <1>7, <1>8, <2>1, <2>2
<1>10. q \in 0 .. N - 1 /\ q + 1 \in 0 .. N /\ (Kept > 0 => q + 1 <= Gap)
  <2>1. ~(Gap <= q /\ q < Gap + Kept) /\ q \in 0 .. N - 1
    BY <1>1, <1>7, <1>8, <1>9
  <2> QED BY <1>6, <1>7, <1>8, <2>1
<1>11. \A k \in 0 .. N - 1 : k # q => Fd(k) # dma /\ packets[Fd(k)] # packets[dma]
  <2>1. ASSUME NEW k \in 0 .. N - 1, k # q
        PROVE  Fd(k) # dma /\ packets[Fd(k)] # packets[dma]
    <3>1. Fd(k) # dma
      BY <1>6, <1>8, <1>10, <2>1
    <3>2. Fd(k) \in Bd /\ dma \in Bd
      BY <1>t, <1>6, <1>7, <2>1 DEF TypeOK
    <3> QED BY <1>t, <3>1, <3>2 DEF Owners
  <2> QED BY <2>1
<1>12. /\ dma \in Bd /\ packets[dma] \in Packets
       /\ packets \in [Bd -> Packets] /\ empty \in [Bd -> BOOLEAN] /\ last \in [Bd -> BOOLEAN]
       /\ content \in [Packets -> (0 .. MaxFrames) \X (0 .. MaxBds)]
       /\ written \in 0 .. MaxBds /\ length \in 0 .. MaxBds /\ arrived \in 0 .. MaxFrames
  BY <1>t DEF TypeOK
\* The fragment that is written, and the others.
<1>13. /\ ~empty'[Fd(q)] /\ (last'[Fd(q)] <=> written + 1 = length')
       /\ content'[packets[Fd(q)]] = <<arrived', written + 1>>
  BY <1>1, <1>8, <1>12
<1>14. \A k \in 0 .. N - 1 : k # q =>
         /\ empty'[Fd(k)] = empty[Fd(k)] /\ last'[Fd(k)] = last[Fd(k)]
         /\ content'[packets[Fd(k)]] = content[packets[Fd(k)]]
  <2>1. ASSUME NEW k \in 0 .. N - 1, k # q
        PROVE  /\ empty'[Fd(k)] = empty[Fd(k)] /\ last'[Fd(k)] = last[Fd(k)]
               /\ content'[packets[Fd(k)]] = content[packets[Fd(k)]]
    <3>1. Fd(k) \in Bd /\ packets[Fd(k)] \in Packets
      BY <1>6, <1>12, <2>1
    <3> QED BY <1>1, <1>11, <1>12, <2>1, <3>1
  <2> QED BY <2>1
<1>15. /\ \A k \in Int : Fd(k)' = Fd(k)
       /\ \A k \in Int : Number(k)' = content'[packets[Fd(k)]][1]
       /\ \A k \in Int : Part(k)' = content'[packets[Fd(k)]][2]
  BY <1>1, <1>2 DEF Fd, Number, Part, Frag
<1>16. /\ \A k \in 0 .. N - 1 : k # q => Number(k)' = Number(k) /\ Part(k)' = Part(k)
       /\ Number(q)' = arrived' /\ Part(q)' = written + 1
  <2>1. /\ \A k \in 0 .. N - 1 : k \in Int
        /\ \A k \in Int : Number(k) = content[packets[Fd(k)]][1] /\ Part(k) = content[packets[Fd(k)]][2]
    BY DEF Number, Part, Frag
  <2> QED BY <1>10, <1>13, <1>14, <1>15, <2>1
<1>17. /\ arrived \in Int /\ arrived' \in Int /\ length' \in 1 .. MaxBds
       /\ written + 1 <= length' /\ 0 <= arrived
       /\ written = 0 => arrived' = arrived + 1
       /\ written > 0 => arrived' = arrived
  <2>0. written > 0 => written < length
    BY <1>5 DEF Frames
  <2>1. CASE written = 0 /\ arrived' = arrived + 1 /\ length' \in 1 .. MaxBds
    BY <1>7, <1>12, <2>1
  <2>2. CASE written > 0 /\ UNCHANGED <<arrived, length>>
    BY <1>7, <1>12, <2>0, <2>2
  <2> QED BY <2>1, <2>2 DEF DmaReceive
<1>18. /\ written + 1 = length' => written' = 0
       /\ written + 1 # length' => written' = written + 1
  BY DEF DmaReceive
<1>19. Occupied(q + 1)'
  <2>1. dma' = Fd(q + 1)' /\ Kept' = Kept /\ Gap' = Gap
    BY <1>1, <1>2, <1>6, <1>8, <1>10, <1>15
  <2>2. Kept > 0 => q + 1 <= Gap
    BY <1>10
  <2>3. ASSUME NEW k \in 0 .. N - 1
        PROVE  empty'[Fd(k)] <=> k >= q + 1 /\ ~(Gap <= k /\ k < Gap + Kept)
    <3>1. CASE k = q
      BY <1>7, <1>10, <1>13, <3>1
    <3>2. CASE k # q
      <4>1. empty'[Fd(k)] <=> empty[Fd(k)]
        BY <1>14, <3>2
      <4>2. k >= q + 1 <=> k >= q
        BY <1>7, <1>10, <3>2
      <4> QED BY <1>8, <4>1, <4>2
    <3> QED BY <3>1, <3>2
  <2>4. \A k \in 0 .. N - 1 : empty'[Fd(k)'] <=> k >= q + 1 /\ ~(Gap' <= k /\ k < Gap' + Kept')
    BY <1>2, <1>15, <2>3
  <2> QED BY <2>1, <2>2, <2>4 DEF Occupied
<1>20. Frames(q + 1)'
  <2>0. /\ \A k \in 0 .. q - 1 :
             /\ Number(k) \in 1 .. arrived /\ Part(k) \in 1 .. MaxBds
             /\ last[Fd(k)] \/ Part(k) < MaxBds
        /\ \A k \in 1 .. q - 1 :
             IF last[Fd(k - 1)] THEN Number(k - 1) < Number(k) /\ Part(k) = 1
             ELSE Number(k) = Number(k - 1) /\ Part(k) = Part(k - 1) + 1
        /\ q > 0 => Part(0) = 1
        /\ written = 0 => q = 0 \/ last[Fd(q - 1)]
        /\ written > 0 => /\ q > 0 /\ ~last[Fd(q - 1)]
                          /\ Number(q - 1) = arrived /\ Part(q - 1) = written
    BY <1>5 DEF Frames
  <2>1. ASSUME NEW k \in 0 .. q
        PROVE  /\ Number(k)' \in 1 .. arrived' /\ Part(k)' \in 1 .. MaxBds
               /\ last'[Fd(k)'] \/ Part(k)' < MaxBds
    <3>0. k \in 0 .. N - 1 /\ Fd(k)' = Fd(k)
      BY <1>7, <1>10, <1>15
    <3>1. CASE k = q
      <4>1. /\ Number(k)' = arrived' /\ Part(k)' = written + 1
            /\ last'[Fd(k)'] <=> written + 1 = length'
        BY <1>13, <1>16, <3>0, <3>1
      <4>2. arrived' \in 1 .. arrived'
        BY <1>12, <1>17, <2>0
      <4>3. written + 1 \in 1 .. MaxBds /\ (written + 1 # length' => written + 1 < MaxBds)
        BY <1>7, <1>12, <1>17
      <4> QED BY <4>1, <4>2, <4>3
    <3>2. CASE k # q
      <4>1. /\ Number(k)' = Number(k) /\ Part(k)' = Part(k)
            /\ last'[Fd(k)'] = last[Fd(k)] /\ k \in 0 .. q - 1
        BY <1>7, <1>10, <1>14, <1>16, <3>0, <3>2
      <4>2. /\ Number(k) \in 1 .. arrived /\ Part(k) \in 1 .. MaxBds
            /\ last[Fd(k)] \/ Part(k) < MaxBds
        BY <2>0, <4>1
      <4>3. arrived <= arrived'
        BY <1>12, <1>17
      <4>4. Number(k) \in 1 .. arrived'
        BY <1>17, <4>2, <4>3
      <4> QED BY <4>1, <4>2, <4>4
    <3> QED BY <3>1, <3>2
  <2>2. ASSUME NEW k \in 1 .. q
        PROVE  IF last'[Fd(k - 1)'] THEN Number(k - 1)' < Number(k)' /\ Part(k)' = 1
               ELSE Number(k)' = Number(k - 1)' /\ Part(k)' = Part(k - 1)' + 1
    <3>0. /\ k \in 0 .. N - 1 /\ k - 1 \in 0 .. N - 1 /\ k - 1 # q /\ k - 1 \in 0 .. q - 1
          /\ Fd(k - 1)' = Fd(k - 1)
      BY <1>7, <1>10, <1>15
    <3>1. /\ last'[Fd(k - 1)'] = last[Fd(k - 1)]
          /\ Number(k - 1)' = Number(k - 1) /\ Part(k - 1)' = Part(k - 1)
      BY <1>14, <1>16, <3>0
    <3>2. CASE k = q
      <4>1. Number(k)' = arrived' /\ Part(k)' = written + 1 /\ q > 0
        BY <1>16, <3>2
      <4>2. Number(k - 1) \in 1 .. arrived
        BY <2>0, <3>0
      <4>3. CASE written = 0
        <5>1. last[Fd(k - 1)] /\ Number(k - 1) < arrived' /\ written + 1 = 1
          BY <1>17, <2>0, <3>2, <4>1, <4>2, <4>3
        <5> QED BY <3>1, <4>1, <5>1
      <4>4. CASE written > 0
        <5>1. ~last[Fd(k - 1)] /\ Number(k - 1) = arrived' /\ Part(k - 1) = written
          BY <1>17, <2>0, <3>2, <4>4
        <5> QED BY <3>1, <4>1, <5>1
      <4> QED BY <1>12, <4>3, <4>4
    <3>3. CASE k # q
      <4>1. k \in 1 .. q - 1 /\ Number(k)' = Number(k) /\ Part(k)' = Part(k)
        BY <1>7, <1>10, <1>16, <3>0, <3>3
      <4> QED BY <2>0, <3>1, <4>1
    <3> QED BY <3>2, <3>3
  <2>3. Part(0)' = 1
    <3>1. CASE q = 0
      <4>1. written = 0
        BY <1>12, <2>0, <3>1
      <4> QED BY <1>16, <3>1, <4>1
    <3>2. CASE q # 0
      <4>1. q > 0 /\ 0 \in 0 .. N - 1
        BY <1>7, <1>10, <3>2
      <4> QED BY <1>16, <2>0, <3>2, <4>1
    <3> QED BY <3>1, <3>2
  <2>4. written' = 0 => last'[Fd(q)']
    BY <1>10, <1>12, <1>13, <1>15, <1>18
  <2>5. written' > 0 => /\ ~last'[Fd(q)'] /\ written' < length'
                        /\ Number(q)' = arrived' /\ Part(q)' = written'
    <3>1. SUFFICES ASSUME written' > 0
                   PROVE  /\ ~last'[Fd(q)'] /\ written' < length'
                          /\ Number(q)' = arrived' /\ Part(q)' = written'
      OBVIOUS
    <3>2. written + 1 # length' /\ written' = written + 1
      BY <1>18, <3>1
    <3>3. written + 1 < length'
      BY <1>7, <1>12, <1>17, <3>2
    <3> QED BY <1>10, <1>13, <1>15, <1>16, <3>2, <3>3
  <2>6. (q + 1) - 1 = q /\ q + 1 > 0 /\ q + 1 # 0
    BY <1>10
  <2> HIDE DEF Number, Part, Fd
  <2> QED BY <2>1, <2>2, <2>3, <2>4, <2>5, <2>6 DEF Frames
<1>21. Walked(q + 1)'
  <2>1. SUFFICES ASSUME pc' = "walk" PROVE Walked(q + 1)'
    BY DEF Walked
  <2>2. /\ bd_count <= q
        /\ \A k \in 0 .. bd_count - 1 :
             ~last[Fd(k)] /\ next[packets[Fd(k)]] = packets[Fd(k + 1)]
        /\ \A k \in 0 .. bd_count :
             k < q => Number(k) = Number(0) /\ Part(k) = k + 1
        /\ received = packets[current]
    BY <1>1, <1>5, <2>1 DEF Walked
  <2>3. bd_count \in Nat
    BY <1>t, <1>7 DEF TypeOK
  <2>4. ASSUME NEW k \in 0 .. bd_count - 1
        PROVE  ~last'[Fd(k)'] /\ next[packets[Fd(k)']] = packets[Fd(k + 1)']
    <3>1. k \in 0 .. N - 1 /\ k # q
      BY <1>7, <1>10, <2>2, <2>3
    <3>2. Fd(k)' = Fd(k) /\ Fd(k + 1)' = Fd(k + 1) /\ last'[Fd(k)] = last[Fd(k)]
      BY <1>14, <1>15, <3>1
    <3> QED BY <2>2, <3>2
  <2>5. ASSUME NEW k \in 0 .. bd_count, k < q + 1
        PROVE  Number(k)' = Number(0)' /\ Part(k)' = k + 1
    <3>0. /\ Part(0)' = 1
          /\ written = 0 => q = 0 \/ last[Fd(q - 1)]
          /\ written > 0 => Number(q - 1) = arrived /\ Part(q - 1) = written
      <4>1. q + 1 > 0
        BY <1>10
      <4> QED BY <1>5, <1>20, <4>1 DEF Frames
    <3>1. CASE k < q
      <4>1. k \in 0 .. N - 1 /\ 0 \in 0 .. N - 1 /\ k # q /\ 0 # q
        BY <1>7, <1>10, <2>3, <3>1
      <4>2. Number(k) = Number(0) /\ Part(k) = k + 1
        BY <2>2, <3>1
      <4>3. Number(k)' = Number(k) /\ Part(k)' = Part(k) /\ Number(0)' = Number(0)
        BY <1>16, <4>1
      <4> QED BY <4>2, <4>3
    <3>2. CASE k = q /\ q = 0
      BY <3>0, <3>2
    <3>3. CASE k = q /\ q # 0
      <4>1. /\ q - 1 \in 0 .. bd_count - 1 /\ q - 1 \in 0 .. bd_count /\ q - 1 < q
            /\ (q - 1) + 1 = q /\ 0 \in 0 .. N - 1
        BY <1>7, <1>10, <2>2, <2>3, <2>5, <3>3
      <4>2. ~last[Fd(q - 1)] /\ Number(q - 1) = Number(0) /\ Part(q - 1) = (q - 1) + 1
        BY <2>2, <4>1
      <4>3. written > 0 /\ Number(0) = arrived /\ written = q
        BY <1>12, <3>0, <3>3, <4>1, <4>2
      <4>4. Number(0)' = Number(0) /\ Number(q)' = arrived /\ Part(q)' = q + 1
        BY <1>16, <1>17, <3>3, <4>1, <4>3
      <4> QED BY <3>3, <4>3, <4>4
    <3> QED BY <1>10, <2>3, <2>5, <3>1, <3>2, <3>3
  <2>6. bd_count <= q + 1
    BY <1>10, <2>2, <2>3
  <2> QED BY <1>1, <2>2, <2>4, <2>5, <2>6 DEF Walked
\* The number of the first fragment, if it is the one that is written.
<1>22. /\ q = 0 => Number(0)' = arrived + 1
       /\ q > 0 => Number(0)' = Number(0)
  <2>1. written > 0 => q > 0
    BY <1>5 DEF Frames
  <2>2. 0 \in 0 .. N - 1
    BY <1>7
  <2>3. q = 0 => written = 0
    BY <1>12, <2>1
  <2> QED BY <1>10, <1>16, <1>17, <2>2, <2>3
<1>23. Order(q + 1)'
  <2>1. /\ \A k \in DOMAIN delivered : delivered[k] \in 1 .. arrived
        /\ \A j, k \in DOMAIN delivered : j < k => delivered[j] < delivered[k]
        /\ q > 0 => \A k \in DOMAIN delivered : delivered[k] < Number(0)
    BY <1>5 DEF Order
  <2>2. arrived <= arrived'
    BY <1>12, <1>17
  <2>3. \A k \in DOMAIN delivered : delivered[k] \in 1 .. arrived'
    BY <1>17, <2>1, <2>2
  <2>4. \A k \in DOMAIN delivered : delivered[k] < Number(0)'
    BY <1>10, <1>17, <1>22, <2>1
  <2> QED BY <1>1, <2>1, <2>3, <2>4 DEF Order
<1>24. Chained(q + 1)'
  <2>1. SUFFICES ASSUME pc = "replace" PROVE Chained(q + 1)'
    BY <1>1 DEF Chained
  <2>2. /\ Frame \in [1 .. bd_count + 1 -> Packets] /\ Frame[1] = received
        /\ \A k \in 1 .. bd_count : next[Frame[k]] = Frame[k + 1]
        /\ next[Frame[bd_count + 1]] = None
        /\ \A k \in 0 .. i : Frame[k + 1] = packets[Fd(Gap + k)]
        /\ \A k \in 1 .. bd_count + 1 : content[Frame[k]] = <<content[received][1], k>>
        /\ content[received][1] \in 1 .. arrived
        /\ \A k \in DOMAIN delivered : delivered[k] < content[received][1]
        /\ q > 0 => content[received][1] < Number(0)
    BY <1>5, <2>1 DEF Chained
  <2>3. /\ bd_count \in 0 .. N - 1 /\ i \in -1 .. bd_count /\ Replacing
        /\ Kept = i + 1 /\ Gap = N - (bd_count + 1)
    BY <1>t, <1>7, <2>1 DEF TypeOK, Cursor, Kept, Gap, Replacing
  <2>4. ASSUME NEW k \in 1 .. bd_count + 1
        PROVE  content'[Frame[k]] = content[Frame[k]]
    <3>1. Frame[k] \in Packets
      BY <2>2
    <3>2. Frame[k] # packets[dma]
      <4>1. CASE k <= i + 1
        <5>1. k - 1 \in 0 .. i /\ (k - 1) + 1 = k /\ Kept > 0
          BY <2>3, <4>1
        <5>2. Frame[k] = packets[Fd(Gap + (k - 1))]
          BY <2>2, <5>1
        <5>3. Gap + (k - 1) \in 0 .. N - 1 /\ Gap + (k - 1) # q
          BY <1>6, <1>7, <1>10, <2>3, <5>1
        <5> QED BY <1>11, <5>2, <5>3
      <4>2. CASE ~(k <= i + 1)
        <5>1. k \in i + 2 .. bd_count + 1
          BY <2>3, <4>2
        <5>2. Frame[k] \in Hand
          BY <2>1, <5>1 DEF Hand
        <5>3. packets[dma] \in InRing
          BY <1>12 DEF InRing
        <5> QED BY <1>t, <5>2, <5>3 DEF Owners
      <4> QED BY <4>1, <4>2
    <3> QED BY <1>1, <1>12, <3>1, <3>2
  <2>5. content'[received] = content[received]
    <3>1. 1 \in 1 .. bd_count + 1
      BY <2>3
    <3> QED BY <2>2, <2>4, <3>1
  <2>6. \A k \in 0 .. i : Frame[k + 1] = packets[Fd(Gap + k)']
    <3>1. \A k \in 0 .. i : Fd(Gap + k)' = Fd(Gap + k)
      BY <1>2 DEF Fd
    <3> QED BY <2>2, <3>1
  <2>7. content[received][1] \in 1 .. arrived' /\ content[received][1] < Number(0)'
    <3>1. arrived <= arrived'
      BY <1>12, <1>17
    <3> QED BY <1>10, <1>17, <1>22, <2>2, <3>1
  <2>8. \A k \in 1 .. bd_count + 1 : content'[Frame[k]] = <<content'[received][1], k>>
    BY <2>2, <2>4, <2>5
  <2> QED BY <1>1, <1>2, <2>2, <2>5, <2>6, <2>7, <2>8 DEF Chained
<1>25. Ring'
  <2>1. q + 1 \in 0 .. N
    BY <1>10
  <2> QED BY <1>19, <1>20, <1>21, <1>23, <1>24, <2>1, Zenon DEF Ring
<1> QED BY <1>3, <1>4, <1>25

-----------------------------------------------------------------------------
(* The walk.                                                               *)

\* What the routine knows of the descriptor it stands at.
LEMMA AtCursor ==
  ASSUME TypeOK, Cursor, pc = "walk", ~empty[idx],
         NEW q \in 0 .. N, Occupied(q), Frames(q), Walked(q)
  PROVE  /\ bd_count \in 0 .. q - 1 /\ Front = current /\ Gap = N /\ Kept = 0
         /\ idx = Fd(bd_count) /\ received = packets[Fd(0)]
         /\ Number(bd_count) = Number(0) /\ Part(bd_count) = bd_count + 1
         /\ Part(bd_count) \in 1 .. MaxBds /\ Number(0) \in 1 .. arrived
         /\ last[idx] \/ bd_count + 1 < N
<1>1. /\ bd_count \in 0 .. N - 1 /\ N \in Nat \ {0, 1} /\ MaxBds \in 1 .. N
  BY EnetReceiveAssumption DEF TypeOK, Cursor
<1>2. Front = current /\ Gap = N /\ Kept = 0
  BY DEF Front, Gap, Kept, Replacing
<1>3. idx = Fd(bd_count) /\ Fd(0) = Front
  BY Positions
<1>4. bd_count < q
  <2>1. empty[Fd(bd_count)] <=> bd_count >= q /\ ~(Gap <= bd_count /\ bd_count < Gap + Kept)
    BY <1>1 DEF Occupied
  <2> QED BY <1>1, <1>2, <1>3, <2>1
<1>5. bd_count \in 0 .. q - 1 /\ bd_count \in 0 .. bd_count /\ 0 \in 0 .. q - 1
  BY <1>1, <1>4
<1>6. Number(bd_count) = Number(0) /\ Part(bd_count) = bd_count + 1 /\ received = packets[current]
  BY <1>4, <1>5 DEF Walked
<1>7. /\ Part(bd_count) \in 1 .. MaxBds /\ Number(0) \in 1 .. arrived
      /\ last[Fd(bd_count)] \/ Part(bd_count) < MaxBds
  BY <1>5 DEF Frames
<1> QED BY <1>1, <1>2, <1>3, <1>5, <1>6, <1>7

\* The next pointer of one packet of the ring says nothing of the others.
LEMMA NextOf ==
  ASSUME TypeOK, Cursor, Owners, NEW k \in 0 .. N - 1, NEW m \in 0 .. N - 1, k # m,
         NEW x, next' = [next EXCEPT ![packets[Fd(m)]] = x]
  PROVE  next'[packets[Fd(k)]] = next[packets[Fd(k)]]
<1>1. Fd(k) \in Bd /\ Fd(m) \in Bd /\ Fd(k) # Fd(m)
  <2>1. /\ \A j \in Int : Fd(j) \in Bd
        /\ \A a, b \in 0 .. N - 1 : Fd(a) = Fd(b) => a = b
    BY Positions
  <2> QED BY <2>1, EnetReceiveAssumption
<1>2. packets[Fd(k)] # packets[Fd(m)] /\ packets[Fd(k)] \in Packets
  BY <1>1 DEF Owners, TypeOK
<1>3. next \in [Packets -> Packets \union {None}]
  BY DEF TypeOK
<1> QED BY <1>2, <1>3

LEMMA LinkKeeps ==
  ASSUME Inv, WalkLink
  PROVE  Cursor' /\ Ring' /\ Owners'
<1>t. TypeOK /\ Cursor /\ Ring /\ Owners
  BY DEF Inv
<1>1. /\ UNCHANGED <<empty, last, packets, current, content, dma, written, length>>
      /\ UNCHANGED <<pool, netx, pc, first_idx, i, received, arrived, delivered>>
      /\ pc = "walk" /\ ~empty[idx] /\ ~last[idx]
      /\ next' = [next EXCEPT ![packets[idx]] = packets[After(idx)]]
      /\ bd_count' = bd_count + 1 /\ idx' = After(idx)
  BY DEF WalkLink, ring, owners, enet, events, history
<1>2. PICK q \in 0 .. N : Occupied(q) /\ Frames(q) /\ Walked(q) /\ Order(q) /\ Chained(q)
  BY <1>t DEF Ring
<1>3. /\ bd_count \in 0 .. q - 1 /\ Front = current /\ Gap = N /\ Kept = 0
      /\ idx = Fd(bd_count) /\ received = packets[Fd(0)]
      /\ Number(bd_count) = Number(0) /\ Part(bd_count) = bd_count + 1
      /\ last[idx] \/ bd_count + 1 < N
  BY <1>t, <1>1, <1>2, AtCursor
<1>4. /\ After(idx) = Fd(bd_count + 1) /\ bd_count + 1 < N /\ N \in Nat \ {0, 1}
      /\ Front \in Bd
  <2>1. Front \in Bd /\ \A k \in Int : After(Fd(k)) = Fd(k + 1)
    BY <1>t, Positions
  <2> QED BY <1>1, <1>3, <2>1, EnetReceiveAssumption
<1>5. Front' = Front /\ Gap' = Gap /\ Kept' = Kept /\ ~Replacing'
  BY <1>1, <1>3 DEF Front, Gap, Kept, Replacing
<1>6. Cursor'
  <2>1. first_idx = current
    BY <1>t, <1>1 DEF Cursor
  <2>2. After(idx) = Pos(current, bd_count + 1)
    BY <1>3, <1>4 DEF Fd
  <2> QED BY <1>1, <1>4, <1>5, <2>1, <2>2 DEF Cursor
<1>7. Occupied(q)'
  BY <1>1, <1>2, <1>5 DEF Occupied, Fd
<1>8. Frames(q)'
  BY <1>1, <1>2, <1>5 DEF Frames, Number, Part, Frag, Fd
<1>9. Order(q)'
  BY <1>1, <1>2, <1>5 DEF Order, Number, Frag, Fd
<1>10. Chained(q)'
  BY <1>1 DEF Chained
<1>11. Walked(q)'
  <2>1. /\ \A k \in 0 .. bd_count - 1 :
             ~last[Fd(k)] /\ next[packets[Fd(k)]] = packets[Fd(k + 1)]
        /\ \A k \in 0 .. bd_count :
             k < q => Number(k) = Number(0) /\ Part(k) = k + 1
        /\ received = packets[current]
    BY <1>1, <1>2 DEF Walked
  <2>2. \A k \in Int : Fd(k)' = Fd(k) /\ Number(k)' = Number(k) /\ Part(k)' = Part(k)
    BY <1>1, <1>5 DEF Number, Part, Frag, Fd
  <2>3. ASSUME NEW k \in 0 .. bd_count
        PROVE  ~last[Fd(k)] /\ next'[packets[Fd(k)]] = packets[Fd(k + 1)]
    <3>1. CASE k = bd_count
      <4>1. packets[idx] \in Packets /\ next \in [Packets -> Packets \union {None}]
        BY <1>t DEF TypeOK
      <4> QED BY <1>1, <1>3, <1>4, <3>1, <4>1
    <3>2. CASE k # bd_count
      <4>1. k \in 0 .. N - 1 /\ bd_count \in 0 .. N - 1 /\ k \in 0 .. bd_count - 1
        BY <1>3, <1>4, <3>2
      <4>2. next' = [next EXCEPT ![packets[Fd(bd_count)]] = packets[After(idx)]]
        BY <1>1, <1>3
      <4>3. next'[packets[Fd(k)]] = next[packets[Fd(k)]]
        BY <1>t, <3>2, <4>1, <4>2, NextOf
      <4> QED BY <2>1, <4>1, <4>3
    <3> QED BY <3>1, <3>2
  <2>4. ASSUME NEW k \in 0 .. bd_count + 1, k < q
        PROVE  Number(k) = Number(0) /\ Part(k) = k + 1
    <3>1. CASE k = bd_count + 1
      <4>1. k \in 1 .. q - 1 /\ k - 1 = bd_count
        BY <1>3, <2>4, <3>1
      <4>2. IF last[Fd(k - 1)] THEN Number(k - 1) < Number(k) /\ Part(k) = 1
            ELSE Number(k) = Number(k - 1) /\ Part(k) = Part(k - 1) + 1
        BY <1>2, <4>1 DEF Frames
      <4>3. ~last[Fd(k - 1)]
        BY <1>1, <1>3, <4>1
      <4> QED BY <1>3, <3>1, <4>1, <4>2, <4>3
    <3>2. CASE k # bd_count + 1
      <4>1. k \in 0 .. bd_count
        BY <1>3, <3>2
      <4> QED BY <2>1, <2>4, <4>1
    <3> QED BY <3>1, <3>2
  <2>5. bd_count + 1 <= q /\ (bd_count + 1) - 1 = bd_count /\ bd_count + 1 \in Int
    BY <1>3
  <2>6. \A k \in 0 .. bd_count : ~last'[Fd(k)'] /\ next'[packets'[Fd(k)']] = packets'[Fd(k + 1)']
    <3>1. \A k \in 0 .. bd_count : Fd(k)' = Fd(k) /\ Fd(k + 1)' = Fd(k + 1)
      BY <1>3, <2>2
    <3> QED BY <1>1, <2>3, <3>1
  <2>7. \A k \in 0 .. bd_count + 1 : k < q => Number(k)' = Number(0)' /\ Part(k)' = k + 1
    BY <1>3, <2>2, <2>4
  <2> QED BY <1>1, <2>1, <2>5, <2>6, <2>7 DEF Walked
<1>12. Owners'
  <2>1. Hand = {} /\ Hand' = {} /\ InRing' = InRing
    BY <1>1 DEF Hand, InRing
  <2> QED BY <1>t, <1>1, <2>1 DEF Owners
<1> QED BY <1>6, <1>7, <1>8, <1>9, <1>10, <1>11, <1>12 DEF Ring

\* The descriptor N behind another is the same one.
LEMMA Round ==
  ASSUME NEW d \in Bd, NEW k \in Int
  PROVE  Pos(d, N + k) = Pos(d, k)
<1>1. N \in Int
  BY EnetReceiveAssumption
<1>2. Pos(Pos(d, N), k) = Pos(d, N + k)
  BY <1>1, PosAdd
<1> QED BY <1>2, PosZero

\* The chain behind received is what is linked.
FrameIs ==
  \A m \in 1 .. N : \A c \in [1 .. m -> Packets] :
    /\ c[1] = received
    /\ \A k \in 1 .. m - 1 : next[c[k]] = c[k + 1]
    /\ next[c[m]] = None
    => Frame = c

LEMMA FrameOfLinks == FrameIs
<1>1. ChainIs
  BY ChainOfLinks
<1> QED BY <1>1, Zenon DEF ChainIs, FrameIs, Frame

\* The end of a frame: what was walked over is the frame in hand now.
LEMMA LastKeeps ==
  ASSUME Inv, WalkLast
  PROVE  Cursor' /\ Ring' /\ Owners'
<1>t. TypeOK /\ Cursor /\ Ring /\ Owners
  BY DEF Inv
<1>1. /\ UNCHANGED <<empty, last, packets, current, content, dma, written, length>>
      /\ UNCHANGED <<pool, netx, first_idx, idx, bd_count, received, arrived, delivered>>
      /\ pc = "walk" /\ pc' = "replace" /\ ~empty[idx] /\ last[idx]
      /\ next' = [next EXCEPT ![packets[idx]] = None] /\ i' = bd_count
  BY DEF WalkLast, ring, owners, enet, events, history
<1>2. PICK q \in 0 .. N : Occupied(q) /\ Frames(q) /\ Walked(q) /\ Order(q) /\ Chained(q)
  BY <1>t DEF Ring
<1>3. /\ bd_count \in 0 .. q - 1 /\ Front = current /\ Gap = N /\ Kept = 0
      /\ idx = Fd(bd_count) /\ received = packets[Fd(0)]
      /\ Number(bd_count) = Number(0) /\ Part(bd_count) = bd_count + 1
      /\ Number(0) \in 1 .. arrived
  BY <1>t, <1>1, <1>2, AtCursor
<1>s. PICK s \in Nat, r \in Int : s = bd_count + 1 /\ r = q - s
  BY <1>3
<1>4. /\ After(idx) = Fd(s) /\ Front \in Bd /\ N \in Nat \ {0, 1}
      /\ \A k \in Int : Fd(k) \in Bd
  <2>1. Front \in Bd /\ \A k \in Int : Fd(k) \in Bd /\ After(Fd(k)) = Fd(k + 1)
    BY <1>t, Positions
  <2> QED BY <1>3, <1>s, <2>1, EnetReceiveAssumption
<1>5. /\ s \in 1 .. q /\ r \in 0 .. N - s /\ r \in 0 .. N /\ s \in 1 .. N
      /\ \A k \in 0 .. N - 1 : k \in Int
  BY <1>3, <1>4, <1>s
<1>6. Replacing' /\ Front' = Fd(s) /\ Gap' = N - s /\ Kept' = s
  BY <1>1, <1>4, <1>s DEF Front, Gap, Kept, Replacing
<1>7. ASSUME NEW k \in Int
      PROVE  /\ Fd(k)' = Fd(s + k) /\ Number(k)' = Number(s + k) /\ Part(k)' = Part(s + k)
             /\ Fd(N + k) = Fd(k)
  <2>1. Fd(k)' = Pos(Fd(s), k)
    BY <1>6 DEF Fd
  <2>2. Pos(Pos(Front, s), k) = Pos(Front, s + k)
    BY <1>4, <1>5, PosAdd
  <2>3. Fd(k)' = Fd(s + k)
    BY <2>1, <2>2, Zenon DEF Fd
  <2>4. Number(k)' = Number(s + k) /\ Part(k)' = Part(s + k)
    BY <1>1, <2>3 DEF Number, Part, Frag
  <2>5. Fd(N + k) = Fd(k)
    BY <1>4, Round DEF Fd
  <2> QED BY <2>3, <2>4, <2>5
<1>8. Cursor'
  <2>1. bd_count < N /\ bd_count <= bd_count
    BY <1>3, <1>4
  <2> QED BY <1>t, <1>1, <1>6, <2>1 DEF Cursor
<1>9. Occupied(r)'
  <2>0. /\ dma = Fd(q)
        /\ \A k \in 0 .. N - 1 : empty[Fd(k)] <=> k >= q /\ ~(Gap <= k /\ k < Gap + Kept)
    BY <1>2 DEF Occupied
  <2>1. dma' = Fd(r)'
    <3>1. s + r = q
      BY <1>5, <1>s
    <3> QED BY <1>1, <1>7, <2>0, <3>1
  <2>2. r <= N - s
    BY <1>5
  <2>3. ASSUME NEW k \in 0 .. N - 1
        PROVE  empty[Fd(s + k)] <=> k >= r /\ ~(N - s <= k /\ k < (N - s) + s)
    <3>1. CASE k < N - s
      <4>1. s + k \in 0 .. N - 1 /\ (s + k >= q <=> k >= r)
        BY <1>4, <1>5, <1>s, <3>1
      <4>2. ~(N <= s + k)
        BY <1>4, <1>5, <1>s, <3>1
      <4>3. empty[Fd(s + k)] <=> s + k >= q
        BY <1>3, <2>0, <4>1, <4>2
      <4> QED BY <1>4, <1>5, <1>s, <3>1, <4>1, <4>3
    <3>2. CASE ~(k < N - s)
      <4>1. (s + k) - N \in 0 .. N - 1 /\ (s + k) - N \in Int /\ N + ((s + k) - N) = s + k /\ (s + k) - N < q
        BY <1>4, <1>5, <1>s, <3>2
      <4>2. Fd(s + k) = Fd((s + k) - N)
        BY <1>7, <4>1
      <4>3. ~empty[Fd((s + k) - N)]
        BY <1>4, <1>5, <1>s, <2>0, <4>1
      <4> QED BY <1>4, <1>5, <1>s, <3>2, <4>2, <4>3
    <3> QED BY <3>1, <3>2
  <2>4. \A k \in 0 .. N - 1 :
          empty'[Fd(k)'] <=> k >= r /\ ~(Gap' <= k /\ k < Gap' + Kept')
    <3>1. \A k \in 0 .. N - 1 : Fd(k)' = Fd(s + k)
      BY <1>5, <1>7
    <3> QED BY <1>1, <1>6, <2>3, <3>1
  <2>5. Kept' > 0 => r <= Gap'
    BY <1>6, <2>2
  <2> QED BY <2>1, <2>4, <2>5 DEF Occupied
<1>10. /\ \A k \in 0 .. q - 1 :
            /\ Number(k) \in 1 .. arrived /\ Part(k) \in 1 .. MaxBds
            /\ last[Fd(k)] \/ Part(k) < MaxBds
       /\ \A k \in 1 .. q - 1 :
            IF last[Fd(k - 1)] THEN Number(k - 1) < Number(k) /\ Part(k) = 1
            ELSE Number(k) = Number(k - 1) /\ Part(k) = Part(k - 1) + 1
       /\ written = 0 => q = 0 \/ last[Fd(q - 1)]
       /\ written > 0 => /\ q > 0 /\ ~last[Fd(q - 1)] /\ written < length
                         /\ Number(q - 1) = arrived /\ Part(q - 1) = written
  BY <1>2 DEF Frames
\* The first fragment behind the frame, if there is one.
<1>11. r > 0 => Number(0) < Number(0)' /\ Part(0)' = 1
  <2>1. SUFFICES ASSUME r > 0 PROVE Number(0) < Number(0)' /\ Part(0)' = 1
    OBVIOUS
  <2>2. s \in 1 .. q - 1 /\ s - 1 = bd_count /\ s + 0 = s
    BY <1>3, <1>5, <1>s, <2>1
  <2>3. last[Fd(s - 1)]
    BY <1>1, <1>3, <2>2
  <2>4. Number(s - 1) < Number(s) /\ Part(s) = 1
    BY <1>10, <2>2, <2>3
  <2>5. Number(0)' = Number(s) /\ Part(0)' = Part(s)
    BY <1>7, <2>2
  <2> QED BY <1>3, <2>2, <2>4, <2>5
<1>12. Frames(r)'
  <2>1. ASSUME NEW k \in 0 .. r - 1
        PROVE  /\ Number(k)' \in 1 .. arrived /\ Part(k)' \in 1 .. MaxBds
               /\ last[Fd(k)'] \/ Part(k)' < MaxBds
    <3>1. s + k \in 0 .. q - 1 /\ k \in Int
      BY <1>5, <1>s
    <3> QED BY <1>7, <1>10, <3>1
  <2>2. ASSUME NEW k \in 1 .. r - 1
        PROVE  IF last[Fd(k - 1)'] THEN Number(k - 1)' < Number(k)' /\ Part(k)' = 1
               ELSE Number(k)' = Number(k - 1)' /\ Part(k)' = Part(k - 1)' + 1
    <3>0. s + k \in 1 .. q - 1 /\ (s + k) - 1 = s + (k - 1)
      BY <1>3, <1>5, <1>s
    <3>1. PICK j \in 1 .. q - 1 : j = s + k /\ j - 1 = s + (k - 1)
      BY <3>0, Zenon
    <3>2. /\ Fd(k - 1)' = Fd(j - 1) /\ Number(k - 1)' = Number(j - 1)
          /\ Part(k - 1)' = Part(j - 1)
      <4>1. k - 1 \in Int
        OBVIOUS
      <4> QED BY <1>7, <3>1, <4>1
    <3>3. Number(k)' = Number(j) /\ Part(k)' = Part(j)
      BY <1>7, <3>1
    <3>4. IF last[Fd(j - 1)] THEN Number(j - 1) < Number(j) /\ Part(j) = 1
          ELSE Number(j) = Number(j - 1) /\ Part(j) = Part(j - 1) + 1
      BY <1>10
    <3>5. last[Fd(k - 1)'] = last[Fd(j - 1)]
      BY <3>2, Zenon
    <3>6. CASE last[Fd(j - 1)]
      BY <3>2, <3>3, <3>4, <3>5, <3>6
    <3>7. CASE ~last[Fd(j - 1)]
      BY <3>2, <3>3, <3>4, <3>5, <3>7
    <3> QED BY <3>6, <3>7
  <2>3. r - 1 \in Int /\ s + (r - 1) = q - 1
    BY <1>5, <1>s
  <2>4. /\ Fd(r - 1)' = Fd(q - 1) /\ Number(r - 1)' = Number(q - 1)
        /\ Part(r - 1)' = Part(q - 1)
    BY <1>7, <2>3
  <2>5. q # 0 /\ (q - 1 # bd_count => r > 0)
    BY <1>3, <1>5, <1>s
  <2>6. q - 1 = bd_count => last[Fd(q - 1)]
    BY <1>1, <1>3, Zenon
  <2>7. last[Fd(r - 1)'] = last[Fd(q - 1)]
    BY <2>4, Zenon
  <2>8. /\ written = 0 => q = 0 \/ last[Fd(q - 1)]
        /\ written > 0 => /\ q > 0 /\ ~last[Fd(q - 1)] /\ written < length
                          /\ Number(q - 1) = arrived /\ Part(q - 1) = written
    BY <1>10, Zenon
  <2>9. written = 0 => r = 0 \/ last[Fd(r - 1)']
    BY <2>5, <2>7, <2>8, Zenon
  <2>10. written > 0 => /\ r > 0 /\ ~last[Fd(r - 1)'] /\ written < length
                        /\ Number(r - 1)' = arrived /\ Part(r - 1)' = written
    BY <2>4, <2>5, <2>6, <2>7, <2>8, Zenon
  <2> QED BY <1>1, <1>11, <2>1, <2>2, <2>9, <2>10 DEF Frames
<1>13. Walked(r)'
  BY <1>1 DEF Walked
<1>14. /\ \A k \in DOMAIN delivered : delivered[k] \in 1 .. arrived
       /\ \A j, k \in DOMAIN delivered : j < k => delivered[j] < delivered[k]
       /\ \A k \in DOMAIN delivered : delivered[k] < Number(0)
  <2>1. q > 0
    BY <1>5
  <2> QED BY <1>2, <2>1 DEF Order
<1>15. Order(r)'
  <2>1. ASSUME r > 0, NEW k \in DOMAIN delivered PROVE delivered[k] < Number(0)'
    <3>1. Number(0) < Number(0)' /\ delivered[k] < Number(0) /\ delivered[k] \in 1 .. arrived
      BY <1>11, <1>14, <2>1
    <3>2. Number(0)' = Number(s + 0) /\ s + 0 \in 0 .. q - 1
      BY <1>5, <1>7, <1>s, <2>1
    <3>3. Number(s + 0) \in Int
      BY <1>10, <3>2
    <3> QED BY <1>3, <3>1, <3>2, <3>3
  <2> QED BY <1>1, <1>14, <2>1 DEF Order
<1>16. next \in [Packets -> Packets \union {None}] /\ packets \in [Bd -> Packets]
  BY <1>t DEF TypeOK
<1>17. PICK c : c = [k \in 1 .. s |-> packets[Fd(k - 1)]]
  OBVIOUS
<1>18. /\ c \in [1 .. s -> Packets] /\ c[1] = received
       /\ \A k \in 1 .. s : c[k] = packets[Fd(k - 1)]
  <2>1. \A k \in 1 .. s : k - 1 \in Int
    BY <1>5
  <2>2. \A k \in 1 .. s : packets[Fd(k - 1)] \in Packets
    BY <1>4, <1>16, <2>1
  <2>3. 1 \in 1 .. s /\ 1 - 1 = 0
    BY <1>5
  <2>4. c[1] = packets[Fd(0)]
    BY <1>17, <2>3
  <2> QED BY <1>3, <1>17, <2>2, <2>4
<1>19. ASSUME NEW k \in 1 .. s - 1 PROVE next'[c[k]] = c[k + 1]
  <2>1. /\ k \in 1 .. s /\ k + 1 \in 1 .. s /\ k - 1 \in 0 .. N - 1 /\ bd_count \in 0 .. N - 1
        /\ k - 1 \in 0 .. bd_count - 1 /\ k - 1 # bd_count /\ (k + 1) - 1 = (k - 1) + 1
    BY <1>3, <1>4, <1>5, <1>s
  <2>2. next' = [next EXCEPT ![packets[Fd(bd_count)]] = None]
    BY <1>1, <1>3
  <2>3. next'[packets[Fd(k - 1)]] = next[packets[Fd(k - 1)]]
    BY <1>t, <2>1, <2>2, NextOf
  <2>4. next[packets[Fd(k - 1)]] = packets[Fd((k - 1) + 1)]
    BY <1>1, <1>2, <2>1 DEF Walked
  <2> QED BY <1>18, <2>1, <2>3, <2>4
<1>20. next'[c[s]] = None
  <2>1. s \in 1 .. s /\ s - 1 = bd_count
    BY <1>3, <1>5, <1>s
  <2>2. c[s] = packets[idx] /\ packets[idx] \in Packets
    BY <1>3, <1>18, <2>1
  <2> QED BY <1>1, <1>16, <2>2
<1>21. Frame' = c
  <2>1. FrameIs'
    BY FrameOfLinks, PTL
  <2>2. c[1] = received'
    BY <1>1, <1>18
  <2> QED BY <1>5, <1>18, <1>19, <1>20, <2>1, <2>2, Zenon DEF FrameIs
\* What the DMA wrote into the packets of the frame.
<1>22. \A k \in 1 .. s : content[c[k]] = <<content[received][1], k>>
  <2>1. ASSUME NEW k \in 1 .. s PROVE content[c[k]] = <<content[received][1], k>>
    <3>1. k - 1 \in 0 .. bd_count /\ k - 1 < q /\ (k - 1) + 1 = k
      BY <1>3, <1>5, <1>s
    <3>2. Number(k - 1) = Number(0) /\ Part(k - 1) = (k - 1) + 1
      BY <1>1, <1>2, <3>1 DEF Walked
    <3>3. content[c[k]] = Frag(k - 1) /\ content[received] = Frag(0)
      BY <1>3, <1>18 DEF Frag
    <3>4. content[c[k]] \in (0 .. MaxFrames) \X (0 .. MaxBds)
      BY <1>t, <1>18 DEF TypeOK
    <3> QED BY <3>1, <3>2, <3>3, <3>4 DEF Number, Part
  <2> QED BY <2>1
<1>23. Chained(r)'
  <2>1. content[received][1] = Number(0)
    BY <1>3 DEF Number, Frag
  <2>2. ASSUME NEW k \in 0 .. bd_count PROVE c[k + 1] = packets[Fd(Gap + k)']
    <3>1. k + 1 \in 1 .. s /\ (k + 1) - 1 = k /\ (N - s) + k \in Int /\ s + ((N - s) + k) = N + k
      BY <1>3, <1>4, <1>5, <1>s
    <3>2. Fd(Gap + k)' = Pos(Front', (N - s) + k)
      BY <1>6 DEF Fd
    <3>3. Fd((N - s) + k)' = Pos(Front', (N - s) + k)
      BY DEF Fd
    <3>4. Fd((N - s) + k)' = Fd(s + ((N - s) + k))
      BY <1>7, <3>1
    <3>5. Fd(N + k) = Fd(k)
      BY <1>7
    <3> QED BY <1>18, <3>1, <3>2, <3>3, <3>4, <3>5
  <2>3. r > 0 => Number(0) < Number(0)'
    BY <1>11
  <2> QED BY <1>1, <1>3, <1>14, <1>18, <1>19, <1>20, <1>21, <1>22, <1>s, <2>1, <2>2, <2>3
          DEF Chained
<1>24. Ring'
  BY <1>5, <1>9, <1>12, <1>13, <1>15, <1>23, Zenon DEF Ring
<1>25. Owners'
  <2>1. Hand = {}
    BY <1>1 DEF Hand
  <2>2. Hand' = {}
    <3>1. Hand' = {Frame'[k] : k \in bd_count + 2 .. bd_count + 1}
      BY <1>1 DEF Hand
    <3>2. bd_count + 2 .. bd_count + 1 = {}
      BY <1>3
    <3> QED BY <3>1, <3>2
  <2>3. InRing' = InRing
    BY <1>1 DEF InRing
  <2> QED BY <1>t, <1>1, <2>1, <2>2, <2>3 DEF Owners
<1> QED BY <1>8, <1>24, <1>25

-----------------------------------------------------------------------------
(* The packets of the frame in hand are replaced, or stay.                 *)

\* A descriptor of the frame in hand is given back to the DMA.
LEMMA GivesBack ==
  ASSUME TypeOK, Cursor, Replacing, i >= 0, NEW q \in 0 .. N, Occupied(q),
         empty' = [empty EXCEPT ![TempIdx] = TRUE], i' = i - 1,
         UNCHANGED <<current, dma, pc, first_idx, idx, bd_count>>
  PROVE  /\ Front' = Front /\ Gap' = Gap /\ Replacing' /\ Cursor' /\ Occupied(q)'
         /\ TempIdx = Fd(Gap + i) /\ TempIdx \in Bd /\ q <= Gap
         /\ Gap + i \in 0 .. N - 1 /\ i \in 0 .. bd_count /\ bd_count \in 0 .. N - 1
<1>1. /\ i \in 0 .. bd_count /\ bd_count \in 0 .. N - 1 /\ N \in Nat \ {0, 1}
      /\ Gap = N - (bd_count + 1) /\ Kept = i + 1
  BY EnetReceiveAssumption DEF TypeOK, Cursor, Replacing, Gap, Kept
<1>2. /\ Front' = Front /\ Gap' = Gap /\ Replacing' /\ Kept' = i
  <2>1. Replacing'
    BY DEF Replacing
  <2>2. (i - 1) + 1 = i
    BY <1>1
  <2> QED BY <2>1, <2>2 DEF Front, Gap, Kept
<1>3. Cursor'
  <2>1. i - 1 <= bd_count
    BY <1>1
  <2> QED BY <1>2, <2>1 DEF Cursor
<1>4. /\ TempIdx = Fd(Gap + i) /\ Gap + i \in 0 .. N - 1 /\ Fd(Gap + i) \in Bd
      /\ \A k \in Int : Fd(k) \in Bd
      /\ \A j, k \in 0 .. N - 1 : Fd(j) = Fd(k) => j = k
  <2>1. Gap + i \in 0 .. N - 1 /\ Gap + i \in Int
    BY <1>1
  <2> QED BY <2>1, Positions
<1>5. /\ dma = Fd(q) /\ q <= Gap
      /\ \A k \in 0 .. N - 1 : empty[Fd(k)] <=> k >= q /\ ~(Gap <= k /\ k < Gap + (i + 1))
  BY <1>1 DEF Occupied
<1>6. Occupied(q)'
  <2>1. ASSUME NEW k \in 0 .. N - 1
        PROVE  empty'[Fd(k)] <=> k >= q /\ ~(Gap <= k /\ k < Gap + i)
    <3>0. empty \in [Bd -> BOOLEAN] /\ Fd(k) \in Bd
      BY <1>4 DEF TypeOK
    <3>1. CASE k = Gap + i
      <4>1. empty'[Fd(k)]
        BY <1>4, <3>0, <3>1
      <4>2. k >= q /\ ~(k < Gap + i)
        BY <1>1, <1>5, <3>1
      <4> QED BY <4>1, <4>2
    <3>2. CASE k # Gap + i
      <4>1. empty'[Fd(k)] = empty[Fd(k)]
        BY <1>4, <3>0, <3>2
      <4>2. k < Gap + i <=> k < Gap + (i + 1)
        BY <1>1, <3>2
      <4> QED BY <1>5, <4>1, <4>2
    <3> QED BY <3>1, <3>2
  <2>2. \A k : Fd(k)' = Fd(k)
    BY <1>2 DEF Fd
  <2> QED BY <1>2, <1>5, <2>1, <2>2 DEF Occupied
<1> QED BY <1>1, <1>2, <1>3, <1>4, <1>5, <1>6

LEMMA ReplaceKeeps ==
  ASSUME Inv, Replace
  PROVE  Cursor' /\ Ring' /\ Owners'
<1>t. TypeOK /\ Cursor /\ Ring /\ Owners
  BY DEF Inv
<1>1. /\ UNCHANGED <<last, current, next, content, netx, dma, written, length, pc>>
      /\ UNCHANGED <<first_idx, idx, bd_count, received, arrived, delivered>>
      /\ pc = "replace" /\ i >= 0 /\ i' = i - 1
      /\ empty' = [empty EXCEPT ![TempIdx] = TRUE]
  BY DEF Replace, memory, enet, events, history
<1>2. PICK p \in pool : pool' = pool \ {p} /\ packets' = [packets EXCEPT ![TempIdx] = p]
  BY DEF Replace
<1>3. PICK q \in 0 .. N : Occupied(q) /\ Frames(q) /\ Walked(q) /\ Order(q) /\ Chained(q)
  BY <1>t DEF Ring
<1>4. /\ Front' = Front /\ Gap' = Gap /\ Replacing' /\ Cursor' /\ Occupied(q)'
      /\ TempIdx = Fd(Gap + i) /\ TempIdx \in Bd /\ q <= Gap
      /\ Gap + i \in 0 .. N - 1 /\ i \in 0 .. bd_count /\ bd_count \in 0 .. N - 1
  <2>1. Replacing
    BY <1>1 DEF Replacing
  <2> QED BY <1>t, <1>1, <1>3, <2>1, GivesBack
<1>5. /\ Gap \in 0 .. N /\ N \in Nat /\ \A k \in Int : Fd(k) \in Bd
      /\ \A j, k \in 0 .. N - 1 : Fd(j) = Fd(k) => j = k
      /\ packets \in [Bd -> Packets] /\ pool \subseteq Packets
  BY <1>t, Positions, EnetReceiveAssumption DEF TypeOK
\* The other descriptors keep their packets.
<1>6. ASSUME NEW k \in 0 .. N - 1, k # Gap + i
      PROVE  packets'[Fd(k)] = packets[Fd(k)]
  <2>1. Fd(k) # TempIdx /\ Fd(k) \in Bd
    BY <1>4, <1>5, <1>6
  <2> QED BY <1>2, <1>5, <2>1
<1>7. \A k : Fd(k)' = Fd(k)
  BY <1>4 DEF Fd
<1>8. \A k \in 0 .. q - 1 : Number(k)' = Number(k) /\ Part(k)' = Part(k)
  <2>1. ASSUME NEW k \in 0 .. q - 1 PROVE packets'[Fd(k)] = packets[Fd(k)]
    <3>1. k \in 0 .. N - 1 /\ k # Gap + i
      BY <1>4, <1>5
    <3> QED BY <1>6, <3>1
  <2> QED BY <1>1, <1>7, <2>1 DEF Number, Part, Frag
<1>9. Frames(q)'
  <2>1. \A k \in 1 .. q - 1 : k \in 0 .. q - 1 /\ k - 1 \in 0 .. q - 1
    OBVIOUS
  <2>2. q > 0 => 0 \in 0 .. q - 1 /\ q - 1 \in 0 .. q - 1
    OBVIOUS
  <2> QED BY <1>1, <1>3, <1>7, <1>8, <2>1, <2>2 DEF Frames
<1>10. Walked(q)'
  BY <1>1 DEF Walked
<1>11. q > 0 => Number(0)' = Number(0)
  <2>1. q > 0 => 0 \in 0 .. q - 1
    OBVIOUS
  <2> QED BY <1>8, <2>1
<1>12. Order(q)'
  BY <1>1, <1>3, <1>11 DEF Order
<1>13. Frame' = Frame
  BY <1>1 DEF Frame, Chain
<1>14. /\ Frame \in [1 .. bd_count + 1 -> Packets] /\ Frame[1] = received
       /\ \A k \in 1 .. bd_count : next[Frame[k]] = Frame[k + 1]
       /\ next[Frame[bd_count + 1]] = None
       /\ \A k \in 0 .. i : Frame[k + 1] = packets[Fd(Gap + k)]
       /\ \A k \in 1 .. bd_count + 1 : content[Frame[k]] = <<content[received][1], k>>
       /\ content[received][1] \in 1 .. arrived
       /\ \A k \in DOMAIN delivered : delivered[k] < content[received][1]
       /\ q > 0 => content[received][1] < Number(0)
  BY <1>1, <1>3 DEF Chained
<1>15. Chained(q)'
  <2>1. ASSUME NEW k \in 0 .. i - 1 PROVE Frame[k + 1] = packets'[Fd(Gap + k)']
    <3>1. k \in 0 .. i /\ Gap + k \in 0 .. N - 1 /\ Gap + k # Gap + i
      BY <1>4, <1>5
    <3>2. packets'[Fd(Gap + k)] = packets[Fd(Gap + k)]
      BY <1>6, <3>1
    <3>3. Fd(Gap + k)' = Fd(Gap + k)
      BY <1>4 DEF Fd
    <3> QED BY <1>14, <3>1, <3>2, <3>3
  <2> QED BY <1>1, <1>11, <1>13, <1>14, <2>1 DEF Chained
<1>16. Ring'
  BY <1>4, <1>9, <1>10, <1>12, <1>15, Zenon DEF Ring
\* The packet leaves the ring, and the new one leaves the pool.
<1>17. PICK old : old = packets[TempIdx]
  OBVIOUS
<1>18. /\ \A a, b \in Bd : packets[a] = packets[b] => a = b
       /\ InRing \union pool \union netx \union Hand = Packets
       /\ InRing \intersect (pool \union netx \union Hand) = {}
       /\ pool \intersect (netx \union Hand) = {}
       /\ netx \intersect Hand = {}
  BY <1>t DEF Owners
<1>19. p \notin InRing /\ old \in InRing /\ \A b \in Bd : packets[b] # p
  BY <1>4, <1>17, <1>18 DEF InRing
<1>20. InRing' = (InRing \ {old}) \union {p}
  <2>1. InRing' = {packets'[b] : b \in Bd}
    BY DEF InRing
  <2>2. packets'[TempIdx] = p /\ \A b \in Bd : b # TempIdx => packets'[b] = packets[b]
    BY <1>2, <1>4, <1>5
  <2>3. \A b \in Bd : b # TempIdx => packets[b] # old
    BY <1>4, <1>17, <1>18
  <2> QED BY <1>4, <1>17, <2>1, <2>2, <2>3 DEF InRing
<1>21. Hand' = Hand \union {old}
  <2>1. Hand = {Frame[k] : k \in i + 2 .. bd_count + 1}
    BY <1>1 DEF Hand
  <2>2. Hand' = {Frame[k] : k \in (i - 1) + 2 .. bd_count + 1}
    BY <1>1, <1>13 DEF Hand
  <2>3. old = Frame[i + 1]
    <3>1. i \in 0 .. i
      BY <1>4
    <3> QED BY <1>4, <1>14, <1>17, <3>1
  <2>4. (i - 1) + 2 .. bd_count + 1 = (i + 2 .. bd_count + 1) \union {i + 1}
    BY <1>4, <1>5
  <2> QED BY <2>1, <2>2, <2>3, <2>4
<1>22. Owners'
  <2>1. ASSUME NEW a \in Bd, NEW b \in Bd, packets'[a] = packets'[b] PROVE a = b
    BY <1>2, <1>4, <1>5, <1>18, <1>19, <2>1
  <2>2. p \in pool /\ p \in Packets /\ old \in Packets /\ p # old
    BY <1>4, <1>5, <1>17, <1>19
  <2>3. netx' = netx /\ pool' = pool \ {p}
    BY <1>1, <1>2
  <2>4. /\ InRing' \union pool' \union netx' \union Hand' = Packets
        /\ InRing' \intersect (pool' \union netx' \union Hand') = {}
        /\ pool' \intersect (netx' \union Hand') = {}
        /\ netx' \intersect Hand' = {}
    BY <1>18, <1>19, <1>20, <1>21, <2>2, <2>3
  <2> QED BY <2>1, <2>4 DEF Owners
<1> QED BY <1>4, <1>16, <1>22

LEMMA RecycleKeeps ==
  ASSUME Inv, Recycle
  PROVE  Cursor' /\ Ring' /\ Owners'
<1>t. TypeOK /\ Cursor /\ Ring /\ Owners
  BY DEF Inv
<1>1. /\ UNCHANGED <<last, packets, current, next, content, pool, netx, dma, written, length>>
      /\ UNCHANGED <<pc, first_idx, idx, bd_count, received, arrived, delivered>>
      /\ pc = "recycle" /\ i >= 0 /\ i' = i - 1
      /\ empty' = [empty EXCEPT ![TempIdx] = TRUE]
  BY DEF Recycle, memory, owners, enet, events, history
<1>2. PICK q \in 0 .. N : Occupied(q) /\ Frames(q) /\ Walked(q) /\ Order(q) /\ Chained(q)
  BY <1>t DEF Ring
<1>3. Front' = Front /\ Cursor' /\ Occupied(q)'
  <2>1. Replacing
    BY <1>1 DEF Replacing
  <2> QED BY <1>t, <1>1, <1>2, <2>1, GivesBack
<1>4. Frames(q)'
  BY <1>1, <1>2, <1>3 DEF Frames, Number, Part, Frag, Fd
<1>5. Order(q)'
  BY <1>1, <1>2, <1>3 DEF Order, Number, Frag, Fd
<1>6. Walked(q)' /\ Chained(q)'
  BY <1>1 DEF Walked, Chained
<1>7. Owners'
  <2>1. Hand = {} /\ Hand' = {} /\ InRing' = InRing
    BY <1>1 DEF Hand, InRing
  <2> QED BY <1>t, <1>1, <2>1 DEF Owners
<1> QED BY <1>3, <1>4, <1>5, <1>6, <1>7 DEF Ring

LEMMA FailKeeps ==
  ASSUME Inv, ReplaceFails
  PROVE  Cursor' /\ Ring' /\ Owners'
<1>t. TypeOK /\ Cursor /\ Ring /\ Owners
  BY DEF Inv
<1>1. /\ UNCHANGED <<empty, last, packets, current, next, content, netx, dma, written, length>>
      /\ UNCHANGED <<first_idx, idx, bd_count, i, received, arrived, delivered>>
      /\ pc = "replace" /\ pc' = "recycle" /\ i >= 0
      /\ pool' = pool \union InChain(next[packets[TempIdx]])
  BY DEF ReplaceFails, ring, memory, enet, events, locals, history
<1>2. Front' = Front /\ Gap' = Gap /\ Kept' = Kept /\ Replacing /\ Replacing'
  BY <1>1 DEF Front, Gap, Kept, Replacing
<1>3. Cursor'
  BY <1>t, <1>1, <1>2 DEF Cursor
<1>4. PICK q \in 0 .. N : Occupied(q) /\ Frames(q) /\ Walked(q) /\ Order(q) /\ Chained(q)
  BY <1>t DEF Ring
<1>5. Occupied(q)'
  BY <1>1, <1>2, <1>4 DEF Occupied, Fd
<1>6. Frames(q)'
  BY <1>1, <1>2, <1>4 DEF Frames, Number, Part, Frag, Fd
<1>7. Order(q)'
  BY <1>1, <1>2, <1>4 DEF Order, Number, Frag, Fd
<1>8. Walked(q)' /\ Chained(q)'
  BY <1>1 DEF Walked, Chained
<1>9. Owners'
  <2>1. Hand' = {} /\ InRing' = InRing
    BY <1>1 DEF Hand, InRing
  <2>2. pool' = pool \union Hand
    BY <1>1, HandIs
  <2> QED BY <1>t, <1>1, <2>1, <2>2 DEF Owners
<1> QED BY <1>3, <1>4, <1>5, <1>6, <1>7, <1>8, <1>9 DEF Ring

\* A frame is done with: NetX has it, or its packets are in the ring again.
LEMMA DoneKeeps ==
  ASSUME Inv, FrameDone
  PROVE  Cursor' /\ Ring' /\ Owners'
<1>t. TypeOK /\ Cursor /\ Ring /\ Owners
  BY DEF Inv
<1>1. /\ UNCHANGED <<empty, last, packets, next, content, pool, dma, written, length, i>>
      /\ UNCHANGED <<arrived>>
      /\ pc \in {"replace", "recycle"} /\ pc' = "walk" /\ i < 0
      /\ first_idx' = After(idx) /\ current' = After(idx) /\ idx' = After(idx)
      /\ received' = packets[After(idx)] /\ bd_count' = 0
  BY DEF FrameDone, ring, memory, enet, events
<1>2. /\ Front = After(idx) /\ Front' = Front /\ Kept = 0 /\ Gap' = N /\ Kept' = 0
      /\ ~Replacing' /\ Replacing
  <2>1. i \in -1 .. N
    BY <1>t DEF TypeOK
  <2> QED BY <1>1, <2>1 DEF Front, Gap, Kept, Replacing
<1>3. Front \in Bd /\ Fd(0) = Front /\ N \in Nat \ {0, 1} /\ Gap \in 0 .. N
  BY <1>t, Positions, EnetReceiveAssumption
<1>4. Cursor'
  <2>1. After(idx) = Pos(After(idx), 0)
    BY <1>2, <1>3, PosZero
  <2> QED BY <1>1, <1>2, <1>3, <2>1 DEF Cursor
<1>5. PICK q \in 0 .. N : Occupied(q) /\ Frames(q) /\ Walked(q) /\ Order(q) /\ Chained(q)
  BY <1>t DEF Ring
<1>6. Occupied(q)'
  <2>1. /\ dma = Fd(q)
        /\ \A k \in 0 .. N - 1 : empty[Fd(k)] <=> k >= q
    BY <1>2, <1>3, <1>5 DEF Occupied
  <2>2. \A k : Fd(k)' = Fd(k)
    BY <1>2 DEF Fd
  <2>3. \A k \in 0 .. N - 1 : ~(N <= k)
    BY <1>3
  <2> QED BY <1>1, <1>2, <2>1, <2>2, <2>3 DEF Occupied
<1>7. Frames(q)'
  BY <1>1, <1>2, <1>5 DEF Frames, Number, Part, Frag, Fd
<1>8. Walked(q)'
  <2>1. q > 0 => Part(0)' = 0 + 1
    BY <1>7 DEF Frames
  <2>2. received' = packets'[current']
    BY <1>1
  <2> QED BY <1>1, <2>1, <2>2 DEF Walked
<1>9. Number(0)' = Number(0)
  BY <1>1, <1>2 DEF Number, Frag, Fd
<1>10. Order(q)'
  <2>1. /\ \A k \in DOMAIN delivered : delivered[k] \in 1 .. arrived
        /\ \A j, k \in DOMAIN delivered : j < k => delivered[j] < delivered[k]
        /\ q > 0 => \A k \in DOMAIN delivered : delivered[k] < Number(0)
    BY <1>5 DEF Order
  <2>2. CASE pc = "replace"
    <3>1. PICK f : f = content[received][1]
      OBVIOUS
    <3>2. /\ f \in 1 .. arrived /\ \A k \in DOMAIN delivered : delivered[k] < f
          /\ q > 0 => f < Number(0)
      BY <1>5, <2>2, <3>1 DEF Chained
    <3>3. delivered' = Append(delivered, f)
      <4>1. FrameOf(received) = f
        BY <2>2, <3>1, HandIs
      <4> QED BY <2>2, <4>1 DEF FrameDone
    <3>4. PICK n \in Nat : n = Len(delivered) /\ DOMAIN delivered = 1 .. n
      BY <1>t DEF TypeOK
    <3>5. /\ DOMAIN delivered' = 1 .. n + 1 /\ delivered'[n + 1] = f
          /\ \A k \in 1 .. n : delivered'[k] = delivered[k]
      <4>1. delivered \in Seq(0 .. MaxFrames)
        BY <1>t DEF TypeOK
      <4> QED BY <3>3, <3>4, <4>1
    <3>6. \A k \in 1 .. n + 1 : k \in 1 .. n \/ k = n + 1
      OBVIOUS
    <3>7. \A k \in DOMAIN delivered' : delivered'[k] \in 1 .. arrived
      BY <2>1, <3>2, <3>4, <3>5, <3>6
    <3>8. ASSUME NEW j \in 1 .. n + 1, NEW k \in 1 .. n + 1, j < k
          PROVE  delivered'[j] < delivered'[k]
      <4>1. j \in 1 .. n
        BY <3>8
      <4>2. CASE k = n + 1
        BY <3>2, <3>4, <3>5, <4>1, <4>2
      <4>3. CASE k # n + 1
        <5>1. k \in 1 .. n
          BY <4>3
        <5> QED BY <2>1, <3>4, <3>5, <3>8, <4>1, <5>1
      <4> QED BY <4>2, <4>3
    <3>9. q > 0 => \A k \in DOMAIN delivered' : delivered'[k] < Number(0)
      BY <2>1, <3>2, <3>4, <3>5, <3>6
    <3> QED BY <1>1, <1>9, <3>5, <3>7, <3>8, <3>9 DEF Order
  <2>3. CASE pc = "recycle"
    <3>1. delivered' = delivered
      BY <2>3 DEF FrameDone
    <3> QED BY <1>1, <1>9, <2>1, <3>1 DEF Order
  <2> QED BY <1>1, <2>2, <2>3
<1>11. Chained(q)'
  BY <1>1 DEF Chained
<1>12. Owners'
  <2>1. Hand' = {} /\ InRing' = InRing
    BY <1>1 DEF Hand, InRing
  <2>2. netx' = netx \union Hand
    <3>1. CASE pc = "replace"
      <4>1. InChain(received) = Hand
        BY <1>1, <3>1, HandIs
      <4> QED BY <3>1, <4>1 DEF FrameDone
    <3>2. CASE pc = "recycle"
      BY <3>2 DEF FrameDone, Hand
    <3> QED BY <1>1, <3>1, <3>2
  <2> QED BY <1>t, <1>1, <2>1, <2>2 DEF Owners
<1> QED BY <1>4, <1>5, <1>6, <1>7, <1>8, <1>10, <1>11, <1>12 DEF Ring

-----------------------------------------------------------------------------
(* The invariant holds.                                                    *)

LEMMA InitInv == Init => Inv
<1> SUFFICES ASSUME Init PROVE Inv
  OBVIOUS
<1>t. TypeOK
  BY TypeInit
<1>0. /\ N \in Nat \ {0, 1} /\ Spare \in Nat /\ 0 \in Bd
  BY EnetReceiveAssumption DEF Bd
<1>1. /\ empty = [b \in Bd |-> TRUE] /\ packets = [b \in Bd |-> b + 1] /\ current = 0
      /\ pool = Packets \ (1 .. N) /\ netx = {} /\ dma = 0 /\ written = 0
      /\ pc = "idle" /\ delivered = <<>>
  BY DEF Init
<1>2. Cursor /\ Front = 0 /\ Gap = N /\ Kept = 0
  BY <1>1 DEF Cursor, Front, Gap, Kept, Replacing
<1>3. Fd(0) = 0 /\ \A k \in 0 .. N - 1 : Fd(k) \in Bd
  <2>1. \A k \in 0 .. N - 1 : k \in Int
    BY <1>0
  <2> QED BY <1>t, <1>2, <2>1, Positions
<1>4. Occupied(0)
  <2>1. \A k \in 0 .. N - 1 : k >= 0 /\ ~(N <= k)
    BY <1>0
  <2> QED BY <1>1, <1>2, <1>3, <2>1 DEF Occupied
<1>5. Frames(0) /\ Order(0)
  BY <1>1 DEF Frames, Order
<1>6. Walked(0) /\ Chained(0)
  BY <1>1 DEF Walked, Chained
<1>7. Ring
  <2>1. 0 \in 0 .. N
    BY <1>0
  <2> QED BY <1>4, <1>5, <1>6, <2>1 DEF Ring
<1>8. Owners
  <2>1. Hand = {}
    BY <1>1 DEF Hand
  <2>2. InRing = 1 .. N
    <3>1. \A b \in Bd : packets[b] = b + 1
      BY <1>1
    <3>2. \A b \in Bd : b + 1 \in 1 .. N
      BY <1>0 DEF Bd
    <3>3. \A p \in 1 .. N : p - 1 \in Bd /\ (p - 1) + 1 = p
      BY <1>0 DEF Bd
    <3> QED BY <3>1, <3>2, <3>3 DEF InRing
  <2>3. 1 .. N \subseteq Packets
    BY <1>0 DEF Packets
  <2>4. \A a, b \in Bd : packets[a] = packets[b] => a = b
    BY <1>0, <1>1 DEF Bd
  <2> QED BY <1>1, <2>1, <2>2, <2>3, <2>4 DEF Owners
<1> QED BY <1>t, <1>2, <1>7, <1>8 DEF Inv

LEMMA Step == Inv /\ [Next]_vars => Inv'
<1> SUFFICES ASSUME Inv, [Next]_vars PROVE Inv'
  OBVIOUS
<1>1. CASE DmaReceive
  BY <1>1, TypeDma, DmaKeeps, Zenon DEF Inv
<1>2. CASE DeferredPickup
  BY <1>2, TypeThread, PickupKeeps, Zenon DEF Inv
<1>3. CASE WalkLink
  BY <1>3, TypeThread, LinkKeeps, Zenon DEF Inv
<1>4. CASE WalkLast
  BY <1>4, TypeThread, LastKeeps, Zenon DEF Inv
<1>5. CASE Replace
  BY <1>5, TypeThread, ReplaceKeeps, Zenon DEF Inv
<1>6. CASE ReplaceFails
  BY <1>6, TypeChain, FailKeeps, Zenon DEF Inv
<1>7. CASE Recycle
  BY <1>7, TypeThread, RecycleKeeps, Zenon DEF Inv
<1>8. CASE FrameDone
  BY <1>8, TypeChain, DoneKeeps, Zenon DEF Inv
<1>9. CASE Quiet
  <2>1. TypeOK'
    <3>1. TypeOK
      BY DEF Inv
    <3> QED BY <1>9, <3>1, TypeQuiet
  <2> QED BY <1>9, <2>1, QuietKeeps, Zenon DEF Inv
<1> QED BY <1>1, <1>2, <1>3, <1>4, <1>5, <1>6, <1>7, <1>8, <1>9 DEF Next, Receive, Quiet

THEOREM Invariance == Spec => []Inv
BY InitInv, Step, PTL DEF Spec

\* The packets in the ring, in hand, in the pool and with NetX are all packets,
\* and no packet is in two of these places, at whatever point a frame is.
THEOREM NoPacketIsShared == Spec => []OneOwner
<1>1. Inv => OneOwner
  <2> SUFFICES ASSUME Inv PROVE OneOwner
    OBVIOUS
  <2>1. TypeOK /\ Cursor /\ Owners
    BY DEF Inv
  <2>2. InHand = Hand
    <3>1. CASE pc = "replace" /\ i < bd_count
      <4>1. InHand = InChain(IF i < 0 THEN received ELSE next[packets[TempIdx]])
        BY <3>1 DEF InHand
      <4>2. CASE i < 0
        BY <3>1, <4>1, <4>2, HandIs
      <4>3. CASE ~(i < 0)
        <5>1. i >= 0
          BY <2>1, <4>3 DEF TypeOK
        <5> QED BY <3>1, <4>1, <4>3, <5>1, HandIs
      <4> QED BY <4>2, <4>3
    <3>2. CASE pc = "replace" /\ ~(i < bd_count)
      <4>1. i = bd_count /\ bd_count \in Int
        BY <2>1, <3>2, EnetReceiveAssumption DEF TypeOK, Cursor, Replacing
      <4>2. i + 2 .. bd_count + 1 = {}
        BY <4>1
      <4>3. Hand = {}
        BY <3>2, <4>2 DEF Hand
      <4> QED BY <3>2, <4>3 DEF InHand
    <3>3. CASE pc # "replace"
      BY <3>3 DEF InHand, Hand
    <3> QED BY <3>1, <3>2, <3>3
  <2>3. Cardinality(InRing) = N
    <3>1. packets \in Injection(Bd, InRing) /\ packets \in Surjection(Bd, InRing)
      BY <2>1 DEF Owners, TypeOK, InRing, Injection, Surjection, IsInjective
    <3>2. IsFiniteSet(Bd) /\ Cardinality(Bd) = N
      <4>1. N \in Nat \ {0, 1} /\ 0 \in Int /\ N - 1 \in Int
        BY EnetReceiveAssumption
      <4>2. IsFiniteSet(0 .. N - 1) /\ Cardinality(0 .. N - 1) = IF 0 > N - 1 THEN 0 ELSE N - 1 - 0 + 1
        BY <4>1, FS_Interval
      <4> QED BY <4>1, <4>2 DEF Bd
    <3>3. Cardinality(InRing) = Cardinality(Bd)
      BY <3>1, <3>2, FS_Surjection
    <3> QED BY <3>2, <3>3
  <2> QED BY <2>1, <2>2, <2>3 DEF OneOwner, Owners
<1> QED BY <1>1, Invariance, PTL

\* What NetX is given are frames, from the first fragment to the last, each
\* once and in the order of arrival.
THEOREM FramesArriveWhole == Spec => []DeliversWhole
<1>1. Inv => DeliversWhole
  <2> SUFFICES ASSUME Inv PROVE DeliversWhole
    OBVIOUS
  <2>1. PICK q \in 0 .. N : Order(q)
    BY DEF Inv, Ring
  <2> QED BY <2>1 DEF Order, DeliversWhole
<1> QED BY <1>1, Invariance, PTL
=============================================================================

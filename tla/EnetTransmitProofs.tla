------------------------- MODULE EnetTransmitProofs -------------------------
(***************************************************************************)
(* Theorems about EnetTransmit, for every number of descriptors and of     *)
(* packets, and packets chained of as many buffers as there are            *)
(* descriptors.                                                            *)
(***************************************************************************)
EXTENDS EnetTransmit, SequenceTheorems, TLAPS

-----------------------------------------------------------------------------
(* The inductive invariant.                                                *)

\* The k-th descriptor behind d, and behind the one of the DMA.
Pos(d, k) == (d + k) % N
At(k) == Pos(dma, k)

Filling == send_pc \in {"check", "mark"}
Owning  == send_pc = "own" /\ bd_count > 0

Types ==
  /\ ready \in [Bd -> BOOLEAN] /\ last \in [Bd -> BOOLEAN]
  /\ frame \in [Bd -> Packets \union {None}]
  /\ slot \in [Bd -> Packets \union {None}]
  /\ current \in Bd /\ release \in Bd /\ in_use \in Nat
  /\ send_pc \in {"idle", "check", "mark", "own"}
  /\ packet \in Packets \union {None} /\ idx \in Bd
  /\ bd_count \in 0 .. MaxBds /\ size \in 0 .. MaxBds
  /\ send_pc = "check" => bd_count < size
  /\ send_pc = "mark" => bd_count < N
  /\ dma \in Bd /\ inside \in Packets \union {None}
  /\ scan_pc \in {"idle", "pickup", "scan"} /\ scan_idx \in Bd
  /\ scan_left \in Nat
  /\ offered \in 0 .. MaxPackets
  /\ accepted \in Seq(Packets) /\ wire \in Seq(Packets)
  /\ returns \in [Packets -> Nat]

Flags ==
  /\ enabled \in BOOLEAN /\ tdar \in BOOLEAN /\ txf \in BOOLEAN
  /\ isr_pc \in {"idle", "clear"} /\ deferred \in BOOLEAN /\ ip_event \in BOOLEAN

\* The part of the ring that the IP thread walks, and what it has walked.
Walk ==
  /\ current = Pos(release, in_use)
  /\ \A i \in Bd : slot[i] # None => \E k \in 0 .. in_use - 1 : i = Pos(release, k)
  /\ Filling => idx = Pos(current, bd_count)
  /\ scan_pc = "scan" =>
       /\ scan_left <= in_use /\ scan_idx = Pos(release, in_use - scan_left)
       /\ \A k \in 0 .. in_use - scan_left - 1 : slot[Pos(release, k)] = None
  /\ scan_pc # "idle" => send_pc = "idle"

\* Descriptors that are filled, but not yet given to the DMA.
Filled(a, b) ==
  \A k \in a .. b - 1 : frame[At(k)] = packet /\ ~last[At(k)] /\ slot[At(k)] = None

\* The q descriptors from the DMA's on are the ready ones, and they hold whole
\* packets; behind them is the packet that is being written.
Plain(q) ==
  /\ current = At(q)
  /\ \A k \in 0 .. N - 1 : ready[At(k)] <=> k < q
  /\ \A k \in 0 .. q - 1 : ~last[At(k)] => k + 1 < q /\ frame[At(k + 1)] = frame[At(k)]
  /\ Filling => /\ idx = At(q + bd_count) /\ q + bd_count <= N
                /\ Filled(q, q + bd_count)
                /\ \A k \in 0 .. q - 1 : frame[At(k)] < packet
  /\ send_pc = "mark" => q + bd_count < N /\ Filled(q, q + bd_count + 1)

\* While a packet is given to the DMA in reverse order, its last m descriptors
\* are ready and the bd_count before them are not.
Split(q, m) ==
  /\ q + bd_count + m <= N
  /\ idx = At(q + bd_count) /\ current = At(q + bd_count + m)
  /\ \A k \in 0 .. N - 1 :
       ready[At(k)] <=> k < q \/ k \in q + bd_count .. (q + bd_count + m) - 1
  /\ \A k \in 0 .. q - 1 : ~last[At(k)] => k + 1 < q /\ frame[At(k + 1)] = frame[At(k)]
  /\ Filled(q, q + bd_count)
  /\ \A k \in 0 .. q - 1 : frame[At(k)] < packet
  /\ \A k \in q + bd_count .. (q + bd_count + m) - 1 :
       frame[At(k)] = packet /\ (last[At(k)] <=> k = (q + bd_count + m) - 1)

Ring ==
  /\ ~Owning => \E q \in 0 .. N : Plain(q)
  /\ Owning => \E q \in 0 .. N, m \in 1 .. N : Split(q, m)

\* The packets in the ring are in the order of the ring.
Ordered ==
  \A j, k \in 0 .. N - 1 : j < k /\ ready[At(j)] /\ ready[At(k)] =>
    frame[At(j)] <= frame[At(k)] /\ (last[At(j)] => frame[At(j)] < frame[At(k)])

\* What went out is the beginning of what was accepted; the rest is in the ring.
History ==
  /\ Len(wire) <= Len(accepted)
  /\ \A n \in 1 .. Len(wire) : wire[n] = accepted[n]
  /\ \A n \in 1 .. Len(accepted) : accepted[n] <= offered
  /\ \A m, n \in 1 .. Len(accepted) : m < n => accepted[m] < accepted[n]
  /\ send_pc # "idle" => packet = offered /\ offered # 0
  /\ Filling => \A n \in 1 .. Len(accepted) : accepted[n] < packet

Slots ==
  /\ \A i \in Bd : ready[i] =>
       frame[i] \in 1 .. offered /\ slot[i] = IF last[i] THEN frame[i] ELSE None
  /\ \A i \in Bd : slot[i] # None /\ ~ready[i] =>
       \E n \in 1 .. Len(wire) : wire[n] = slot[i]
  /\ \A i \in Bd : ready[i] /\ last[i] =>
       \E n \in Len(wire) + 1 .. Len(accepted) : accepted[n] = frame[i]
  /\ \A n \in Len(wire) + 1 .. Len(accepted) :
       \E i \in Bd : ready[i] /\ last[i] /\ frame[i] = accepted[n]

\* Nothing was given back that is still in the ring, or not offered yet.
Returned ==
  /\ \A p \in Packets : p > offered => returns[p] = 0
  /\ Filling => returns[packet] = 0
  /\ \A i \in Bd : slot[i] # None => returns[slot[i]] = 0
  /\ \A i, j \in Bd : slot[i] # None /\ slot[i] = slot[j] => i = j

\* What the ring holds.
Content == Ring /\ Ordered /\ History /\ Slots /\ Returned /\ WholeFrames

Inv == Types /\ Flags /\ Walk /\ Content

-----------------------------------------------------------------------------
(* Positions in the ring.                                                  *)

\* A number of the ring's size and a remainder.
LEMMA Remainder ==
  ASSUME NEW a \in Int, NEW q \in Int, NEW r \in 0 .. N - 1, a = N * q + r
  PROVE  a % N = r
BY EnetTransmitAssumption

\* What is added to a remainder may be added before.
LEMMA AddModulo ==
  ASSUME NEW a \in Int, NEW b \in Int
  PROVE  ((a % N) + b) % N = (a + b) % N
<1> DEFINE q == a \div N
           r == a % N
           s == (r + b) \div N
           t == (r + b) % N
<1>0. N \in Nat \ {0}
  BY EnetTransmitAssumption
<1>1. q \in Int /\ r \in 0 .. N - 1 /\ a = N * q + r
  BY <1>0
<1>2. r + b \in Int
  BY <1>1
<1>3. s \in Int /\ t \in 0 .. N - 1 /\ r + b = N * s + t
  <2> HIDE DEF q, r
  <2> QED BY <1>0, <1>2
<1> HIDE DEF q, r, s, t
<1>4. a + b = N * (q + s) + t /\ a + b \in Int /\ q + s \in Int
  BY <1>0, <1>1, <1>3
<1>5. (a + b) % N = t
  BY <1>3, <1>4, Remainder
<1> QED BY <1>5 DEF t, r

\* A number that is less than N is its remainder.
LEMMA SmallModulo ==
  ASSUME NEW a \in 0 .. N - 1
  PROVE  a % N = a
BY EnetTransmitAssumption

\* A position is a descriptor; N positions further it is the same one.
LEMMA PosType ==
  ASSUME NEW d \in Bd, NEW k \in Int
  PROVE  Pos(d, k) \in Bd
<1>1. d + k \in Int /\ N \in Nat \ {0}
  BY EnetTransmitAssumption DEF Bd
<1> QED BY <1>1 DEF Pos, Bd

\* Positions are added.
LEMMA PosAdd ==
  ASSUME NEW d \in Bd, NEW j \in Int, NEW k \in Int
  PROVE  Pos(Pos(d, j), k) = Pos(d, j + k)
<1>1. d \in Int /\ d + j \in Int /\ (d + j) + k = d + (j + k)
  BY EnetTransmitAssumption DEF Bd
<1>2. (((d + j) % N) + k) % N = ((d + j) + k) % N
  BY <1>1, AddModulo
<1> QED BY <1>1, <1>2, Zenon DEF Pos

\* Positions 0 and N are the descriptor itself.
LEMMA PosZero ==
  ASSUME NEW d \in Bd
  PROVE  Pos(d, 0) = d /\ Pos(d, N) = d
<1>0. N \in Nat \ {0} /\ d \in 0 .. N - 1
  BY EnetTransmitAssumption DEF Bd
<1>1. d + 0 = d /\ d + N = N * 1 + d /\ d + N \in Int
  BY <1>0
<1>2. d % N = d
  BY <1>0, SmallModulo
<1>3. (d + N) % N = d
  BY <1>0, <1>1, Remainder
<1> QED BY <1>1, <1>2, <1>3 DEF Pos

\* The next descriptor, and the previous.
LEMMA PosNext ==
  ASSUME NEW d \in Bd, NEW k \in Int
  PROVE  /\ After(Pos(d, k)) = Pos(d, k + 1)
         /\ Pos(After(d), k) = Pos(d, k + 1)
         /\ Previous(Pos(d, k + 1)) = Pos(d, k)
<1>1. After(Pos(d, k)) = Pos(Pos(d, k), 1)
  BY DEF After, Pos
<1>2. Pos(After(d), k) = Pos(Pos(d, 1), k)
  BY DEF After, Pos
<1>3. Previous(Pos(d, k + 1)) = Pos(Pos(d, k + 1), -1)
  <2> DEFINE p == Pos(d, k + 1)
  <2>1. p \in Int
    BY PosType, EnetTransmitAssumption DEF Bd
  <2> HIDE DEF p
  <2>2. Previous(p) = Pos(p, -1)
    <3>1. p - 1 = p + (-1)
      BY <2>1
    <3> QED BY <3>1, Zenon DEF Previous, Pos
  <2> QED BY <2>2 DEF p
<1>4. Pos(Pos(d, k), 1) = Pos(d, k + 1)
  BY PosAdd
<1>5. Pos(Pos(d, 1), k) = Pos(d, k + 1)
  <2>1. 1 + k = k + 1
    OBVIOUS
  <2>2. Pos(Pos(d, 1), k) = Pos(d, 1 + k)
    BY PosAdd
  <2> QED BY <2>1, <2>2, Zenon
<1>6. Pos(Pos(d, k + 1), -1) = Pos(d, k)
  <2>1. (k + 1) + (-1) = k /\ k + 1 \in Int /\ -1 \in Int
    OBVIOUS
  <2>2. Pos(Pos(d, k + 1), -1) = Pos(d, (k + 1) + (-1))
    BY <2>1, PosAdd
  <2> QED BY <2>1, <2>2, Zenon
<1> QED BY <1>1, <1>2, <1>3, <1>4, <1>5, <1>6, Zenon

\* N positions behind a descriptor are the N descriptors, each once.
LEMMA PosOnce ==
  ASSUME NEW d \in Bd
  PROVE  /\ \A j, k \in 0 .. N - 1 : Pos(d, j) = Pos(d, k) => j = k
         /\ \A i \in Bd : \E k \in 0 .. N - 1 : i = Pos(d, k)
<1>0. N \in Nat \ {0} /\ d \in 0 .. N - 1
  BY EnetTransmitAssumption DEF Bd
<1>1. ASSUME NEW k \in 0 .. N - 1
      PROVE  /\ d + k < N => Pos(d, k) = d + k
             /\ ~(d + k < N) => Pos(d, k) = d + k - N
  <2>1. CASE d + k < N
    <3>1. d + k \in 0 .. N - 1
      BY <1>0, <2>1
    <3>2. (d + k) % N = d + k
      BY <3>1, SmallModulo
    <3> QED BY <2>1, <3>2 DEF Pos
  <2>2. CASE ~(d + k < N)
    <3>1. d + k \in Int /\ d + k - N \in 0 .. N - 1 /\ d + k = N * 1 + (d + k - N)
      BY <1>0, <2>2
    <3>2. (d + k) % N = d + k - N
      BY <3>1, Remainder
    <3> QED BY <2>2, <3>2 DEF Pos
  <2> QED BY <2>1, <2>2
<1>2. ASSUME NEW j \in 0 .. N - 1, NEW k \in 0 .. N - 1, Pos(d, j) = Pos(d, k)
      PROVE  j = k
  BY <1>0, <1>1, <1>2
<1>3. ASSUME NEW i \in Bd PROVE \E k \in 0 .. N - 1 : i = Pos(d, k)
  <2>0. i \in 0 .. N - 1
    BY DEF Bd
  <2>1. CASE d <= i
    <3>1. i - d \in 0 .. N - 1 /\ d + (i - d) = i /\ i < N
      BY <1>0, <2>0, <2>1
    <3> QED BY <1>1, <3>1
  <2>2. CASE ~(d <= i)
    <3>1. i - d + N \in 0 .. N - 1 /\ d + (i - d + N) - N = i /\ ~(d + (i - d + N) < N)
      BY <1>0, <2>0, <2>2
    <3> QED BY <1>1, <3>1
  <2> QED BY <2>1, <2>2
<1> QED BY <1>2, <1>3

-----------------------------------------------------------------------------
(* The walk of the IP thread.                                              *)

\* A step of the sender: the part that is walked ends where it goes on.
LEMMA WalkSend ==
  ASSUME Types, Walk, SendStart \/ Send
  PROVE  Walk'
<1>0. /\ current \in Bd /\ release \in Bd /\ in_use \in Nat /\ bd_count \in Nat /\ idx \in Bd
      /\ slot \in [Bd -> Packets \union {None}]
  BY EnetTransmitAssumption DEF Types
<1>1. /\ current = Pos(release, in_use)
      /\ \A i \in Bd : slot[i] # None => \E k \in 0 .. in_use - 1 : i = Pos(release, k)
      /\ Filling => idx = Pos(current, bd_count)
      /\ scan_pc # "idle" => send_pc = "idle"
  BY DEF Walk
<1>2. CASE SendStart
  <2>1. /\ UNCHANGED <<info, scan>> /\ scan_pc = "idle"
        /\ idx' = current /\ bd_count' = 0 /\ send_pc' = "check"
    BY <1>2 DEF SendStart, MutexFree
  <2>2. idx' = Pos(current, 0)
    BY <1>0, <2>1, PosZero
  <2>3. (Filling => idx = Pos(current, bd_count))'
    BY <2>1, <2>2 DEF info
  <2> QED BY <1>1, <2>1, <2>3 DEF Walk, info, scan
<1>3. CASE SendNoDescriptor \/ SendKick
  <2>1. UNCHANGED <<info, scan>> /\ send_pc' = "idle"
    BY <1>3 DEF SendNoDescriptor, SendKick
  <2> QED BY <2>1 DEF Walk, Filling, info, scan
<1>4. CASE SendFill
  <2>1. /\ UNCHANGED <<info, scan>> /\ send_pc = "check" /\ send_pc' \in {"check", "mark"}
        /\ \/ idx' = After(idx) /\ bd_count' = bd_count + 1
           \/ idx' = idx /\ bd_count' = bd_count
    BY <1>4 DEF SendFill
  <2>2. idx = Pos(current, bd_count) /\ scan_pc = "idle"
    BY <1>1, <2>1 DEF Filling
  <2>3. After(idx) = Pos(current, bd_count + 1)
    BY <1>0, <2>2, PosNext
  <2>4. idx' = Pos(current, bd_count')
    BY <2>1, <2>2, <2>3
  <2> QED BY <1>1, <2>1, <2>2, <2>4 DEF Walk, Filling, info, scan
<1>5. CASE SendMark
  <2>1. /\ UNCHANGED <<release, bd_count, idx, scan>> /\ send_pc = "mark" /\ send_pc' = "own"
        /\ slot' = [slot EXCEPT ![idx] = packet] /\ current' = After(idx)
        /\ in_use' = in_use + bd_count + 1
    BY <1>5 DEF SendMark
  <2>2. idx = Pos(current, bd_count) /\ scan_pc = "idle"
    BY <1>1, <2>1 DEF Filling
  <2>3. idx = Pos(release, in_use + bd_count)
    BY <1>0, <1>1, <2>2, PosAdd
  <2>4. After(idx) = Pos(release, in_use + bd_count + 1)
    <3>1. in_use + bd_count \in Int
      BY <1>0
    <3> QED BY <1>0, <2>3, <3>1, PosNext, Zenon
  <2>5. ASSUME NEW i \in Bd, slot'[i] # None
        PROVE  \E k \in 0 .. in_use + bd_count : i = Pos(release, k)
    <3>1. CASE i = idx
      <4>1. in_use + bd_count \in 0 .. in_use + bd_count
        BY <1>0
      <4> QED BY <2>3, <3>1, <4>1, Zenon
    <3>2. CASE i # idx
      <4>1. slot[i] # None
        BY <1>0, <2>1, <2>5, <3>2
      <4>2. PICK k \in 0 .. in_use - 1 : i = Pos(release, k)
        BY <1>1, <4>1
      <4>3. k \in 0 .. in_use + bd_count
        BY <1>0
      <4> QED BY <4>2, <4>3
    <3> QED BY <3>1, <3>2
  <2>6. in_use' - 1 = in_use + bd_count
    BY <1>0, <2>1
  <2>7. (\A i \in Bd : slot[i] # None => \E k \in 0 .. in_use - 1 : i = Pos(release, k))'
    BY <2>1, <2>5, <2>6, Zenon DEF Bd
  <2> QED BY <2>1, <2>2, <2>4, <2>7 DEF Walk, Filling, scan
<1>6. CASE SendOwn
  <2>1. UNCHANGED <<info, scan>> /\ send_pc = "own" /\ send_pc' = "own"
    BY <1>6 DEF SendOwn
  <2> QED BY <1>1, <2>1 DEF Walk, Filling, info, scan
<1> QED BY <1>2, <1>3, <1>4, <1>5, <1>6 DEF Send

\* A step of the IP thread: what it has walked holds no packet.
LEMMA WalkScan ==
  ASSUME Types, Walk, IpWake \/ Deferred
  PROVE  Walk'
<1>0. /\ current \in Bd /\ release \in Bd /\ in_use \in Nat /\ scan_left \in Nat
      /\ slot \in [Bd -> Packets \union {None}] /\ scan_idx \in Bd
  BY DEF Types
<1>1. /\ current = Pos(release, in_use)
      /\ \A i \in Bd : slot[i] # None => \E k \in 0 .. in_use - 1 : i = Pos(release, k)
      /\ scan_pc = "scan" =>
           /\ scan_left <= in_use /\ scan_idx = Pos(release, in_use - scan_left)
           /\ \A k \in 0 .. in_use - scan_left - 1 : slot[Pos(release, k)] = None
      /\ scan_pc # "idle" => send_pc = "idle"
  BY DEF Walk
<1>2. CASE IpWake
  BY <1>1, <1>2 DEF IpWake, MutexFree, Walk, Filling, info, send
<1>3. CASE DeferredPickup
  <2>1. /\ UNCHANGED <<info, send>> /\ scan_pc = "pickup" /\ scan_pc' \in {"scan", "idle"}
        /\ scan_idx' = release /\ scan_left' = in_use
    BY <1>3 DEF DeferredPickup
  <2>2. in_use - in_use = 0 /\ release = Pos(release, 0) /\ in_use <= in_use
    BY <1>0, PosZero
  <2>3. /\ scan_left' <= in_use' /\ scan_idx' = Pos(release', in_use' - scan_left')
        /\ \A k \in 0 .. in_use' - scan_left' - 1 : slot'[Pos(release', k)] = None
    BY <1>0, <2>1, <2>2 DEF info
  <2> QED BY <1>1, <2>1, <2>3 DEF Walk, Filling, info, send
<1>4. CASE ScanSkip
  <2> DEFINE s == in_use - scan_left
  <2>1. /\ UNCHANGED <<info, send>> /\ scan_pc = "scan" /\ scan_pc' = "scan" /\ scan_left > 0
        /\ slot[scan_idx] = None /\ scan_idx' = After(scan_idx)
        /\ scan_left' = scan_left - 1
    BY <1>4 DEF ScanSkip
  <2>2. /\ s \in Nat /\ scan_idx = Pos(release, s)
        /\ \A k \in 0 .. s - 1 : slot[Pos(release, k)] = None
    BY <1>0, <1>1, <2>1
  <2>3. in_use' - scan_left' = s + 1 /\ scan_left' <= in_use'
    BY <1>0, <1>1, <2>1 DEF info
  <2> HIDE DEF s
  <2>4. After(scan_idx) = Pos(release, s + 1)
    BY <1>0, <2>2, PosNext
  <2>5. ASSUME NEW k \in 0 .. s + 1 - 1 PROVE slot[Pos(release, k)] = None
    <3>1. k \in 0 .. s - 1 \/ k = s
      BY <2>2
    <3> QED BY <2>1, <2>2, <3>1
  <2>6. scan_idx' = Pos(release', in_use' - scan_left')
    BY <2>1, <2>3, <2>4 DEF info
  <2>7. \A k \in 0 .. in_use' - scan_left' - 1 : slot'[Pos(release', k)] = None
    <3> DEFINE n == in_use' - scan_left' - 1
    <3>1. n = s + 1 - 1
      BY <2>2, <2>3
    <3>2. slot' = slot /\ release' = release
      BY <2>1 DEF info
    <3> HIDE DEF n
    <3>3. \A k \in 0 .. n : slot'[Pos(release', k)] = None
      BY <2>5, <3>1, <3>2, Zenon
    <3> QED BY <3>3 DEF n
  <2>8. (scan_pc = "scan" =>
           /\ scan_left <= in_use /\ scan_idx = Pos(release, in_use - scan_left)
           /\ \A k \in 0 .. in_use - scan_left - 1 : slot[Pos(release, k)] = None)'
    BY <2>3, <2>6, <2>7, Zenon DEF Pos
  <2> QED BY <1>1, <2>1, <2>8 DEF Walk, Filling, info, send
<1>5. CASE ScanRelease
  <2> DEFINE s == in_use - scan_left
  <2>1. /\ UNCHANGED <<send, current>> /\ scan_pc = "scan" /\ scan_pc' = "scan"
        /\ scan_left > 0 /\ slot' = [slot EXCEPT ![scan_idx] = None]
        /\ scan_left' = scan_left - 1 /\ in_use' = scan_left - 1
        /\ scan_idx' = After(scan_idx) /\ release' = After(scan_idx)
    BY <1>5 DEF ScanRelease
  <2>2. /\ s \in Nat /\ scan_idx = Pos(release, s)
        /\ \A k \in 0 .. s - 1 : slot[Pos(release, k)] = None
        /\ scan_left \in Nat \ {0} /\ in_use = s + scan_left
    BY <1>0, <1>1, <2>1
  <2> HIDE DEF s
  <2>3. /\ After(scan_idx) = Pos(release, s + 1) /\ After(scan_idx) \in Bd
        /\ s + 1 \in Int
    BY <1>0, <2>2, PosNext, PosType
  <2>4. ASSUME NEW k \in Int
        PROVE  Pos(After(scan_idx), k) = Pos(release, s + 1 + k)
    BY <1>0, <2>3, PosAdd
  <2>5. current = Pos(After(scan_idx), scan_left - 1)
    <3>1. scan_left - 1 \in Int /\ s + 1 + (scan_left - 1) = in_use
      BY <2>2
    <3> QED BY <1>1, <2>4, <3>1
  <2>6. ASSUME NEW i \in Bd, slot'[i] # None
        PROVE  \E k \in 0 .. (scan_left - 1) - 1 : i = Pos(After(scan_idx), k)
    <3>1. i # scan_idx /\ slot[i] # None
      BY <1>0, <2>1, <2>6
    <3>2. PICK k \in 0 .. in_use - 1 : i = Pos(release, k)
      BY <1>1, <3>1
    <3>3. k \notin 0 .. s - 1 /\ k # s
      BY <2>2, <3>1, <3>2
    <3>4. k - (s + 1) \in 0 .. (scan_left - 1) - 1 /\ s + 1 + (k - (s + 1)) = k
          /\ k - (s + 1) \in Int
      BY <2>2, <3>3
    <3>5. i = Pos(After(scan_idx), k - (s + 1))
      BY <2>4, <3>2, <3>4
    <3> QED BY <3>4, <3>5
  <2>7. /\ current' = Pos(release', in_use')
        /\ scan_idx' = Pos(release', 0)
        /\ \A i \in Bd : slot'[i] # None => \E k \in 0 .. in_use' - 1 : i = Pos(release', k)
    <3>1. After(scan_idx) = Pos(After(scan_idx), 0)
      BY <2>3, PosZero
    <3> QED BY <2>1, <2>5, <2>6, <3>1, Zenon
  <2>8. in_use' - scan_left' = 0 /\ scan_left' <= in_use'
    BY <2>1, <2>2
  <2>9. (\A k \in 0 .. in_use - scan_left - 1 : slot[Pos(release, k)] = None)'
    BY <2>8
  <2>10. (scan_pc = "scan" =>
           /\ scan_left <= in_use /\ scan_idx = Pos(release, in_use - scan_left)
           /\ \A k \in 0 .. in_use - scan_left - 1 : slot[Pos(release, k)] = None)'
    BY <2>7, <2>8, <2>9
  <2> QED BY <1>1, <2>1, <2>7, <2>10 DEF Walk, Filling, send, Bd
<1>6. CASE ScanEnd
  BY <1>1, <1>6 DEF ScanEnd, Walk, Filling, info, send
<1> QED BY <1>2, <1>3, <1>4, <1>5, <1>6 DEF Deferred

\* What touches neither the sender nor the IP thread keeps the walk.
LEMMA WalkKept ==
  ASSUME Walk, UNCHANGED <<info, send, scan>>
  PROVE  Walk'
BY DEF Walk, Filling, info, send, scan

-----------------------------------------------------------------------------
(* Types.                                                                  *)

\* The next and the previous descriptor are descriptors.
LEMMA NextIsBd ==
  ASSUME NEW i \in Bd
  PROVE  After(i) \in Bd /\ Previous(i) \in Bd
<1>1. i \in Int /\ N \in Nat \ {0}
  BY EnetTransmitAssumption DEF Bd
<1> QED BY <1>1 DEF After, Previous, Bd

\* What is appended to a history is a packet.
LEMMA AppendPacket ==
  ASSUME NEW s \in Seq(Packets), NEW p \in Packets
  PROVE  /\ Append(s, p) \in Seq(Packets) /\ Len(Append(s, p)) = Len(s) + 1
         /\ Append(s, p)[Len(s) + 1] = p
         /\ \A n \in 1 .. Len(s) : Append(s, p)[n] = s[n]
OBVIOUS

\* The initial state has the types.
LEMMA TypesInit ==
  Init => Types /\ Flags
<1> SUFFICES ASSUME Init PROVE Types /\ Flags
  OBVIOUS
<1>1. 0 \in Bd /\ 0 \in 0 .. MaxBds /\ 0 \in 0 .. MaxPackets
  BY EnetTransmitAssumption DEF Bd
<1>2. <<>> \in Seq(Packets)
  BY EmptySeq
<1>3. Types
  BY <1>1, <1>2 DEF Init, Types, None
<1>4. Flags
  BY DEF Init, Flags
<1> QED BY <1>3, <1>4

\* A step of the sender keeps the types.
LEMMA TypesSend ==
  ASSUME Types, History, SendRefused \/ SendStart \/ Send
  PROVE  Types'
<1>0. /\ N \in Nat \ {0, 1} /\ MaxPackets \in Nat /\ MaxBds \in 1 .. N
      /\ offered \in 0 .. MaxPackets /\ bd_count \in 0 .. MaxBds /\ size \in 0 .. MaxBds
      /\ idx \in Bd /\ packet \in Packets \union {None} /\ in_use \in Nat
      /\ ready \in [Bd -> BOOLEAN] /\ last \in [Bd -> BOOLEAN]
      /\ frame \in [Bd -> Packets \union {None}]
      /\ slot \in [Bd -> Packets \union {None}]
      /\ returns \in [Packets -> Nat] /\ accepted \in Seq(Packets)
  BY EnetTransmitAssumption DEF Types
<1>1. After(idx) \in Bd /\ Previous(idx) \in Bd
  BY <1>0, NextIsBd
<1>2. send_pc # "idle" => packet \in Packets
  BY <1>0 DEF History, Packets
<1>3. ASSUME NEW p \in Packets PROVE [returns EXCEPT ![p] = @ + 1] \in [Packets -> Nat]
  BY <1>0
<1>4. CASE SendRefused
  <2>1. offered + 1 \in 0 .. MaxPackets
    BY <1>0, <1>4 DEF SendRefused
  <2>2. returns' \in [Packets -> Nat]
    <3>1. offered + 1 \in Packets
      BY <1>0, <1>4 DEF SendRefused, Packets
    <3> QED BY <1>3, <1>4, <3>1 DEF SendRefused, GiveBack
  <2> QED BY <1>4, <2>1, <2>2 DEF SendRefused, Types, ring, info, send, enet, scan
<1>5. CASE SendStart
  <2>1. offered + 1 \in 0 .. MaxPackets /\ offered + 1 \in Packets
    BY <1>0, <1>5 DEF SendStart, Packets
  <2>2. 0 \in 0 .. MaxBds
    BY <1>0
  <2>3. PICK z \in 1 .. MaxBds : size' = z
    BY <1>5 DEF SendStart
  <2>4. z \in 0 .. MaxBds /\ 0 < z
    BY <1>0
  <2>5. /\ offered' = offered + 1 /\ packet' = offered + 1 /\ idx' = current /\ bd_count' = 0
        /\ send_pc' = "check"
        /\ UNCHANGED <<ring, info, enet, scan, accepted, wire, returns>>
    BY <1>5 DEF SendStart
  <2> QED BY <2>1, <2>2, <2>3, <2>4, <2>5 DEF Types, ring, info, enet, scan
<1>6. CASE SendNoDescriptor
  <2>1. returns' \in [Packets -> Nat]
    <3>1. packet \in Packets
      BY <1>2, <1>6 DEF SendNoDescriptor
    <3> QED BY <1>3, <1>6, <3>1 DEF SendNoDescriptor, GiveBack
  <2> QED BY <1>6, <2>1 DEF SendNoDescriptor, Types, ring, info, enet, scan
<1>7. CASE SendFill
  <2>1. /\ send_pc = "check" /\ frame' = [frame EXCEPT ![idx] = packet]
        /\ last' = [last EXCEPT ![idx] = FALSE]
        /\ UNCHANGED <<ready, info, packet, size, enet, scan, history>>
    BY <1>7 DEF SendFill
  <2>2. frame' \in [Bd -> Packets \union {None}]
    BY <1>0, <2>1
  <2>3. last' \in [Bd -> BOOLEAN]
    BY <1>0, <2>1, Zenon
  <2>4. bd_count < size
    BY <2>1 DEF Types
  <2>5. CASE bd_count + 1 < size
    <3>1. idx' = After(idx) /\ bd_count' = bd_count + 1 /\ send_pc' = send_pc
      BY <1>7, <2>5 DEF SendFill
    <3>2. bd_count + 1 \in 0 .. MaxBds
      BY <1>0, <2>5
    <3> QED BY <1>1, <2>1, <2>2, <2>3, <2>5, <3>1, <3>2
            DEF Types, info, enet, scan, history
  <2>6. CASE ~(bd_count + 1 < size)
    <3>1. idx' = idx /\ bd_count' = bd_count /\ send_pc' = "mark"
      BY <1>7, <2>6 DEF SendFill
    <3>2. bd_count < N
      BY <1>0, <2>4
    <3> QED BY <1>1, <2>1, <2>2, <2>3, <3>1, <3>2
            DEF Types, info, enet, scan, history
  <2> QED BY <2>5, <2>6
<1>8. CASE SendMark
  <2>1. /\ send_pc = "mark" /\ last' = [last EXCEPT ![idx] = TRUE]
        /\ ready' = [ready EXCEPT ![idx] = TRUE] /\ slot' = [slot EXCEPT ![idx] = packet]
        /\ current' = After(idx) /\ in_use' = in_use + bd_count + 1 /\ send_pc' = "own"
        /\ accepted' = Append(accepted, packet)
        /\ UNCHANGED <<frame, release, packet, idx, bd_count, size, enet, scan, offered,
                       wire, returns>>
    BY <1>8 DEF SendMark
  <2>2. last' \in [Bd -> BOOLEAN] /\ ready' \in [Bd -> BOOLEAN]
    BY <1>0, <2>1, Zenon
  <2>3. slot' \in [Bd -> Packets \union {None}]
    BY <1>0, <2>1
  <2>4. accepted' \in Seq(Packets)
    BY <1>0, <1>2, <2>1, AppendPacket
  <2>5. in_use + bd_count + 1 \in Nat
    BY <1>0
  <2> QED BY <1>1, <2>1, <2>2, <2>3, <2>4, <2>5 DEF Types, enet, scan
<1>9. CASE SendOwn
  <2>1. /\ send_pc = "own" /\ bd_count > 0 /\ idx' = Previous(idx)
        /\ ready' = [ready EXCEPT ![Previous(idx)] = TRUE]
        /\ bd_count' = bd_count - 1
        /\ UNCHANGED <<last, frame, info, send_pc, packet, size, enet, scan, history>>
    BY <1>9 DEF SendOwn
  <2>2. ready' \in [Bd -> BOOLEAN]
    BY <1>0, <2>1, Zenon
  <2>3. bd_count - 1 \in 0 .. MaxBds
    BY <1>0, <2>1
  <2> QED BY <1>1, <2>1, <2>2, <2>3 DEF Types, info, enet, scan, history
<1>10. CASE SendKick
  BY <1>10 DEF SendKick, Types, ring, info, scan, history
<1> QED BY <1>4, <1>5, <1>6, <1>7, <1>8, <1>9, <1>10 DEF Send

\* So does any other step.
LEMMA TypesOther ==
  ASSUME Types, Slots, LinkEnable \/ Dma \/ Isr \/ IpWake \/ Deferred
  PROVE  Types'
<1>0. /\ N \in Nat \ {0, 1} /\ MaxPackets \in Nat /\ offered \in 0 .. MaxPackets
      /\ scan_idx \in Bd /\ scan_left \in Nat /\ in_use \in Nat /\ dma \in Bd
      /\ ready \in [Bd -> BOOLEAN] /\ slot \in [Bd -> Packets \union {None}]
      /\ returns \in [Packets -> Nat] /\ wire \in Seq(Packets)
  BY EnetTransmitAssumption DEF Types
<1>1. After(scan_idx) \in Bd /\ After(dma) \in Bd
  BY <1>0, NextIsBd
<1>2. CASE LinkEnable
  BY <1>2 DEF LinkEnable, Types, ring, info, send, enet, scan, history
<1>3. CASE DmaSend
  <2>1. /\ ready[dma] /\ ready' = [ready EXCEPT ![dma] = FALSE] /\ dma' = After(dma)
        /\ \/ inside' = None /\ wire' = Append(wire, frame[dma])
           \/ inside' = frame[dma] /\ wire' = wire
        /\ UNCHANGED <<last, frame, info, send, scan, offered, accepted, returns>>
    BY <1>3 DEF DmaSend
  <2>2. frame[dma] \in Packets
    BY <1>0, <2>1 DEF Slots, Packets
  <2>3. ready' \in [Bd -> BOOLEAN]
    BY <1>0, <2>1, Zenon
  <2>4. wire' \in Seq(Packets)
    BY <1>0, <2>1, <2>2, AppendPacket
  <2> QED BY <1>1, <2>1, <2>2, <2>3, <2>4 DEF Types, info, send, scan
<1>4. CASE DmaStop
  BY <1>4 DEF DmaStop, Types, ring, info, send, scan, history
<1>5. CASE Isr
  BY <1>5 DEF Isr, IsrTransmit, IsrClear, Types, ring, info, send, scan, history
<1>6. CASE IpWake
  BY <1>6 DEF IpWake, Types, ring, info, send, enet, history
<1>7. CASE DeferredPickup
  BY <1>7 DEF DeferredPickup, Types, ring, info, send, enet, history
<1>8. CASE ScanSkip
  <2>1. scan_left - 1 \in Nat
    BY <1>0, <1>8 DEF ScanSkip
  <2> QED BY <1>1, <1>8, <2>1 DEF ScanSkip, Types, ring, info, send, enet, history
<1>9. CASE ScanRelease
  <2>1. /\ scan_left > 0 /\ slot' = [slot EXCEPT ![scan_idx] = None]
        /\ returns' = [returns EXCEPT ![slot[scan_idx]] = @ + 1]
        /\ scan_left' = scan_left - 1 /\ in_use' = scan_left - 1
        /\ scan_idx' = After(scan_idx) /\ release' = After(scan_idx)
        /\ UNCHANGED <<ring, current, send, enet, scan_pc, offered, accepted, wire>>
    BY <1>9 DEF ScanRelease, GiveBack
  <2>2. scan_left - 1 \in Nat
    BY <1>0, <2>1
  <2>3. slot' \in [Bd -> Packets \union {None}]
    BY <1>0, <2>1
  <2>4. slot[scan_idx] \in Packets
    BY <1>0, <1>9 DEF ScanRelease
  <2>5. returns' \in [Packets -> Nat]
    BY <1>0, <2>1, <2>4
  <2> QED BY <1>1, <2>1, <2>2, <2>3, <2>5 DEF Types, ring, send, enet
<1>10. CASE ScanEnd
  BY <1>10 DEF ScanEnd, Types, ring, info, send, enet, history
<1> QED BY <1>2, <1>3, <1>4, <1>5, <1>6, <1>7, <1>8, <1>9, <1>10 DEF Dma, Deferred

\* The flags are Boolean.
LEMMA FlagsStep ==
  ASSUME Flags, Next
  PROVE  Flags'
<1>1. enabled \in BOOLEAN /\ tdar \in BOOLEAN /\ txf \in BOOLEAN
      /\ isr_pc \in {"idle", "clear"} /\ deferred \in BOOLEAN /\ ip_event \in BOOLEAN
  BY DEF Flags
<1>2. CASE LinkEnable \/ SendRefused \/ SendStart
  BY <1>1, <1>2, Zenon DEF LinkEnable, SendRefused, SendStart, Flags, enet, events
<1>3. CASE Send
  BY <1>1, <1>3, Zenon DEF Send, SendNoDescriptor, SendFill, SendMark, SendOwn, SendKick,
                       Flags, enet, events
<1>4. CASE Dma
  BY <1>1, <1>4, Zenon DEF Dma, DmaSend, DmaStop, Flags, enet, events
<1>5. CASE Isr
  BY <1>1, <1>5, Zenon DEF Isr, IsrTransmit, IsrClear, Flags, enet, events
<1>6. CASE IpWake \/ Deferred
  BY <1>1, <1>6, Zenon DEF IpWake, Deferred, DeferredPickup, ScanSkip, ScanRelease, ScanEnd,
                       Flags, enet, events
<1> QED BY <1>2, <1>3, <1>4, <1>5, <1>6 DEF Next

-----------------------------------------------------------------------------
(* What the ring holds: the steps that do not touch it.                    *)

core == <<ready, last, frame, slot, current, send_pc, packet, idx, bd_count, dma, inside,
          offered, accepted, wire, returns>>

\* The steps of the interrupt handler, and those of the IP thread that release
\* nothing.
LEMMA CoreKept ==
  ASSUME Content, UNCHANGED core
  PROVE  Content'
<1>1. Ring'
  BY DEF Content, core, Ring, Plain, Split, Filled, At, Filling, Owning
<1>2. Ordered'
  BY DEF Content, core, Ordered, At
<1>3. History'
  BY DEF Content, core, History, Filling
<1>4. Slots'
  BY DEF Content, core, Slots
<1>5. Returned'
  BY DEF Content, core, Returned, Filling
<1>6. WholeFrames'
  BY DEF Content, core, WholeFrames
<1> QED BY <1>1, <1>2, <1>3, <1>4, <1>5, <1>6 DEF Content

\* A packet that is in the ring was accepted, and so offered.
LEMMA InRing ==
  ASSUME Types, History, Slots, NEW i \in Bd, slot[i] # None
  PROVE  \E n \in 1 .. Len(accepted) : accepted[n] = slot[i]
<1>0. Len(wire) \in Nat /\ Len(accepted) \in Nat
  BY DEF Types
<1>1. CASE ready[i]
  <2>1. last[i] /\ slot[i] = frame[i]
    BY <1>1 DEF Slots
  <2>2. PICK n \in Len(wire) + 1 .. Len(accepted) : accepted[n] = frame[i]
    BY <1>1, <2>1 DEF Slots
  <2>3. n \in 1 .. Len(accepted)
    BY <1>0
  <2> QED BY <2>1, <2>2, <2>3
<1>2. CASE ~ready[i]
  <2>1. PICK n \in 1 .. Len(wire) : wire[n] = slot[i]
    BY <1>2 DEF Slots
  <2>2. n \in 1 .. Len(accepted) /\ wire[n] = accepted[n]
    BY <1>0 DEF History
  <2> QED BY <2>1, <2>2
<1> QED BY <1>1, <1>2

\* What is given back counts once more, the others as often as before.
LEMMA GiveBackOne ==
  ASSUME Types, NEW p \in Packets, GiveBack(p)
  PROVE  /\ returns'[p] = returns[p] + 1
         /\ \A r \in Packets : r # p => returns'[r] = returns[r]
BY DEF Types, GiveBack

\* A packet is refused at once, or for want of descriptors.
LEMMA ContentRefused ==
  ASSUME Types, Content, SendRefused \/ SendNoDescriptor
  PROVE  Content'
<1>0. /\ MaxPackets \in Nat /\ offered \in 0 .. MaxPackets
      /\ slot \in [Bd -> Packets \union {None}] /\ accepted \in Seq(Packets)
      /\ returns \in [Packets -> Nat] /\ Len(accepted) \in Nat
  BY EnetTransmitAssumption DEF Types
<1>1. /\ Ring /\ Ordered /\ History /\ Slots /\ Returned /\ WholeFrames
  BY DEF Content
<1>2. ASSUME NEW i \in Bd, slot[i] # None
      PROVE  slot[i] \in 1 .. offered /\ \E n \in 1 .. Len(accepted) : accepted[n] = slot[i]
  <2>1. PICK n \in 1 .. Len(accepted) : accepted[n] = slot[i]
    BY <1>1, <1>2, InRing
  <2>2. accepted[n] <= offered /\ slot[i] \in Packets
    BY <1>0, <1>1, <1>2 DEF History
  <2> QED BY <1>0, <2>1, <2>2 DEF Packets
<1>3. CASE SendRefused
  <2>1. /\ offered' = offered + 1 /\ GiveBack(offered + 1) /\ offered + 1 \in Packets
        /\ UNCHANGED <<ready, last, frame, slot, current, send_pc, packet, idx, bd_count,
                       dma, inside, accepted, wire>>
        /\ send_pc = "idle"
    BY <1>0, <1>3 DEF SendRefused, MutexFree, ring, info, send, enet, Packets
  <2>2. Ring'
    BY <1>1, <2>1 DEF Ring, Plain, Split, Filled, At, Filling, Owning
  <2>3. Ordered'
    BY <1>1, <2>1 DEF Ordered, At
  <2>4. History'
    <3>1. \A n \in 1 .. Len(accepted) : accepted[n] <= offered + 1
      BY <1>0, <1>1 DEF History, Packets
    <3> QED BY <1>1, <2>1, <3>1 DEF History, Filling
  <2>5. Slots'
    <3>1. \A i \in Bd : ready[i] => frame[i] \in 1 .. offered + 1
      BY <1>0, <1>1 DEF Slots
    <3> QED BY <1>1, <2>1, <3>1 DEF Slots
  <2>6. Returned'
    <3>1. \A r \in Packets : r # offered + 1 => returns'[r] = returns[r]
      BY <2>1, GiveBackOne
    <3>2. ASSUME NEW p \in Packets, p > offered + 1 PROVE returns'[p] = 0
      BY <1>0, <1>1, <3>1, <3>2 DEF Returned, Packets
    <3>3. ASSUME NEW i \in Bd, slot[i] # None PROVE returns'[slot[i]] = 0
      <4>1. slot[i] # offered + 1 /\ slot[i] \in Packets
        BY <1>0, <1>2, <3>3
      <4> QED BY <1>1, <3>1, <3>3, <4>1 DEF Returned
    <3> QED BY <1>1, <2>1, <3>2, <3>3 DEF Returned, Filling
  <2>7. WholeFrames'
    BY <1>1, <2>1 DEF WholeFrames
  <2> QED BY <2>2, <2>3, <2>4, <2>5, <2>6, <2>7 DEF Content
<1>4. CASE SendNoDescriptor
  <2>1. /\ GiveBack(packet) /\ packet = offered /\ packet \in Packets
        /\ UNCHANGED <<ready, last, frame, slot, current, packet, idx, bd_count,
                       dma, inside, offered, accepted, wire>>
        /\ send_pc = "check" /\ send_pc' = "idle"
    BY <1>0, <1>1, <1>4 DEF SendNoDescriptor, History, ring, info, enet, Packets
  <2>2. Ring'
    BY <1>1, <2>1 DEF Ring, Plain, Split, Filled, At, Filling, Owning
  <2>3. Ordered'
    BY <1>1, <2>1 DEF Ordered, At
  <2>4. History'
    BY <1>1, <2>1 DEF History, Filling
  <2>5. Slots'
    BY <1>1, <2>1 DEF Slots
  <2>6. Returned'
    <3>1. \A r \in Packets : r # packet => returns'[r] = returns[r]
      BY <2>1, GiveBackOne
    <3>2. ASSUME NEW p \in Packets, p > offered PROVE returns'[p] = 0
      BY <1>0, <1>1, <2>1, <3>1, <3>2 DEF Returned, Packets
    <3>3. ASSUME NEW i \in Bd, slot[i] # None PROVE returns'[slot[i]] = 0
      <4>1. PICK n \in 1 .. Len(accepted) : accepted[n] = slot[i]
        BY <1>2, <3>3
      <4>2. accepted[n] < packet
        BY <1>1, <2>1 DEF History, Filling
      <4>3. slot[i] # packet /\ slot[i] \in Packets
        BY <1>0, <2>1, <3>3, <4>1, <4>2 DEF Packets
      <4> QED BY <1>1, <3>1, <3>3, <4>3 DEF Returned
    <3> QED BY <1>1, <2>1, <3>2, <3>3 DEF Returned, Filling
  <2>7. WholeFrames'
    BY <1>1, <2>1 DEF WholeFrames
  <2> QED BY <2>2, <2>3, <2>4, <2>5, <2>6, <2>7 DEF Content
<1> QED BY <1>3, <1>4

\* The last step of a send.
LEMMA ContentKick ==
  ASSUME Content, SendKick
  PROVE  Content'
<1>1. /\ Ring /\ Ordered /\ History /\ Slots /\ Returned /\ WholeFrames
  BY DEF Content
<1>2. /\ send_pc = "own" /\ bd_count = 0 /\ send_pc' = "idle"
      /\ UNCHANGED <<ready, last, frame, slot, current, packet, idx, bd_count, dma, inside,
                     offered, accepted, wire, returns>>
  BY DEF SendKick, ring, info, history
<1>3. Ring'
  BY <1>1, <1>2 DEF Ring, Plain, Split, Filled, At, Filling, Owning
<1>4. Ordered'
  BY <1>1, <1>2 DEF Ordered, At
<1>5. History'
  BY <1>1, <1>2 DEF History, Filling
<1>6. Slots'
  BY <1>1, <1>2 DEF Slots
<1>7. Returned'
  BY <1>1, <1>2 DEF Returned, Filling
<1>8. WholeFrames'
  BY <1>1, <1>2 DEF WholeFrames
<1> QED BY <1>3, <1>4, <1>5, <1>6, <1>7, <1>8 DEF Content

-----------------------------------------------------------------------------
(* What the ring holds: the sender's steps.                                *)

\* The descriptors behind the DMA's.
LEMMA Behind ==
  ASSUME Types
  PROVE  /\ N \in Nat \ {0, 1} /\ dma \in Bd
         /\ \A k \in Int : Pos(dma, k) \in Bd
         /\ \A j, k \in 0 .. N - 1 : Pos(dma, j) = Pos(dma, k) => j = k
         /\ \A i \in Bd : \E k \in 0 .. N - 1 : i = Pos(dma, k)
         /\ Pos(dma, 0) = dma /\ Pos(dma, N) = dma
         /\ \A k \in Int : /\ After(Pos(dma, k)) = Pos(dma, k + 1)
                           /\ Previous(Pos(dma, k + 1)) = Pos(dma, k)
                           /\ Pos(After(dma), k) = Pos(dma, k + 1)
<1>1. dma \in Bd
  BY DEF Types
<1>2. N \in Nat \ {0, 1}
  BY EnetTransmitAssumption
<1>3. \A k \in Int : Pos(dma, k) \in Bd
  BY <1>1, PosType
<1>4. /\ \A j, k \in 0 .. N - 1 : Pos(dma, j) = Pos(dma, k) => j = k
      /\ \A i \in Bd : \E k \in 0 .. N - 1 : i = Pos(dma, k)
  BY <1>1, PosOnce
<1>5. Pos(dma, 0) = dma /\ Pos(dma, N) = dma
  BY <1>1, PosZero
<1>6. \A k \in Int : /\ After(Pos(dma, k)) = Pos(dma, k + 1)
                     /\ Previous(Pos(dma, k + 1)) = Pos(dma, k)
                     /\ Pos(After(dma), k) = Pos(dma, k + 1)
  BY <1>1, PosNext
<1> QED BY <1>1, <1>2, <1>3, <1>4, <1>5, <1>6

\* A send begins behind the packets in the ring.
LEMMA ContentStart ==
  ASSUME Types, Content, SendStart
  PROVE  Content'
<1>0. /\ MaxPackets \in Nat /\ offered \in 0 .. MaxPackets
      /\ accepted \in Seq(Packets) /\ Len(accepted) \in Nat
  BY EnetTransmitAssumption DEF Types
<1>p. N \in Nat \ {0, 1} /\ \A k \in Int : Pos(dma, k) \in Bd
  BY Behind
<1>1. /\ Ring /\ Ordered /\ History /\ Slots /\ Returned /\ WholeFrames
  BY DEF Content
<1>2. /\ offered' = offered + 1 /\ packet' = offered + 1 /\ offered + 1 \in Packets
      /\ idx' = current /\ bd_count' = 0
      /\ send_pc = "idle" /\ send_pc' = "check"
      /\ UNCHANGED <<ready, last, frame, slot, current, dma, inside, accepted, wire, returns>>
  BY <1>0 DEF SendStart, MutexFree, ring, info, enet, Packets
<1>3. Ring'
  <2>1. PICK q \in 0 .. N : Plain(q)
    BY <1>1, <1>2 DEF Ring, Owning
  <2>2. /\ current = Pos(dma, q)
        /\ \A k \in 0 .. N - 1 : ready[Pos(dma, k)] <=> k < q
        /\ \A k \in 0 .. q - 1 : ~last[Pos(dma, k)] =>
              k + 1 < q /\ frame[Pos(dma, k + 1)] = frame[Pos(dma, k)]
    BY <2>1 DEF Plain, At
  <2>3. ASSUME NEW k \in 0 .. q - 1 PROVE frame[Pos(dma, k)] < offered + 1
    <3>1. k \in 0 .. N - 1 /\ k < q /\ k \in Int
      BY <1>p
    <3>2. ready[Pos(dma, k)] /\ Pos(dma, k) \in Bd
      BY <1>p, <2>2, <3>1
    <3>3. frame[Pos(dma, k)] \in 1 .. offered
      BY <1>1, <3>2 DEF Slots
    <3> QED BY <1>0, <3>3
  <2>4. q + 0 = q /\ q <= N /\ \A k : k \notin q .. q - 1
    BY <1>p
  <2>5. Plain(q)'
    BY <1>2, <2>2, <2>3, <2>4 DEF Plain, At, Filling, Filled
  <2> QED BY <1>2, <2>5 DEF Ring, Owning
<1>4. Ordered'
  BY <1>1, <1>2 DEF Ordered, At
<1>5. History'
  <2>1. \A n \in 1 .. Len(accepted) : accepted[n] <= offered + 1 /\ accepted[n] < offered + 1
    BY <1>0, <1>1 DEF History, Packets
  <2>2. offered + 1 # 0
    BY <1>0
  <2> QED BY <1>1, <1>2, <2>1, <2>2 DEF History, Filling
<1>6. Slots'
  <2>1. \A i \in Bd : ready[i] => frame[i] \in 1 .. offered + 1
    BY <1>0, <1>1 DEF Slots
  <2> QED BY <1>1, <1>2, <2>1 DEF Slots
<1>7. Returned'
  <2>1. ASSUME NEW p \in Packets, p > offered + 1 PROVE returns[p] = 0
    BY <1>0, <1>1, <2>1 DEF Returned, Packets
  <2>2. returns[offered + 1] = 0
    BY <1>0, <1>1, <1>2 DEF Returned, Packets
  <2> QED BY <1>1, <1>2, <2>1, <2>2 DEF Returned, Filling
<1>8. WholeFrames'
  BY <1>1, <1>2 DEF WholeFrames
<1> QED BY <1>3, <1>4, <1>5, <1>6, <1>7, <1>8 DEF Content

\* A descriptor that is free is not one that the frame has already.
LEMMA FreeIsBehind ==
  ASSUME Types, NEW q \in 0 .. N, Plain(q), send_pc = "check", IsFree(idx)
  PROVE  /\ q + bd_count \in 0 .. N - 1 /\ idx = Pos(dma, q + bd_count)
         /\ \A k \in 0 .. N - 1 : k # q + bd_count => Pos(dma, k) # idx
<1>t. bd_count \in Nat /\ bd_count < size /\ size <= N /\ size \in Nat
  BY EnetTransmitAssumption DEF Types
<1>p. /\ N \in Nat \ {0, 1} /\ Pos(dma, 0) = dma /\ Pos(dma, N) = dma
      /\ \A j, k \in 0 .. N - 1 : Pos(dma, j) = Pos(dma, k) => j = k
  BY Behind
<1>0. /\ N \in Nat \ {0, 1} /\ bd_count \in Nat /\ bd_count < size /\ size <= N /\ size \in Nat
      /\ Pos(dma, 0) = dma /\ Pos(dma, N) = dma
      /\ \A j, k \in 0 .. N - 1 : Pos(dma, j) = Pos(dma, k) => j = k
  BY <1>t, <1>p
<1>1. /\ idx = Pos(dma, q + bd_count) /\ q + bd_count <= N
      /\ \A k \in 0 .. N - 1 : ready[Pos(dma, k)] <=> k < q
  BY DEF Plain, At, Filling
<1>2. q + bd_count # N
  <2> SUFFICES ASSUME q + bd_count = N PROVE FALSE
    OBVIOUS
  <2>1. idx = Pos(dma, 0) /\ 0 \in 0 .. N - 1
    BY <1>0, <1>1
  <2>2. ~(0 < q)
    BY <1>1, <2>1 DEF IsFree
  <2> QED BY <1>0, <2>2
<1>3. q + bd_count \in 0 .. N - 1
  BY <1>0, <1>1, <1>2
<1> QED BY <1>0, <1>1, <1>3

\* A descriptor is filled that the DMA does not own.
LEMMA ContentFill ==
  ASSUME Types, Content, SendFill
  PROVE  Content'
<1>t. /\ bd_count \in Nat /\ idx \in Bd
      /\ frame \in [Bd -> Packets \union {None}] /\ last \in [Bd -> BOOLEAN]
  BY EnetTransmitAssumption DEF Types
<1>p. N \in Nat \ {0, 1} /\ dma \in Bd /\ \A k \in Int : Pos(dma, k) \in Bd
  BY Behind
<1>0. /\ N \in Nat \ {0, 1} /\ bd_count \in Nat /\ idx \in Bd
      /\ frame \in [Bd -> Packets \union {None}] /\ last \in [Bd -> BOOLEAN]
      /\ dma \in Bd /\ \A k \in Int : Pos(dma, k) \in Bd
  BY <1>t, <1>p
<1>1. /\ Ring /\ Ordered /\ History /\ Slots /\ Returned /\ WholeFrames
  BY DEF Content
<1>2. /\ send_pc = "check" /\ IsFree(idx)
      /\ frame' = [frame EXCEPT ![idx] = packet] /\ last' = [last EXCEPT ![idx] = FALSE]
      /\ send_pc' \in {"check", "mark"}
      /\ UNCHANGED <<ready, slot, current, packet, dma, inside, offered, accepted, wire,
                     returns>>
  BY DEF SendFill, info, enet, history
<1>3. /\ frame'[idx] = packet /\ ~last'[idx]
      /\ \A i \in Bd : i # idx => frame'[i] = frame[i] /\ last'[i] = last[i]
  BY <1>0, <1>2
<1>4. ~ready[idx] /\ slot[idx] = None
  BY <1>2 DEF IsFree
<1>5. Ring'
  <2>1. PICK q \in 0 .. N : Plain(q)
    BY <1>1, <1>2 DEF Ring, Owning
  <2>2. /\ q + bd_count \in 0 .. N - 1 /\ idx = Pos(dma, q + bd_count)
        /\ \A k \in 0 .. N - 1 : k # q + bd_count => Pos(dma, k) # idx
    BY <1>2, <2>1, FreeIsBehind
  <2>3. /\ current = Pos(dma, q)
        /\ \A k \in 0 .. N - 1 : ready[Pos(dma, k)] <=> k < q
        /\ \A k \in 0 .. q - 1 : ~last[Pos(dma, k)] =>
              k + 1 < q /\ frame[Pos(dma, k + 1)] = frame[Pos(dma, k)]
        /\ \A k \in q .. (q + bd_count) - 1 :
              frame[Pos(dma, k)] = packet /\ ~last[Pos(dma, k)] /\ slot[Pos(dma, k)] = None
        /\ \A k \in 0 .. q - 1 : frame[Pos(dma, k)] < packet
    <3>1. Filling
      BY <1>2 DEF Filling
    <3> QED BY <2>1, <3>1, Zenon DEF Plain, At, Filled
  <2>4. ASSUME NEW k \in 0 .. (q + bd_count) - 1
        PROVE  /\ frame'[Pos(dma, k)] = frame[Pos(dma, k)]
               /\ last'[Pos(dma, k)] = last[Pos(dma, k)]
    <3>1. k \in 0 .. N - 1 /\ k # q + bd_count /\ k \in Int
      BY <1>0, <2>2
    <3>2. Pos(dma, k) \in Bd /\ Pos(dma, k) # idx
      BY <1>0, <2>2, <3>1
    <3> QED BY <1>3, <3>2
  <2>5. ASSUME NEW k \in 0 .. q - 1
        PROVE  /\ ~last'[Pos(dma, k)] =>
                    k + 1 < q /\ frame'[Pos(dma, k + 1)] = frame'[Pos(dma, k)]
               /\ frame'[Pos(dma, k)] < packet
    <3>1. k \in 0 .. (q + bd_count) - 1
      BY <1>0
    <3>2. CASE k + 1 < q
      <4>1. k + 1 \in 0 .. (q + bd_count) - 1
        BY <1>0, <3>2
      <4> QED BY <2>3, <2>4, <3>1, <4>1
    <3>3. CASE ~(k + 1 < q)
      BY <2>3, <2>4, <3>1, <3>3
    <3> QED BY <3>2, <3>3
  <2>6. ASSUME NEW k \in q .. q + bd_count
        PROVE  /\ frame'[Pos(dma, k)] = packet /\ ~last'[Pos(dma, k)]
               /\ slot[Pos(dma, k)] = None
    <3>1. CASE k = q + bd_count
      BY <1>3, <1>4, <2>2, <3>1
    <3>2. CASE k # q + bd_count
      <4>1. k \in q .. (q + bd_count) - 1 /\ k \in 0 .. (q + bd_count) - 1
        BY <1>0, <3>2
      <4> QED BY <2>3, <2>4, <4>1
    <3> QED BY <3>1, <3>2
  <2>7. CASE bd_count + 1 < size
    <3>1. idx' = After(idx) /\ bd_count' = bd_count + 1 /\ send_pc' = "check"
      BY <1>2, <2>7 DEF SendFill
    <3>2. After(idx) = Pos(dma, q + (bd_count + 1))
      <4>1. q + bd_count \in Int /\ (q + bd_count) + 1 = q + (bd_count + 1)
        BY <1>0
      <4>2. After(Pos(dma, q + bd_count)) = Pos(dma, (q + bd_count) + 1)
        BY <4>1, Behind
      <4> QED BY <2>2, <4>1, <4>2
    <3>3. q + (bd_count + 1) <= N /\ (q + (bd_count + 1)) - 1 = q + bd_count
      BY <1>0, <2>2
    <3>4. Filled(q, q + bd_count)'
      <4>1. bd_count' = bd_count + 1
        BY <3>1
      <4> QED BY <1>2, <2>6, <3>1, <3>3 DEF Filled, At
    <3>5. Plain(q)'
      BY <1>2, <2>3, <2>5, <3>1, <3>2, <3>3, <3>4 DEF Plain, At, Filling
    <3> QED BY <3>1, <3>5 DEF Ring, Owning
  <2>8. CASE ~(bd_count + 1 < size)
    <3>1. idx' = idx /\ bd_count' = bd_count /\ send_pc' = "mark"
      BY <2>8 DEF SendFill
    <3>2. q + bd_count <= N /\ q + bd_count < N /\ (q + bd_count + 1) - 1 = q + bd_count
      BY <1>0, <2>2
    <3>3. Filled(q, q + bd_count)' /\ Filled(q, q + bd_count + 1)'
      <4>1. \A k \in q .. (q + bd_count) - 1 : k \in q .. q + bd_count
        BY <1>0
      <4>2. bd_count' = bd_count /\ packet' = packet /\ slot' = slot /\ dma' = dma
        BY <1>2, <3>1
      <4>3. Filled(q, q + bd_count)'
        BY <2>6, <4>1, <4>2, Zenon DEF Filled, At
      <4>4. Filled(q, q + bd_count + 1)'
        BY <2>6, <3>2, <4>2, Zenon DEF Filled, At
      <4> QED BY <4>3, <4>4
    <3>4. Plain(q)'
      BY <1>2, <2>2, <2>3, <2>5, <3>1, <3>2, <3>3 DEF Plain, At, Filling
    <3> QED BY <3>1, <3>4 DEF Ring, Owning
  <2> QED BY <2>7, <2>8
<1>6. Ordered'
  <2>1. ASSUME NEW k \in 0 .. N - 1, ready[Pos(dma, k)]
        PROVE  /\ frame'[Pos(dma, k)] = frame[Pos(dma, k)]
               /\ last'[Pos(dma, k)] = last[Pos(dma, k)]
    <3>1. Pos(dma, k) \in Bd /\ Pos(dma, k) # idx
      BY <1>0, <1>4, <2>1
    <3> QED BY <1>3, <3>1
  <2> QED BY <1>1, <1>2, <2>1 DEF Ordered, At
<1>7. History'
  BY <1>1, <1>2 DEF History, Filling
<1>8. Slots'
  <2>1. \A i \in Bd : ready[i] => frame'[i] = frame[i] /\ (last'[i] <=> last[i])
    BY <1>3, <1>4
  <2>2. \A i \in Bd : ready[i] =>
           frame'[i] \in 1 .. offered /\ slot[i] = IF last'[i] THEN frame'[i] ELSE None
    BY <1>1, <2>1 DEF Slots
  <2>3. \A i \in Bd : ready[i] /\ last'[i] =>
           \E n \in Len(wire) + 1 .. Len(accepted) : accepted[n] = frame'[i]
    BY <1>1, <2>1 DEF Slots
  <2>4. \A n \in Len(wire) + 1 .. Len(accepted) :
           \E i \in Bd : ready[i] /\ last'[i] /\ frame'[i] = accepted[n]
    BY <1>1, <2>1 DEF Slots
  <2>5. \A i \in Bd : slot[i] # None /\ ~ready[i] =>
           \E n \in 1 .. Len(wire) : wire[n] = slot[i]
    BY <1>1 DEF Slots
  <2> QED BY <1>2, <2>2, <2>3, <2>4, <2>5 DEF Slots
<1>9. Returned'
  BY <1>1, <1>2 DEF Returned, Filling
<1>10. WholeFrames'
  BY <1>0, <1>1, <1>2, <1>3, <1>4 DEF WholeFrames
<1> QED BY <1>5, <1>6, <1>7, <1>8, <1>9, <1>10 DEF Content

\* With its last descriptor the packet is accepted.
LEMMA MarkRing ==
  ASSUME Types, Ring, SendMark
  PROVE  /\ Ring'
         /\ \E q \in 0 .. N - 1 :
              /\ q + bd_count \in 0 .. N - 1 /\ idx = Pos(dma, q + bd_count)
              /\ \A k \in 0 .. N - 1 : k # q + bd_count => Pos(dma, k) # idx
              /\ \A k \in 0 .. N - 1 : ready[Pos(dma, k)] <=> k < q
              /\ \A k \in 0 .. q - 1 : frame[Pos(dma, k)] < packet
              /\ frame[idx] = packet /\ slot[idx] = None
<1>t. /\ bd_count \in Nat /\ idx \in Bd
      /\ slot \in [Bd -> Packets \union {None}]
      /\ ready \in [Bd -> BOOLEAN] /\ last \in [Bd -> BOOLEAN]
  BY EnetTransmitAssumption DEF Types
<1>p. /\ N \in Nat \ {0, 1} /\ dma \in Bd /\ \A k \in Int : Pos(dma, k) \in Bd
      /\ \A j, k \in 0 .. N - 1 : Pos(dma, j) = Pos(dma, k) => j = k
  BY Behind
<1>2. /\ send_pc = "mark" /\ send_pc' = "own"
      /\ last' = [last EXCEPT ![idx] = TRUE] /\ ready' = [ready EXCEPT ![idx] = TRUE]
      /\ slot' = [slot EXCEPT ![idx] = packet] /\ current' = After(idx)
      /\ UNCHANGED <<frame, packet, idx, bd_count, dma>>
  BY DEF SendMark, enet
<1>3. PICK q \in 0 .. N : Plain(q)
  BY <1>2 DEF Ring, Owning
<1>4. Filling
  BY <1>2 DEF Filling
<1>5. /\ idx = Pos(dma, q + bd_count) /\ q + bd_count < N
      /\ \A k \in 0 .. N - 1 : ready[Pos(dma, k)] <=> k < q
      /\ \A k \in 0 .. q - 1 : ~last[Pos(dma, k)] =>
            k + 1 < q /\ frame[Pos(dma, k + 1)] = frame[Pos(dma, k)]
      /\ \A k \in q .. (q + bd_count + 1) - 1 :
            frame[Pos(dma, k)] = packet /\ ~last[Pos(dma, k)] /\ slot[Pos(dma, k)] = None
      /\ \A k \in 0 .. q - 1 : frame[Pos(dma, k)] < packet
  BY <1>2, <1>3, <1>4, Zenon DEF Plain, At, Filled
<1>6. q + bd_count \in 0 .. N - 1 /\ q \in 0 .. N - 1 /\ (q + bd_count + 1) - 1 = q + bd_count
      /\ q + bd_count \in q .. q + bd_count
  BY <1>t, <1>p, <1>5
<1>7. \A k \in 0 .. N - 1 : k # q + bd_count => Pos(dma, k) # idx
  BY <1>p, <1>5, <1>6
<1>8. frame[idx] = packet /\ slot[idx] = None
  BY <1>5, <1>6, Zenon
<1>9. /\ last'[idx] /\ ready'[idx] /\ slot'[idx] = packet
      /\ \A i \in Bd : i # idx =>
           (last'[i] <=> last[i]) /\ (ready'[i] <=> ready[i]) /\ slot'[i] = slot[i]
  BY <1>t, <1>2
<1>10. ASSUME NEW k \in 0 .. N - 1, k # q + bd_count
       PROVE  /\ last'[Pos(dma, k)] <=> last[Pos(dma, k)]
              /\ ready'[Pos(dma, k)] <=> k < q
              /\ slot'[Pos(dma, k)] = slot[Pos(dma, k)]
  <2>1. k \in Int
    BY <1>p
  <2>2. Pos(dma, k) \in Bd /\ Pos(dma, k) # idx
    BY <1>p, <1>7, <1>10, <2>1
  <2>3. ready[Pos(dma, k)] <=> k < q
    BY <1>5
  <2> QED BY <1>9, <2>2, <2>3
<1>11. ready'[Pos(dma, q + bd_count)] /\ last'[Pos(dma, q + bd_count)]
  BY <1>5, <1>9
<1>12. current' = Pos(dma, (q + bd_count) + 1)
  <2>1. q + bd_count \in Int
    BY <1>t
  <2> QED BY <1>2, <1>5, <2>1, Behind
<1>13. ASSUME NEW k \in 0 .. q - 1
       PROVE  ~last'[Pos(dma, k)] =>
                 k + 1 < q /\ frame[Pos(dma, k + 1)] = frame[Pos(dma, k)]
  <2>1. k \in 0 .. N - 1 /\ k # q + bd_count
    BY <1>t, <1>p, <1>6
  <2> QED BY <1>5, <1>10, <2>1
<1>14. Ring'
  <2>1. CASE bd_count = 0
    <3>1. q + 1 \in 0 .. N /\ (q + 1) - 1 = q /\ q + bd_count = q
      BY <1>p, <1>6, <2>1
    <3>2. current' = Pos(dma, q + 1)
      BY <1>12, <3>1
    <3>3. \A k \in 0 .. N - 1 : ready'[Pos(dma, k)] <=> k < q + 1
      <4> TAKE k \in 0 .. N - 1
      <4>1. CASE k = q
        BY <1>11, <3>1, <4>1
      <4>2. CASE k # q
        <5>1. k < q <=> k < q + 1
          BY <4>2, <1>6
        <5> QED BY <1>10, <3>1, <4>2, <5>1
      <4> QED BY <4>1, <4>2
    <3>4. \A k \in 0 .. (q + 1) - 1 : ~last'[Pos(dma, k)] =>
             k + 1 < q + 1 /\ frame[Pos(dma, k + 1)] = frame[Pos(dma, k)]
      <4> TAKE k \in 0 .. (q + 1) - 1
      <4>1. CASE k = q
        BY <1>11, <3>1, <4>1
      <4>2. CASE k # q
        <5>1. k \in 0 .. q - 1 /\ (k + 1 < q => k + 1 < q + 1)
          BY <1>6, <3>1, <4>2
        <5> QED BY <1>13, <5>1
      <4> QED BY <4>1, <4>2
    <3>5. Plain(q + 1)'
      BY <1>2, <3>2, <3>3, <3>4, Zenon DEF Plain, At, Filling
    <3> QED BY <1>2, <2>1, <3>1, <3>5 DEF Ring, Owning
  <2>2. CASE bd_count # 0
    <3>1. /\ q \in 0 .. N /\ 1 \in 1 .. N /\ q + bd_count + 1 <= N
          /\ (q + bd_count + 1) - 1 = q + bd_count
          /\ bd_count > 0
      BY <1>t, <1>p, <1>6, <2>2
    <3>2. \A k \in 0 .. N - 1 : ready'[Pos(dma, k)] <=>
             k < q \/ k \in q + bd_count .. (q + bd_count + 1) - 1
      <4> TAKE k \in 0 .. N - 1
      <4>1. CASE k = q + bd_count
        BY <1>11, <1>6, <4>1
      <4>2. CASE k # q + bd_count
        <5>1. k \notin q + bd_count .. q + bd_count
          BY <1>6, <4>2
        <5> QED BY <1>10, <3>1, <4>2, <5>1
      <4> QED BY <4>1, <4>2
    <3>3. \A k \in q .. (q + bd_count) - 1 :
             frame[Pos(dma, k)] = packet /\ ~last'[Pos(dma, k)] /\ slot'[Pos(dma, k)] = None
      <4> TAKE k \in q .. (q + bd_count) - 1
      <4>1. k \in 0 .. N - 1 /\ k # q + bd_count /\ k \in q .. q + bd_count
        BY <1>t, <1>p, <1>6
      <4> QED BY <1>5, <1>6, <1>10, <4>1
    <3>4. \A k \in q + bd_count .. (q + bd_count + 1) - 1 :
             frame[Pos(dma, k)] = packet
             /\ (last'[Pos(dma, k)] <=> k = (q + bd_count + 1) - 1)
      <4> TAKE k \in q + bd_count .. (q + bd_count + 1) - 1
      <4>1. k = q + bd_count
        BY <1>6, <3>1
      <4> QED BY <1>5, <1>8, <1>11, <3>1, <4>1
    <3>5. Split(q, 1)'
      <4>1. /\ bd_count' = bd_count /\ frame' = frame /\ packet' = packet /\ dma' = dma
            /\ idx' = idx
        BY <1>2
      <4>2. Filled(q, q + bd_count)'
        BY <3>3, <4>1, Zenon DEF Filled, At
      <4> QED BY <1>5, <1>12, <1>13, <3>1, <3>2, <3>4, <4>1, <4>2, Zenon DEF Split, At
    <3> QED BY <1>2, <3>1, <3>5 DEF Ring, Owning
  <2> QED BY <2>1, <2>2
<1> QED BY <1>5, <1>6, <1>7, <1>8, <1>14, Zenon

\* The packet that is accepted is the last one, in the ring and in the history.
LEMMA ContentMark ==
  ASSUME Types, Content, SendMark
  PROVE  Content'
<1>t. /\ bd_count \in Nat /\ idx \in Bd /\ offered \in Nat
      /\ slot \in [Bd -> Packets \union {None}]
      /\ ready \in [Bd -> BOOLEAN] /\ last \in [Bd -> BOOLEAN]
      /\ accepted \in Seq(Packets) /\ Len(accepted) \in Nat /\ Len(wire) \in Nat
  BY EnetTransmitAssumption DEF Types
<1>1. /\ Ring /\ Ordered /\ History /\ Slots /\ Returned /\ WholeFrames
  BY DEF Content
<1>2. /\ send_pc = "mark" /\ send_pc' = "own"
      /\ last' = [last EXCEPT ![idx] = TRUE] /\ ready' = [ready EXCEPT ![idx] = TRUE]
      /\ slot' = [slot EXCEPT ![idx] = packet] /\ accepted' = Append(accepted, packet)
      /\ UNCHANGED <<frame, packet, idx, bd_count, dma, inside, offered, wire, returns>>
  BY DEF SendMark, enet
<1>3. /\ packet = offered /\ packet \in 1 .. offered /\ packet \in Packets
      /\ \A n \in 1 .. Len(accepted) : accepted[n] < packet
      /\ returns[packet] = 0 /\ packet # None
  <2>1. Filling /\ packet = offered /\ offered # 0
    BY <1>1, <1>2 DEF Filling, History
  <2>2. packet \in Packets /\ packet \in 1 .. offered
    BY <1>t, <2>1 DEF Types, Packets, None
  <2>3. packet # None
    BY <2>2 DEF None
  <2> QED BY <1>1, <2>1, <2>2, <2>3, Zenon DEF History, Returned
<1>4. PICK q \in 0 .. N - 1 :
        /\ q + bd_count \in 0 .. N - 1 /\ idx = Pos(dma, q + bd_count)
        /\ \A k \in 0 .. N - 1 : k # q + bd_count => Pos(dma, k) # idx
        /\ \A k \in 0 .. N - 1 : ready[Pos(dma, k)] <=> k < q
        /\ \A k \in 0 .. q - 1 : frame[Pos(dma, k)] < packet
        /\ frame[idx] = packet /\ slot[idx] = None
  BY <1>1, MarkRing
<1>p. /\ N \in Nat \ {0, 1} /\ dma \in Bd /\ \A k \in Int : Pos(dma, k) \in Bd
  BY Behind
<1>5. Ring'
  BY <1>1, MarkRing
<1>6. /\ last'[idx] /\ ready'[idx] /\ slot'[idx] = packet
      /\ \A i \in Bd : i # idx =>
           (last'[i] <=> last[i]) /\ (ready'[i] <=> ready[i]) /\ slot'[i] = slot[i]
  BY <1>t, <1>2
<1>7. ~ready[idx]
  BY <1>t, <1>p, <1>4
<1>8. /\ accepted' \in Seq(Packets) /\ Len(accepted') = Len(accepted) + 1
      /\ accepted'[Len(accepted) + 1] = packet
      /\ \A n \in 1 .. Len(accepted) : accepted'[n] = accepted[n]
  BY <1>t, <1>2, <1>3, AppendPacket
<1>9. Ordered'
  <2>1. ASSUME NEW k \in 0 .. N - 1, k # q + bd_count
        PROVE  /\ last'[Pos(dma, k)] <=> last[Pos(dma, k)]
               /\ ready'[Pos(dma, k)] <=> ready[Pos(dma, k)]
               /\ ready[Pos(dma, k)] <=> k < q
    <3>1. k \in Int
      BY <1>p
    <3> QED BY <1>4, <1>6, <1>p, <2>1, <3>1
  <2>2. ASSUME NEW j \in 0 .. N - 1, NEW k \in 0 .. N - 1,
               j < k, ready'[Pos(dma, j)], ready'[Pos(dma, k)]
        PROVE  /\ frame[Pos(dma, j)] <= frame[Pos(dma, k)]
               /\ last'[Pos(dma, j)] => frame[Pos(dma, j)] < frame[Pos(dma, k)]
    <3>1. CASE k = q + bd_count
      <4>1. j < q /\ j \in 0 .. q - 1
        <5>1. j # q + bd_count
          BY <1>p, <2>2, <3>1
        <5> QED BY <1>p, <2>1, <2>2, <5>1
      <4>2. frame[Pos(dma, j)] < packet /\ frame[Pos(dma, k)] = packet
        BY <1>4, <3>1, <4>1
      <4>3. frame[Pos(dma, j)] \in Int /\ packet \in Int
        <5>1. ready[Pos(dma, j)] /\ Pos(dma, j) \in Bd
          BY <1>p, <1>4, <4>1
        <5>2. frame[Pos(dma, j)] \in 1 .. offered
          BY <1>1, <5>1 DEF Slots
        <5> QED BY <1>t, <1>3, <5>2
      <4> QED BY <4>2, <4>3
    <3>2. CASE k # q + bd_count
      <4>1. ready[Pos(dma, k)] /\ k < q
        BY <2>1, <2>2, <3>2
      <4>2. j # q + bd_count
        BY <1>t, <1>p, <2>2, <4>1
      <4>3. ready[Pos(dma, j)] /\ (last'[Pos(dma, j)] <=> last[Pos(dma, j)])
        BY <2>1, <2>2, <4>2
      <4> QED BY <1>1, <2>2, <4>1, <4>3 DEF Ordered, At
    <3> QED BY <3>1, <3>2
  <2> QED BY <1>2, <2>2 DEF Ordered, At
<1>10. History'
  <2>1. Len(wire) <= Len(accepted) + 1
    BY <1>t, <1>1 DEF History
  <2>2. \A n \in 1 .. Len(wire) : wire[n] = accepted'[n]
    <3> TAKE n \in 1 .. Len(wire)
    <3>1. n \in 1 .. Len(accepted) /\ wire[n] = accepted[n]
      BY <1>t, <1>1 DEF History
    <3> QED BY <1>8, <3>1
  <2>3. ASSUME NEW n \in 1 .. Len(accepted) + 1
        PROVE  \/ accepted'[n] = accepted[n] /\ accepted[n] <= offered
               \/ accepted'[n] = packet
    <3>1. CASE n = Len(accepted) + 1
      BY <1>8, <3>1
    <3>2. CASE n # Len(accepted) + 1
      <4>1. n \in 1 .. Len(accepted)
        BY <1>t, <3>2
      <4>2. accepted[n] <= offered
        BY <1>1, <4>1 DEF History
      <4> QED BY <1>8, <4>1, <4>2
    <3> QED BY <3>1, <3>2
  <2>4. \A n \in 1 .. Len(accepted') : accepted'[n] <= offered
    <3>1. packet <= offered
      BY <1>t, <1>3
    <3> QED BY <1>8, <2>3, <3>1
  <2>5. \A m, n \in 1 .. Len(accepted') : m < n => accepted'[m] < accepted'[n]
    <3> SUFFICES ASSUME NEW m \in 1 .. Len(accepted) + 1, NEW n \in 1 .. Len(accepted) + 1,
                        m < n
                 PROVE  accepted'[m] < accepted'[n]
      BY <1>8
    <3>1. m \in 1 .. Len(accepted)
      BY <1>t
    <3>2. accepted'[m] = accepted[m] /\ accepted[m] < packet
      BY <1>3, <1>8, <3>1
    <3>3. CASE n = Len(accepted) + 1
      BY <1>8, <3>2, <3>3
    <3>4. CASE n # Len(accepted) + 1
      <4>1. n \in 1 .. Len(accepted)
        BY <1>t, <3>4
      <4> QED BY <1>1, <1>8, <3>1, <3>2, <4>1 DEF History
    <3> QED BY <3>3, <3>4
  <2>6. ~Filling'
    BY <1>2 DEF Filling
  <2>7. packet' = offered' /\ offered' # 0
    BY <1>t, <1>2, <1>3
  <2> QED BY <1>2, <1>8, <2>1, <2>2, <2>4, <2>5, <2>6, <2>7 DEF History
<1>11. Slots'
  <2>1. ASSUME NEW i \in Bd, ready'[i]
        PROVE  frame[i] \in 1 .. offered /\ slot'[i] = IF last'[i] THEN frame[i] ELSE None
    <3>1. CASE i = idx
      BY <1>3, <1>4, <1>6, <3>1
    <3>2. CASE i # idx
      BY <1>1, <1>6, <2>1, <3>2 DEF Slots
    <3> QED BY <3>1, <3>2
  <2>2. ASSUME NEW i \in Bd, slot'[i] # None, ~ready'[i]
        PROVE  \E n \in 1 .. Len(wire) : wire[n] = slot'[i]
    BY <1>1, <1>6, <2>2 DEF Slots
  <2>3. ASSUME NEW i \in Bd, ready'[i], last'[i]
        PROVE  \E n \in Len(wire) + 1 .. Len(accepted) + 1 : accepted'[n] = frame[i]
    <3>1. CASE i = idx
      <4>1. Len(accepted) + 1 \in Len(wire) + 1 .. Len(accepted) + 1
        BY <1>t, <1>1 DEF History
      <4> QED BY <1>4, <1>8, <3>1, <4>1
    <3>2. CASE i # idx
      <4>1. PICK n \in Len(wire) + 1 .. Len(accepted) : accepted[n] = frame[i]
        BY <1>1, <1>6, <2>3, <3>2 DEF Slots
      <4>2. n \in 1 .. Len(accepted) /\ n \in Len(wire) + 1 .. Len(accepted) + 1
        BY <1>t
      <4> QED BY <1>8, <4>1, <4>2
    <3> QED BY <3>1, <3>2
  <2>4. ASSUME NEW n \in Len(wire) + 1 .. Len(accepted) + 1
        PROVE  \E i \in Bd : ready'[i] /\ last'[i] /\ frame[i] = accepted'[n]
    <3>1. CASE n = Len(accepted) + 1
      BY <1>t, <1>4, <1>6, <1>8, <3>1
    <3>2. CASE n # Len(accepted) + 1
      <4>1. n \in Len(wire) + 1 .. Len(accepted) /\ n \in 1 .. Len(accepted)
        BY <1>t, <3>2
      <4>2. PICK i \in Bd : ready[i] /\ last[i] /\ frame[i] = accepted[n]
        BY <1>1, <4>1 DEF Slots
      <4>3. i # idx
        BY <1>7, <4>2
      <4> QED BY <1>6, <1>8, <4>1, <4>2, <4>3
    <3> QED BY <3>1, <3>2
  <2>5. /\ frame' = frame /\ offered' = offered /\ wire' = wire
        /\ Len(accepted') = Len(accepted) + 1
    BY <1>2, <1>8
  <2> QED BY <2>1, <2>2, <2>3, <2>4, <2>5, Zenon DEF Slots, Bd
<1>12. Returned'
  <2>1. ASSUME NEW i \in Bd, slot[i] # None PROVE slot[i] # packet
    <3>1. PICK n \in 1 .. Len(accepted) : accepted[n] = slot[i]
      BY <1>1, <2>1, InRing
    <3>2. accepted[n] < packet
      BY <1>3
    <3> QED BY <1>3, <1>t, <3>1, <3>2
  <2>2. ASSUME NEW i \in Bd, slot'[i] # None PROVE returns[slot'[i]] = 0
    BY <1>1, <1>3, <1>6, <2>2 DEF Returned
  <2>3. ASSUME NEW i \in Bd, NEW j \in Bd, slot'[i] # None, slot'[i] = slot'[j]
        PROVE  i = j
    <3>1. CASE i = idx /\ j # idx
      BY <1>3, <1>6, <2>1, <2>3, <3>1
    <3>2. CASE i # idx /\ j = idx
      BY <1>3, <1>6, <2>1, <2>3, <3>2
    <3>3. CASE i # idx /\ j # idx
      BY <1>1, <1>6, <2>3, <3>3 DEF Returned
    <3> QED BY <3>1, <3>2, <3>3
  <2>4. ~Filling'
    BY <1>2 DEF Filling
  <2>5. \A p \in Packets : p > offered => returns[p] = 0
    BY <1>1 DEF Returned
  <2>6. returns' = returns /\ offered' = offered
    BY <1>2
  <2> QED BY <2>2, <2>3, <2>4, <2>5, <2>6, Zenon DEF Returned, Bd, Packets
<1>13. WholeFrames'
  BY <1>p, <1>1, <1>2, <1>6, <1>7 DEF WholeFrames
<1> QED BY <1>5, <1>9, <1>10, <1>11, <1>12, <1>13 DEF Content

\* One more descriptor of the accepted packet is given to the DMA, from behind.
LEMMA OwnRing ==
  ASSUME Types, Ring, SendOwn
  PROVE  /\ Ring'
         /\ \E q \in 0 .. N, m \in 1 .. N :
              LET p == q + (bd_count - 1) IN
              /\ p \in q .. N - 1 /\ q + bd_count + m <= N
              /\ Previous(idx) = Pos(dma, p) /\ Previous(idx) \in Bd
              /\ \A k \in 0 .. N - 1 : k # p => Pos(dma, k) # Previous(idx)
              /\ \A k \in 0 .. N - 1 :
                   ready[Pos(dma, k)] <=> k < q \/ k \in q + bd_count .. (q + bd_count + m) - 1
              /\ \A k \in 0 .. q - 1 : frame[Pos(dma, k)] < packet
              /\ \A k \in q + bd_count .. (q + bd_count + m) - 1 : frame[Pos(dma, k)] = packet
              /\ frame[Previous(idx)] = packet /\ slot[Previous(idx)] = None
              /\ ~last[Previous(idx)] /\ ~ready[Previous(idx)]
<1>t. bd_count \in Nat /\ ready \in [Bd -> BOOLEAN]
  BY EnetTransmitAssumption DEF Types
<1>p. /\ N \in Nat \ {0, 1} /\ dma \in Bd /\ \A k \in Int : Pos(dma, k) \in Bd
      /\ \A j, k \in 0 .. N - 1 : Pos(dma, j) = Pos(dma, k) => j = k
  BY Behind
<1>2. /\ send_pc = "own" /\ send_pc' = "own" /\ bd_count > 0
      /\ idx' = Previous(idx) /\ ready' = [ready EXCEPT ![Previous(idx)] = TRUE]
      /\ bd_count' = bd_count - 1
      /\ UNCHANGED <<frame, last, slot, current, packet, dma>>
  BY DEF SendOwn, info, enet
<1>3. PICK q \in 0 .. N, m \in 1 .. N : Split(q, m)
  BY <1>2 DEF Ring, Owning
<1>4. /\ q + bd_count + m <= N
      /\ idx = Pos(dma, q + bd_count) /\ current = Pos(dma, q + bd_count + m)
      /\ \A k \in 0 .. N - 1 :
           ready[Pos(dma, k)] <=> k < q \/ k \in q + bd_count .. (q + bd_count + m) - 1
      /\ \A k \in 0 .. q - 1 : ~last[Pos(dma, k)] =>
            k + 1 < q /\ frame[Pos(dma, k + 1)] = frame[Pos(dma, k)]
      /\ \A k \in q .. (q + bd_count) - 1 :
            frame[Pos(dma, k)] = packet /\ ~last[Pos(dma, k)] /\ slot[Pos(dma, k)] = None
      /\ \A k \in 0 .. q - 1 : frame[Pos(dma, k)] < packet
      /\ \A k \in q + bd_count .. (q + bd_count + m) - 1 :
           frame[Pos(dma, k)] = packet
           /\ (last[Pos(dma, k)] <=> k = (q + bd_count + m) - 1)
  BY <1>3, Zenon DEF Split, At, Filled
<1> DEFINE b == bd_count - 1
           p == q + b
<1>5. /\ b \in Nat /\ bd_count = b + 1 /\ p \in q .. N - 1 /\ p \in 0 .. N - 1 /\ p \in Int
      /\ q \in Nat /\ m \in Nat \ {0} /\ q + bd_count = p + 1
      /\ q + bd_count + m = p + 1 + m /\ p + 1 + m <= N /\ (p + 1 + m) - 1 = p + m
      /\ (q + bd_count) - 1 = p /\ p \in q .. p
  BY <1>t, <1>p, <1>2, <1>4
<1>6. p = q + b /\ bd_count' = b
  BY <1>2
<1> HIDE DEF p, b
<1>7. Previous(idx) = Pos(dma, p)
  <2>1. idx = Pos(dma, p + 1)
    BY <1>4, <1>5
  <2> QED BY <1>5, <2>1, Behind
<1>8. Pos(dma, p) \in Bd /\ \A k \in 0 .. N - 1 : k # p => Pos(dma, k) # Pos(dma, p)
  BY <1>p, <1>5
<1>9. /\ \A k \in 0 .. N - 1 : ready[Pos(dma, k)] <=> k < q \/ k \in p + 1 .. p + m
      /\ \A k \in q .. p :
            frame[Pos(dma, k)] = packet /\ ~last[Pos(dma, k)] /\ slot[Pos(dma, k)] = None
      /\ \A k \in p + 1 .. p + m :
            frame[Pos(dma, k)] = packet /\ (last[Pos(dma, k)] <=> k = p + m)
  BY <1>4, <1>5, Zenon
<1>10. /\ frame[Pos(dma, p)] = packet /\ slot[Pos(dma, p)] = None /\ ~last[Pos(dma, p)]
       /\ ~ready[Pos(dma, p)]
  <2>1. ~(p < q) /\ p \notin p + 1 .. p + m
    BY <1>5
  <2> QED BY <1>5, <1>9, <2>1
<1>11. \A k \in 0 .. N - 1 : ready'[Pos(dma, k)] <=> k < q \/ k \in p .. p + m
  <2> TAKE k \in 0 .. N - 1
  <2>1. CASE k = p
    <3>1. p \in p .. p + m
      BY <1>5
    <3> QED BY <1>t, <1>2, <1>7, <1>8, <2>1, <3>1
  <2>2. CASE k # p
    <3>1. k \in p .. p + m <=> k \in p + 1 .. p + m
      BY <1>5, <2>2
    <3>2. Pos(dma, k) \in Bd /\ Pos(dma, k) # Pos(dma, p)
      <4>1. k \in Int
        BY <1>p
      <4> QED BY <1>p, <1>8, <2>2, <4>1
    <3>3. ready'[Pos(dma, k)] <=> ready[Pos(dma, k)]
      BY <1>t, <1>2, <1>7, <3>2
    <3> QED BY <1>9, <3>1, <3>3
  <2> QED BY <2>1, <2>2
<1>12. Ring'
  <2>1. CASE b = 0
    <3>1. q + m + 1 \in 0 .. N /\ p = q /\ q + m + 1 = p + 1 + m
      BY <1>p, <1>5, <1>6, <2>1
    <3>2. current = Pos(dma, q + m + 1)
      BY <1>4, <1>5, <3>1
    <3>3. \A k \in 0 .. N - 1 : ready'[Pos(dma, k)] <=> k < q + m + 1
      <4> TAKE k \in 0 .. N - 1
      <4>1. k < q \/ k \in p .. p + m <=> k < q + m + 1
        BY <1>5, <3>1
      <4> QED BY <1>11, <4>1
    <3>4. \A k \in 0 .. (q + m + 1) - 1 : ~last[Pos(dma, k)] =>
             k + 1 < q + m + 1 /\ frame[Pos(dma, k + 1)] = frame[Pos(dma, k)]
      <4> SUFFICES ASSUME NEW k \in 0 .. (q + m + 1) - 1, ~last[Pos(dma, k)]
                   PROVE  k + 1 < q + m + 1 /\ frame[Pos(dma, k + 1)] = frame[Pos(dma, k)]
        OBVIOUS
      <4>1. CASE k < q
        <5>1. k \in 0 .. q - 1 /\ (k + 1 < q => k + 1 < q + m + 1)
          BY <1>5, <4>1
        <5> QED BY <1>4, <5>1
      <4>2. CASE ~(k < q)
        <5>1. k \in q .. p \/ k \in p + 1 .. p + m
          BY <1>5, <3>1, <4>2
        <5>2. frame[Pos(dma, k)] = packet /\ k # p + m
          <6>1. CASE k \in q .. p
            <7>1. k # p + m
              BY <1>5, <6>1
            <7> QED BY <1>9, <6>1, <7>1
          <6>2. CASE k \in p + 1 .. p + m
            BY <1>9, <6>2
          <6> QED BY <5>1, <6>1, <6>2
        <5>3. k + 1 \in p + 1 .. p + m /\ k + 1 < q + m + 1
          BY <1>5, <3>1, <4>2, <5>2
        <5> QED BY <1>9, <5>2, <5>3
      <4> QED BY <4>1, <4>2
    <3>5. Plain(q + m + 1)'
      BY <1>2, <3>2, <3>3, <3>4, Zenon DEF Plain, At, Filling
    <3>6. ~Owning'
      BY <1>6, <2>1 DEF Owning
    <3> QED BY <3>1, <3>5, <3>6 DEF Ring
  <2>2. CASE b # 0
    <3>1. m + 1 \in 1 .. N /\ q + b + (m + 1) <= N /\ (q + b + (m + 1)) - 1 = p + m
          /\ q + b + (m + 1) = p + 1 + m /\ b > 0
      BY <1>5, <1>6, <2>2, <1>p
    <3>2. /\ frame' = frame /\ packet' = packet /\ dma' = dma /\ last' = last /\ slot' = slot
          /\ current' = current /\ idx' = Pos(dma, q + b)
      BY <1>2, <1>6, <1>7
    <3>3. \A k \in q .. (q + b) - 1 :
            frame[Pos(dma, k)] = packet /\ ~last[Pos(dma, k)] /\ slot[Pos(dma, k)] = None
      <4>1. \A k \in q .. (q + b) - 1 : k \in q .. p
        BY <1>5, <1>6
      <4> QED BY <1>9, <4>1
    <3>4. \A k \in p .. p + m :
             frame[Pos(dma, k)] = packet /\ (last[Pos(dma, k)] <=> k = p + m)
      <4> TAKE k \in p .. p + m
      <4>1. CASE k = p
        <5>1. p # p + m
          BY <1>5
        <5> QED BY <1>10, <4>1, <5>1
      <4>2. CASE k # p
        <5>1. k \in p + 1 .. p + m
          BY <1>5, <4>2
        <5> QED BY <1>9, <5>1
      <4> QED BY <4>1, <4>2
    <3>5. Filled(q, q + bd_count)'
      BY <1>6, <3>2, <3>3, Zenon DEF Filled, At
    <3>6. current = Pos(dma, q + b + (m + 1))
      BY <1>4, <1>5, <3>1
    <3>7. \A k \in 0 .. N - 1 :
             ready'[Pos(dma, k)] <=> k < q \/ k \in q + b .. (q + b + (m + 1)) - 1
      BY <1>6, <1>11, <3>1
    <3>8. \A k \in q + b .. (q + b + (m + 1)) - 1 :
             frame[Pos(dma, k)] = packet
             /\ (last[Pos(dma, k)] <=> k = (q + b + (m + 1)) - 1)
      BY <1>6, <3>1, <3>4
    <3>9. Split(q, m + 1)'
      BY <1>4, <1>6, <3>1, <3>2, <3>5, <3>6, <3>7, <3>8, Zenon DEF Split, At
    <3> QED BY <1>2, <1>6, <2>2, <3>1, <3>9 DEF Ring, Owning
  <2> QED BY <2>1, <2>2
<1>13. /\ q + (bd_count - 1) = p
       /\ \A k \in q + bd_count .. (q + bd_count + m) - 1 : frame[Pos(dma, k)] = packet
  <2>1. q + (bd_count - 1) = p
    BY DEF p, b
  <2> QED BY <1>4, <2>1, Zenon
<1>14. /\ p \in q .. N - 1 /\ q + bd_count + m <= N
       /\ Previous(idx) = Pos(dma, p) /\ Previous(idx) \in Bd
       /\ \A k \in 0 .. N - 1 : k # p => Pos(dma, k) # Previous(idx)
       /\ \A k \in 0 .. N - 1 :
            ready[Pos(dma, k)] <=> k < q \/ k \in q + bd_count .. (q + bd_count + m) - 1
       /\ \A k \in 0 .. q - 1 : frame[Pos(dma, k)] < packet
       /\ \A k \in q + bd_count .. (q + bd_count + m) - 1 : frame[Pos(dma, k)] = packet
       /\ frame[Previous(idx)] = packet /\ slot[Previous(idx)] = None
       /\ ~last[Previous(idx)] /\ ~ready[Previous(idx)]
  BY <1>4, <1>5, <1>7, <1>8, <1>10, <1>13, Zenon
<1> QED BY <1>12, <1>13, <1>14

\* It carries no slot and is not the last of a frame.
LEMMA ContentOwn ==
  ASSUME Types, Content, SendOwn
  PROVE  Content'
<1>t. bd_count \in Nat /\ ready \in [Bd -> BOOLEAN] /\ offered \in Nat
  BY EnetTransmitAssumption DEF Types
<1>p. /\ N \in Nat \ {0, 1} /\ dma \in Bd /\ \A k \in Int : Pos(dma, k) \in Bd
  BY Behind
<1>1. /\ Ring /\ Ordered /\ History /\ Slots /\ Returned /\ WholeFrames
  BY DEF Content
<1> DEFINE i0 == Previous(idx)
<1>2. /\ send_pc = "own" /\ send_pc' = "own" /\ bd_count > 0
      /\ ready' = [ready EXCEPT ![i0] = TRUE]
      /\ UNCHANGED <<frame, last, slot, packet, dma, inside, offered, accepted, wire, returns>>
  BY DEF SendOwn, info, enet, history
<1>3. PICK q \in 0 .. N, m \in 1 .. N :
        LET p == q + (bd_count - 1) IN
        /\ p \in q .. N - 1 /\ q + bd_count + m <= N
        /\ i0 = Pos(dma, p) /\ i0 \in Bd
        /\ \A k \in 0 .. N - 1 : k # p => Pos(dma, k) # i0
        /\ \A k \in 0 .. N - 1 :
             ready[Pos(dma, k)] <=> k < q \/ k \in q + bd_count .. (q + bd_count + m) - 1
        /\ \A k \in 0 .. q - 1 : frame[Pos(dma, k)] < packet
        /\ \A k \in q + bd_count .. (q + bd_count + m) - 1 : frame[Pos(dma, k)] = packet
        /\ frame[i0] = packet /\ slot[i0] = None
        /\ ~last[i0] /\ ~ready[i0]
  BY <1>1, OwnRing
<1> HIDE DEF i0
<1>4. Ring'
  BY <1>1, OwnRing
<1>5. packet = offered /\ packet \in 1 .. offered
  <2>1. packet = offered /\ offered # 0
    BY <1>1, <1>2 DEF History
  <2> QED BY <1>t, <2>1
<1>6. /\ ready'[i0]
      /\ \A i \in Bd : i # i0 => (ready'[i] <=> ready[i])
  BY <1>t, <1>2, <1>3
<1>7. Ordered'
  <2> DEFINE p == q + (bd_count - 1)
  <2>1. /\ p \in q .. N - 1 /\ i0 = Pos(dma, p)
        /\ \A k \in 0 .. N - 1 : k # p => Pos(dma, k) # i0
        /\ q + bd_count = p + 1 /\ (q + bd_count + m) - 1 = p + m /\ q \in Nat
    BY <1>t, <1>3
  <2> HIDE DEF p
  <2>2. /\ \A k \in 0 .. N - 1 : ready[Pos(dma, k)] <=> k < q \/ k \in p + 1 .. p + m
        /\ \A k \in p + 1 .. p + m : frame[Pos(dma, k)] = packet
    BY <1>3, <2>1
  <2>3. ASSUME NEW k \in 0 .. N - 1, k # p
        PROVE  ready'[Pos(dma, k)] <=> k < q \/ k \in p + 1 .. p + m
    <3>1. k \in Int
      BY <1>p
    <3> QED BY <1>p, <1>6, <2>1, <2>2, <2>3, <3>1
  <2>4. ASSUME NEW j \in 0 .. N - 1, NEW k \in 0 .. N - 1,
               j < k, ready'[Pos(dma, j)], ready'[Pos(dma, k)]
        PROVE  /\ frame[Pos(dma, j)] <= frame[Pos(dma, k)]
               /\ last[Pos(dma, j)] => frame[Pos(dma, j)] < frame[Pos(dma, k)]
    <3>1. CASE k = p
      <4>1. j < q /\ j \in 0 .. q - 1
        <5>1. j # p /\ j \notin p + 1 .. p + m
          BY <1>p, <2>1, <2>4, <3>1
        <5> QED BY <1>p, <2>1, <2>3, <2>4, <5>1
      <4>2. frame[Pos(dma, j)] < packet /\ frame[Pos(dma, k)] = packet
        BY <1>3, <2>1, <3>1, <4>1
      <4>3. frame[Pos(dma, j)] \in Int /\ packet \in Int
        <5>1. ready[Pos(dma, j)] /\ Pos(dma, j) \in Bd
          <6>1. j \in Int
            BY <1>p
          <6> QED BY <1>p, <2>2, <4>1, <6>1
        <5>2. frame[Pos(dma, j)] \in 1 .. offered
          BY <1>1, <5>1 DEF Slots
        <5> QED BY <1>t, <1>5, <5>2
      <4> QED BY <4>2, <4>3
    <3>2. CASE j = p
      <4>1. k # p /\ ~(k < q)
        BY <1>p, <2>1, <2>4, <3>2
      <4>2. k \in p + 1 .. p + m
        BY <2>3, <2>4, <4>1
      <4>3. frame[Pos(dma, k)] = packet /\ frame[Pos(dma, j)] = packet /\ ~last[Pos(dma, j)]
        BY <1>3, <2>1, <2>2, <3>2, <4>2
      <4> QED BY <1>t, <1>5, <4>3
    <3>3. CASE j # p /\ k # p
      <4>1. ready[Pos(dma, j)] /\ ready[Pos(dma, k)]
        BY <2>2, <2>3, <2>4, <3>3
      <4> QED BY <1>1, <2>4, <4>1 DEF Ordered, At
    <3> QED BY <3>1, <3>2, <3>3
  <2> QED BY <1>2, <2>4 DEF Ordered, At
<1>8. History'
  BY <1>1, <1>2 DEF History, Filling
<1>9. Slots'
  <2>1. ASSUME NEW i \in Bd, ready'[i]
        PROVE  frame[i] \in 1 .. offered /\ slot[i] = IF last[i] THEN frame[i] ELSE None
    <3>1. CASE i = i0
      BY <1>3, <1>5, <3>1
    <3>2. CASE i # i0
      BY <1>1, <1>6, <2>1, <3>2 DEF Slots
    <3> QED BY <3>1, <3>2
  <2>2. ASSUME NEW i \in Bd, slot[i] # None, ~ready'[i]
        PROVE  \E n \in 1 .. Len(wire) : wire[n] = slot[i]
    BY <1>1, <1>6, <2>2 DEF Slots
  <2>3. ASSUME NEW i \in Bd, ready'[i], last[i]
        PROVE  \E n \in Len(wire) + 1 .. Len(accepted) : accepted[n] = frame[i]
    BY <1>1, <1>3, <1>6, <2>3 DEF Slots
  <2>4. ASSUME NEW n \in Len(wire) + 1 .. Len(accepted)
        PROVE  \E i \in Bd : ready'[i] /\ last[i] /\ frame[i] = accepted[n]
    BY <1>1, <1>6, <2>4 DEF Slots
  <2>5. /\ frame' = frame /\ offered' = offered /\ wire' = wire /\ accepted' = accepted
        /\ slot' = slot /\ last' = last
    BY <1>2
  <2> QED BY <2>1, <2>2, <2>3, <2>4, <2>5, Zenon DEF Slots, Bd
<1>10. Returned'
  BY <1>1, <1>2 DEF Returned, Filling
<1>11. WholeFrames'
  BY <1>p, <1>1, <1>2, <1>3, <1>6 DEF WholeFrames
<1> QED BY <1>4, <1>7, <1>8, <1>9, <1>10, <1>11 DEF Content

-----------------------------------------------------------------------------
(* What the ring holds: the DMA's step and the release.                    *)

\* The DMA goes on to the next descriptor, the first of the ones behind it.
LEMMA DmaRing ==
  ASSUME Types, Ring, DmaSend
  PROVE  /\ Ring'
         /\ ~last[dma] => ready'[dma'] /\ frame[dma'] = frame[dma]
<1>t. bd_count \in Nat /\ ready \in [Bd -> BOOLEAN]
  BY EnetTransmitAssumption DEF Types
<1>p. /\ N \in Nat \ {0, 1} /\ dma \in Bd /\ \A k \in Int : Pos(dma, k) \in Bd
      /\ \A j, k \in 0 .. N - 1 : Pos(dma, j) = Pos(dma, k) => j = k
      /\ Pos(dma, 0) = dma /\ Pos(dma, N) = dma
      /\ \A k \in Int : Pos(After(dma), k) = Pos(dma, k + 1)
  BY Behind
<1>2. /\ ready[dma] /\ ready' = [ready EXCEPT ![dma] = FALSE] /\ dma' = After(dma)
      /\ UNCHANGED <<frame, last, slot, current, send_pc, packet, idx, bd_count>>
  BY DEF DmaSend, info, send
<1>3. /\ ~ready'[dma]
      /\ \A i \in Bd : i # dma => (ready'[i] <=> ready[i])
  BY <1>t, <1>p, <1>2
<1>4. 0 \in 0 .. N - 1 /\ After(dma) = Pos(dma, 1)
  <2>1. After(dma) \in Bd
    BY <1>p, NextIsBd
  <2>2. Pos(After(dma), 0) = After(dma) /\ 0 \in Int /\ 0 + 1 = 1 /\ 0 \in 0 .. N - 1
    BY <1>p, <2>1, PosZero
  <2> QED BY <1>p, <2>2
<1>5. ASSUME NEW k \in 0 .. N - 1
      PROVE  /\ Pos(After(dma), k) = Pos(dma, k + 1)
             /\ k + 1 < N => (ready'[Pos(dma, k + 1)] <=> ready[Pos(dma, k + 1)])
             /\ ~(k + 1 < N) => ~ready'[Pos(dma, k + 1)]
  <2>1. k \in Int /\ k + 1 \in Int
    BY <1>p
  <2>2. CASE k + 1 < N
    <3>1. k + 1 \in 0 .. N - 1 /\ k + 1 # 0
      BY <1>p, <2>2
    <3>2. Pos(dma, k + 1) \in Bd /\ Pos(dma, k + 1) # dma
      BY <1>p, <1>4, <2>1, <3>1
    <3> QED BY <1>p, <1>3, <2>1, <2>2, <3>2
  <2>3. CASE ~(k + 1 < N)
    <3>1. k + 1 = N
      BY <1>p, <2>3
    <3> QED BY <1>p, <1>3, <2>1, <2>3, <3>1
  <2> QED BY <2>2, <2>3
<1>6. CASE ~Owning
  <2>1. PICK q \in 0 .. N : Plain(q)
    BY <1>6 DEF Ring
  <2>2. /\ current = Pos(dma, q)
        /\ \A k \in 0 .. N - 1 : ready[Pos(dma, k)] <=> k < q
        /\ \A k \in 0 .. q - 1 : ~last[Pos(dma, k)] =>
              k + 1 < q /\ frame[Pos(dma, k + 1)] = frame[Pos(dma, k)]
    BY <2>1, Zenon DEF Plain, At
  <2>3. Filling => /\ idx = Pos(dma, q + bd_count) /\ q + bd_count <= N
                   /\ Filled(q, q + bd_count)
                   /\ \A k \in 0 .. q - 1 : frame[Pos(dma, k)] < packet
    BY <2>1, Zenon DEF Plain, At
  <2>4. send_pc = "mark" => q + bd_count < N /\ Filled(q, q + bd_count + 1)
    BY <2>1, Zenon DEF Plain
  <2>5. 0 < q
    BY <1>p, <1>2, <1>4, <2>2
  <2> DEFINE r == q - 1
  <2>6. /\ r \in 0 .. N - 1 /\ r \in 0 .. N /\ q = r + 1 /\ r \in Nat
        /\ \A k \in 0 .. r - 1 : k \in 0 .. N - 1 /\ k + 1 \in 0 .. q - 1
    BY <1>p, <2>5
  <2> HIDE DEF r
  <2>7. current = Pos(After(dma), r)
    BY <1>5, <2>2, <2>6
  <2>8. \A k \in 0 .. N - 1 : ready'[Pos(After(dma), k)] <=> k < r
    <3> TAKE k \in 0 .. N - 1
    <3>1. CASE k + 1 < N
      <4>1. k + 1 \in 0 .. N - 1 /\ (k + 1 < q <=> k < r)
        BY <1>p, <2>6, <3>1
      <4> QED BY <1>5, <2>2, <3>1, <4>1
    <3>2. CASE ~(k + 1 < N)
      <4>1. ~(k < r)
        BY <1>p, <2>6, <3>2
      <4> QED BY <1>5, <3>2, <4>1
    <3> QED BY <3>1, <3>2
  <2>9. \A k \in 0 .. r - 1 : ~last[Pos(After(dma), k)] =>
           k + 1 < r /\ frame[Pos(After(dma), k + 1)] = frame[Pos(After(dma), k)]
    <3> SUFFICES ASSUME NEW k \in 0 .. r - 1, ~last[Pos(After(dma), k)]
                 PROVE  k + 1 < r /\ frame[Pos(After(dma), k + 1)] = frame[Pos(After(dma), k)]
      OBVIOUS
    <3>1. Pos(After(dma), k) = Pos(dma, k + 1)
      BY <1>5, <2>6
    <3>2. (k + 1) + 1 < q /\ frame[Pos(dma, (k + 1) + 1)] = frame[Pos(dma, k + 1)]
      BY <2>2, <2>6, <3>1
    <3>3. k + 1 < r /\ k + 1 \in 0 .. N - 1
      BY <2>6, <3>2
    <3>4. Pos(After(dma), k + 1) = Pos(dma, (k + 1) + 1)
      BY <1>5, <3>3
    <3> QED BY <3>1, <3>2, <3>3, <3>4
  <2>10. ASSUME NEW c \in Nat, q + c <= N, Filled(q, q + c)
         PROVE  \A k \in r .. (r + c) - 1 :
                  /\ frame[Pos(After(dma), k)] = packet /\ ~last[Pos(After(dma), k)]
                  /\ slot[Pos(After(dma), k)] = None
    <3> TAKE k \in r .. (r + c) - 1
    <3>1. k \in 0 .. N - 1 /\ k + 1 \in q .. (q + c) - 1
      BY <1>p, <2>6, <2>10
    <3>2. /\ frame[Pos(dma, k + 1)] = packet /\ ~last[Pos(dma, k + 1)]
          /\ slot[Pos(dma, k + 1)] = None
      BY <2>10, <3>1, Zenon DEF Filled, At
    <3> QED BY <1>5, <3>1, <3>2
  <2>11. /\ frame' = frame /\ packet' = packet /\ dma' = After(dma) /\ last' = last
         /\ slot' = slot /\ bd_count' = bd_count /\ idx' = idx /\ current' = current
         /\ send_pc' = send_pc
    BY <1>2
  <2>12. ASSUME Filling
         PROVE  /\ idx = Pos(After(dma), r + bd_count) /\ r + bd_count <= N
                /\ Filled(r, r + bd_count)'
                /\ \A k \in 0 .. r - 1 : frame[Pos(After(dma), k)] < packet
    <3>1. r + bd_count \in 0 .. N - 1 /\ (r + bd_count) + 1 = q + bd_count /\ r + bd_count <= N
      BY <1>t, <1>p, <2>3, <2>6, <2>12
    <3>2. idx = Pos(After(dma), r + bd_count)
      BY <1>5, <2>3, <2>12, <3>1
    <3>3. Filled(r, r + bd_count)'
      <4>1. \A k \in r .. (r + bd_count) - 1 :
              /\ frame[Pos(After(dma), k)] = packet /\ ~last[Pos(After(dma), k)]
              /\ slot[Pos(After(dma), k)] = None
        BY <1>t, <2>3, <2>10, <2>12
      <4> QED BY <2>11, <4>1, Zenon DEF Filled, At
    <3>4. \A k \in 0 .. r - 1 : frame[Pos(After(dma), k)] < packet
      BY <1>5, <2>3, <2>6, <2>12
    <3> QED BY <3>1, <3>2, <3>3, <3>4
  <2>13. ASSUME send_pc = "mark"
         PROVE  r + bd_count < N /\ Filled(r, r + bd_count + 1)'
    <3>1. r + bd_count < N /\ q + (bd_count + 1) <= N /\ bd_count + 1 \in Nat
          /\ q + (bd_count + 1) = q + bd_count + 1 /\ r + (bd_count + 1) = r + bd_count + 1
      BY <1>t, <1>p, <2>4, <2>6, <2>13
    <3>2. \A k \in r .. (r + (bd_count + 1)) - 1 :
            /\ frame[Pos(After(dma), k)] = packet /\ ~last[Pos(After(dma), k)]
            /\ slot[Pos(After(dma), k)] = None
      <4>1. Filled(q, q + (bd_count + 1))
        BY <2>4, <2>13, <3>1
      <4> QED BY <2>10, <3>1, <4>1
    <3>3. Filled(r, r + bd_count + 1)'
      BY <2>11, <3>1, <3>2, Zenon DEF Filled, At
    <3> QED BY <3>1, <3>3
  <2>14. Plain(r)'
    <3>1. Filling' <=> Filling
      BY <2>11 DEF Filling
    <3> QED BY <2>7, <2>8, <2>9, <2>11, <2>12, <2>13, <3>1, Zenon DEF Plain, At
  <2>15. ~last[dma] => ready'[dma'] /\ frame[dma'] = frame[dma]
    <3> SUFFICES ASSUME ~last[dma] PROVE ready'[dma'] /\ frame[dma'] = frame[dma]
      OBVIOUS
    <3>1. 0 \in 0 .. q - 1 /\ ~last[Pos(dma, 0)] /\ 0 + 1 = 1
      BY <1>p, <2>5
    <3>2. 1 < q /\ frame[Pos(dma, 1)] = frame[dma]
      BY <1>p, <2>2, <3>1
    <3>3. 1 \in 0 .. N - 1 /\ 0 + 1 < N /\ ready[Pos(dma, 1)]
      BY <1>p, <2>2, <3>2
    <3>4. ready'[Pos(dma, 1)]
      BY <1>4, <1>5, <3>1, <3>3
    <3> QED BY <1>2, <1>4, <3>2, <3>4
  <2>16. ~Owning'
    BY <1>6, <2>11 DEF Owning
  <2> QED BY <2>6, <2>14, <2>15, <2>16 DEF Ring
<1>7. CASE Owning
  <2>1. PICK q \in 0 .. N, m \in 1 .. N : Split(q, m)
    BY <1>7 DEF Ring
  <2>2. /\ q + bd_count + m <= N
        /\ idx = Pos(dma, q + bd_count) /\ current = Pos(dma, q + bd_count + m)
        /\ \A k \in 0 .. N - 1 :
             ready[Pos(dma, k)] <=> k < q \/ k \in q + bd_count .. (q + bd_count + m) - 1
        /\ \A k \in 0 .. q - 1 : ~last[Pos(dma, k)] =>
              k + 1 < q /\ frame[Pos(dma, k + 1)] = frame[Pos(dma, k)]
        /\ \A k \in q .. (q + bd_count) - 1 :
              frame[Pos(dma, k)] = packet /\ ~last[Pos(dma, k)] /\ slot[Pos(dma, k)] = None
        /\ \A k \in 0 .. q - 1 : frame[Pos(dma, k)] < packet
        /\ \A k \in q + bd_count .. (q + bd_count + m) - 1 :
             frame[Pos(dma, k)] = packet
             /\ (last[Pos(dma, k)] <=> k = (q + bd_count + m) - 1)
    BY <2>1, Zenon DEF Split, At, Filled
  <2>3. bd_count > 0 /\ q \in Nat /\ m \in Nat
    BY <1>7 DEF Owning
  <2>4. 0 < q
    <3>1. 0 < q \/ 0 \in q + bd_count .. (q + bd_count + m) - 1
      BY <1>p, <1>2, <1>4, <2>2
    <3> QED BY <1>t, <2>3, <3>1
  <2> DEFINE r == q - 1
             e == r + bd_count
             f == r + bd_count + m
  <2>5. /\ r \in 0 .. N - 1 /\ r \in 0 .. N /\ q = r + 1 /\ r \in Nat
        /\ \A k \in 0 .. r - 1 : k \in 0 .. N - 1 /\ k + 1 \in 0 .. q - 1
        /\ e \in 0 .. N - 1 /\ f \in 0 .. N - 1 /\ q + bd_count = e + 1 /\ f <= N
        /\ q + bd_count + m = f + 1 /\ (q + bd_count) - 1 = e /\ (q + bd_count + m) - 1 = f
        /\ r < e /\ e < f + 1
    BY <1>t, <1>p, <2>2, <2>3, <2>4
  <2>6. e = r + bd_count /\ f = r + bd_count + m
    OBVIOUS
  <2> HIDE DEF r, e, f
  <2>7. idx = Pos(After(dma), e) /\ current = Pos(After(dma), f)
    BY <1>5, <2>2, <2>5
  <2>8. \A k \in 0 .. N - 1 : ready'[Pos(After(dma), k)] <=> k < r \/ k \in e .. f - 1
    <3> TAKE k \in 0 .. N - 1
    <3>1. CASE k + 1 < N
      <4>1. k + 1 \in 0 .. N - 1
            /\ (k + 1 < q \/ k + 1 \in e + 1 .. f <=> k < r \/ k \in e .. f - 1)
        BY <1>p, <2>5, <3>1
      <4>2. ready[Pos(dma, k + 1)] <=> k + 1 < q \/ k + 1 \in e + 1 .. f
        BY <2>2, <2>5, <4>1
      <4> QED BY <1>5, <3>1, <4>1, <4>2
    <3>2. CASE ~(k + 1 < N)
      <4>1. ~(k < r) /\ k \notin e .. f - 1
        BY <1>p, <2>5, <3>2
      <4> QED BY <1>5, <3>2, <4>1
    <3> QED BY <3>1, <3>2
  <2>9. \A k \in 0 .. r - 1 : ~last[Pos(After(dma), k)] =>
           k + 1 < r /\ frame[Pos(After(dma), k + 1)] = frame[Pos(After(dma), k)]
    <3> SUFFICES ASSUME NEW k \in 0 .. r - 1, ~last[Pos(After(dma), k)]
                 PROVE  k + 1 < r /\ frame[Pos(After(dma), k + 1)] = frame[Pos(After(dma), k)]
      OBVIOUS
    <3>1. Pos(After(dma), k) = Pos(dma, k + 1)
      BY <1>5, <2>5
    <3>2. (k + 1) + 1 < q /\ frame[Pos(dma, (k + 1) + 1)] = frame[Pos(dma, k + 1)]
      BY <2>2, <2>5, <3>1
    <3>3. k + 1 < r /\ k + 1 \in 0 .. N - 1
      BY <2>5, <3>2
    <3>4. Pos(After(dma), k + 1) = Pos(dma, (k + 1) + 1)
      BY <1>5, <3>3
    <3> QED BY <3>1, <3>2, <3>3, <3>4
  <2>10. \A k \in r .. e - 1 :
            /\ frame[Pos(After(dma), k)] = packet /\ ~last[Pos(After(dma), k)]
            /\ slot[Pos(After(dma), k)] = None
    <3> TAKE k \in r .. e - 1
    <3>1. k \in 0 .. N - 1 /\ k + 1 \in q .. e
      BY <1>p, <2>5
    <3> QED BY <1>5, <2>2, <2>5, <3>1
  <2>11. \A k \in 0 .. r - 1 : frame[Pos(After(dma), k)] < packet
    BY <1>5, <2>2, <2>5
  <2>12. \A k \in e .. f - 1 :
            frame[Pos(After(dma), k)] = packet /\ (last[Pos(After(dma), k)] <=> k = f - 1)
    <3> TAKE k \in e .. f - 1
    <3>1. k \in 0 .. N - 1 /\ k + 1 \in e + 1 .. f /\ (k + 1 = f <=> k = f - 1)
      BY <1>p, <2>5
    <3> QED BY <1>5, <2>2, <2>5, <3>1
  <2>13. /\ frame' = frame /\ packet' = packet /\ dma' = After(dma) /\ last' = last
         /\ slot' = slot /\ bd_count' = bd_count /\ idx' = idx /\ current' = current
         /\ send_pc' = send_pc
    BY <1>2
  <2>14. Filled(r, r + bd_count)'
    BY <2>6, <2>10, <2>13, Zenon DEF Filled, At
  <2>15. Split(r, m)'
    BY <2>5, <2>6, <2>7, <2>8, <2>9, <2>11, <2>12, <2>13, <2>14, Zenon DEF Split, At
  <2>16. ~last[dma] => ready'[dma'] /\ frame[dma'] = frame[dma]
    <3> SUFFICES ASSUME ~last[dma] PROVE ready'[dma'] /\ frame[dma'] = frame[dma]
      OBVIOUS
    <3>1. 0 \in 0 .. q - 1 /\ ~last[Pos(dma, 0)] /\ 0 + 1 = 1
      BY <1>p, <2>4
    <3>2. 1 < q /\ frame[Pos(dma, 1)] = frame[dma]
      BY <1>p, <2>2, <3>1
    <3>3. 1 \in 0 .. N - 1 /\ 0 + 1 < N /\ ready[Pos(dma, 1)]
      BY <1>p, <2>2, <3>2
    <3>4. ready'[Pos(dma, 1)]
      BY <1>4, <1>5, <3>1, <3>3
    <3> QED BY <1>2, <1>4, <3>2, <3>4
  <2>17. Owning'
    BY <1>7, <2>13 DEF Owning
  <2> QED BY <2>5, <2>15, <2>16, <2>17 DEF Ring
<1> QED BY <1>6, <1>7

\* Among the packets in the ring, the one whose last descriptor comes first is
\* the next of the accepted ones.
LEMMA NextOnWire ==
  ASSUME Types, Ordered, History, Slots, ready[dma], last[dma]
  PROVE  /\ Len(wire) + 1 \in 1 .. Len(accepted)
         /\ frame[dma] = accepted[Len(wire) + 1] /\ frame[dma] \in Packets
         /\ \A i \in Bd : i # dma /\ ready[i] => frame[dma] < frame[i]
<1>t. /\ MaxPackets \in Nat /\ offered \in 0 .. MaxPackets
      /\ accepted \in Seq(Packets) /\ Len(accepted) \in Nat /\ Len(wire) \in Nat
  BY EnetTransmitAssumption DEF Types
<1>p. /\ N \in Nat \ {0, 1} /\ dma \in Bd /\ Pos(dma, 0) = dma
      /\ \A i \in Bd : \E k \in 0 .. N - 1 : i = Pos(dma, k)
  BY Behind
<1>1. ASSUME NEW i \in Bd, i # dma, ready[i] PROVE frame[dma] < frame[i]
  <2>1. PICK k \in 0 .. N - 1 : i = Pos(dma, k)
    BY <1>p
  <2>2. 0 \in 0 .. N - 1 /\ 0 < k
    BY <1>p, <1>1, <2>1
  <2> QED BY <1>p, <1>1, <2>1, <2>2 DEF Ordered, At
<1>2. PICK n \in Len(wire) + 1 .. Len(accepted) : accepted[n] = frame[dma]
  BY <1>p DEF Slots
<1>3. /\ Len(wire) + 1 \in 1 .. Len(accepted) /\ n \in 1 .. Len(accepted)
      /\ Len(wire) + 1 \in Len(wire) + 1 .. Len(accepted)
  BY <1>t
<1>4. PICK i \in Bd : ready[i] /\ last[i] /\ frame[i] = accepted[Len(wire) + 1]
  BY <1>3 DEF Slots
<1>5. i = dma
  <2> SUFFICES ASSUME i # dma PROVE FALSE
    OBVIOUS
  <2>1. accepted[n] < accepted[Len(wire) + 1]
    BY <1>1, <1>2, <1>4
  <2>2. accepted[n] \in Int /\ accepted[Len(wire) + 1] \in Int
    BY <1>t, <1>3 DEF Packets
  <2>3. Len(wire) + 1 < n => accepted[Len(wire) + 1] < accepted[n]
    BY <1>3 DEF History
  <2>4. CASE Len(wire) + 1 = n
    BY <2>1, <2>2, <2>4
  <2>5. CASE Len(wire) + 1 # n
    <3>1. Len(wire) + 1 < n
      BY <1>t, <2>5
    <3> QED BY <2>1, <2>2, <2>3, <3>1
  <2> QED BY <2>4, <2>5
<1>6. frame[dma] \in Packets
  <2>1. frame[dma] \in 1 .. offered
    BY <1>p DEF Slots
  <2> QED BY <1>t, <2>1 DEF Packets
<1> QED BY <1>1, <1>3, <1>4, <1>5, <1>6

\* The DMA takes the first of the ready descriptors.
LEMMA ContentDma ==
  ASSUME Types, Content, DmaSend
  PROVE  Content'
<1>t. /\ ready \in [Bd -> BOOLEAN] /\ offered \in Nat
      /\ accepted \in Seq(Packets) /\ Len(accepted) \in Nat
      /\ wire \in Seq(Packets) /\ Len(wire) \in Nat
  BY EnetTransmitAssumption DEF Types
<1>p. /\ N \in Nat \ {0, 1} /\ dma \in Bd /\ \A k \in Int : Pos(dma, k) \in Bd
      /\ Pos(dma, 0) = dma /\ Pos(dma, N) = dma
      /\ \A j, k \in 0 .. N - 1 : Pos(dma, j) = Pos(dma, k) => j = k
      /\ \A k \in Int : Pos(After(dma), k) = Pos(dma, k + 1)
  BY Behind
<1>1. /\ Ring /\ Ordered /\ History /\ Slots /\ Returned /\ WholeFrames
  BY DEF Content
<1>2. /\ ready[dma] /\ ready' = [ready EXCEPT ![dma] = FALSE] /\ dma' = After(dma)
      /\ UNCHANGED <<frame, last, slot, send_pc, packet, offered, accepted, returns>>
      /\ last[dma] => inside' = None /\ wire' = Append(wire, frame[dma])
      /\ ~last[dma] => inside' = frame[dma] /\ wire' = wire
  BY DEF DmaSend, info, send
<1>3. /\ ~ready'[dma]
      /\ \A i \in Bd : i # dma => (ready'[i] <=> ready[i])
  BY <1>t, <1>p, <1>2
<1>4. Ring' /\ (~last[dma] => ready'[dma'] /\ frame[dma'] = frame[dma])
  BY <1>1, DmaRing
<1>5. Ordered'
  <2>1. ASSUME NEW k \in 0 .. N - 1, ready'[Pos(After(dma), k)]
        PROVE  /\ k + 1 \in 0 .. N - 1 /\ Pos(After(dma), k) = Pos(dma, k + 1)
               /\ ready[Pos(dma, k + 1)]
    <3>1. k \in Int /\ k + 1 \in Int
      BY <1>p
    <3>2. Pos(After(dma), k) = Pos(dma, k + 1) /\ Pos(dma, k + 1) \in Bd
      BY <1>p, <3>1
    <3>3. k + 1 # N
      BY <1>3, <1>p, <2>1, <3>2
    <3>4. Pos(dma, k + 1) # dma
      BY <1>3, <2>1, <3>2
    <3>5. k + 1 \in 0 .. N - 1
      BY <1>p, <3>3
    <3> QED BY <1>3, <2>1, <3>2, <3>4, <3>5
  <2>2. ASSUME NEW j \in 0 .. N - 1, NEW k \in 0 .. N - 1, j < k,
               ready'[Pos(After(dma), j)], ready'[Pos(After(dma), k)]
        PROVE  LET a == Pos(After(dma), j)
                   b == Pos(After(dma), k)
               IN  frame[a] <= frame[b] /\ (last[a] => frame[a] < frame[b])
    <3>1. j + 1 < k + 1
      BY <1>p, <2>2
    <3> QED BY <1>1, <2>1, <2>2, <3>1 DEF Ordered, At
  <2>3. frame' = frame /\ last' = last /\ dma' = After(dma)
    BY <1>2
  <2> QED BY <2>2, <2>3, Zenon DEF Ordered, At
<1>6. CASE ~last[dma]
  <2>1. UNCHANGED <<frame, last, slot, send_pc, packet, offered, accepted, wire, returns>>
        /\ inside' = frame[dma]
    BY <1>2, <1>6
  <2>2. History'
    BY <1>1, <2>1 DEF History, Filling
  <2>3. Slots'
    <3>1. ASSUME NEW i \in Bd, ready'[i]
          PROVE  frame[i] \in 1 .. offered /\ slot[i] = IF last[i] THEN frame[i] ELSE None
      BY <1>1, <1>3, <3>1 DEF Slots
    <3>2. ASSUME NEW i \in Bd, slot[i] # None, ~ready'[i]
          PROVE  \E n \in 1 .. Len(wire) : wire[n] = slot[i]
      <4>1. slot[dma] = None
        BY <1>1, <1>2, <1>6, <1>p DEF Slots
      <4> QED BY <1>1, <1>3, <3>2, <4>1 DEF Slots
    <3>3. ASSUME NEW i \in Bd, ready'[i], last[i]
          PROVE  \E n \in Len(wire) + 1 .. Len(accepted) : accepted[n] = frame[i]
      BY <1>1, <1>3, <3>3 DEF Slots
    <3>4. ASSUME NEW n \in Len(wire) + 1 .. Len(accepted)
          PROVE  \E i \in Bd : ready'[i] /\ last[i] /\ frame[i] = accepted[n]
      BY <1>1, <1>3, <1>6, <3>4 DEF Slots
    <3> QED BY <2>1, <3>1, <3>2, <3>3, <3>4, Zenon DEF Slots, Bd
  <2>4. Returned'
    BY <1>1, <2>1 DEF Returned, Filling
  <2>5. WholeFrames'
    BY <1>4, <1>6, <2>1 DEF WholeFrames
  <2> QED BY <1>4, <1>5, <2>2, <2>3, <2>4, <2>5 DEF Content
<1>7. CASE last[dma]
  <2>1. /\ UNCHANGED <<frame, last, slot, send_pc, packet, offered, accepted, returns>>
        /\ wire' = Append(wire, frame[dma]) /\ inside' = None
    BY <1>2, <1>7
  <2>2. /\ Len(wire) + 1 \in 1 .. Len(accepted)
        /\ frame[dma] = accepted[Len(wire) + 1] /\ frame[dma] \in Packets
        /\ \A i \in Bd : i # dma /\ ready[i] => frame[dma] < frame[i]
    BY <1>1, <1>2, <1>7, NextOnWire
  <2>3. /\ Len(wire') = Len(wire) + 1 /\ wire'[Len(wire) + 1] = frame[dma]
        /\ \A n \in 1 .. Len(wire) : wire'[n] = wire[n]
    BY <1>t, <2>1, <2>2, AppendPacket
  <2>4. History'
    <3>1. Len(wire') <= Len(accepted)
      BY <1>t, <2>2, <2>3
    <3>2. \A n \in 1 .. Len(wire') : wire'[n] = accepted[n]
      <4> SUFFICES ASSUME NEW n \in 1 .. Len(wire) + 1 PROVE wire'[n] = accepted[n]
        BY <2>3
      <4>1. CASE n = Len(wire) + 1
        BY <2>2, <2>3, <4>1
      <4>2. CASE n # Len(wire) + 1
        <5>1. n \in 1 .. Len(wire)
          BY <1>t, <4>2
        <5> QED BY <1>1, <2>3, <5>1 DEF History
      <4> QED BY <4>1, <4>2
    <3> QED BY <1>1, <2>1, <3>1, <3>2 DEF History, Filling
  <2>5. Slots'
    <3>1. ASSUME NEW i \in Bd, ready'[i]
          PROVE  frame[i] \in 1 .. offered /\ slot[i] = IF last[i] THEN frame[i] ELSE None
      BY <1>1, <1>3, <3>1 DEF Slots
    <3>2. ASSUME NEW i \in Bd, slot[i] # None, ~ready'[i]
          PROVE  \E n \in 1 .. Len(wire) + 1 : wire'[n] = slot[i]
      <4>1. CASE i = dma
        <5>1. slot[dma] = frame[dma]
          BY <1>1, <1>2, <1>7, <1>p DEF Slots
        <5>2. Len(wire) + 1 \in 1 .. Len(wire) + 1
          BY <1>t
        <5> QED BY <2>3, <4>1, <5>1, <5>2
      <4>2. CASE i # dma
        <5>1. PICK n \in 1 .. Len(wire) : wire[n] = slot[i]
          BY <1>1, <1>3, <3>2, <4>2 DEF Slots
        <5>2. n \in 1 .. Len(wire) + 1
          BY <1>t
        <5> QED BY <2>3, <5>1, <5>2
      <4> QED BY <4>1, <4>2
    <3>3. ASSUME NEW i \in Bd, ready'[i], last[i]
          PROVE  \E n \in (Len(wire) + 1) + 1 .. Len(accepted) : accepted[n] = frame[i]
      <4>1. i # dma /\ ready[i]
        BY <1>3, <3>3
      <4>2. PICK n \in Len(wire) + 1 .. Len(accepted) : accepted[n] = frame[i]
        BY <1>1, <3>3, <4>1 DEF Slots
      <4>3. frame[dma] < frame[i] /\ frame[dma] \in Int
        BY <2>2, <4>1 DEF Packets
      <4>4. n # Len(wire) + 1
        BY <2>2, <4>2, <4>3
      <4>5. n \in (Len(wire) + 1) + 1 .. Len(accepted)
        BY <1>t, <4>4
      <4> QED BY <4>2, <4>5
    <3>4. ASSUME NEW n \in (Len(wire) + 1) + 1 .. Len(accepted)
          PROVE  \E i \in Bd : ready'[i] /\ last[i] /\ frame[i] = accepted[n]
      <4>1. n \in Len(wire) + 1 .. Len(accepted) /\ n \in 1 .. Len(accepted)
            /\ Len(wire) + 1 < n
        BY <1>t
      <4>2. PICK i \in Bd : ready[i] /\ last[i] /\ frame[i] = accepted[n]
        BY <1>1, <4>1 DEF Slots
      <4>3. accepted[Len(wire) + 1] < accepted[n]
        BY <1>1, <2>2, <4>1 DEF History
      <4>4. i # dma
        BY <2>2, <4>2, <4>3 DEF Packets
      <4> QED BY <1>3, <4>2, <4>4
    <3>5. /\ frame' = frame /\ offered' = offered /\ accepted' = accepted
          /\ slot' = slot /\ last' = last /\ Len(wire') = Len(wire) + 1
      BY <2>1, <2>3
    <3> QED BY <3>1, <3>2, <3>3, <3>4, <3>5, Zenon DEF Slots, Bd
  <2>6. Returned'
    BY <1>1, <2>1 DEF Returned, Filling
  <2>7. WholeFrames'
    BY <2>1 DEF WholeFrames
  <2> QED BY <1>4, <1>5, <2>4, <2>5, <2>6, <2>7 DEF Content
<1> QED BY <1>6, <1>7

\* What is released is not in the ring, and is given back for the first time.
LEMMA ContentRelease ==
  ASSUME Types, Walk, Content, ScanRelease
  PROVE  Content'
<1>t. /\ slot \in [Bd -> Packets \union {None}] /\ scan_idx \in Bd
      /\ MaxPackets \in Nat /\ offered \in 0 .. MaxPackets
      /\ accepted \in Seq(Packets) /\ Len(accepted) \in Nat
  BY EnetTransmitAssumption DEF Types
<1>1. /\ Ring /\ Ordered /\ History /\ Slots /\ Returned /\ WholeFrames
  BY DEF Content
<1>2. /\ slot[scan_idx] # None /\ ~ready[scan_idx] /\ GiveBack(slot[scan_idx])
      /\ slot' = [slot EXCEPT ![scan_idx] = None]
      /\ UNCHANGED <<ready, last, frame, current, send_pc, packet, idx, bd_count, dma,
                     inside, offered, accepted, wire>>
  BY DEF ScanRelease, ring, send, enet
<1>3. send_pc = "idle"
  BY DEF ScanRelease, Walk
<1>4. /\ slot'[scan_idx] = None
      /\ \A i \in Bd : i # scan_idx => slot'[i] = slot[i]
  BY <1>t, <1>2
<1>5. slot[scan_idx] \in Packets
  BY <1>t, <1>2
<1>6. \A r \in Packets : r # slot[scan_idx] => returns'[r] = returns[r]
  BY <1>2, <1>5, GiveBackOne
<1>7. Ring'
  BY <1>1, <1>2, <1>3 DEF Ring, Plain, Split, Filled, At, Filling, Owning
<1>8. Ordered'
  BY <1>1, <1>2 DEF Ordered, At
<1>9. History'
  BY <1>1, <1>2 DEF History, Filling
<1>10. Slots'
  <2>1. ASSUME NEW i \in Bd, ready[i]
        PROVE  frame[i] \in 1 .. offered /\ slot'[i] = IF last[i] THEN frame[i] ELSE None
    BY <1>1, <1>2, <1>4, <2>1 DEF Slots
  <2>2. ASSUME NEW i \in Bd, slot'[i] # None, ~ready[i]
        PROVE  \E n \in 1 .. Len(wire) : wire[n] = slot'[i]
    BY <1>1, <1>4, <2>2 DEF Slots
  <2>3. /\ \A i \in Bd : ready[i] /\ last[i] =>
             \E n \in Len(wire) + 1 .. Len(accepted) : accepted[n] = frame[i]
        /\ \A n \in Len(wire) + 1 .. Len(accepted) :
             \E i \in Bd : ready[i] /\ last[i] /\ frame[i] = accepted[n]
    BY <1>1 DEF Slots
  <2>4. /\ frame' = frame /\ offered' = offered /\ wire' = wire /\ accepted' = accepted
        /\ ready' = ready /\ last' = last
    BY <1>2
  <2> QED BY <2>1, <2>2, <2>3, <2>4, Zenon DEF Slots, Bd
<1>11. Returned'
  <2>1. ASSUME NEW p \in Packets, p > offered PROVE returns'[p] = 0
    <3>1. PICK n \in 1 .. Len(accepted) : accepted[n] = slot[scan_idx]
      BY <1>1, <1>2, <1>t, InRing
    <3>2. slot[scan_idx] <= offered
      BY <1>1, <3>1 DEF History
    <3>3. p # slot[scan_idx]
      BY <1>t, <1>5, <2>1, <3>2 DEF Packets
    <3> QED BY <1>1, <1>6, <2>1, <3>3 DEF Returned
  <2>2. ASSUME NEW i \in Bd, slot'[i] # None PROVE returns'[slot'[i]] = 0
    <3>1. i # scan_idx /\ slot'[i] = slot[i] /\ slot[i] \in Packets
      BY <1>t, <1>4, <2>2
    <3>2. slot[i] # slot[scan_idx]
      BY <1>1, <1>2, <1>t, <3>1 DEF Returned
    <3> QED BY <1>1, <1>6, <2>2, <3>1, <3>2 DEF Returned
  <2>3. ASSUME NEW i \in Bd, NEW j \in Bd, slot'[i] # None, slot'[i] = slot'[j]
        PROVE  i = j
    BY <1>1, <1>4, <2>3 DEF Returned
  <2>4. ~Filling'
    BY <1>2, <1>3 DEF Filling
  <2>5. offered' = offered
    BY <1>2
  <2> QED BY <2>1, <2>2, <2>3, <2>4, <2>5, Zenon DEF Returned, Bd, Packets
<1>12. WholeFrames'
  BY <1>1, <1>2 DEF WholeFrames
<1> QED BY <1>7, <1>8, <1>9, <1>10, <1>11, <1>12 DEF Content

-----------------------------------------------------------------------------
(* The theorems.                                                           *)

\* The invariant holds initially.
LEMMA InvInit ==
  Init => Inv
<1> SUFFICES ASSUME Init PROVE Inv
  OBVIOUS
<1>0. /\ N \in Nat \ {0, 1} /\ 0 \in Bd /\ Pos(0, 0) = 0
      /\ \A k \in Int : Pos(0, k) \in Bd
  <2>1. N \in Nat \ {0, 1} /\ 0 \in Bd
    BY EnetTransmitAssumption DEF Bd
  <2> QED BY <2>1, PosZero, PosType
<1>1. /\ current = 0 /\ release = 0 /\ in_use = 0 /\ send_pc = "idle" /\ scan_pc = "idle"
      /\ dma = 0 /\ inside = None /\ offered = 0 /\ accepted = <<>> /\ wire = <<>>
      /\ \A i \in Bd : ready[i] = FALSE /\ slot[i] = None
      /\ \A p \in Packets : returns[p] = 0
  BY DEF Init
<1>2. Types /\ Flags
  BY TypesInit
<1>3. Walk
  BY <1>0, <1>1 DEF Walk, Filling
<1>4. Len(accepted) = 0 /\ Len(wire) = 0
  BY <1>1
<1>5. \A k \in 0 .. N - 1 : ~ready[Pos(dma, k)]
  <2> TAKE k \in 0 .. N - 1
  <2>1. k \in Int
    BY <1>0
  <2> QED BY <1>0, <1>1, <2>1
<1>6. Ring
  <2>1. 0 \in 0 .. N /\ (\A k \in 0 .. N - 1 : ~(k < 0)) /\ (\A k : k \notin 0 .. 0 - 1)
    BY <1>0
  <2>2. Plain(0)
    BY <1>0, <1>1, <1>5, <2>1 DEF Plain, At, Filling
  <2> QED BY <1>1, <2>1, <2>2 DEF Ring, Owning
<1>7. Ordered
  BY <1>5 DEF Ordered, At
<1>8. History
  BY <1>1, <1>4 DEF History, Filling
<1>9. Slots
  BY <1>1, <1>4 DEF Slots
<1>10. Returned
  BY <1>1 DEF Returned, Filling
<1>11. WholeFrames
  BY <1>1 DEF WholeFrames
<1> QED BY <1>2, <1>3, <1>6, <1>7, <1>8, <1>9, <1>10, <1>11 DEF Inv, Content

\* Every step keeps what the ring holds.
LEMMA ContentStep ==
  ASSUME Types, Walk, Content, [Next]_vars
  PROVE  Content'
<1>1. CASE UNCHANGED core
  BY <1>1, CoreKept
<1>2. CASE LinkEnable \/ DmaStop \/ Isr \/ IpWake
  <2>1. UNCHANGED core
    BY <1>2 DEF LinkEnable, DmaStop, Isr, IsrTransmit, IsrClear, IpWake, core,
               ring, info, send, enet, history
  <2> QED BY <1>1, <2>1
<1>3. CASE DeferredPickup \/ ScanSkip \/ ScanEnd
  <2>1. UNCHANGED core
    BY <1>3 DEF DeferredPickup, ScanSkip, ScanEnd, core, ring, info, send, enet, history
  <2> QED BY <1>1, <2>1
<1>4. CASE UNCHANGED vars
  <2>1. UNCHANGED core
    BY <1>4 DEF vars, core, ring, info, send, enet, history
  <2> QED BY <1>1, <2>1
<1>5. CASE SendRefused \/ SendStart \/ Send
  BY <1>5, ContentRefused, ContentStart, ContentFill, ContentMark, ContentOwn, ContentKick
     DEF Send
<1>6. CASE DmaSend
  BY <1>6, ContentDma
<1>7. CASE ScanRelease
  BY <1>7, ContentRelease
<1> QED BY <1>2, <1>3, <1>4, <1>5, <1>6, <1>7 DEF Next, Dma, Deferred

\* Every step keeps the invariant.
LEMMA InvStep ==
  Inv /\ [Next]_vars => Inv'
<1> SUFFICES ASSUME Inv, [Next]_vars PROVE Inv'
  OBVIOUS
<1>1. Types /\ Flags /\ Walk /\ Content /\ History /\ Slots
  BY DEF Inv, Content
<1>2. Content'
  BY <1>1, ContentStep
<1>3. CASE UNCHANGED vars
  <2>1. Types'
    BY <1>1, <1>3 DEF Types, vars, ring, info, send, enet, scan, history
  <2>2. Flags'
    BY <1>1, <1>3, Zenon DEF Flags, vars, enet, events
  <2>3. Walk'
    BY <1>1, <1>3, WalkKept DEF vars
  <2> QED BY <1>2, <2>1, <2>2, <2>3 DEF Inv
<1>4. CASE Next
  <2>1. Types'
    BY <1>1, <1>4, TypesSend, TypesOther DEF Next
  <2>2. Flags'
    BY <1>1, <1>4, FlagsStep
  <2>3. Walk'
    <3>1. CASE SendStart \/ Send
      BY <1>1, <3>1, WalkSend
    <3>2. CASE IpWake \/ Deferred
      BY <1>1, <3>2, WalkScan
    <3>3. CASE LinkEnable \/ SendRefused \/ Dma \/ Isr
      <4>1. UNCHANGED <<info, send, scan>>
        BY <3>3 DEF LinkEnable, SendRefused, Dma, DmaSend, DmaStop, Isr, IsrTransmit, IsrClear
      <4> QED BY <1>1, <4>1, WalkKept
    <3> QED BY <1>4, <3>1, <3>2, <3>3 DEF Next
  <2> QED BY <1>2, <2>1, <2>2, <2>3 DEF Inv
<1> QED BY <1>3, <1>4

\* The invariant holds in every state, and with it whole frames.
THEOREM Invariance == Spec => []Inv
BY InvInit, InvStep, PTL DEF Spec

\* Every variable has its type: no index leaves the ring, and nothing but
\* packets of NetX is put on the wire.
THEOREM TypeCorrect == Spec => []TypeOK
<1>1. Inv => TypeOK
  BY Zenon DEF Inv, Types, Flags, TypeOK
<1> QED BY <1>1, Invariance, PTL

\* The DMA never stops inside a frame, and never mixes two packets.
THEOREM FramesAreWhole == Spec => []WholeFrames
<1>1. Inv => WholeFrames
  BY DEF Inv, Content
<1> QED BY <1>1, Invariance, PTL

\* The IP thread's walk reaches every packet in the ring.
THEOREM WalkReachesAll == Spec => []AllInWalk
<1>1. Inv => AllInWalk
  <2> SUFFICES ASSUME Inv PROVE AllInWalk
    OBVIOUS
  <2>1. /\ current = Pos(release, in_use)
        /\ \A i \in Bd : slot[i] # None => \E k \in 0 .. in_use - 1 : i = Pos(release, k)
    BY DEF Inv, Walk
  <2> QED BY <2>1, Zenon DEF AllInWalk, Pos
<1> QED BY <1>1, Invariance, PTL

\* A step of the driver is a step of the service, or none for NetX.
LEMMA ServiceStep ==
  ASSUME Inv, Inv', [Next]_vars
  PROVE  [Service!Next]_<<accepted, wire, returns>>
<1>t. /\ MaxPackets \in Nat /\ offered \in 0 .. MaxPackets
      /\ accepted \in Seq(Packets) /\ Len(accepted) \in Nat /\ DOMAIN accepted = 1 .. Len(accepted)
      /\ wire \in Seq(Packets) /\ Len(wire) \in Nat /\ DOMAIN wire = 1 .. Len(wire)
      /\ slot \in [Bd -> Packets \union {None}] /\ scan_idx \in Bd
  BY EnetTransmitAssumption DEF Inv, Types
<1>1. Types /\ Walk /\ Ordered /\ History /\ Slots /\ Returned
  BY DEF Inv, Content
<1>2. ASSUME NEW p \in Packets, returns[p] = 0, GiveBack(p)
      PROVE  returns' = [returns EXCEPT ![p] = 1]
  BY <1>2 DEF GiveBack
<1>3. ASSUME UNCHANGED <<accepted, wire, returns>>
      PROVE  [Service!Next]_<<accepted, wire, returns>>
  BY <1>3
<1>4. ASSUME NEW p \in Packets, Service!Refuse(p) \/ Service!Accept(p) \/ Service!Return(p)
      PROVE  [Service!Next]_<<accepted, wire, returns>>
  BY <1>4 DEF Service!Next
<1>5. CASE SendRefused
  <2>1. /\ offered + 1 \in Packets /\ GiveBack(offered + 1) /\ UNCHANGED <<accepted, wire>>
    BY <1>t, <1>5 DEF SendRefused, Packets
  <2>2. returns[offered + 1] = 0
    BY <1>t, <1>1, <2>1 DEF Returned
  <2>3. offered + 1 \notin Service!InService
    BY <1>t, <1>1 DEF History, Service!InService, Packets
  <2>4. Service!Refuse(offered + 1)
    BY <1>2, <2>1, <2>2, <2>3 DEF Service!Refuse
  <2> QED BY <1>4, <2>1, <2>4
<1>6. CASE SendNoDescriptor
  <2>1. /\ GiveBack(packet) /\ UNCHANGED <<accepted, wire>> /\ Filling
        /\ packet = offered /\ offered # 0
    BY <1>1, <1>6 DEF SendNoDescriptor, Filling, History
  <2>2. packet \in Packets /\ packet \in Int
    BY <1>t, <2>1 DEF Packets
  <2>3. returns[packet] = 0 /\ \A n \in 1 .. Len(accepted) : accepted[n] < packet
    BY <1>1, <2>1 DEF Returned, History
  <2>4. packet \notin Service!InService
    BY <1>t, <2>2, <2>3 DEF Service!InService
  <2>5. Service!Refuse(packet)
    BY <1>2, <2>1, <2>2, <2>3, <2>4 DEF Service!Refuse
  <2> QED BY <1>4, <2>2, <2>5
<1>7. CASE SendMark
  <2>1. /\ accepted' = Append(accepted, packet) /\ UNCHANGED <<wire, returns>> /\ Filling
        /\ packet = offered /\ offered # 0
    BY <1>1, <1>7 DEF SendMark, Filling, History
  <2>2. packet \in Packets /\ packet \in Int
    BY <1>t, <2>1 DEF Packets
  <2>3. returns[packet] = 0 /\ \A n \in 1 .. Len(accepted) : accepted[n] < packet
    BY <1>1, <2>1 DEF Returned, History
  <2>4. packet \notin Service!InService
    BY <1>t, <2>2, <2>3 DEF Service!InService
  <2>5. Service!Accept(packet)
    BY <2>1, <2>3, <2>4 DEF Service!Accept
  <2> QED BY <1>4, <2>2, <2>5
<1>8. CASE DmaSend
  <2>1. ready[dma] /\ UNCHANGED <<accepted, returns>>
    BY <1>8 DEF DmaSend
  <2>2. CASE ~last[dma]
    BY <1>8, <2>1, <2>2 DEF DmaSend
  <2>3. CASE last[dma]
    <3>1. wire' = Append(wire, frame[dma])
      BY <1>8, <2>3 DEF DmaSend
    <3>2. Len(wire) + 1 \in 1 .. Len(accepted) /\ frame[dma] = accepted[Len(wire) + 1]
      BY <1>1, <2>1, <2>3, NextOnWire
    <3>3. Len(wire) < Len(accepted)
      BY <1>t, <3>2
    <3>4. Service!Transmit
      BY <2>1, <3>1, <3>2, <3>3 DEF Service!Transmit
    <3> QED BY <3>4 DEF Service!Next
  <2> QED BY <2>2, <2>3
<1>9. CASE ScanRelease
  <2> DEFINE p == slot[scan_idx]
  <2>1. /\ p \in Packets /\ p # None /\ ~ready[scan_idx] /\ GiveBack(p)
        /\ UNCHANGED <<accepted, wire>>
    BY <1>t, <1>9 DEF ScanRelease
  <2>2. returns[p] = 0
    BY <1>t, <1>1, <2>1 DEF Returned
  <2>3. PICK n \in 1 .. Len(wire) : wire[n] = p
    BY <1>t, <1>1, <2>1 DEF Slots
  <2> HIDE DEF p
  <2>4. p \in Service!GoneOut
    BY <1>t, <2>3 DEF Service!GoneOut
  <2>5. Service!Return(p)
    BY <1>2, <2>1, <2>2, <2>4 DEF Service!Return
  <2> QED BY <1>4, <2>1, <2>5
<1>10. CASE SendStart \/ SendFill \/ SendOwn \/ SendKick
  BY <1>3, <1>10 DEF SendStart, SendFill, SendOwn, SendKick, history
<1>11. CASE LinkEnable \/ DmaStop \/ Isr
  BY <1>3, <1>11 DEF LinkEnable, DmaStop, Isr, IsrTransmit, IsrClear, history
<1>12. CASE IpWake \/ DeferredPickup \/ ScanSkip \/ ScanEnd
  BY <1>3, <1>12 DEF IpWake, DeferredPickup, ScanSkip, ScanEnd, history
<1>13. CASE UNCHANGED vars
  BY <1>3, <1>13 DEF vars, history
<1> QED BY <1>5, <1>6, <1>7, <1>8, <1>9, <1>10, <1>11, <1>12, <1>13
        DEF Next, Send, Dma, Deferred

\* The driver implements the transmit service: packets go out in the order in
\* which they were accepted, and each is given back once, and not before.
THEOREM ProvidesService == Spec => ImplementsService
<1>1. Init => Service!Init
  BY DEF Init, Service!Init
<1>2. Inv /\ Inv' /\ [Next]_vars => [Service!Next]_<<accepted, wire, returns>>
  BY ServiceStep
<1> QED BY <1>1, <1>2, Invariance, PTL DEF Spec, ImplementsService, Service!Spec
=============================================================================

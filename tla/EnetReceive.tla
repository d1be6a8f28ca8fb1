---------------------------- MODULE EnetReceive ----------------------------
(***************************************************************************)
(* The receive side of                                                     *)
(* targets/NXP/MIMXRT1064-EVK/lib/netx_driver/nx_driver_imxrt1062.c: the   *)
(* ENET's DMA fills a ring of descriptors, each with an NX_PACKET behind   *)
(* it; _nx_driver_hardware_packet_received, on the IP thread, chains the   *)
(* packets of a frame, replaces them in the ring by new ones from the pool *)
(* and hands the chain to NetX, or recycles them when the pool runs dry.   *)
(*                                                                         *)
(* The DMA and the interrupt handler run between any two steps of the IP   *)
(* thread.  Frames are numbered as they arrive; a fragment is what one     *)
(* descriptor holds of a frame.                                            *)
(***************************************************************************)
EXTENDS Integers, Sequences, FiniteSets

CONSTANTS
  N,              \* NX_DRIVER_RX_DESCRIPTORS
  Spare,          \* packets of the pool beyond those in the ring
  MaxFrames,      \* bound of the model: frames that arrive
  MaxBds          \* fragments of the longest frame

\* A frame is never longer than the ring: 1518 bytes against 8 buffers.
ASSUME EnetReceiveAssumption ==
  /\ N \in Nat \ {0, 1} /\ Spare \in Nat /\ MaxFrames \in Nat
  /\ MaxBds \in 1 .. N

Bd      == 0 .. N - 1
Packets == 1 .. N + Spare
None    == 0
After(i) == (i + 1) % N         \* (i + 1) & (NX_DRIVER_RX_DESCRIPTORS - 1)

VARIABLES
  \* the descriptors: RX_EMPTY and RX_LAST bits of control
  empty, last,
  \* driver information: receive_packets, receive_current_index
  packets, current,
  \* NX_PACKETs: nx_packet_next, and what the DMA wrote into the buffer
  next, content,
  pool,           \* packets in the pool
  netx,           \* packets NetX has received and not released
  \* the ENET: its next descriptor, fragments of the current frame written and
  \* in all, RDAR, EIR.RXF
  dma, written, length, rdar, rxf,
  \* the interrupt handler, the deferred event and the IP thread's event flag
  isr_pc, deferred, ip_event,
  \* _nx_driver_hardware_packet_received on the IP thread
  pc, first_idx, idx, bd_count, i, received,
  \* history: frames arrived and frames delivered, in order
  arrived, delivered

ring    == <<empty, last>>
memory  == <<next, content>>
owners  == <<pool, netx>>
enet    == <<dma, written, length, rdar, rxf>>
events  == <<isr_pc, deferred, ip_event>>
locals  == <<first_idx, idx, bd_count, i, received>>
history == <<arrived, delivered>>
vars == <<ring, packets, current, memory, owners, enet, events, pc, locals,
          history>>

\* After _nx_driver_hardware_initialize and _nx_driver_hardware_enable.
Init ==
  /\ empty = [b \in Bd |-> TRUE] /\ last = [b \in Bd |-> FALSE]
  /\ packets = [b \in Bd |-> b + 1] /\ current = 0
  /\ next = [p \in Packets |-> None]
  /\ content = [p \in Packets |-> <<0, 0>>]
  /\ pool = Packets \ (1 .. N) /\ netx = {}
  /\ dma = 0 /\ written = 0 /\ length = 0 /\ rdar = TRUE /\ rxf = FALSE
  /\ isr_pc = "idle" /\ deferred = FALSE /\ ip_event = FALSE
  /\ pc = "idle" /\ first_idx = 0 /\ idx = 0 /\ bd_count = 0 /\ i = 0
  /\ received = None
  /\ arrived = 0 /\ delivered = <<>>

ThreadsRun == isr_pc = "idle"

\* The packets of a chain, in order, and the set of them.
Chain(p) ==
  LET at[k \in 0 .. N] == IF k = 0 THEN p
                          ELSE IF at[k - 1] = None THEN None
                          ELSE next[at[k - 1]]
      len == CHOOSE k \in 0 .. N + 1 :
               /\ k = N + 1 \/ at[k] = None
               /\ \A j \in 0 .. k - 1 : at[j] # None
  IN  [k \in 1 .. len |-> at[k - 1]]
InChain(p) == {Chain(p)[k] : k \in DOMAIN Chain(p)}

-----------------------------------------------------------------------------
(* The ENET                                                                *)

\* The first fragment of the next frame, or the next fragment of this one.
DmaReceive ==
  /\ rdar /\ empty[dma]
  /\ \/ /\ written = 0 /\ arrived < MaxFrames
        /\ arrived' = arrived + 1
        /\ length' \in 1 .. MaxBds
     \/ /\ written > 0
        /\ UNCHANGED <<arrived, length>>
  /\ content' = [content EXCEPT ![packets[dma]] = <<arrived', written + 1>>]
  /\ empty' = [empty EXCEPT ![dma] = FALSE]
  /\ last' = [last EXCEPT ![dma] = written + 1 = length']
  /\ dma' = After(dma)
  /\ IF written + 1 = length'
     THEN written' = 0 /\ rxf' = TRUE
     ELSE written' = written + 1 /\ UNCHANGED rxf
  /\ UNCHANGED <<packets, current, next, owners, rdar, events, pc, locals,
                 delivered>>

\* No empty descriptor: reception stops until RDAR is written.
DmaStop ==
  /\ rdar /\ ~empty[dma]
  /\ rdar' = FALSE
  /\ UNCHANGED <<ring, packets, current, memory, owners, dma, written, length,
                 rxf, events, pc, locals, history>>

-----------------------------------------------------------------------------
(* nx_driver_imx_ethernet_isr                                              *)

IsrReceive ==
  /\ isr_pc = "idle" /\ rxf
  /\ deferred' = TRUE
  /\ ip_event' = TRUE           \* _nx_ip_driver_deferred_processing
  /\ isr_pc' = "clear"
  /\ UNCHANGED <<ring, packets, current, memory, owners, enet, pc, locals,
                 history>>

IsrClear ==
  /\ isr_pc = "clear"
  /\ rxf' = FALSE
  /\ isr_pc' = "idle"
  /\ UNCHANGED <<ring, packets, current, memory, owners, dma, written, length,
                 rdar, deferred, ip_event, pc, locals, history>>

Isr == IsrReceive \/ IsrClear

-----------------------------------------------------------------------------
(* _nx_driver_deferred_processing                                          *)

IpWake ==
  /\ ThreadsRun /\ pc = "idle" /\ ip_event
  /\ ip_event' = FALSE
  /\ pc' = "pickup"
  /\ UNCHANGED <<ring, packets, current, memory, owners, enet, isr_pc, deferred,
                 locals, history>>

DeferredPickup ==
  /\ ThreadsRun /\ pc = "pickup"
  /\ deferred' = FALSE
  /\ IF deferred
     THEN /\ pc' = "walk"
          /\ first_idx' = current /\ idx' = current /\ bd_count' = 0
          /\ received' = packets[current]
     ELSE pc' = "idle" /\ UNCHANGED <<first_idx, idx, bd_count, received>>
  /\ UNCHANGED <<ring, packets, current, memory, owners, enet, isr_pc, ip_event,
                 i, history>>

-----------------------------------------------------------------------------
(* _nx_driver_hardware_packet_received                                     *)

\* An intermediate descriptor of a frame: link its packet to the next one.
WalkLink ==
  /\ ThreadsRun /\ pc = "walk" /\ ~empty[idx] /\ ~last[idx]
  /\ next' = [next EXCEPT ![packets[idx]] = packets[After(idx)]]
  /\ bd_count' = bd_count + 1
  /\ idx' = After(idx)
  /\ UNCHANGED <<ring, packets, current, content, owners, enet, events, pc,
                 first_idx, i, received, history>>

\* Faulty variant: the chain is not terminated.
WalkLast_Unterminated ==
  /\ ThreadsRun /\ pc = "walk" /\ ~empty[idx] /\ last[idx]
  /\ i' = bd_count
  /\ pc' = "replace"
  /\ UNCHANGED <<ring, packets, current, memory, owners, enet, events,
                 first_idx, idx, bd_count, received, history>>

\* The end of a frame: terminate the chain, then replace its packets.
WalkLast ==
  /\ ThreadsRun /\ pc = "walk" /\ ~empty[idx] /\ last[idx]
  /\ next' = [next EXCEPT ![packets[idx]] = None]
  /\ i' = bd_count
  /\ pc' = "replace"
  /\ UNCHANGED <<ring, packets, current, content, owners, enet, events,
                 first_idx, idx, bd_count, received, history>>

\* Faulty variant: RDAR is not written.
WalkEnd_NoResume ==
  /\ ThreadsRun /\ pc = "walk" /\ empty[idx]
  /\ pc' = "idle"
  /\ UNCHANGED <<ring, packets, current, memory, owners, enet, events, locals,
                 history>>

\* An empty descriptor: stop, and resume the DMA if it has stopped.
WalkEnd ==
  /\ ThreadsRun /\ pc = "walk" /\ empty[idx]
  /\ rdar' = TRUE
  /\ pc' = "idle"
  /\ UNCHANGED <<ring, packets, current, memory, owners, dma, written, length,
                 rxf, events, locals, history>>

TempIdx == (first_idx + i) % N

\* From the last packet of the frame to the first.
Replace ==
  /\ ThreadsRun /\ pc = "replace" /\ i >= 0 /\ pool # {}
  /\ LET p == CHOOSE p \in pool : TRUE
     IN  /\ pool' = pool \ {p}
         /\ packets' = [packets EXCEPT ![TempIdx] = p]
  /\ empty' = [empty EXCEPT ![TempIdx] = TRUE]
  /\ i' = i - 1
  /\ UNCHANGED <<last, current, memory, netx, enet, events, pc, first_idx, idx,
                 bd_count, received, history>>

\* Faulty variant: the packets already replaced are not released.
ReplaceFails_Leaks ==
  /\ ThreadsRun /\ pc = "replace" /\ i >= 0 /\ pool = {}
  /\ pc' = "recycle"
  /\ UNCHANGED <<ring, packets, current, memory, owners, enet, events, locals,
                 history>>

\* The pool is empty: release the packets already replaced, keep the others.
ReplaceFails ==
  /\ ThreadsRun /\ pc = "replace" /\ i >= 0 /\ pool = {}
  /\ pool' = pool \union InChain(next[packets[TempIdx]])
  /\ pc' = "recycle"
  /\ UNCHANGED <<ring, packets, current, memory, netx, enet, events, locals,
                 history>>

Recycle ==
  /\ ThreadsRun /\ pc = "recycle" /\ i >= 0
  /\ empty' = [empty EXCEPT ![TempIdx] = TRUE]
  /\ i' = i - 1
  /\ UNCHANGED <<last, packets, current, memory, owners, enet, events, pc,
                 first_idx, idx, bd_count, received, history>>

\* History: is a chain one frame, from its first fragment to its last?  Else it
\* is 0.  What NetX does with a frame of its type is left out.
FrameOf(p) ==
  LET c == Chain(p)
      f == content[p][1]
  IN  IF \A k \in DOMAIN c : content[c[k]] = <<f, k>> THEN f ELSE 0

\* Faulty variant: one frame is received for each event.
FrameDone_OneFrame ==
  /\ ThreadsRun /\ pc \in {"replace", "recycle"} /\ i < 0
  /\ IF pc = "replace"
     THEN /\ netx' = netx \union InChain(received)
          /\ delivered' = Append(delivered, FrameOf(received))
     ELSE UNCHANGED <<netx, delivered>>
  /\ first_idx' = After(idx)
  /\ current' = After(idx)
  /\ idx' = After(idx)
  /\ received' = packets[After(idx)]
  /\ bd_count' = 0
  /\ pc' = "idle"
  /\ UNCHANGED <<ring, packets, memory, pool, enet, events, i, arrived>>

\* _nx_driver_transfer_to_netx, if all packets were replaced; on to the next
\* frame in any case.
FrameDone ==
  /\ ThreadsRun /\ pc \in {"replace", "recycle"} /\ i < 0
  /\ IF pc = "replace"
     THEN /\ netx' = netx \union InChain(received)
          /\ delivered' = Append(delivered, FrameOf(received))
     ELSE UNCHANGED <<netx, delivered>>
  /\ first_idx' = After(idx)
  /\ current' = After(idx)
  /\ idx' = After(idx)
  /\ received' = packets[After(idx)]
  /\ bd_count' = 0
  /\ pc' = "walk"
  /\ UNCHANGED <<ring, packets, memory, pool, enet, events, i, arrived>>

Receive ==
  \/ WalkLink \/ WalkLast \/ WalkEnd
  \/ Replace \/ ReplaceFails \/ Recycle \/ FrameDone

-----------------------------------------------------------------------------
(* NetX: releases a packet it received (a chain at a time, packet by packet *)
(* here, since only the room in the pool counts).                          *)

NetxRelease ==
  /\ netx # {}
  /\ LET p == CHOOSE p \in netx : TRUE
     IN  netx' = netx \ {p} /\ pool' = pool \union {p}
  /\ UNCHANGED <<ring, packets, current, memory, enet, events, pc, locals,
                 history>>

-----------------------------------------------------------------------------
Next ==
  \/ DmaReceive \/ DmaStop
  \/ Isr
  \/ IpWake \/ DeferredPickup \/ Receive
  \/ NetxRelease

Spec == Init /\ [][Next]_vars

\* The DMA goes on, interrupts are served and the IP thread gets its turns.
FairSpec ==
  /\ Spec
  /\ WF_vars(DmaReceive) /\ WF_vars(Isr)
  /\ SF_vars(IpWake) /\ SF_vars(DeferredPickup) /\ SF_vars(Receive)

-----------------------------------------------------------------------------
(* Properties.                                                             *)

TypeOK ==
  /\ empty \in [Bd -> BOOLEAN] /\ last \in [Bd -> BOOLEAN]
  /\ packets \in [Bd -> Packets] /\ current \in Bd
  /\ next \in [Packets -> Packets \union {None}]
  /\ content \in [Packets -> (0 .. MaxFrames) \X (0 .. MaxBds)]
  /\ pool \subseteq Packets /\ netx \subseteq Packets
  /\ dma \in Bd /\ written \in 0 .. MaxBds /\ length \in 0 .. MaxBds
  /\ rdar \in BOOLEAN /\ rxf \in BOOLEAN
  /\ isr_pc \in {"idle", "clear"} /\ deferred \in BOOLEAN
  /\ ip_event \in BOOLEAN
  /\ pc \in {"idle", "pickup", "walk", "replace", "recycle"}
  /\ first_idx \in Bd /\ idx \in Bd /\ bd_count \in 0 .. N
  /\ i \in -1 .. N /\ received \in Packets \union {None}
  /\ arrived \in 0 .. MaxFrames /\ delivered \in Seq(0 .. MaxFrames)

InRing == {packets[b] : b \in Bd}

\* While a frame's packets are replaced, those that left the ring.
InHand == IF pc = "replace" /\ i < bd_count
          THEN InChain(IF i < 0 THEN received
                       ELSE next[packets[TempIdx]])
          ELSE {}

\* Every packet has exactly one owner: a descriptor, the pool, NetX or the
\* routine; so the DMA never writes into a packet somebody else uses, and none
\* leaks when an allocation fails in the middle of a frame.
OneOwner ==
  /\ TypeOK
  /\ Cardinality(InRing) = N
  /\ InRing \union pool \union netx \union InHand = Packets
  /\ InRing \intersect (pool \union netx \union InHand) = {}
  /\ pool \intersect (netx \union InHand) = {}
  /\ netx \intersect InHand = {}

\* NetX receives whole frames only, each once and in the order of arrival,
\* whatever the DMA writes while packets are replaced or recycled.
DeliversWhole ==
  /\ \A k \in DOMAIN delivered : delivered[k] # 0
  /\ \A j, k \in DOMAIN delivered : j < k => delivered[j] < delivered[k]

\* Every frame on the wire gets through the ring: a DMA that stopped is
\* resumed, a frame that is complete is not forgotten, and reception goes on
\* until the last frame of the model, and the ring is drained.
KeepsReceiving ==
  <>[](arrived = MaxFrames /\ \A b \in Bd : empty[b])
=============================================================================

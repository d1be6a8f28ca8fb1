---------------------------- MODULE EnetTransmit ----------------------------
(***************************************************************************)
(* The transmit side of                                                    *)
(* targets/NXP/MIMXRT1064-EVK/lib/netx_driver/nx_driver_imxrt1062.c:       *)
(* _nx_driver_packet_send and _nx_driver_hardware_packet_send fill a ring  *)
(* of buffer descriptors that the ENET's DMA empties; the interrupt        *)
(* handler defers the completion to the IP thread, which walks the ring    *)
(* and gives the packets back to NetX.                                     *)
(*                                                                         *)
(* The thread that sends and the IP thread hold the IP mutex, so they do   *)
(* not interleave with each other; the interrupt handler runs between any  *)
(* two of their steps and the DMA between any two steps of all.  A packet  *)
(* is a chain of NX_PACKETs, one descriptor each.                          *)
(***************************************************************************)
EXTENDS Integers, Sequences, FiniteSets

CONSTANTS
  N,              \* NX_DRIVER_TX_DESCRIPTORS
  MaxPackets,     \* bound of the model: packets NetX sends
  MaxBds          \* bound of the model: NX_PACKETs chained in one packet

\* A frame of 1514 bytes is never chained of more buffers than the ring has
\* descriptors (64): its packets would hold less than 24 bytes each.  The code
\* does not check it, and would run into the beginning of the same frame.
ASSUME EnetTransmitAssumption ==
  N \in Nat \ {0, 1} /\ MaxPackets \in Nat /\ MaxBds \in 1 .. N

Bd      == 0 .. N - 1
Packets == 1 .. MaxPackets
None    == 0
\* Faulty variant: the index is not masked.
After_NoMask(i) == i + 1

After(i)    == (i + 1) % N      \* (i + 1) & (NX_DRIVER_TX_DESCRIPTORS - 1)
Previous(i) == (i - 1) % N

VARIABLES
  enabled,        \* nx_driver_information_state is LINK_ENABLED
  \* the descriptors, in memory shared with the DMA
  ready, last,    \* TX_READY and TX_LAST bits of control
  frame,          \* the packet whose memory buffer points into
  \* driver information
  slot,           \* transmit_packets
  current, release, in_use,
  \* the call of _nx_driver_packet_send in progress
  send_pc, packet, idx, bd_count, size,
  \* the ENET: its next descriptor, the packet it is inside of, TDAR, EIR.TXF
  dma, inside, tdar, txf,
  \* the interrupt handler, the deferred event and the IP thread's event flag
  isr_pc, deferred, ip_event,
  \* _nx_driver_hardware_packet_transmitted on the IP thread
  scan_pc, scan_idx, scan_left,
  \* history: packets offered by NetX, accepted and on the wire (both in
  \* order), and how often each was given back
  offered, accepted, wire, returns

ring   == <<ready, last, frame>>
info   == <<slot, current, release, in_use>>
send   == <<send_pc, packet, idx, bd_count, size>>
enet   == <<dma, inside, tdar, txf>>
events == <<isr_pc, deferred, ip_event>>
scan   == <<scan_pc, scan_idx, scan_left>>
history == <<offered, accepted, wire, returns>>
vars == <<enabled, ring, info, send, enet, events, scan, history>>

Init ==
  /\ enabled = FALSE
  /\ ready = [i \in Bd |-> FALSE] /\ last = [i \in Bd |-> FALSE]
  /\ frame = [i \in Bd |-> None] /\ slot = [i \in Bd |-> None]
  /\ current = 0 /\ release = 0 /\ in_use = 0
  /\ send_pc = "idle" /\ packet = None /\ idx = 0 /\ bd_count = 0 /\ size = 0
  /\ dma = 0 /\ inside = None /\ tdar = FALSE /\ txf = FALSE
  /\ isr_pc = "idle" /\ deferred = FALSE /\ ip_event = FALSE
  /\ scan_pc = "idle" /\ scan_idx = 0 /\ scan_left = 0
  /\ offered = 0 /\ accepted = <<>> /\ wire = <<>>
  /\ returns = [p \in Packets |-> 0]

\* An interrupt is served before any thread goes on.
ThreadsRun == isr_pc = "idle"
\* nx_ip_protection: one of the two holds it.
MutexFree == send_pc = "idle" /\ scan_pc = "idle"

\* nx_packet_transmit_release
GiveBack(p) == returns' = [returns EXCEPT ![p] = @ + 1]

-----------------------------------------------------------------------------
(* _nx_driver_enable                                                       *)

LinkEnable ==
  /\ ThreadsRun /\ MutexFree /\ ~enabled
  /\ enabled' = TRUE
  /\ UNCHANGED <<ring, info, send, enet, events, scan, history>>

-----------------------------------------------------------------------------
(* _nx_driver_packet_send and _nx_driver_hardware_packet_send              *)

\* Link not enabled, or the frame is longer than the MTU.
SendRefused ==
  /\ ThreadsRun /\ MutexFree /\ offered < MaxPackets
  /\ offered' = offered + 1
  /\ GiveBack(offered + 1)
  /\ UNCHANGED <<enabled, ring, info, send, enet, events, scan, accepted, wire>>

SendStart ==
  /\ ThreadsRun /\ MutexFree /\ offered < MaxPackets /\ enabled
  /\ offered' = offered + 1
  /\ packet' = offered + 1
  /\ size' \in 1 .. MaxBds
  /\ idx' = current
  /\ bd_count' = 0
  /\ send_pc' = "check"
  /\ UNCHANGED <<enabled, ring, info, enet, events, scan, accepted, wire,
                 returns>>

IsFree(i) == ~ready[i] /\ slot[i] = None

\* "No more descriptor available": what was written so far stays written.
SendNoDescriptor ==
  /\ ThreadsRun /\ send_pc = "check" /\ ~IsFree(idx)
  /\ send_pc' = "idle"
  /\ GiveBack(packet)
  /\ UNCHANGED <<enabled, ring, info, packet, idx, bd_count, size, enet, events,
                 scan, offered, accepted, wire>>

\* Faulty variant: the descriptors are given to the DMA in forward order.
SendFill_OwnEarly ==
  /\ ThreadsRun /\ send_pc = "check" /\ IsFree(idx)
  /\ frame' = [frame EXCEPT ![idx] = packet]
  /\ last' = [last EXCEPT ![idx] = FALSE]
  /\ ready' = [ready EXCEPT ![idx] = bd_count + 1 < size]
  /\ IF bd_count + 1 < size
     THEN idx' = After(idx) /\ bd_count' = bd_count + 1 /\ UNCHANGED send_pc
     ELSE send_pc' = "mark" /\ UNCHANGED <<idx, bd_count>>
  /\ UNCHANGED <<enabled, info, packet, size, enet, events, scan, history>>

\* The descriptor gets its buffer and loses its LAST bit; on to the next one.
SendFill ==
  /\ ThreadsRun /\ send_pc = "check" /\ IsFree(idx)
  /\ frame' = [frame EXCEPT ![idx] = packet]
  /\ last' = [last EXCEPT ![idx] = FALSE]
  /\ IF bd_count + 1 < size
     THEN idx' = After(idx) /\ bd_count' = bd_count + 1 /\ UNCHANGED send_pc
     ELSE send_pc' = "mark" /\ UNCHANGED <<idx, bd_count>>
  /\ UNCHANGED <<enabled, ready, info, packet, size, enet, events, scan, history>>

\* Faulty variant: a packet counts as one buffer.
SendMark_CountsOne ==
  /\ ThreadsRun /\ send_pc = "mark"
  /\ last' = [last EXCEPT ![idx] = TRUE]
  /\ ready' = [ready EXCEPT ![idx] = TRUE]
  /\ slot' = [slot EXCEPT ![idx] = packet]
  /\ current' = After(idx)
  /\ in_use' = in_use + 1
  /\ send_pc' = "own"
  /\ accepted' = Append(accepted, packet)
  /\ UNCHANGED <<enabled, frame, release, packet, idx, bd_count, size, enet,
                 events, scan, offered, wire, returns>>

\* The last descriptor is given to the DMA, which has not reached it yet
\* unless the frame has only this one.
SendMark ==
  /\ ThreadsRun /\ send_pc = "mark"
  /\ last' = [last EXCEPT ![idx] = TRUE]
  /\ ready' = [ready EXCEPT ![idx] = TRUE]
  /\ slot' = [slot EXCEPT ![idx] = packet]
  /\ current' = After(idx)
  /\ in_use' = in_use + bd_count + 1
  /\ send_pc' = "own"
  /\ accepted' = Append(accepted, packet)
  /\ UNCHANGED <<enabled, frame, release, packet, idx, bd_count, size, enet,
                 events, scan, offered, wire, returns>>

\* The other descriptors, in reverse order.
SendOwn ==
  /\ ThreadsRun /\ send_pc = "own" /\ bd_count > 0
  /\ idx' = Previous(idx)
  /\ ready' = [ready EXCEPT ![idx'] = TRUE]
  /\ bd_count' = bd_count - 1
  /\ UNCHANGED <<enabled, last, frame, info, send_pc, packet, size, enet, events,
                 scan, history>>

SendKick ==
  /\ ThreadsRun /\ send_pc = "own" /\ bd_count = 0
  /\ tdar' = TRUE
  /\ send_pc' = "idle"
  /\ UNCHANGED <<enabled, ring, info, packet, idx, bd_count, size, dma, inside,
                 txf, events, scan, history>>

Send == SendNoDescriptor \/ SendFill \/ SendMark \/ SendOwn \/ SendKick

-----------------------------------------------------------------------------
(* The ENET                                                                *)

DmaSend ==
  /\ enabled /\ tdar /\ ready[dma]
  /\ ready' = [ready EXCEPT ![dma] = FALSE]
  /\ dma' = After(dma)
  /\ IF last[dma]
     THEN /\ inside' = None
          /\ txf' = TRUE
          /\ wire' = Append(wire, frame[dma])
     ELSE /\ inside' = frame[dma]
          /\ UNCHANGED <<txf, wire>>
  /\ UNCHANGED <<enabled, last, frame, info, send, tdar, events, scan, offered,
                 accepted, returns>>

DmaStop ==
  /\ enabled /\ tdar /\ ~ready[dma]
  /\ tdar' = FALSE
  /\ UNCHANGED <<enabled, ring, info, send, dma, inside, txf, events, scan,
                 history>>

Dma == DmaSend \/ DmaStop

-----------------------------------------------------------------------------
(* nx_driver_imx_ethernet_isr                                              *)

IsrTransmit ==
  /\ isr_pc = "idle" /\ txf
  /\ tdar' = TRUE
  /\ deferred' = TRUE
  /\ ip_event' = TRUE           \* _nx_ip_driver_deferred_processing
  /\ isr_pc' = "clear"
  /\ UNCHANGED <<enabled, ring, info, send, dma, inside, txf, scan, history>>

\* The pending bit is cleared last, with all the frames it stands for by now.
IsrClear ==
  /\ isr_pc = "clear"
  /\ txf' = FALSE
  /\ isr_pc' = "idle"
  /\ UNCHANGED <<enabled, ring, info, send, dma, inside, tdar, deferred,
                 ip_event, scan, history>>

Isr == IsrTransmit \/ IsrClear

-----------------------------------------------------------------------------
(* The IP thread: _nx_driver_deferred_processing and                       *)
(* _nx_driver_hardware_packet_transmitted                                  *)

IpWake ==
  /\ ThreadsRun /\ MutexFree /\ ip_event
  /\ ip_event' = FALSE
  /\ scan_pc' = "pickup"
  /\ UNCHANGED <<enabled, ring, info, send, enet, isr_pc, deferred, scan_idx,
                 scan_left, history>>

DeferredPickup ==
  /\ ThreadsRun /\ scan_pc = "pickup"
  /\ deferred' = FALSE
  /\ scan_pc' = IF deferred THEN "scan" ELSE "idle"
  /\ scan_idx' = release
  /\ scan_left' = in_use
  /\ UNCHANGED <<enabled, ring, info, send, enet, isr_pc, ip_event, history>>

\* No packet on this descriptor: on to the next.
ScanSkip ==
  /\ ThreadsRun /\ scan_pc = "scan" /\ scan_left > 0
  /\ slot[scan_idx] = None
  /\ scan_idx' = After(scan_idx)
  /\ scan_left' = scan_left - 1
  /\ UNCHANGED <<enabled, ring, info, send, enet, events, scan_pc, history>>

\* Faulty variant: packets are given back without a look at READY.
ScanRelease_Unchecked ==
  /\ ThreadsRun /\ scan_pc = "scan" /\ scan_left > 0
  /\ slot[scan_idx] # None
  /\ GiveBack(slot[scan_idx])
  /\ slot' = [slot EXCEPT ![scan_idx] = None]
  /\ scan_idx' = After(scan_idx)
  /\ scan_left' = scan_left - 1
  /\ in_use' = scan_left'
  /\ release' = scan_idx'
  /\ UNCHANGED <<enabled, ring, current, send, enet, events, scan_pc, offered,
                 accepted, wire>>

\* Faulty variant: the entry in transmit_packets is not cleared.
ScanRelease_KeepsSlot ==
  /\ ThreadsRun /\ scan_pc = "scan" /\ scan_left > 0
  /\ slot[scan_idx] # None /\ ~ready[scan_idx]
  /\ GiveBack(slot[scan_idx])
  /\ scan_idx' = After(scan_idx)
  /\ scan_left' = scan_left - 1
  /\ in_use' = scan_left'
  /\ release' = scan_idx'
  /\ UNCHANGED <<enabled, ring, slot, current, send, enet, events, scan_pc,
                 offered, accepted, wire>>

\* Faulty variant: one packet is given back for each event.
ScanRelease_OnePacket ==
  /\ ThreadsRun /\ scan_pc = "scan" /\ scan_left > 0
  /\ slot[scan_idx] # None /\ ~ready[scan_idx]
  /\ GiveBack(slot[scan_idx])
  /\ slot' = [slot EXCEPT ![scan_idx] = None]
  /\ scan_idx' = After(scan_idx)
  /\ scan_left' = scan_left - 1
  /\ in_use' = scan_left'
  /\ release' = scan_idx'
  /\ scan_pc' = "idle"
  /\ UNCHANGED <<enabled, ring, current, send, enet, events, offered, accepted,
                 wire>>

\* The packet has been transmitted.
ScanRelease ==
  /\ ThreadsRun /\ scan_pc = "scan" /\ scan_left > 0
  /\ slot[scan_idx] # None /\ ~ready[scan_idx]
  /\ GiveBack(slot[scan_idx])
  /\ slot' = [slot EXCEPT ![scan_idx] = None]
  /\ scan_idx' = After(scan_idx)
  /\ scan_left' = scan_left - 1
  /\ in_use' = scan_left'
  /\ release' = scan_idx'
  /\ UNCHANGED <<enabled, ring, current, send, enet, events, scan_pc, offered,
                 accepted, wire>>

ScanEnd ==
  /\ ThreadsRun /\ scan_pc = "scan"
  /\ \/ scan_left = 0
     \/ slot[scan_idx] # None /\ ready[scan_idx]
  /\ scan_pc' = "idle"
  /\ UNCHANGED <<enabled, ring, info, send, enet, events, scan_idx, scan_left,
                 history>>

Deferred == DeferredPickup \/ ScanSkip \/ ScanRelease \/ ScanEnd

-----------------------------------------------------------------------------
Next ==
  \/ LinkEnable \/ SendRefused \/ SendStart \/ Send
  \/ Dma \/ Isr
  \/ IpWake \/ Deferred

Spec == Init /\ [][Next]_vars

\* The hardware goes on, interrupts are served, and the IP thread and the
\* sender get the processor and the mutex again and again.
FairSpec ==
  /\ Spec
  /\ WF_vars(Dma) /\ WF_vars(Isr)
  /\ SF_vars(Send) /\ SF_vars(IpWake) /\ SF_vars(Deferred)

-----------------------------------------------------------------------------
(* Properties.                                                             *)

TypeOK ==
  /\ enabled \in BOOLEAN
  /\ ready \in [Bd -> BOOLEAN] /\ last \in [Bd -> BOOLEAN]
  /\ frame \in [Bd -> Packets \union {None}]
  /\ slot \in [Bd -> Packets \union {None}]
  /\ current \in Bd /\ release \in Bd /\ in_use \in Nat
  /\ send_pc \in {"idle", "check", "mark", "own"}
  /\ packet \in Packets \union {None} /\ idx \in Bd
  /\ bd_count \in 0 .. MaxBds /\ size \in 0 .. MaxBds
  /\ dma \in Bd /\ inside \in Packets \union {None}
  /\ tdar \in BOOLEAN /\ txf \in BOOLEAN
  /\ isr_pc \in {"idle", "clear"} /\ deferred \in BOOLEAN
  /\ ip_event \in BOOLEAN
  /\ scan_pc \in {"idle", "pickup", "scan"} /\ scan_idx \in Bd
  /\ scan_left \in Nat
  /\ offered \in 0 .. MaxPackets
  /\ accepted \in Seq(Packets) /\ wire \in Seq(Packets)
  /\ returns \in [Packets -> Nat]

\* Inside a frame, the DMA always finds the frame's next descriptor ready:
\* it never underruns and never sends parts of two packets as one frame.
WholeFrames ==
  inside # None => ready[dma] /\ frame[dma] = inside

\* Every packet in the ring is in the part the IP thread walks, and that part
\* ends where the next packet goes.
AllInWalk ==
  /\ \A i \in Bd : slot[i] # None =>
       \E k \in 0 .. in_use - 1 : i = (release + k) % N
  /\ (release + in_use) % N = current

\* The driver provides the transmit service NetX relies on: packets go out
\* whole and in order, and each comes back once, not before it went out,
\* whatever the walks and failed sends.
Service == INSTANCE TransmitService
             WITH sent <- wire,
                  returned <- returns
ImplementsService == Service!Spec

\* Every packet offered is given back in the end, although its completion may
\* share an interrupt and an event with others.
AllReturned == \A p \in Packets : offered >= p ~> returns[p] = 1
=============================================================================

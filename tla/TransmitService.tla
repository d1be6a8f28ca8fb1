-------------------------- MODULE TransmitService --------------------------
(***************************************************************************)
(* What NetX expects of an Ethernet driver's transmit side: a packet is    *)
(* refused and given back at once, or accepted; the accepted ones go out   *)
(* in order, each once, and each is given back (nx_packet_transmit_release)*)
(* exactly once, after it went out and never before.                       *)
(***************************************************************************)
EXTENDS Integers, Sequences, FiniteSets

CONSTANT Packets        \* the packets NetX may hand to the driver

VARIABLES
  accepted,             \* accepted packets, in order
  sent,                 \* those that have gone out, in order
  returned              \* how often NetX got each packet back

Init == accepted = <<>> /\ sent = <<>> /\ returned = [p \in Packets |-> 0]

InService == {accepted[i] : i \in DOMAIN accepted}
GoneOut   == {sent[i] : i \in DOMAIN sent}

Refuse(p) ==
  /\ p \notin InService /\ returned[p] = 0
  /\ returned' = [returned EXCEPT ![p] = 1]
  /\ UNCHANGED <<accepted, sent>>

Accept(p) ==
  /\ p \notin InService /\ returned[p] = 0
  /\ accepted' = Append(accepted, p)
  /\ UNCHANGED <<sent, returned>>

Transmit ==
  /\ Len(sent) < Len(accepted)
  /\ sent' = Append(sent, accepted[Len(sent) + 1])
  /\ UNCHANGED <<accepted, returned>>

Return(p) ==
  /\ p \in GoneOut /\ returned[p] = 0
  /\ returned' = [returned EXCEPT ![p] = 1]
  /\ UNCHANGED <<accepted, sent>>

Next ==
  \/ \E p \in Packets : Refuse(p) \/ Accept(p) \/ Return(p)
  \/ Transmit

Spec == Init /\ [][Next]_<<accepted, sent, returned>>
=============================================================================

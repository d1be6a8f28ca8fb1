-------------------------- MODULE EchoServerProofs --------------------------
(***************************************************************************)
(* Theorems about EchoServer, for every pool, every length of the queues   *)
(* and every number of peers, datagrams, segments and connections.         *)
(*                                                                         *)
(* The two threads meet at the pool only.  Each half keeps an invariant of *)
(* its own, and none of its steps changes the number of packets that are   *)
(* free or with it.                                                        *)
(***************************************************************************)
EXTENDS EchoServer, SequenceTheorems, TLAPS

\* The packets a thread holds: the one received, and the one it allocated.
Holds(step) == IF step = "send" THEN 2
               ELSE IF step \in {"allocate", "release"} THEN 1 ELSE 0

-----------------------------------------------------------------------------
(* The UDP half.                                                           *)

UdpTypes ==
  /\ sender \in Seq(Client) /\ Len(sender) <= MaxDatagrams
  /\ long \subseteq Datagram
  /\ udp_queue \in Seq(Datagram) /\ Len(udp_queue) <= UdpQueue
  /\ udp_pc \in {"receive", "allocate", "send", "release"}
  /\ udp_rx \in Datagram \union {Nothing} /\ udp_tx \in BOOLEAN
  /\ driver \in Nat
  /\ replies \in Seq([to : Client, data : Datagram])

\* Which packets the thread has is known from where it is.
UdpPlaces ==
  /\ udp_rx # Nothing <=> udp_pc \in {"allocate", "send", "release"}
  /\ udp_tx <=> udp_pc = "send"

\* Datagrams stand in the queue in the order of their arrival, the one the
\* thread holds is older, and those it answered are older still.
InOrder ==
  /\ \A i \in DOMAIN udp_queue : udp_queue[i] <= Len(sender)
  /\ \A i, j \in DOMAIN udp_queue : i < j => udp_queue[i] < udp_queue[j]
  /\ udp_rx <= Len(sender)
  /\ \A i \in DOMAIN udp_queue : udp_rx < udp_queue[i]
  /\ \A k \in DOMAIN replies :
       /\ replies[k].data <= Len(sender)
       /\ \A i \in DOMAIN udp_queue : replies[k].data < udp_queue[i]
       /\ udp_pc \in {"allocate", "send"} => replies[k].data < udp_rx

UdpInv == UdpTypes /\ UdpPlaces /\ InOrder /\ RepliesMatch

UdpPackets == Len(udp_queue) + driver + Holds(udp_pc)

-----------------------------------------------------------------------------
(* The TCP half.                                                           *)

TcpTypes ==
  /\ port \in BOOLEAN
  /\ socket \in {"closed", "listen", "established", "close_wait", "reset",
                 "disconnected", "failed"}
  /\ connections \in 0 .. MaxConnections /\ sent \in 0 .. MaxSegments
  /\ tcp_queue \in Seq(Segment)
  /\ tcp_pc \in {"listen", "accept", "receive", "allocate", "send", "release",
                 "disconnect", "unaccept", "unlisten"}
  /\ tcp_rx \in Segment \union {Nothing} /\ tcp_tx \in BOOLEAN
  /\ unacked \in 0 .. TxQueue /\ echoed \in Seq(Segment)

\* Which packets the thread has is known from where it is; the queue is empty
\* before there is a connection; and the socket is what the thread needs, or
\* left as a failed accept left it.
TcpPlaces ==
  /\ tcp_rx # Nothing <=> tcp_pc \in {"allocate", "send", "release"}
  /\ tcp_tx <=> tcp_pc = "send"
  /\ socket \in {"closed", "listen", "disconnected", "failed"} => tcp_queue = <<>>
  /\ tcp_pc \in {"listen", "unlisten"} => socket \in {"closed", "failed"}
  /\ tcp_pc = "accept" => socket \in {"listen", "established", "close_wait", "reset"}
  /\ tcp_pc \in {"receive", "allocate", "send", "release"} =>
       socket \in {"established", "close_wait", "reset"}
  /\ tcp_pc = "disconnect" => socket \in {"close_wait", "reset"} /\ tcp_queue = <<>>
  /\ tcp_pc = "unaccept" => socket = "disconnected"

TcpInv == TcpTypes /\ TcpPlaces /\ EchoesAll

TcpPackets == Len(tcp_queue) + unacked + Holds(tcp_pc)

Inv ==
  /\ UdpInv /\ TcpInv /\ free \in Nat
  /\ PoolSize = free + UdpPackets + TcpPackets

-----------------------------------------------------------------------------
(* Sequences.                                                              *)

\* What is in a sequence.
LEMMA Elements ==
  ASSUME NEW S, NEW s \in Seq(S)
  PROVE  /\ Len(s) \in Nat /\ DOMAIN s = 1..Len(s)
         /\ \A i \in 1..Len(s) : s[i] \in S
BY LenProperties, ElementOfSeq

\* A sequence without its head.
LEMMA Rest ==
  ASSUME NEW S, NEW s \in Seq(S), s # <<>>
  PROVE  /\ Len(s) \in Nat \ {0} /\ Head(s) = s[1] /\ s[1] \in S
         /\ Tail(s) \in Seq(S) /\ Len(Tail(s)) = Len(s) - 1
         /\ DOMAIN Tail(s) = 1..Len(Tail(s))
         /\ \A i \in 1..Len(Tail(s)) : i + 1 \in 1..Len(s) /\ Tail(s)[i] = s[i + 1]
<1>1. Len(s) \in Nat \ {0}
  BY EmptySeq, Zenon
<1>2. /\ Tail(s) \in Seq(S) /\ Len(Tail(s)) = Len(s) - 1
      /\ \A i \in 1..Len(Tail(s)) : Tail(s)[i] = s[i + 1]
  BY HeadTailProperties, Zenon
<1>3. DOMAIN Tail(s) = 1..Len(Tail(s))
  BY <1>2, LenProperties, Zenon
<1>4. 1 \in 1..Len(s) /\ \A i \in 1..Len(Tail(s)) : i + 1 \in 1..Len(s)
  BY <1>1, <1>2
<1>5. s[1] \in S
  BY <1>4, ElementOfSeq
<1> QED BY <1>1, <1>2, <1>3, <1>4, <1>5

\* A sequence with one more.
LEMMA OneMore ==
  ASSUME NEW S, NEW s \in Seq(S), NEW e \in S
  PROVE  /\ Append(s, e) \in Seq(S) /\ Len(Append(s, e)) = Len(s) + 1
         /\ DOMAIN Append(s, e) = 1..(Len(s) + 1)
         /\ \A i \in 1..Len(s) : Append(s, e)[i] = s[i]
         /\ Append(s, e)[Len(s) + 1] = e
BY AppendProperties, LenProperties

-----------------------------------------------------------------------------
(* The UDP half, step by step.                                             *)

\* What the UDP steps look at: sequences and where they are defined ...
LEMMA UdpSequences ==
  ASSUME UdpInv
  PROVE  /\ sender \in Seq(Client) /\ udp_queue \in Seq(Datagram)
         /\ replies \in Seq([to : Client, data : Datagram])
         /\ Len(sender) \in Nat /\ Len(udp_queue) \in Nat /\ Len(replies) \in Nat
         /\ DOMAIN udp_queue = 1..Len(udp_queue) /\ DOMAIN replies = 1..Len(replies)
BY Elements DEF UdpInv, UdpTypes

\* ... and numbers.
LEMMA UdpNumbers ==
  ASSUME UdpInv
  PROVE  /\ Len(sender) \in Nat /\ Len(udp_queue) \in Nat /\ Len(replies) \in Nat
         /\ DOMAIN udp_queue = 1..Len(udp_queue) /\ DOMAIN replies = 1..Len(replies)
         /\ \A i \in 1..Len(udp_queue) : udp_queue[i] \in Nat \ {0}
         /\ \A k \in 1..Len(replies) : replies[k].data \in Nat \ {0}
         /\ udp_rx \in Nat /\ driver \in Nat /\ Holds(udp_pc) \in Nat
<1>1. \A d \in Datagram : d \in Nat \ {0}
  BY DEF Datagram
<1>2. \A i \in 1..Len(udp_queue) : udp_queue[i] \in Datagram
  BY UdpSequences, Elements
<1>3. \A k \in 1..Len(replies) : replies[k] \in [to : Client, data : Datagram]
  BY UdpSequences, Elements
<1>4. \A k \in 1..Len(replies) : replies[k].data \in Datagram
  BY <1>3
<1>5. udp_rx \in Nat /\ driver \in Nat /\ Holds(udp_pc) \in Nat
  BY <1>1 DEF UdpInv, UdpTypes, Nothing, Holds
<1>6. \A i \in 1..Len(udp_queue) : udp_queue[i] \in Nat \ {0}
  BY <1>1, <1>2
<1>7. \A k \in 1..Len(replies) : replies[k].data \in Nat \ {0}
  BY <1>1, <1>4
<1> QED BY <1>5, <1>6, <1>7, UdpSequences

\* A datagram arrives, and the oldest makes room for it when the queue is full.
LEMMA DatagramStep ==
  ASSUME UdpInv, free \in Nat, NEW c \in Client, DatagramArrives(c)
  PROVE  UdpInv' /\ free' \in Nat /\ free' + UdpPackets' = free + UdpPackets
<1> DEFINE n    == Len(sender) + 1
           full == Len(udp_queue) = UdpQueue
           kept == IF full THEN Tail(udp_queue) ELSE udp_queue
<1>1. /\ Len(sender) < MaxDatagrams /\ free > 0
      /\ sender' = Append(sender, c)
      /\ long' \in {long, long \union {n}}
      /\ udp_queue' = Append(kept, n)
      /\ free' = IF full THEN free ELSE free - 1
      /\ UNCHANGED <<udp_pc, udp_rx, udp_tx, driver, replies>>
  BY DEF DatagramArrives
<1>2. Len(udp_queue) <= UdpQueue /\ UdpQueue \in Nat \ {0} /\ MaxDatagrams \in Nat
  BY EchoServerAssumption DEF UdpInv, UdpTypes
<1>3. n \in Datagram /\ n \in Nat
  <2>1. Len(sender) \in Nat
    BY UdpSequences
  <2> QED BY <1>1, <1>2, <2>1 DEF Datagram
<1>4. /\ sender' \in Seq(Client) /\ Len(sender') = n
      /\ \A i \in 1..Len(sender) : sender'[i] = sender[i]
  BY <1>1, UdpSequences, OneMore
<1>5. /\ kept \in Seq(Datagram) /\ Len(kept) \in Nat
      /\ Len(kept) = IF full THEN Len(udp_queue) - 1 ELSE Len(udp_queue)
      /\ \E d \in {0, 1} : \A i \in 1..Len(kept) :
           i + d \in 1..Len(udp_queue) /\ kept[i] = udp_queue[i + d]
  <2>0. udp_queue \in Seq(Datagram) /\ Len(udp_queue) \in Nat
    BY UdpSequences
  <2>1. CASE full
    <3>1. udp_queue # <<>> /\ kept = Tail(udp_queue)
      BY <1>2, <2>1, EmptySeq
    <3>2. /\ Tail(udp_queue) \in Seq(Datagram) /\ Len(Tail(udp_queue)) = Len(udp_queue) - 1
          /\ \A i \in 1..Len(Tail(udp_queue)) :
               i + 1 \in 1..Len(udp_queue) /\ Tail(udp_queue)[i] = udp_queue[i + 1]
          /\ Len(udp_queue) \in Nat \ {0}
      BY <2>0, <3>1, Rest
    <3> HIDE DEF kept
    <3>3. \A i \in 1..Len(kept) : i + 1 \in 1..Len(udp_queue) /\ kept[i] = udp_queue[i + 1]
      BY <3>1, <3>2
    <3>4. kept \in Seq(Datagram) /\ Len(kept) \in Nat /\ Len(kept) = Len(udp_queue) - 1
      BY <3>1, <3>2
    <3> QED BY <2>1, <3>3, <3>4
  <2>2. CASE ~full
    <3>1. kept = udp_queue
      BY <2>2
    <3> HIDE DEF kept, full
    <3>2. \A i \in 1..Len(kept) : i + 0 = i
      OBVIOUS
    <3>3. \A i \in 1..Len(kept) : i + 0 \in 1..Len(udp_queue) /\ kept[i] = udp_queue[i + 0]
      BY <3>1, <3>2
    <3> QED BY <2>0, <2>2, <3>1, <3>3
  <2> QED BY <2>1, <2>2
<1> HIDE DEF kept
<1>6. PICK d \in {0, 1} : \A i \in 1..Len(kept) :
             i + d \in 1..Len(udp_queue) /\ kept[i] = udp_queue[i + d]
  BY <1>5
<1>7. /\ udp_queue' \in Seq(Datagram) /\ Len(udp_queue') = Len(kept) + 1
      /\ DOMAIN udp_queue' = 1..(Len(kept) + 1)
      /\ \A i \in 1..Len(kept) : udp_queue'[i] = kept[i]
      /\ udp_queue'[Len(kept) + 1] = n
  BY <1>1, <1>3, <1>5, OneMore
<1> HIDE DEF n
<1>8. UdpTypes'
  <2>1. Len(udp_queue') <= UdpQueue
    <3>1. Len(kept) + 1 <= UdpQueue
      <4>1. CASE full
        <5>1. Len(kept) + 1 = Len(udp_queue)
          BY <1>5, <4>1, UdpNumbers
        <5> QED BY <1>2, <5>1
      <4>2. CASE ~full
        <5>1. Len(kept) = Len(udp_queue) /\ Len(udp_queue) # UdpQueue
          BY <1>5, <4>2 DEF full
        <5> QED BY <1>2, <5>1, UdpNumbers
      <4> QED BY <4>1, <4>2
    <3> QED BY <1>7, <3>1
  <2>2. long' \subseteq Datagram
    BY <1>1, <1>3 DEF UdpInv, UdpTypes
  <2>3. Len(sender') <= MaxDatagrams
    <3>1. n <= MaxDatagrams
      <4>1. Len(sender) < MaxDatagrams /\ Len(sender) \in Nat
        BY <1>1, UdpNumbers
      <4> QED BY <1>2, <4>1 DEF n
    <3> QED BY <1>4, <3>1
  <2> QED BY <1>1, <1>4, <1>7, <2>1, <2>2, <2>3 DEF UdpInv, UdpTypes
<1>9. UdpPlaces'
  BY <1>1 DEF UdpInv, UdpPlaces
<1>10. /\ Len(kept) \in Nat /\ Len(sender) \in Nat /\ n = Len(sender) + 1
       /\ Len(sender') = n /\ DOMAIN udp_queue' = 1..(Len(kept) + 1)
       /\ udp_queue'[Len(kept) + 1] = n
       /\ \A i \in 1..Len(kept) :
            /\ i + d \in DOMAIN udp_queue /\ udp_queue'[i] = udp_queue[i + d]
            /\ udp_queue[i + d] \in Nat \ {0} /\ udp_queue[i + d] <= Len(sender)
            /\ udp_rx < udp_queue[i + d]
            /\ \A j \in 1..Len(kept) : i < j => udp_queue[i + d] < udp_queue[j + d]
  <2>1. \A i, j \in 1..Len(kept) : i < j => i + d < j + d
    OBVIOUS
  <2>2. \A i \in 1..Len(kept) : i + d \in DOMAIN udp_queue /\ udp_queue'[i] = udp_queue[i + d]
    BY <1>6, <1>7, UdpSequences
  <2>3. \A i \in 1..Len(kept) : /\ udp_queue[i + d] \in Nat \ {0}
                               /\ udp_queue[i + d] <= Len(sender)
                               /\ udp_rx < udp_queue[i + d]
    BY <2>2, UdpNumbers DEF UdpInv, InOrder
  <2>4. \A i, j \in 1..Len(kept) : i < j => udp_queue[i + d] < udp_queue[j + d]
    BY <2>1, <2>2 DEF UdpInv, InOrder
  <2> QED BY <1>4, <1>5, <1>7, <2>2, <2>3, <2>4, UdpSequences DEF n
<1>11. udp_rx \in Nat /\ udp_rx <= Len(sender) /\ udp_rx' = udp_rx
  BY <1>1, UdpNumbers DEF UdpInv, InOrder
<1>12. ASSUME NEW k \in DOMAIN replies
       PROVE  /\ replies[k].data \in 1..Len(sender)
              /\ replies[k].data <= Len(sender')
              /\ \A i \in DOMAIN udp_queue' : replies[k].data < udp_queue'[i]
  <2>1. replies[k].data \in Nat \ {0} /\ replies[k].data <= Len(sender)
    BY UdpNumbers DEF UdpInv, InOrder
  <2>2. \A i \in 1..Len(kept) : replies[k].data < udp_queue'[i]
    BY <1>10 DEF UdpInv, InOrder
  <2>3. /\ n = Len(sender) + 1 /\ Len(sender') = n /\ Len(sender) \in Nat
        /\ Len(kept) \in Nat /\ DOMAIN udp_queue' = 1..(Len(kept) + 1)
        /\ udp_queue'[Len(kept) + 1] = n
    BY <1>10
  <2>4. /\ replies[k].data \in 1..Len(sender) /\ replies[k].data <= Len(sender')
        /\ replies[k].data < udp_queue'[Len(kept) + 1]
    BY <2>1, <2>3
  <2>5. ASSUME NEW i \in DOMAIN udp_queue' PROVE replies[k].data < udp_queue'[i]
    BY <2>2, <2>3, <2>4
  <2> QED BY <2>4, <2>5
<1>13. InOrder'
  <2>1. ASSUME NEW i \in DOMAIN udp_queue'
        PROVE  udp_queue'[i] <= Len(sender') /\ udp_rx' < udp_queue'[i]
    BY <1>10, <1>11
  <2>2. ASSUME NEW i \in DOMAIN udp_queue', NEW j \in DOMAIN udp_queue', i < j
        PROVE  udp_queue'[i] < udp_queue'[j]
    <3>1. i \in 1..Len(kept) /\ (j \in 1..Len(kept) \/ j = Len(kept) + 1)
      BY <1>10, <2>2
    <3> QED BY <1>10, <2>2, <3>1
  <2>3. udp_rx' <= Len(sender')
    BY <1>10, <1>11
  <2> QED BY <1>1, <1>12, <2>1, <2>2, <2>3 DEF UdpInv, InOrder
<1>14. RepliesMatch'
  <2>1. ASSUME NEW k \in DOMAIN replies PROVE replies[k].to = sender'[replies[k].data]
    BY <1>4, <1>12 DEF UdpInv, RepliesMatch
  <2> QED BY <1>1, <2>1 DEF UdpInv, RepliesMatch
<1>15. free' \in Nat /\ free' + UdpPackets' = free + UdpPackets
  <2>1. Holds(udp_pc)' = Holds(udp_pc) /\ driver' = driver
    BY <1>1 DEF Holds
  <2>2. CASE full
    <3>1. free' = free /\ Len(udp_queue') = Len(udp_queue)
      BY <1>1, <1>5, <1>7, <2>2, UdpNumbers
    <3> QED BY <2>1, <3>1 DEF UdpPackets
  <2>3. CASE ~full
    <3>1. free' = free - 1 /\ Len(udp_queue') = Len(udp_queue) + 1 /\ free > 0
      BY <1>1, <1>5, <1>7, <2>3
    <3> QED BY <2>1, <3>1, UdpNumbers DEF UdpPackets
  <2> QED BY <2>2, <2>3
<1> QED BY <1>8, <1>9, <1>13, <1>14, <1>15 DEF UdpInv
\* A reply has left the board.
LEMMA TransmittedStep ==
  ASSUME UdpInv, free \in Nat, Transmitted
  PROVE  UdpInv' /\ free' \in Nat /\ free' + UdpPackets' = free + UdpPackets
<1>1. /\ driver > 0 /\ driver' = driver - 1 /\ free' = free + 1
      /\ UNCHANGED <<sender, long, udp_queue, udp_pc, udp_rx, udp_tx, replies>>
  BY DEF Transmitted
<1>2. driver \in Nat
  BY UdpNumbers
<1>3. UdpTypes'
  BY <1>1, <1>2 DEF UdpInv, UdpTypes
<1>4. UdpPlaces' /\ InOrder' /\ RepliesMatch'
  BY <1>1 DEF UdpInv, UdpPlaces, InOrder, RepliesMatch
<1>5. free' \in Nat /\ free' + UdpPackets' = free + UdpPackets
  <2>1. Holds(udp_pc)' = Holds(udp_pc) /\ Len(udp_queue)' = Len(udp_queue)
    BY <1>1 DEF Holds
  <2>2. UdpPackets' = Len(udp_queue) + (driver - 1) + Holds(udp_pc)
    BY <1>1, <2>1 DEF UdpPackets
  <2>3. free' = free + 1
    BY <1>1
  <2> QED BY <2>2, <2>3, UdpNumbers DEF UdpPackets
<1> QED BY <1>3, <1>4, <1>5 DEF UdpInv

\* nx_udp_socket_receive: the thread gets a datagram younger than all it has
\* answered, and older than those that are left.
LEMMA UdpReceiveStep ==
  ASSUME UdpInv, free \in Nat, UdpReceive
  PROVE  UdpInv' /\ free' \in Nat /\ free' + UdpPackets' = free + UdpPackets
<1>1. /\ udp_pc = "receive" /\ udp_queue # <<>>
      /\ udp_rx' = Head(udp_queue) /\ udp_queue' = Tail(udp_queue)
      /\ udp_pc' = "allocate"
      /\ UNCHANGED <<free, sender, long, udp_tx, driver, replies>>
  BY DEF UdpReceive
<1>2. /\ udp_rx' = udp_queue[1] /\ udp_queue[1] \in Datagram
      /\ udp_queue' \in Seq(Datagram) /\ Len(udp_queue') = Len(udp_queue) - 1
      /\ DOMAIN udp_queue' = 1..Len(udp_queue') /\ Len(udp_queue) \in Nat \ {0}
      /\ \A i \in 1..Len(udp_queue') : /\ i + 1 \in 1..Len(udp_queue)
                                       /\ udp_queue'[i] = udp_queue[i + 1]
  BY <1>1, UdpSequences, Rest
<1>3. UdpTypes'
  <2>1. Len(udp_queue) - 1 <= UdpQueue
    BY <1>2, EchoServerAssumption DEF UdpInv, UdpTypes
  <2> QED BY <1>1, <1>2, <2>1 DEF UdpInv, UdpTypes
<1>4. UdpPlaces'
  BY <1>1, <1>2 DEF UdpInv, UdpPlaces, Datagram, Nothing
<1>5. InOrder' /\ RepliesMatch'
  <2>1. 1 \in DOMAIN udp_queue
    BY <1>2, UdpSequences
  <2>2. \A i \in DOMAIN udp_queue' :
          i + 1 \in DOMAIN udp_queue /\ 1 < i + 1 /\ udp_queue'[i] = udp_queue[i + 1]
    BY <1>2, UdpSequences
  <2>3. \A i, j \in DOMAIN udp_queue' : i < j => i + 1 < j + 1
    BY <1>2
  <2>4. udp_rx' <= Len(sender')
    BY <1>1, <1>2, <2>1 DEF UdpInv, InOrder
  <2>5. \A i \in DOMAIN udp_queue' : udp_queue'[i] <= Len(sender') /\ udp_rx' < udp_queue'[i]
    BY <1>1, <1>2, <2>1, <2>2 DEF UdpInv, InOrder
  <2>6. \A i, j \in DOMAIN udp_queue' : i < j => udp_queue'[i] < udp_queue'[j]
    BY <2>2, <2>3 DEF UdpInv, InOrder
  <2>7. ASSUME NEW k \in DOMAIN replies'
        PROVE  /\ replies'[k].data <= Len(sender')
               /\ \A i \in DOMAIN udp_queue' : replies'[k].data < udp_queue'[i]
               /\ replies'[k].data < udp_rx'
    BY <1>1, <1>2, <2>1, <2>2 DEF UdpInv, InOrder
  <2> QED BY <1>1, <2>4, <2>5, <2>6, <2>7 DEF UdpInv, InOrder, RepliesMatch
<1>6. free' \in Nat /\ free' + UdpPackets' = free + UdpPackets
  BY <1>1, <1>2, UdpNumbers DEF UdpPackets, Holds
<1> QED BY <1>3, <1>4, <1>5, <1>6 DEF UdpInv

\* The packet for the reply, or none, and none sent; the datagram given back.
LEMMA UdpPacketStep ==
  ASSUME UdpInv, free \in Nat, UdpAllocate \/ UdpNotSent \/ UdpRelease
  PROVE  UdpInv' /\ free' \in Nat /\ free' + UdpPackets' = free + UdpPackets
<1>1. UNCHANGED <<sender, long, udp_queue, driver, replies>>
  BY DEF UdpAllocate, UdpNotSent, UdpRelease
<1>2. \/ /\ udp_pc = "allocate" /\ free > 0 /\ free' = free - 1 /\ udp_tx' = TRUE
         /\ udp_pc' = "send" /\ udp_rx' = udp_rx
      \/ /\ udp_pc = "allocate" /\ free' = free /\ udp_tx' = udp_tx
         /\ udp_pc' = "release" /\ udp_rx' = udp_rx
      \/ /\ udp_pc = "send" /\ free' = free + 1 /\ udp_tx' = FALSE
         /\ udp_pc' = "release" /\ udp_rx' = udp_rx
      \/ /\ udp_pc = "release" /\ free' = free + 1 /\ udp_tx' = udp_tx
         /\ udp_pc' = "receive" /\ udp_rx' = Nothing
  BY DEF UdpAllocate, UdpNotSent, UdpRelease
<1>3. /\ udp_pc' \in {"receive", "allocate", "send", "release"}
      /\ udp_rx' \in {udp_rx, Nothing}
  BY <1>2
<1>4. UdpPlaces'
  <2>1. udp_rx' # Nothing <=> udp_pc' \in {"allocate", "send", "release"}
    BY <1>2 DEF UdpInv, UdpPlaces
  <2>2. udp_tx <=> udp_pc = "send"
    BY DEF UdpInv, UdpPlaces
  <2>3. \/ udp_tx' = TRUE /\ udp_pc' = "send"
        \/ udp_tx' = udp_tx /\ udp_pc' # "send" /\ udp_pc # "send"
        \/ udp_tx' = FALSE /\ udp_pc' # "send"
    BY <1>2
  <2>4. udp_tx' <=> udp_pc' = "send"
    BY <2>2, <2>3, Zenon
  <2> QED BY <2>1, <2>4 DEF UdpPlaces
<1>5. udp_tx' \in BOOLEAN
  BY <1>2, Zenon DEF UdpInv, UdpTypes
<1>6. UdpTypes'
  BY <1>1, <1>3, <1>5 DEF UdpInv, UdpTypes
<1>7. InOrder' /\ RepliesMatch'
  <2>1. udp_rx' = udp_rx \/ udp_rx' = 0
    BY <1>3 DEF Nothing
  <2>2. udp_rx' <= Len(sender') /\ \A i \in DOMAIN udp_queue' : udp_rx' < udp_queue'[i]
    BY <1>1, <2>1, UdpNumbers DEF UdpInv, InOrder
  <2>3. udp_pc' \in {"allocate", "send"} =>
          udp_pc \in {"allocate", "send"} /\ udp_rx' = udp_rx
    BY <1>2
  <2> QED BY <1>1, <2>2, <2>3 DEF UdpInv, InOrder, RepliesMatch
<1>8. free' \in Nat /\ free' + UdpPackets' = free + UdpPackets
  <2>1. Len(udp_queue)' = Len(udp_queue) /\ driver' = driver
    BY <1>1
  <2>2. \/ free > 0 /\ free' = free - 1 /\ Holds(udp_pc)' = Holds(udp_pc) + 1
        \/ free' = free /\ Holds(udp_pc)' = Holds(udp_pc)
        \/ free' = free + 1 /\ Holds(udp_pc)' = Holds(udp_pc) - 1
    BY <1>2 DEF Holds
  <2>3. /\ Holds(udp_pc) \in Nat /\ Holds(udp_pc)' \in Nat
        /\ Len(udp_queue) \in Nat /\ driver \in Nat
    <3>1. Holds(udp_pc) \in Nat /\ Holds(udp_pc)' \in Nat
      BY DEF Holds
    <3>2. Len(udp_queue) \in Nat /\ driver \in Nat
      BY UdpNumbers
    <3> QED BY <3>1, <3>2
  <2>4. UdpPackets = Len(udp_queue) + driver + Holds(udp_pc)
    BY DEF UdpPackets
  <2>5. UdpPackets' = Len(udp_queue) + driver + Holds(udp_pc)'
    BY <2>1 DEF UdpPackets
  <2>6. free' \in Nat
    BY <2>2
  <2>7. free' + Holds(udp_pc)' = free + Holds(udp_pc)
    BY <2>2, <2>3
  <2>8. \A q, d, f, g, h, k \in Nat :
          g + k = f + h => g + (q + d + k) = f + (q + d + h)
    OBVIOUS
  <2>9. free' + (Len(udp_queue) + driver + Holds(udp_pc)')
          = free + (Len(udp_queue) + driver + Holds(udp_pc))
    BY <2>3, <2>6, <2>7, <2>8
  <2> QED BY <2>4, <2>5, <2>6, <2>9, Zenon
<1> QED BY <1>4, <1>6, <1>7, <1>8 DEF UdpInv

\* nx_udp_socket_send: the reply goes to the peer of the datagram.
LEMMA UdpSendStep ==
  ASSUME UdpInv, free \in Nat, UdpSend
  PROVE  UdpInv' /\ free' \in Nat /\ free' + UdpPackets' = free + UdpPackets
<1> DEFINE reply == [to |-> Peer(udp_rx), data |-> udp_rx]
<1>1. /\ udp_pc = "send" /\ replies' = Append(replies, reply)
      /\ driver' = driver + 1 /\ udp_tx' = FALSE /\ udp_pc' = "release"
      /\ UNCHANGED <<free, sender, long, udp_queue, udp_rx>>
  BY DEF UdpSend
<1>2. udp_rx \in Datagram /\ udp_rx \in 1..Len(sender) /\ udp_rx \in Nat
  <2>1. udp_rx \in Datagram
    BY <1>1 DEF UdpInv, UdpTypes, UdpPlaces
  <2> QED BY <2>1, UdpNumbers DEF Datagram, UdpInv, InOrder
<1>3. /\ reply \in [to : Client, data : Datagram]
      /\ reply.to = sender[udp_rx] /\ reply.data = udp_rx
  <2>1. sender[udp_rx] \in Client
    BY <1>2, UdpSequences, Elements
  <2> QED BY <1>2, <2>1 DEF Peer
<1> HIDE DEF reply
<1>4. /\ replies' \in Seq([to : Client, data : Datagram])
      /\ Len(replies') = Len(replies) + 1 /\ DOMAIN replies' = 1..(Len(replies) + 1)
      /\ \A k \in 1..Len(replies) : replies'[k] = replies[k]
      /\ replies'[Len(replies) + 1] = reply
  BY <1>1, <1>3, UdpSequences, OneMore
<1>5. UdpTypes'
  <2>1. udp_tx' \in BOOLEAN
    BY <1>1, Zenon
  <2>2. driver' \in Nat
    BY <1>1, UdpNumbers
  <2> QED BY <1>1, <1>4, <2>1, <2>2 DEF UdpInv, UdpTypes
<1>6. UdpPlaces'
  BY <1>1 DEF UdpInv, UdpPlaces
<1>7. ASSUME NEW k \in DOMAIN replies'
      PROVE  \/ k \in DOMAIN replies /\ replies'[k] = replies[k]
             \/ k = Len(replies) + 1 /\ replies'[k] = reply
  BY <1>4, UdpSequences
<1>8. InOrder'
  <2>1. ASSUME NEW k \in DOMAIN replies'
        PROVE  /\ replies'[k].data <= Len(sender)
               /\ \A i \in DOMAIN udp_queue : replies'[k].data < udp_queue[i]
    <3>1. CASE k \in DOMAIN replies /\ replies'[k] = replies[k]
      BY <3>1 DEF UdpInv, InOrder
    <3>2. CASE k = Len(replies) + 1 /\ replies'[k] = reply
      BY <1>3, <3>2 DEF UdpInv, InOrder
    <3> QED BY <1>7, <3>1, <3>2
  <2> QED BY <1>1, <2>1 DEF UdpInv, InOrder
<1>9. RepliesMatch'
  <2>1. ASSUME NEW k \in DOMAIN replies'
        PROVE  replies'[k].to = sender'[replies'[k].data]
    <3>1. CASE k \in DOMAIN replies /\ replies'[k] = replies[k]
      BY <1>1, <3>1 DEF UdpInv, RepliesMatch
    <3>2. CASE replies'[k] = reply
      BY <1>1, <1>3, <3>2
    <3> QED BY <1>7, <3>1, <3>2
  <2>2. ASSUME NEW k \in 2..(Len(replies) + 1)
        PROVE  replies'[k - 1].data < replies'[k].data
    <3>1. k - 1 \in 1..Len(replies) /\ replies'[k - 1] = replies[k - 1]
      BY <1>4, UdpSequences
    <3>2. CASE k = Len(replies) + 1
      BY <1>1, <1>3, <1>4, <3>1, <3>2, UdpSequences DEF UdpInv, InOrder
    <3>3. CASE k # Len(replies) + 1
      <4>1. k \in 2..Len(replies) /\ replies'[k] = replies[k]
        BY <1>4, <3>3, UdpSequences
      <4> QED BY <3>1, <4>1 DEF UdpInv, RepliesMatch
    <3> QED BY <3>2, <3>3
  <2> QED BY <1>4, <2>1, <2>2 DEF RepliesMatch
<1>10. free' \in Nat /\ free' + UdpPackets' = free + UdpPackets
  BY <1>1, UdpNumbers DEF UdpPackets, Holds
<1> QED BY <1>5, <1>6, <1>8, <1>9, <1>10 DEF UdpInv
\* What the TCP half does does not concern the UDP half.
LEMMA UdpKept ==
  ASSUME UdpInv, UNCHANGED udp
  PROVE  UdpInv' /\ UdpPackets' = UdpPackets
BY DEF udp, UdpInv, UdpTypes, UdpPlaces, InOrder, RepliesMatch, UdpPackets, Holds

-----------------------------------------------------------------------------
(* The TCP half, step by step.                                             *)

\* The segments of a connection that are on the board, oldest first: echoed,
\* held by the thread, queued.
Held == IF tcp_pc \in {"allocate", "send"} THEN <<tcp_rx>> ELSE <<>>
Flow == (echoed \o Held) \o tcp_queue

\* A segment more at the end of the flow.
LEMMA ConcatAppend ==
  ASSUME NEW S, NEW s \in Seq(S), NEW t \in Seq(S), NEW e \in S
  PROVE  s \o Append(t, e) = Append(s \o t, e)
<1> DEFINE h == <<e>>
<1>1. /\ Append(t, e) = t \o h /\ s \o t \in Seq(S)
      /\ Append(s \o t, e) = (s \o t) \o h /\ h \in Seq(S)
  BY AppendIsConcat, ConcatProperties
<1> HIDE DEF h
<1>2. (s \o t) \o h = s \o (t \o h)
  BY <1>1, ConcatAssociative
<1> QED BY <1>1, <1>2

\* The list of the first segments, and of one more.
LEMMA CountUp ==
  ASSUME NEW n \in Nat
  PROVE  /\ Append([i \in 1..n |-> i], n + 1) = [i \in 1..(n + 1) |-> i]
         /\ [i \in 1..0 |-> i] = <<>>
<1> DEFINE s == [i \in 1..n |-> i]
           t == [i \in 1..(n + 1) |-> i]
<1>1. s \in Seq(Nat) /\ Len(s) = n /\ \A i \in 1..n : s[i] = i
  OBVIOUS
<1>2. t \in Seq(Nat) /\ Len(t) = n + 1 /\ \A i \in 1..(n + 1) : t[i] = i
  OBVIOUS
<1> HIDE DEF s, t
<1>3. /\ Append(s, n + 1) \in Seq(Nat) /\ Len(Append(s, n + 1)) = n + 1
      /\ \A i \in 1..n : Append(s, n + 1)[i] = s[i]
      /\ Append(s, n + 1)[n + 1] = n + 1
  BY <1>1, OneMore
<1>4. \A i \in 1..(n + 1) : Append(s, n + 1)[i] = t[i]
  BY <1>1, <1>2, <1>3
<1>5. Append(s, n + 1) = t
  BY <1>2, <1>3, <1>4, SeqEqual
<1>6. [i \in 1..0 |-> i] = <<>>
  OBVIOUS
<1> QED BY <1>5, <1>6 DEF s, t

\* What the TCP steps look at: sequences ...
LEMMA TcpSequences ==
  ASSUME TcpInv
  PROVE  /\ tcp_queue \in Seq(Segment) /\ echoed \in Seq(Segment)
         /\ Held \in Seq(Segment) /\ echoed \o Held \in Seq(Segment)
<1>1. tcp_queue \in Seq(Segment) /\ echoed \in Seq(Segment)
  BY DEF TcpInv, TcpTypes
<1>2. Held \in Seq(Segment)
  <2>1. CASE tcp_pc \in {"allocate", "send"}
    <3>1. tcp_rx \in Segment
      BY <2>1 DEF TcpInv, TcpTypes, TcpPlaces
    <3> QED BY <2>1, <3>1 DEF Held
  <2>2. CASE tcp_pc \notin {"allocate", "send"}
    BY <2>2, EmptySeq DEF Held
  <2> QED BY <2>1, <2>2
<1>3. echoed \o Held \in Seq(Segment)
  BY <1>1, <1>2, ConcatProperties, Zenon
<1> QED BY <1>1, <1>2, <1>3

\* ... and numbers.
LEMMA TcpNumbers ==
  ASSUME TcpInv
  PROVE  /\ Len(tcp_queue) \in Nat /\ unacked \in Nat /\ unacked <= TxQueue
         /\ Holds(tcp_pc) \in Nat /\ sent \in Nat /\ TcpPackets \in Nat
<1>1. Len(tcp_queue) \in Nat
  BY TcpSequences, Elements
<1>2. /\ unacked \in Nat /\ unacked <= TxQueue /\ Holds(tcp_pc) \in Nat
      /\ sent \in Nat
  BY EchoServerAssumption DEF TcpInv, TcpTypes, Holds
<1> QED BY <1>1, <1>2 DEF TcpPackets

\* As long as a connection is not reset, nothing of its flow is missing.
LEMMA FlowIs ==
  EchoesAll <=> (socket \in {"established", "close_wait"} =>
                   Flow = [i \in 1 .. sent |-> i])
BY DEF EchoesAll, Flow, Held

\* A connection begins with an empty flow.
LEMMA ConnectStep ==
  ASSUME TcpInv, free \in Nat, Connect
  PROVE  TcpInv' /\ free' \in Nat /\ free' + TcpPackets' = free + TcpPackets
<1>1. /\ tcp_pc = "accept" /\ socket = "listen" /\ connections < MaxConnections
      /\ socket' = "established" /\ connections' = connections + 1
      /\ sent' = 0 /\ echoed' = <<>>
      /\ UNCHANGED <<free, port, tcp_queue, unacked, tcp_pc, tcp_rx, tcp_tx>>
  BY DEF Connect
<1>2. TcpTypes'
  <2>1. sent' \in 0..MaxSegments /\ connections' \in 0..MaxConnections
    BY <1>1, EchoServerAssumption DEF TcpInv, TcpTypes
  <2>2. echoed' \in Seq(Segment)
    BY <1>1, EmptySeq, Zenon
  <2> QED BY <1>1, <2>1, <2>2 DEF TcpInv, TcpTypes
<1>3. TcpPlaces'
  BY <1>1 DEF TcpInv, TcpPlaces
<1>4. EchoesAll'
  <2>1. Flow' = (<<>> \o <<>>) \o <<>>
    BY <1>1 DEF TcpInv, TcpPlaces, Flow, Held
  <2>2. (<<>> \o <<>>) \o <<>> = <<>>
    BY ConcatEmptySeq, EmptySeq
  <2>3. Flow' = [i \in 1..0 |-> i]
    BY <2>1, <2>2, CountUp
  <2> QED BY <1>1, <2>3 DEF EchoesAll, Flow, Held
<1>5. free' \in Nat /\ free' + TcpPackets' = free + TcpPackets
  BY <1>1 DEF TcpPackets, Holds
<1> QED BY <1>2, <1>3, <1>4, <1>5 DEF TcpInv

\* A segment arrives: the flow has one more.
LEMMA SegmentStep ==
  ASSUME TcpInv, free \in Nat, SegmentArrives
  PROVE  TcpInv' /\ free' \in Nat /\ free' + TcpPackets' = free + TcpPackets
<1>1. /\ socket = "established" /\ sent < MaxSegments /\ free > 0
      /\ sent' = sent + 1 /\ tcp_queue' = Append(tcp_queue, sent + 1)
      /\ free' = free - 1
      /\ UNCHANGED <<port, socket, connections, unacked, echoed, tcp_pc, tcp_rx, tcp_tx>>
  BY DEF SegmentArrives
<1>2. sent + 1 \in Segment /\ sent + 1 \in 0..MaxSegments
  BY <1>1, TcpNumbers, EchoServerAssumption DEF Segment
<1>3. tcp_queue' \in Seq(Segment) /\ Len(tcp_queue') = Len(tcp_queue) + 1
  BY <1>1, <1>2, TcpSequences, OneMore
<1>4. TcpTypes'
  BY <1>1, <1>2, <1>3 DEF TcpInv, TcpTypes
<1>5. TcpPlaces'
  BY <1>1 DEF TcpInv, TcpPlaces
<1>6. EchoesAll'
  <2>1. Held' = Held /\ echoed' = echoed
    BY <1>1 DEF Held
  <2>2. Flow' = (echoed \o Held) \o Append(tcp_queue, sent + 1)
    BY <1>1, <2>1 DEF Flow
  <2>3. Flow' = Append(Flow, sent + 1)
    BY <1>2, <2>2, TcpSequences, ConcatAppend DEF Flow
  <2>4. Flow = [i \in 1 .. sent |-> i]
    BY <1>1, FlowIs DEF TcpInv
  <2>5. Flow' = [i \in 1 .. (sent + 1) |-> i]
    BY <2>3, <2>4, CountUp, TcpNumbers
  <2> QED BY <1>1, <2>5 DEF EchoesAll, Flow, Held
<1>7. free' \in Nat /\ free' + TcpPackets' = free + TcpPackets
  <2>1. Holds(tcp_pc)' = Holds(tcp_pc) /\ unacked' = unacked
    BY <1>1 DEF Holds
  <2>2. TcpPackets' = (Len(tcp_queue) + 1) + unacked + Holds(tcp_pc)
    BY <1>3, <2>1 DEF TcpPackets
  <2> QED BY <1>1, <2>2, TcpNumbers DEF TcpPackets
<1> QED BY <1>4, <1>5, <1>6, <1>7 DEF TcpInv
\* Where the segments stay in their places, or there is no connection left,
\* nothing of the flow is missing.
LEMMA FlowKept ==
  ASSUME TcpInv,
         \/ socket' \notin {"established", "close_wait"}
         \/ /\ socket \in {"established", "close_wait"}
            /\ sent' = sent /\ Flow' = Flow
  PROVE  EchoesAll'
<1>1. CASE socket' \notin {"established", "close_wait"}
  BY <1>1 DEF EchoesAll
<1>2. CASE socket \in {"established", "close_wait"} /\ sent' = sent /\ Flow' = Flow
  <2>1. Flow' = [i \in 1 .. sent |-> i]
    BY <1>2, FlowIs DEF TcpInv
  <2> QED BY <1>2, <2>1 DEF EchoesAll, Flow, Held
<1> QED BY <1>1, <1>2

\* The client acknowledges, closes or resets.
LEMMA ClientStep ==
  ASSUME TcpInv, free \in Nat, Acknowledge \/ Close \/ Reset
  PROVE  TcpInv' /\ free' \in Nat /\ free' + TcpPackets' = free + TcpPackets
<1>1. UNCHANGED <<port, connections, sent, echoed, tcp_pc, tcp_rx, tcp_tx>>
  BY DEF Acknowledge, Close, Reset
<1>2. CASE Acknowledge
  <2>1. /\ unacked > 0 /\ unacked' = unacked - 1 /\ free' = free + 1
        /\ UNCHANGED <<socket, tcp_queue>>
    BY <1>2 DEF Acknowledge
  <2>2. unacked' \in 0..TxQueue
    BY <2>1, TcpNumbers, EchoServerAssumption
  <2>3. TcpTypes' /\ TcpPlaces'
    BY <1>1, <2>1, <2>2 DEF TcpInv, TcpTypes, TcpPlaces
  <2>4. EchoesAll'
    BY <1>1, <2>1 DEF TcpInv, EchoesAll
  <2>5. Holds(tcp_pc)' = Holds(tcp_pc) /\ Len(tcp_queue)' = Len(tcp_queue)
    BY <1>1, <2>1 DEF Holds
  <2>6. TcpPackets' = Len(tcp_queue) + (unacked - 1) + Holds(tcp_pc)
    BY <2>1, <2>5 DEF TcpPackets
  <2>7. free' = free + 1
    BY <2>1
  <2>8. TcpPackets' = TcpPackets - 1
    BY <2>6, TcpNumbers DEF TcpPackets
  <2>9. free' \in Nat /\ free' + TcpPackets' = free + TcpPackets
    BY <2>7, <2>8, TcpNumbers
  <2> QED BY <2>3, <2>4, <2>9 DEF TcpInv
<1>3. CASE Close
  <2>1. /\ socket = "established" /\ socket' = "close_wait"
        /\ UNCHANGED <<free, tcp_queue, unacked>>
    BY <1>3 DEF Close
  <2>2. TcpTypes' /\ TcpPlaces'
    BY <1>1, <2>1 DEF TcpInv, TcpTypes, TcpPlaces
  <2>3. EchoesAll'
    BY <1>1, <2>1, FlowKept DEF Flow, Held
  <2>4. free' \in Nat /\ free' + TcpPackets' = free + TcpPackets
    BY <1>1, <2>1 DEF TcpPackets, Holds
  <2> QED BY <2>2, <2>3, <2>4 DEF TcpInv
<1>4. CASE Reset
  <2>1. /\ socket \in {"established", "close_wait"} /\ socket' = "reset"
        /\ free' = free + Len(tcp_queue) + unacked
        /\ tcp_queue' = <<>> /\ unacked' = 0
    BY <1>4 DEF Reset
  <2>2. /\ unacked' \in 0..TxQueue /\ tcp_queue' \in Seq(Segment)
        /\ Len(tcp_queue') = 0
    BY <2>1, EmptySeq, EchoServerAssumption
  <2>3. TcpTypes' /\ TcpPlaces'
    BY <1>1, <2>1, <2>2 DEF TcpInv, TcpTypes, TcpPlaces
  <2>4. EchoesAll'
    BY <2>1, FlowKept
  <2>5. Holds(tcp_pc)' = Holds(tcp_pc)
    BY <1>1 DEF Holds
  <2>6. TcpPackets' = Holds(tcp_pc)
    BY <2>1, <2>2, <2>5, TcpNumbers DEF TcpPackets
  <2>7. free' \in Nat /\ free' + TcpPackets' = free + TcpPackets
    BY <2>1, <2>6, TcpNumbers DEF TcpPackets
  <2> QED BY <2>3, <2>4, <2>7 DEF TcpInv
<1> QED BY <1>2, <1>3, <1>4

\* Between connections, and while one is set up, the thread has no packet.
LEMMA BetweenStep ==
  ASSUME TcpInv, free \in Nat,
         Listen \/ Accept \/ AcceptFails \/ TcpLeft \/ Unaccept \/ Unlisten
  PROVE  TcpInv' /\ free' \in Nat /\ free' + TcpPackets' = free + TcpPackets
<1>1. UNCHANGED <<free, connections, sent, tcp_queue, unacked, echoed, tcp_rx, tcp_tx>>
  BY DEF Listen, Accept, AcceptFails, TcpLeft, Unaccept, Unlisten, conn
<1>2. \/ /\ tcp_pc = "listen" /\ port' = TRUE /\ socket' = "listen"
         /\ tcp_pc' = "accept" /\ socket = "closed"
      \/ tcp_pc = "listen" /\ port' = FALSE /\ socket' = socket /\ tcp_pc' = tcp_pc
      \/ /\ tcp_pc = "accept" /\ socket # "listen" /\ tcp_pc' = "receive"
         /\ port' = port /\ socket' = socket
      \/ /\ tcp_pc = "accept" /\ socket = "listen" /\ socket' = "failed"
         /\ tcp_pc' = "unlisten" /\ port' = port
      \/ /\ tcp_pc = "receive" /\ tcp_queue = <<>> /\ socket # "established"
         /\ tcp_pc' = "disconnect" /\ port' = port /\ socket' = socket
      \/ /\ tcp_pc = "unaccept" /\ socket' = "closed" /\ tcp_pc' = "unlisten"
         /\ port' = port
      \/ /\ tcp_pc = "unlisten" /\ port' = FALSE /\ tcp_pc' = "listen"
         /\ socket' = socket
  BY DEF Listen, Accept, AcceptFails, TcpLeft, Unaccept, Unlisten, conn
<1>3. /\ tcp_pc \in {"listen", "accept", "receive", "unaccept", "unlisten"}
      /\ tcp_pc' \in {"listen", "accept", "receive", "disconnect", "unlisten"}
      /\ socket' \in {socket, "listen", "closed", "failed"}
  BY <1>2
<1>4. TcpTypes'
  <2>1. port' \in BOOLEAN
    BY <1>2, Zenon DEF TcpInv, TcpTypes
  <2> QED BY <1>1, <1>3, <2>1 DEF TcpInv, TcpTypes
<1>5. TcpPlaces'
  BY <1>1, <1>2 DEF TcpInv, TcpPlaces
<1>6. EchoesAll'
  <2>1. Held' = <<>> /\ Held = <<>>
    BY <1>3 DEF Held
  <2>2. Flow' = Flow
    BY <1>1, <2>1 DEF Flow
  <2>3. socket' \in {"established", "close_wait"} => socket' = socket
    BY <1>2
  <2> QED BY <1>1, <2>2, <2>3, FlowKept
<1>7. free' \in Nat /\ free' + TcpPackets' = free + TcpPackets
  <2>1. Holds(tcp_pc)' = Holds(tcp_pc)
    BY <1>3 DEF Holds
  <2> QED BY <1>1, <2>1 DEF TcpPackets
<1> QED BY <1>4, <1>5, <1>6, <1>7 DEF TcpInv

\* nx_tcp_socket_disconnect gives back what is unacknowledged.
LEMMA DisconnectStep ==
  ASSUME TcpInv, free \in Nat, Disconnect
  PROVE  TcpInv' /\ free' \in Nat /\ free' + TcpPackets' = free + TcpPackets
<1>1. /\ tcp_pc = "disconnect" /\ socket' = "disconnected" /\ unacked' = 0
      /\ free' = free + unacked /\ tcp_pc' = "unaccept"
      /\ UNCHANGED <<port, connections, sent, tcp_queue, echoed, tcp_rx, tcp_tx>>
  BY DEF Disconnect
<1>2. unacked' \in 0..TxQueue
  BY <1>1, EchoServerAssumption
<1>3. TcpTypes' /\ TcpPlaces'
  BY <1>1, <1>2 DEF TcpInv, TcpTypes, TcpPlaces
<1>4. EchoesAll'
  BY <1>1, FlowKept
<1>5. free' \in Nat /\ free' + TcpPackets' = free + TcpPackets
  <2>1. Holds(tcp_pc)' = 0 /\ Holds(tcp_pc) = 0 /\ Len(tcp_queue)' = Len(tcp_queue)
    BY <1>1 DEF Holds
  <2> QED BY <1>1, <2>1, TcpNumbers DEF TcpPackets
<1> QED BY <1>3, <1>4, <1>5 DEF TcpInv

\* The packet for the echo; the echo given back, as there is no connection; the
\* segment given back.
LEMMA TcpPacketStep ==
  ASSUME TcpInv, free \in Nat, TcpAllocate \/ TcpNotSent \/ TcpRelease
  PROVE  TcpInv' /\ free' \in Nat /\ free' + TcpPackets' = free + TcpPackets
<1>1. UNCHANGED <<port, socket, connections, sent, tcp_queue, unacked, echoed>>
  BY DEF TcpAllocate, TcpNotSent, TcpRelease, conn
<1>2. \/ /\ tcp_pc = "allocate" /\ free > 0 /\ free' = free - 1 /\ tcp_tx' = TRUE
         /\ tcp_pc' = "send" /\ tcp_rx' = tcp_rx
      \/ /\ tcp_pc = "send" /\ socket = "reset" /\ free' = free + 1
         /\ tcp_tx' = FALSE /\ tcp_pc' = "release" /\ tcp_rx' = tcp_rx
      \/ /\ tcp_pc = "release" /\ free' = free + 1 /\ tcp_tx' = tcp_tx
         /\ tcp_pc' = "receive" /\ tcp_rx' = Nothing
  BY DEF TcpAllocate, TcpNotSent, TcpRelease
<1>3. /\ tcp_pc \in {"allocate", "send", "release"}
      /\ tcp_pc' \in {"receive", "send", "release"} /\ tcp_rx' \in {tcp_rx, Nothing}
  BY <1>2
<1>4. TcpTypes'
  <2>1. tcp_tx' \in BOOLEAN
    BY <1>2, Zenon DEF TcpInv, TcpTypes
  <2> QED BY <1>1, <1>3, <2>1 DEF TcpInv, TcpTypes
<1>5. TcpPlaces'
  <2>1. tcp_rx' # Nothing <=> tcp_pc' \in {"allocate", "send", "release"}
    BY <1>2 DEF TcpInv, TcpPlaces
  <2>2. tcp_tx <=> tcp_pc = "send"
    BY DEF TcpInv, TcpPlaces
  <2>3. \/ tcp_tx' = TRUE /\ tcp_pc' = "send"
        \/ tcp_tx' = tcp_tx /\ tcp_pc' # "send" /\ tcp_pc # "send"
        \/ tcp_tx' = FALSE /\ tcp_pc' # "send"
    BY <1>2
  <2>4. tcp_tx' <=> tcp_pc' = "send"
    BY <2>2, <2>3, Zenon
  <2> QED BY <1>1, <1>3, <2>1, <2>4 DEF TcpInv, TcpPlaces
<1>6. EchoesAll'
  <2>1. CASE socket = "reset"
    BY <1>1, <2>1, FlowKept
  <2>2. CASE socket # "reset"
    <3>1. Held' = Held
      BY <1>2, <2>2 DEF Held
    <3>2. Flow' = Flow
      BY <1>1, <3>1 DEF Flow
    <3> QED BY <1>1, <3>2, FlowKept
  <2> QED BY <2>1, <2>2
<1>7. free' \in Nat /\ free' + TcpPackets' = free + TcpPackets
  <2>1. Len(tcp_queue)' = Len(tcp_queue) /\ unacked' = unacked
    BY <1>1
  <2>2. \/ free > 0 /\ free' = free - 1 /\ Holds(tcp_pc)' = Holds(tcp_pc) + 1
        \/ free' = free + 1 /\ Holds(tcp_pc)' = Holds(tcp_pc) - 1
    BY <1>2 DEF Holds
  <2> QED BY <2>1, <2>2, TcpNumbers DEF TcpPackets
<1> QED BY <1>4, <1>5, <1>6, <1>7 DEF TcpInv

\* nx_tcp_socket_receive: a segment goes from the queue to the thread.
LEMMA TcpReceiveStep ==
  ASSUME TcpInv, free \in Nat, TcpReceive
  PROVE  TcpInv' /\ free' \in Nat /\ free' + TcpPackets' = free + TcpPackets
<1>1. /\ tcp_pc = "receive" /\ tcp_queue # <<>>
      /\ tcp_rx' = Head(tcp_queue) /\ tcp_queue' = Tail(tcp_queue)
      /\ tcp_pc' = "allocate"
      /\ UNCHANGED <<free, port, socket, connections, sent, unacked, echoed, tcp_tx>>
  BY DEF TcpReceive
<1>2. /\ tcp_rx' \in Segment /\ tcp_queue' \in Seq(Segment)
      /\ Len(tcp_queue') = Len(tcp_queue) - 1
  BY <1>1, TcpSequences, Rest
<1>3. TcpTypes'
  BY <1>1, <1>2 DEF TcpInv, TcpTypes
<1>4. TcpPlaces'
  BY <1>1, <1>2 DEF TcpInv, TcpPlaces, Segment, Nothing
<1>5. EchoesAll'
  <2> DEFINE h == <<Head(tcp_queue)>>
  <2>1. Held = <<>> /\ Held' = h
    BY <1>1 DEF Held
  <2>2. h \in Seq(Segment) /\ tcp_queue = h \o Tail(tcp_queue)
    <3>1. /\ Len(tcp_queue) \in Nat \ {0} /\ Head(tcp_queue) = tcp_queue[1]
          /\ tcp_queue \in Seq(Segment) /\ Head(tcp_queue) \in Segment
      BY <1>1, TcpSequences, Rest
    <3>2. 1 \in 1..Len(tcp_queue) /\ Len(tcp_queue) \in 1..Len(tcp_queue)
      BY <3>1
    <3>3. SubSeq(tcp_queue, 1, Len(tcp_queue))
            = <<tcp_queue[1]>> \o SubSeq(tcp_queue, 1 + 1, Len(tcp_queue))
      BY <3>1, <3>2, SubSeqRecursiveFirst, Zenon
    <3>4. /\ SubSeq(tcp_queue, 1, Len(tcp_queue)) = tcp_queue
          /\ Tail(tcp_queue) = SubSeq(tcp_queue, 2, Len(tcp_queue))
      BY <1>1, <3>1, SubSeqFull, TailIsSubSeq, Zenon
    <3> QED BY <3>1, <3>3, <3>4
  <2> HIDE DEF h
  <2>3. /\ echoed \in Seq(Segment) /\ Tail(tcp_queue) \in Seq(Segment)
        /\ echoed \o <<>> = echoed
    BY <1>1, <1>2, TcpSequences, ConcatEmptySeq
  <2>4. (echoed \o h) \o Tail(tcp_queue) = echoed \o (h \o Tail(tcp_queue))
    BY <2>2, <2>3, ConcatAssociative
  <2>5. Flow' = Flow
    BY <1>1, <2>1, <2>2, <2>3, <2>4 DEF Flow
  <2> QED BY <1>1, <2>5, FlowKept DEF TcpInv, TcpPlaces
<1>6. free' \in Nat /\ free' + TcpPackets' = free + TcpPackets
  <2>1. Holds(tcp_pc)' = 1 /\ Holds(tcp_pc) = 0 /\ unacked' = unacked
    BY <1>1 DEF Holds
  <2>2. TcpPackets' = (Len(tcp_queue) - 1) + unacked + 1
    BY <1>2, <2>1 DEF TcpPackets
  <2> QED BY <1>1, <2>1, <2>2, TcpNumbers DEF TcpPackets
<1> QED BY <1>3, <1>4, <1>5, <1>6 DEF TcpInv

\* nx_tcp_socket_send: the segment the thread holds is echoed.
LEMMA TcpSendStep ==
  ASSUME TcpInv, free \in Nat, TcpSend
  PROVE  TcpInv' /\ free' \in Nat /\ free' + TcpPackets' = free + TcpPackets
<1>1. /\ tcp_pc = "send" /\ unacked < TxQueue
      /\ unacked' = unacked + 1 /\ tcp_tx' = FALSE
      /\ echoed' = Append(echoed, tcp_rx) /\ tcp_pc' = "release"
      /\ UNCHANGED <<free, port, socket, connections, sent, tcp_queue, tcp_rx>>
  BY DEF TcpSend
<1>2. tcp_rx \in Segment
  BY <1>1 DEF TcpInv, TcpTypes, TcpPlaces
<1>3. echoed' \in Seq(Segment)
  BY <1>1, <1>2, TcpSequences, OneMore
<1>4. TcpTypes'
  <2>1. unacked' \in 0..TxQueue
    BY <1>1, TcpNumbers, EchoServerAssumption
  <2>2. tcp_tx' \in BOOLEAN
    BY <1>1, Zenon
  <2> QED BY <1>1, <1>3, <2>1, <2>2 DEF TcpInv, TcpTypes
<1>5. TcpPlaces'
  BY <1>1 DEF TcpInv, TcpPlaces
<1>6. EchoesAll'
  <2>1. Held = <<tcp_rx>> /\ Held' = <<>>
    BY <1>1 DEF Held
  <2>2. echoed' = echoed \o Held
    BY <1>1, <1>2, <2>1, TcpSequences, AppendIsConcat
  <2>3. echoed' \o <<>> = echoed'
    BY <1>3, ConcatEmptySeq
  <2>4. Flow' = Flow
    BY <1>1, <2>1, <2>2, <2>3 DEF Flow
  <2> QED BY <1>1, <2>4, FlowKept DEF TcpInv, TcpPlaces
<1>7. free' \in Nat /\ free' + TcpPackets' = free + TcpPackets
  <2>1. /\ Holds(tcp_pc)' = 1 /\ Holds(tcp_pc) = 2
        /\ Len(tcp_queue)' = Len(tcp_queue)
    BY <1>1 DEF Holds
  <2>2. TcpPackets' = Len(tcp_queue) + (unacked + 1) + 1
    BY <1>1, <2>1 DEF TcpPackets
  <2> QED BY <1>1, <2>1, <2>2, TcpNumbers DEF TcpPackets
<1> QED BY <1>4, <1>5, <1>6, <1>7 DEF TcpInv

\* What the UDP half does does not concern the TCP half.
LEMMA TcpKept ==
  ASSUME TcpInv, UNCHANGED tcp
  PROVE  TcpInv' /\ TcpPackets' = TcpPackets
BY DEF tcp, conn, TcpInv, TcpTypes, TcpPlaces, EchoesAll, TcpPackets, Holds
-----------------------------------------------------------------------------
(* The two halves together.                                                *)

\* At the start all packets are free and nothing has arrived.
LEMMA InitInv == Init => Inv
<1> SUFFICES ASSUME Init PROVE Inv
  OBVIOUS
<1> USE EchoServerAssumption
<1>1. /\ free = PoolSize /\ sender = <<>> /\ long = {}
      /\ udp_queue = <<>> /\ udp_pc = "receive" /\ udp_rx = Nothing
      /\ udp_tx = FALSE /\ driver = 0 /\ replies = <<>>
      /\ port = FALSE /\ socket = "closed" /\ connections = 0 /\ sent = 0
      /\ tcp_queue = <<>> /\ tcp_pc = "listen" /\ tcp_rx = Nothing
      /\ tcp_tx = FALSE /\ unacked = 0 /\ echoed = <<>>
  BY DEF Init
<1>2. /\ sender \in Seq(Client) /\ udp_queue \in Seq(Datagram)
      /\ replies \in Seq([to : Client, data : Datagram])
      /\ tcp_queue \in Seq(Segment) /\ echoed \in Seq(Segment)
      /\ Len(sender) = 0 /\ Len(udp_queue) = 0 /\ Len(tcp_queue) = 0
      /\ DOMAIN udp_queue = {} /\ DOMAIN replies = {} /\ Len(replies) = 0
  BY <1>1, EmptySeq
<1>3. udp_tx \in BOOLEAN /\ port \in BOOLEAN /\ tcp_tx \in BOOLEAN
  BY <1>1, Zenon
<1>4. UdpInv
  <2>1. UdpTypes
    BY <1>1, <1>2, <1>3 DEF UdpTypes
  <2>2. UdpPlaces
    BY <1>1 DEF UdpPlaces
  <2>3. InOrder /\ RepliesMatch
    BY <1>1, <1>2 DEF InOrder, RepliesMatch, Nothing
  <2> QED BY <2>1, <2>2, <2>3 DEF UdpInv
<1>5. TcpInv
  <2>1. TcpTypes
    BY <1>1, <1>2, <1>3 DEF TcpTypes
  <2>2. TcpPlaces /\ EchoesAll
    BY <1>1 DEF TcpPlaces, EchoesAll
  <2> QED BY <2>1, <2>2 DEF TcpInv
<1>6. free \in Nat /\ PoolSize = free + UdpPackets + TcpPackets
  BY <1>1, <1>2 DEF UdpPackets, TcpPackets, Holds
<1> QED BY <1>4, <1>5, <1>6 DEF Inv

\* Packets are counted.
TcpCounted == TcpPackets \in Nat

\* ... in every state of the TCP half.
LEMMA TcpCount == TcpInv => TcpCounted
BY TcpNumbers DEF TcpCounted

\* The order of the halves does not matter.
LEMMA Regroup ==
  ASSUME NEW f \in Nat, NEW u \in Nat, NEW t \in Nat, NEW s, f + t = s
  PROVE  (f + u) + t = s + u
OBVIOUS

\* Packets counted by the places where they are.
LEMMA Parts ==
  ASSUME NEW p, NEW f \in Nat, NEW q \in Nat, NEW d \in Nat, NEW t \in Nat, NEW u \in Nat,
         NEW a \in Nat, NEW b \in Nat, NEW c \in Nat, NEW e \in Nat,
         NEW h \in Nat, NEW k \in Nat, a + b = h, c + e = k,
         p = (f + (q + d + h)) + (t + u + k)
  PROVE  /\ p = f + q + t + d + u + a + b + c + e
         /\ f \in 0..p /\ d \in 0..p
OBVIOUS

\* A step of one half moves packets between it and the pool, and leaves those
\* of the other half where they are.
LEMMA InvStep ==
  ASSUME Inv, [Next]_vars
  PROVE  Inv'
<1>1. UdpInv /\ TcpInv /\ free \in Nat /\ PoolSize = (free + UdpPackets) + TcpPackets
  BY DEF Inv
<1>2. UdpPackets \in Nat /\ TcpPackets \in Nat
  BY <1>1, UdpNumbers, TcpNumbers DEF UdpPackets
<1>3. CASE UdpThread \/ Transmitted \/ \E c \in Client : DatagramArrives(c)
  <2>1. UNCHANGED tcp
    BY <1>3 DEF UdpThread, UdpReceive, UdpAllocate, UdpSend, UdpNotSent, UdpRelease,
       Transmitted, DatagramArrives
  <2>2. UdpInv' /\ free' \in Nat /\ free' + UdpPackets' = free + UdpPackets
    BY <1>1, <1>3, DatagramStep, TransmittedStep, UdpReceiveStep, UdpPacketStep,
       UdpSendStep DEF UdpThread
  <2>3. TcpInv' /\ TcpPackets' = TcpPackets
    BY <1>1, <2>1, TcpKept
  <2>4. PoolSize = (free' + UdpPackets') + TcpPackets'
    BY <1>1, <2>2, <2>3, Zenon
  <2> QED BY <2>2, <2>3, <2>4, Zenon DEF Inv
<1>4. CASE TcpThread \/ Connect \/ SegmentArrives \/ Acknowledge \/ Close \/ Reset
  <2>1. UNCHANGED udp
    BY <1>4 DEF TcpThread, Listen, Accept, AcceptFails, TcpReceive, TcpLeft,
       TcpAllocate, TcpSend, TcpNotSent, TcpRelease, Disconnect, Unaccept, Unlisten, Connect,
       SegmentArrives, Acknowledge, Close, Reset
  <2>2. TcpInv' /\ free' \in Nat /\ free' + TcpPackets' = free + TcpPackets
    BY <1>1, <1>4, ConnectStep, SegmentStep, ClientStep, BetweenStep, DisconnectStep,
       TcpPacketStep, TcpReceiveStep, TcpSendStep DEF TcpThread
  <2>3. UdpInv' /\ UdpPackets' = UdpPackets
    BY <1>1, <2>1, UdpKept
  <2>4. TcpCounted'
    BY <2>2, TcpCount, PTL
  <2>5. (free' + UdpPackets) + TcpPackets' = (free + TcpPackets) + UdpPackets
    <3> DEFINE f == free'  t == TcpPackets'  u == UdpPackets  s == free + TcpPackets
    <3>1. f \in Nat /\ t \in Nat /\ u \in Nat /\ f + t = s
      BY <1>2, <2>2, <2>4, Zenon DEF TcpCounted
    <3>2. (f + u) + t = s + u
      <4> HIDE DEF f, t, u, s
      <4> QED BY <3>1, Regroup
    <3> QED BY <3>2
  <2>6. (free + TcpPackets) + UdpPackets = PoolSize
    BY <1>1, <1>2
  <2>7. PoolSize = (free' + UdpPackets') + TcpPackets'
    BY <2>3, <2>5, <2>6, Zenon
  <2> QED BY <2>2, <2>3, <2>7, Zenon DEF Inv
<1>5. CASE UNCHANGED vars
  <2>1. /\ UdpInv' /\ UdpPackets' = UdpPackets /\ free' = free
        /\ TcpInv' /\ TcpPackets' = TcpPackets
    BY <1>1, <1>5, UdpKept, TcpKept DEF vars
  <2> QED BY <1>1, <2>1, Zenon DEF Inv
<1> QED BY <1>3, <1>4, <1>5 DEF Next, Network

\* The invariant holds in every state the program can reach.
THEOREM Invariance == Spec => []Inv
<1>1. Init => Inv
  BY InitInv
<1>2. Inv /\ [Next]_vars => Inv'
  BY InvStep
<1> QED BY <1>1, <1>2, PTL DEF Spec

\* No packet of the pool leaks and none is released twice, on any path through
\* the two threads, for every size of the pool and length of the queues.
THEOREM NoPacketLeaks == Spec => []PacketsAccounted
<1>1. Inv => PacketsAccounted
  <2> SUFFICES ASSUME Inv PROVE PacketsAccounted
    OBVIOUS
  <2>1. UdpInv /\ TcpInv /\ free \in Nat /\ PoolSize = (free + UdpPackets) + TcpPackets
    BY DEF Inv
  <2>2. One(udp_rx # Nothing) + One(udp_tx) = Holds(udp_pc)
    BY <2>1 DEF One, Holds, UdpInv, UdpPlaces
  <2>3. One(tcp_rx # Nothing) + One(tcp_tx) = Holds(tcp_pc)
    BY <2>1 DEF One, Holds, TcpInv, TcpPlaces
  <2>4. /\ One(udp_rx # Nothing) \in Nat /\ One(udp_tx) \in Nat
        /\ One(tcp_rx # Nothing) \in Nat /\ One(tcp_tx) \in Nat
    BY DEF One
  <2> DEFINE a == One(udp_rx # Nothing) b == One(udp_tx)
             c == One(tcp_rx # Nothing) e == One(tcp_tx)
             h == Holds(udp_pc) k == Holds(tcp_pc)
             q == Len(udp_queue) t == Len(tcp_queue)
  <2>a. h \in Nat /\ k \in Nat
    BY DEF Holds
  <2>b. q \in Nat /\ t \in Nat /\ driver \in Nat /\ unacked \in Nat
    BY <2>1, UdpNumbers, TcpNumbers
  <2>c. PoolSize = (free + (q + driver + h)) + (t + unacked + k)
    BY <2>1 DEF UdpPackets, TcpPackets
  <2>d. a \in Nat /\ b \in Nat /\ c \in Nat /\ e \in Nat /\ a + b = h /\ c + e = k
    BY <2>2, <2>3, <2>4
  <2>e. free \in Nat
    BY <2>1
  <2>5. PoolSize = free + q + t + driver + unacked + a + b + c + e
    <3> HIDE DEF a, b, c, e, h, k, q, t
    <3> QED BY <2>a, <2>b, <2>c, <2>d, <2>e, Parts
  <2>6. free \in 0..PoolSize /\ driver \in 0..PoolSize
    <3> HIDE DEF a, b, c, e, h, k, q, t
    <3> QED BY <2>a, <2>b, <2>c, <2>d, <2>e, Parts
  <2>7. TypeOK
    BY <2>1, <2>6 DEF UdpInv, UdpTypes, TcpInv, TcpTypes, TypeOK
  <2> QED BY <2>5, <2>7 DEF PacketsAccounted
<1> QED BY <1>1, Invariance, PTL

\* Each reply goes to the peer of its datagram, and replies leave in the order
\* in which the datagrams came, each once.
THEOREM RepliesReachTheirPeers == Spec => []RepliesMatch
<1>1. Inv => RepliesMatch
  BY DEF Inv, UdpInv
<1> QED BY <1>1, Invariance, PTL

\* The client gets back what it sent, in order and whole, as long as the
\* connection is not reset.
THEOREM EchoIsComplete == Spec => []EchoesAll
<1>1. Inv => EchoesAll
  BY DEF Inv, TcpInv
<1> QED BY <1>1, Invariance, PTL
=============================================================================

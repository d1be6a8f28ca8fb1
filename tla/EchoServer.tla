----------------------------- MODULE EchoServer -----------------------------
(***************************************************************************)
(* The server of MIMXRT1064-EVK/app/demos/netx_echo/main.c: a UDP and a    *)
(* TCP echo thread that share one packet pool with the stack.  A packet is *)
(* in a queue, held by a thread, on its way out, or free; the threads      *)
(* allocate and release by hand.                                           *)
(*                                                                         *)
(* A datagram or segment is its number.  The creation of the sockets,      *)
(* which happens once, and the heartbeat are left out.  A TCP segment is   *)
(* never longer than the threads' buffer, which has the size of the        *)
(* receive window; a datagram may be.  NetX is modelled by what the calls  *)
(* of the threads rely on.                                                 *)
(***************************************************************************)
EXTENDS Integers, Sequences, SequencesExt

CONSTANTS
  Client,         \* UDP peers
  PoolSize,       \* packets of pool_0 that are not in the driver's ring
  UdpQueue,       \* datagrams the UDP socket keeps
  TxQueue,        \* segments that may be unacknowledged
  MaxDatagrams, MaxSegments, MaxConnections  \* bounds of the model; a
                  \* connection carries at most MaxSegments

ASSUME EchoServerAssumption ==
  /\ PoolSize \in Nat /\ UdpQueue \in Nat \ {0} /\ TxQueue \in Nat \ {0}
  /\ MaxDatagrams \in Nat /\ MaxSegments \in Nat /\ MaxConnections \in Nat

Nothing == 0

VARIABLES
  free,                   \* packets in the pool
  sender, long,           \* who sent each datagram, which exceed the buffer?
  udp_queue, udp_pc,
  udp_rx, udp_tx,         \* the datagram the thread holds; and a reply?
  driver,                 \* replies handed to the driver
  replies,                \* what was sent: to whom, which datagram
  port,                   \* is the port listened on?
  socket,                 \* echo_socket
  connections, sent,      \* connections so far, segments of this one
  tcp_queue, tcp_pc,
  tcp_rx, tcp_tx,         \* the segment the thread holds; and an echo?
  unacked,                \* packets sent and not acknowledged
  echoed                  \* segments sent back in this connection

udp  == <<sender, long, udp_queue, udp_pc, udp_rx, udp_tx, driver, replies>>
conn == <<port, socket, connections, sent, tcp_queue, unacked, echoed>>
tcp  == <<conn, tcp_pc, tcp_rx, tcp_tx>>
vars == <<free, udp, tcp>>

Init ==
  /\ free = PoolSize
  /\ sender = <<>> /\ long = {}
  /\ udp_queue = <<>> /\ udp_pc = "receive" /\ udp_rx = Nothing
  /\ udp_tx = FALSE /\ driver = 0 /\ replies = <<>>
  /\ port = FALSE /\ socket = "closed" /\ connections = 0 /\ sent = 0
  /\ tcp_queue = <<>> /\ tcp_pc = "listen" /\ tcp_rx = Nothing
  /\ tcp_tx = FALSE /\ unacked = 0 /\ echoed = <<>>

-----------------------------------------------------------------------------
(* The network and the stack.  A frame for which there is no packet is     *)
(* dropped by the driver.                                                  *)

\* A socket with a full queue gives up its oldest datagram.
DatagramArrives(c) ==
  /\ Len(sender) < MaxDatagrams /\ free > 0
  /\ LET n == Len(sender) + 1
         full == Len(udp_queue) = UdpQueue
     IN  /\ sender' = Append(sender, c)
         /\ long' \in {long, long \union {n}}
         /\ udp_queue' = Append(IF full THEN Tail(udp_queue) ELSE udp_queue, n)
         /\ free' = IF full THEN free ELSE free - 1
  /\ UNCHANGED <<udp_pc, udp_rx, udp_tx, driver, replies, tcp>>

\* A reply has left the board.
Transmitted ==
  /\ driver > 0
  /\ driver' = driver - 1 /\ free' = free + 1
  /\ UNCHANGED <<sender, long, udp_queue, udp_pc, udp_rx, udp_tx, replies, tcp>>

\* A connection is established while the thread waits in accept.
Connect ==
  /\ tcp_pc = "accept" /\ socket = "listen" /\ connections < MaxConnections
  /\ socket' = "established" /\ connections' = connections + 1
  /\ sent' = 0 /\ echoed' = <<>>
  /\ UNCHANGED <<free, udp, port, tcp_queue, unacked, tcp_pc, tcp_rx, tcp_tx>>

SegmentArrives ==
  /\ socket = "established" /\ sent < MaxSegments /\ free > 0
  /\ sent' = sent + 1
  /\ tcp_queue' = Append(tcp_queue, sent + 1)
  /\ free' = free - 1
  /\ UNCHANGED <<udp, port, socket, connections, unacked, echoed,
                 tcp_pc, tcp_rx, tcp_tx>>

Acknowledge ==
  /\ unacked > 0
  /\ unacked' = unacked - 1 /\ free' = free + 1
  /\ UNCHANGED <<udp, port, socket, connections, sent, tcp_queue, echoed,
                 tcp_pc, tcp_rx, tcp_tx>>

\* The client closes; segments that are queued can still be received and
\* echoes sent.
Close ==
  /\ socket = "established" /\ socket' = "close_wait"
  /\ UNCHANGED <<free, udp, port, connections, sent, tcp_queue, unacked,
                 echoed, tcp_pc, tcp_rx, tcp_tx>>

\* The connection is reset, or given up after retransmissions.
Reset ==
  /\ socket \in {"established", "close_wait"} /\ socket' = "reset"
  /\ free' = free + Len(tcp_queue) + unacked
  /\ tcp_queue' = <<>> /\ unacked' = 0
  /\ UNCHANGED <<udp, port, connections, sent, echoed, tcp_pc, tcp_rx, tcp_tx>>

Network ==
  \/ \E c \in Client : DatagramArrives(c)
  \/ Transmitted \/ Connect \/ SegmentArrives \/ Acknowledge \/ Close \/ Reset

-----------------------------------------------------------------------------
(* udp_echo_thread_entry.                                                  *)

UdpReceive ==
  /\ udp_pc = "receive" /\ udp_queue # <<>>
  /\ udp_rx' = Head(udp_queue) /\ udp_queue' = Tail(udp_queue)
  /\ udp_pc' = "allocate"
  /\ UNCHANGED <<free, sender, long, udp_tx, driver, replies, tcp>>

\* Without waiting: when there is no packet, the datagram is not answered.
UdpAllocate ==
  /\ udp_pc = "allocate"
  /\ IF free > 0
     THEN free' = free - 1 /\ udp_tx' = TRUE /\ udp_pc' = "send"
     ELSE udp_pc' = "release" /\ UNCHANGED <<free, udp_tx>>
  /\ UNCHANGED <<sender, long, udp_queue, udp_rx, driver, replies, tcp>>

\* Faulty variant: the reply goes to the peer the socket heard of last.
Peer_Latest(n) == sender[Len(sender)]

\* nx_udp_source_extract: the peer is that of the packet.
Peer(n) == sender[n]

UdpSend ==
  /\ udp_pc = "send" /\ udp_rx \notin long
  /\ replies' = Append(replies, [to |-> Peer(udp_rx), data |-> udp_rx])
  /\ driver' = driver + 1 /\ udp_tx' = FALSE
  /\ udp_pc' = "release"
  /\ UNCHANGED <<free, sender, long, udp_queue, udp_rx, tcp>>

\* The datagram exceeds the buffer, or the send fails.
UdpNotSent ==
  /\ udp_pc = "send"
  /\ udp_tx' = FALSE /\ free' = free + 1
  /\ udp_pc' = "release"
  /\ UNCHANGED <<sender, long, udp_queue, udp_rx, driver, replies, tcp>>

UdpRelease ==
  /\ udp_pc = "release"
  /\ udp_rx' = Nothing /\ free' = free + 1
  /\ udp_pc' = "receive"
  /\ UNCHANGED <<sender, long, udp_queue, udp_tx, driver, replies, tcp>>

UdpThread == UdpReceive \/ UdpAllocate \/ UdpSend \/ UdpNotSent \/ UdpRelease

-----------------------------------------------------------------------------
(* tcp_echo_thread_entry.                                                  *)

\* Refused unless the socket is closed and the port free; then the port is
\* given up and the call repeated after a sleep.
Listen ==
  /\ tcp_pc = "listen"
  /\ IF socket = "closed" /\ ~port
     THEN port' = TRUE /\ socket' = "listen" /\ tcp_pc' = "accept"
     ELSE port' = FALSE /\ UNCHANGED <<socket, tcp_pc>>
  /\ UNCHANGED <<free, udp, connections, sent, tcp_queue, unacked, echoed,
                 tcp_rx, tcp_tx>>

Accept ==
  /\ tcp_pc = "accept" /\ socket # "listen"
  /\ tcp_pc' = "receive"
  /\ UNCHANGED <<free, udp, conn, tcp_rx, tcp_tx>>

\* The client is gone before the connection is established: no disconnect and no
\* unaccept, so the socket is not closed, and stays so.
AcceptFails ==
  /\ tcp_pc = "accept" /\ socket = "listen"
  /\ socket' = "failed" /\ tcp_pc' = "unlisten"
  /\ UNCHANGED <<free, udp, port, connections, sent, tcp_queue, unacked, echoed,
                 tcp_rx, tcp_tx>>

TcpReceive ==
  /\ tcp_pc = "receive" /\ tcp_queue # <<>>
  /\ tcp_rx' = Head(tcp_queue) /\ tcp_queue' = Tail(tcp_queue)
  /\ tcp_pc' = "allocate"
  /\ UNCHANGED <<free, udp, port, socket, connections, sent, unacked, echoed,
                 tcp_tx>>

\* The receive fails: the client has left, and nothing is queued.
TcpLeft ==
  /\ tcp_pc = "receive" /\ tcp_queue = <<>> /\ socket # "established"
  /\ tcp_pc' = "disconnect"
  /\ UNCHANGED <<free, udp, conn, tcp_rx, tcp_tx>>

\* Faulty variant: without waiting, as in the UDP thread.
TcpAllocate_NoWait ==
  /\ tcp_pc = "allocate"
  /\ IF free > 0
     THEN free' = free - 1 /\ tcp_tx' = TRUE /\ tcp_pc' = "send"
     ELSE tcp_pc' = "release" /\ UNCHANGED <<free, tcp_tx>>
  /\ UNCHANGED <<udp, conn, tcp_rx>>

\* Waits for ever for a packet.
TcpAllocate ==
  /\ tcp_pc = "allocate" /\ free > 0
  /\ free' = free - 1 /\ tcp_tx' = TRUE /\ tcp_pc' = "send"
  /\ UNCHANGED <<udp, conn, tcp_rx>>

\* Waits for ever for room in the transmit queue.
TcpSend ==
  /\ tcp_pc = "send" /\ socket # "reset" /\ unacked < TxQueue
  /\ unacked' = unacked + 1 /\ tcp_tx' = FALSE
  /\ echoed' = Append(echoed, tcp_rx)
  /\ tcp_pc' = "release"
  /\ UNCHANGED <<free, udp, port, socket, connections, sent, tcp_queue, tcp_rx>>

\* Faulty variant: the result of the send is ignored, as in the netx_echo of
\* the STM32F767ZI-Nucleo.
TcpNotSent_Leaks ==
  /\ tcp_pc = "send" /\ socket = "reset"
  /\ tcp_tx' = FALSE /\ UNCHANGED free
  /\ tcp_pc' = "release"
  /\ UNCHANGED <<udp, conn, tcp_rx>>

\* A send on a connection that is gone fails, and the packet stays ours.
TcpNotSent ==
  /\ tcp_pc = "send" /\ socket = "reset"
  /\ tcp_tx' = FALSE /\ free' = free + 1
  /\ tcp_pc' = "release"
  /\ UNCHANGED <<udp, conn, tcp_rx>>

TcpRelease ==
  /\ tcp_pc = "release"
  /\ tcp_rx' = Nothing /\ free' = free + 1
  /\ tcp_pc' = "receive"
  /\ UNCHANGED <<udp, conn, tcp_tx>>

\* What is still unacknowledged is given back when the disconnect returns.
Disconnect ==
  /\ tcp_pc = "disconnect"
  /\ socket' = "disconnected"
  /\ unacked' = 0 /\ free' = free + unacked
  /\ tcp_pc' = "unaccept"
  /\ UNCHANGED <<udp, port, connections, sent, tcp_queue, echoed, tcp_rx, tcp_tx>>

\* Faulty variant: the socket is not made ready to listen again.
Unaccept_Skipped ==
  /\ tcp_pc = "unaccept"
  /\ tcp_pc' = "unlisten"
  /\ UNCHANGED <<free, udp, conn, tcp_rx, tcp_tx>>

Unaccept ==
  /\ tcp_pc = "unaccept"
  /\ socket' = "closed" /\ tcp_pc' = "unlisten"
  /\ UNCHANGED <<free, udp, port, connections, sent, tcp_queue, unacked,
                 echoed, tcp_rx, tcp_tx>>

Unlisten ==
  /\ tcp_pc = "unlisten"
  /\ port' = FALSE /\ tcp_pc' = "listen"
  /\ UNCHANGED <<free, udp, socket, connections, sent, tcp_queue, unacked,
                 echoed, tcp_rx, tcp_tx>>

TcpThread ==
  \/ Listen \/ Accept \/ AcceptFails \/ TcpReceive \/ TcpLeft \/ TcpAllocate
  \/ TcpSend \/ TcpNotSent \/ TcpRelease \/ Disconnect \/ Unaccept \/ Unlisten

Next == Network \/ UdpThread \/ TcpThread

Spec == Init /\ [][Next]_vars

\* The threads run, what is sent leaves the board and is acknowledged or the
\* connection given up.
FairSpec ==
  /\ Spec
  /\ WF_vars(UdpThread) /\ WF_vars(TcpThread)
  /\ WF_vars(Transmitted) /\ WF_vars(Acknowledge)

-----------------------------------------------------------------------------
(* Properties.                                                             *)

Datagram == 1 .. MaxDatagrams
Segment  == 1 .. MaxSegments

TypeOK ==
  /\ free \in 0 .. PoolSize
  /\ sender \in Seq(Client) /\ Len(sender) <= MaxDatagrams
  /\ long \subseteq Datagram
  /\ udp_queue \in Seq(Datagram) /\ Len(udp_queue) <= UdpQueue
  /\ udp_pc \in {"receive", "allocate", "send", "release"}
  /\ udp_rx \in Datagram \union {Nothing} /\ udp_tx \in BOOLEAN
  /\ driver \in 0 .. PoolSize
  /\ replies \in Seq([to : Client, data : Datagram])
  /\ port \in BOOLEAN
  /\ socket \in {"closed", "listen", "established", "close_wait", "reset",
                 "disconnected", "failed"}
  /\ connections \in 0 .. MaxConnections /\ sent \in 0 .. MaxSegments
  /\ tcp_queue \in Seq(Segment)
  /\ tcp_pc \in {"listen", "accept", "receive", "allocate", "send", "release",
                 "disconnect", "unaccept", "unlisten"}
  /\ tcp_rx \in Segment \union {Nothing} /\ tcp_tx \in BOOLEAN
  /\ unacked \in 0 .. TxQueue /\ echoed \in Seq(Segment)

One(b) == IF b THEN 1 ELSE 0

\* Every packet is in one place: none leaks and none is released twice, on
\* any path through the two threads, however the connection ends.
PacketsAccounted ==
  /\ TypeOK
  /\ PoolSize = free + Len(udp_queue) + Len(tcp_queue) + driver + unacked
                  + One(udp_rx # Nothing) + One(udp_tx)
                  + One(tcp_rx # Nothing) + One(tcp_tx)

\* Each reply goes to the peer that sent its datagram, and no datagram is
\* answered twice or after a later one, whatever arrives meanwhile.
RepliesMatch ==
  /\ \A i \in DOMAIN replies : replies[i].to = sender[replies[i].data]
  /\ \A i \in 2 .. Len(replies) : replies[i - 1].data < replies[i].data

\* As long as a connection is not reset, the client gets back every segment
\* that it sent, in order, up to the one the thread is at; also when the
\* client has closed its side, and when the pool was empty.
EchoesAll ==
  socket \in {"established", "close_wait"} =>
    LET held == IF tcp_pc \in {"allocate", "send"} THEN <<tcp_rx>> ELSE <<>>
    IN  echoed \o held \o tcp_queue = [i \in 1 .. sent |-> i]

\* Every packet is a segment that is not echoed yet, and the thread waits for one
\* more: only a reset of the connection helps it.
Starved == tcp_pc = "allocate" /\ Len(tcp_queue) + 1 = PoolSize

\* When there is no client the server comes to listen for the next one, unless
\* an accept has failed, or the thread waits for ever for a packet that the
\* client's own segments have used up.
ListensAgain ==
  \/ socket # "established" ~> (tcp_pc = "accept" /\ socket = "listen")
                                \/ socket = "failed"
  \/ <>[]Starved
=============================================================================

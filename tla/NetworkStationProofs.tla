------------------------ MODULE NetworkStationProofs ------------------------
(***************************************************************************)
(* Theorems about NetworkStation, for every queue capacity and every       *)
(* number of readings and cable changes: rooms, sessions, order and fate.  *)
(***************************************************************************)
EXTENDS NetworkStation, TLAPS

-----------------------------------------------------------------------------
(* What the queue operations do to the set of readings in a queue.         *)

\* Membership in a queue, by position.
LEMMA InQueueAt ==
  ASSUME NEW q \in Seq(Reading), NEW r
  PROVE  r \in InQueue(q) <=> \E i \in 1 .. Len(q) : q[i] = r
BY DEF InQueue

\* Sending at the back adds one reading.
LEMMA AppendBound ==
  ASSUME NEW cap \in Nat, NEW q, Bound(q, cap), NEW x \in Reading,
         HasRoom(q, cap)
  PROVE  /\ Bound(Append(q, x), cap)
         /\ Len(Append(q, x)) = Len(q) + 1
         /\ InQueue(Append(q, x)) = InQueue(q) \union {x}
<1>1. Len(q) \in Nat /\ q \in Seq(Reading) /\ Len(q) < cap
  BY DEF Bound, HasRoom
<1>2. /\ Append(q, x) \in Seq(Reading) /\ Len(Append(q, x)) = Len(q) + 1
      /\ Append(q, x)[Len(q) + 1] = x
      /\ \A i \in 1 .. Len(q) : Append(q, x)[i] = q[i]
  BY <1>1
<1>3. 1 .. Len(q) + 1 = (1 .. Len(q)) \union {Len(q) + 1}
  BY <1>1
<1>4. \A r : r \in InQueue(Append(q, x)) <=> r \in InQueue(q) \union {x}
  <2> DEFINE p == Append(q, x)
  <2>1. /\ p \in Seq(Reading) /\ Len(p) = Len(q) + 1
        /\ p[Len(q) + 1] = x /\ \A i \in 1 .. Len(q) : p[i] = q[i]
    BY <1>2
  <2> HIDE DEF p
  <2>2. \A r : r \in InQueue(p) <=> r \in InQueue(q) \union {x}
    BY <1>1, <1>3, <2>1, InQueueAt
  <2> QED BY <2>2 DEF p
<1> QED BY <1>1, <1>2, <1>4 DEF Bound

\* Receiving takes the front reading off.
LEMMA TailBound ==
  ASSUME NEW cap \in Nat, NEW q, Bound(q, cap), q # <<>>
  PROVE  /\ Bound(Tail(q), cap)
         /\ Len(Tail(q)) = Len(q) - 1
         /\ Head(q) \in Reading
         /\ InQueue(q) = InQueue(Tail(q)) \union {Head(q)}
<1>1. Len(q) \in Nat \ {0} /\ q \in Seq(Reading)
  BY DEF Bound
<1>2. /\ Tail(q) \in Seq(Reading) /\ Len(Tail(q)) = Len(q) - 1
      /\ Head(q) = q[1] /\ q[1] \in Reading
      /\ \A i \in 1 .. Len(q) - 1 : Tail(q)[i] = q[i + 1]
  BY <1>1
<1>3. \A r : r \in InQueue(q) <=> r \in InQueue(Tail(q)) \union {Head(q)}
  <2> DEFINE p == Tail(q)
  <2>1. /\ p \in Seq(Reading) /\ Len(p) = Len(q) - 1
        /\ \A i \in 1 .. Len(q) - 1 : p[i] = q[i + 1]
        /\ Head(q) = q[1]
    BY <1>2
  <2> HIDE DEF p
  <2>2. \A i \in 1 .. Len(q) :
          i = 1 \/ (i - 1 \in 1 .. Len(q) - 1 /\ p[i - 1] = q[i])
    <3>1. ASSUME NEW i \in 1 .. Len(q), i # 1
          PROVE  i - 1 \in 1 .. Len(q) - 1 /\ p[i - 1] = q[i]
      <4>1. i - 1 \in 1 .. Len(q) - 1 /\ i - 1 + 1 = i
        BY <1>1, <3>1
      <4>2. p[i - 1] = q[i - 1 + 1]
        BY <2>1, <4>1
      <4> QED BY <4>1, <4>2
    <3> QED BY <3>1
  <2>3. \A i \in 1 .. Len(q) - 1 : i + 1 \in 1 .. Len(q)
    BY <1>1
  <2>4. 1 \in 1 .. Len(q)
    BY <1>1
  <2>5. \A r : r \in InQueue(q) <=> r \in InQueue(p) \union {Head(q)}
    <3> TAKE r
    <3>1. /\ r \in InQueue(q) <=> \E i \in 1 .. Len(q) : q[i] = r
          /\ r \in InQueue(p) <=> \E i \in 1 .. Len(q) - 1 : p[i] = r
      BY <1>1, <2>1, InQueueAt
    <3>2. ASSUME r \in InQueue(q)  PROVE r \in InQueue(p) \union {Head(q)}
      BY <2>1, <2>2, <3>1, <3>2
    <3>3. ASSUME r \in InQueue(p)  PROVE r \in InQueue(q)
      BY <2>1, <2>3, <3>1, <3>3
    <3>4. Head(q) \in InQueue(q)
      BY <1>1, <2>1, <2>4, InQueueAt
    <3> QED BY <3>2, <3>3, <3>4
  <2> QED BY <2>5 DEF p
<1> QED BY <1>1, <1>2, <1>3 DEF Bound

\* Re-queueing puts a reading back at the front.
LEMMA FrontBound ==
  ASSUME NEW cap \in Nat, NEW q, Bound(q, cap), NEW x \in Reading,
         HasRoom(q, cap)
  PROVE  /\ Bound(<<x>> \o q, cap)
         /\ Len(<<x>> \o q) = Len(q) + 1
         /\ InQueue(<<x>> \o q) = {x} \union InQueue(q)
<1>1. Len(q) \in Nat /\ q \in Seq(Reading) /\ Len(q) < cap
  BY DEF Bound, HasRoom
<1>2. /\ <<x>> \o q \in Seq(Reading) /\ Len(<<x>> \o q) = Len(q) + 1
      /\ (<<x>> \o q)[1] = x
      /\ \A i \in 1 .. Len(q) : (<<x>> \o q)[i + 1] = q[i]
  BY <1>1
<1>3. \A r : r \in InQueue(<<x>> \o q) <=> r \in {x} \union InQueue(q)
  <2> DEFINE p == <<x>> \o q
  <2>1. /\ p \in Seq(Reading) /\ Len(p) = Len(q) + 1
        /\ p[1] = x /\ \A i \in 1 .. Len(q) : p[i + 1] = q[i]
    BY <1>2
  <2> HIDE DEF p
  <2>2. \A i \in 1 .. Len(q) + 1 :
          i = 1 \/ (i - 1 \in 1 .. Len(q) /\ q[i - 1] = p[i])
    <3>1. ASSUME NEW i \in 1 .. Len(q) + 1, i # 1
          PROVE  i - 1 \in 1 .. Len(q) /\ q[i - 1] = p[i]
      <4>1. i - 1 \in 1 .. Len(q) /\ i - 1 + 1 = i
        BY <1>1, <3>1
      <4>2. p[i - 1 + 1] = q[i - 1]
        BY <2>1, <4>1
      <4> QED BY <4>1, <4>2
    <3> QED BY <3>1
  <2>3. \A i \in 1 .. Len(q) : i + 1 \in 1 .. Len(q) + 1
    BY <1>1
  <2>4. 1 \in 1 .. Len(q) + 1
    BY <1>1
  <2>5. \A r : r \in InQueue(p) <=> r \in {x} \union InQueue(q)
    <3> TAKE r
    <3>1. /\ r \in InQueue(p) <=> \E i \in 1 .. Len(q) + 1 : p[i] = r
          /\ r \in InQueue(q) <=> \E i \in 1 .. Len(q) : q[i] = r
      BY <1>1, <2>1, InQueueAt
    <3>2. ASSUME r \in InQueue(p)  PROVE r \in {x} \union InQueue(q)
      BY <2>1, <2>2, <3>1, <3>2
    <3>3. ASSUME r \in InQueue(q)  PROVE r \in InQueue(p)
      BY <2>1, <2>3, <3>1, <3>3
    <3>4. x \in InQueue(p)
      BY <1>1, <2>1, <2>4, InQueueAt
    <3> QED BY <3>2, <3>3, <3>4
  <2> QED BY <2>5 DEF p
<1> QED BY <1>1, <1>2, <1>3 DEF Bound

-----------------------------------------------------------------------------
(* What they do to the order of the readings.                              *)

\* Before a queue is emptied from the front, its front is its oldest reading.
LEMMA TailOrder ==
  ASSUME NEW cap \in Nat, NEW q, Bound(q, cap), q # <<>>, Increasing(q)
  PROVE  Increasing(Tail(q)) /\ Before({Head(q)}, InQueue(Tail(q)))
<1>1. Len(q) \in Nat \ {0} /\ q \in Seq(Reading)
  BY DEF Bound
<1> DEFINE p == Tail(q)
<1>2. /\ p \in Seq(Reading) /\ Len(p) = Len(q) - 1
      /\ \A i \in 1 .. Len(q) - 1 : p[i] = q[i + 1]
      /\ Head(q) = q[1]
  BY <1>1
<1> HIDE DEF p
<1>3. \A i, j \in 1 .. Len(q) : i < j => q[i] < q[j]
  BY <1>1 DEF Increasing
<1>4. \A i \in 1 .. Len(q) - 1 : i + 1 \in 1 .. Len(q) /\ 1 < i + 1
  BY <1>1
<1>5. Increasing(p)
  <2>1. ASSUME NEW i \in 1 .. Len(q) - 1, NEW j \in 1 .. Len(q) - 1, i < j
        PROVE  p[i] < p[j]
    <3>1. i + 1 < j + 1
      BY <2>1
    <3> QED BY <1>2, <1>3, <1>4, <3>1
  <2> QED BY <1>2, <2>1 DEF Increasing
<1>6. ASSUME NEW r \in InQueue(p)  PROVE Head(q) < r
  <2>1. PICK i \in 1 .. Len(q) - 1 : p[i] = r
    BY <1>2, <1>6, InQueueAt
  <2>2. q[1] < q[i + 1]
    BY <1>1, <1>3, <1>4
  <2> QED BY <1>2, <2>1, <2>2
<1> QED BY <1>5, <1>6 DEF Before, p

\* A reading newer than the whole queue goes to its back.
LEMMA AppendOrder ==
  ASSUME NEW cap \in Nat, NEW q, Bound(q, cap), Increasing(q),
         NEW x \in Reading, Before(InQueue(q), {x})
  PROVE  Increasing(Append(q, x))
<1>1. Len(q) \in Nat /\ q \in Seq(Reading)
  BY DEF Bound
<1> DEFINE p == Append(q, x)
<1>2. /\ p \in Seq(Reading) /\ Len(p) = Len(q) + 1
      /\ p[Len(q) + 1] = x /\ \A i \in 1 .. Len(q) : p[i] = q[i]
  BY <1>1
<1> HIDE DEF p
<1>3. \A i \in 1 .. Len(q) : q[i] < x
  BY <1>1, InQueueAt DEF Before
<1>4. \A i, j \in 1 .. Len(q) : i < j => q[i] < q[j]
  BY <1>1 DEF Increasing
<1>5. ASSUME NEW i \in 1 .. Len(q) + 1, NEW j \in 1 .. Len(q) + 1, i < j
      PROVE  p[i] < p[j]
  <2>1. i \in 1 .. Len(q)
    BY <1>1, <1>5
  <2>2. CASE j = Len(q) + 1
    BY <1>2, <1>3, <2>1, <2>2
  <2>3. CASE j # Len(q) + 1
    <3>1. j \in 1 .. Len(q)
      BY <1>1, <2>3
    <3> QED BY <1>2, <1>4, <1>5, <2>1, <3>1
  <2> QED BY <2>2, <2>3
<1> QED BY <1>2, <1>5 DEF Increasing, p

\* A reading older than the whole queue goes to its front.
LEMMA FrontOrder ==
  ASSUME NEW cap \in Nat, NEW q, Bound(q, cap), Increasing(q),
         NEW x \in Reading, Before({x}, InQueue(q))
  PROVE  Increasing(<<x>> \o q)
<1>1. Len(q) \in Nat /\ q \in Seq(Reading)
  BY DEF Bound
<1> DEFINE p == <<x>> \o q
<1>2. /\ p \in Seq(Reading) /\ Len(p) = Len(q) + 1
      /\ p[1] = x /\ \A i \in 1 .. Len(q) : p[i + 1] = q[i]
  BY <1>1
<1> HIDE DEF p
<1>3. \A i \in 1 .. Len(q) : x < q[i]
  BY <1>1, InQueueAt DEF Before
<1>4. \A i, j \in 1 .. Len(q) : i < j => q[i] < q[j]
  BY <1>1 DEF Increasing
<1>5. ASSUME NEW i \in 1 .. Len(q) + 1, i # 1
      PROVE  i - 1 \in 1 .. Len(q) /\ p[i] = q[i - 1]
  <2>1. i - 1 \in 1 .. Len(q) /\ i - 1 + 1 = i
    BY <1>1, <1>5
  <2>2. p[i - 1 + 1] = q[i - 1]
    BY <1>2, <2>1
  <2> QED BY <2>1, <2>2
<1>6. ASSUME NEW i \in 1 .. Len(q) + 1, NEW j \in 1 .. Len(q) + 1, i < j
      PROVE  p[i] < p[j]
  <2>1. j # 1 /\ j - 1 \in 1 .. Len(q) /\ p[j] = q[j - 1]
    BY <1>1, <1>5, <1>6
  <2>2. CASE i = 1
    BY <1>2, <1>3, <2>1, <2>2
  <2>3. CASE i # 1
    <3>1. i - 1 \in 1 .. Len(q) /\ p[i] = q[i - 1] /\ i - 1 < j - 1
      BY <1>5, <1>6, <2>3
    <3> QED BY <1>4, <2>1, <3>1
  <2> QED BY <2>2, <2>3
<1> QED BY <1>2, <1>6 DEF Increasing, p

-----------------------------------------------------------------------------
(* The inductive invariant.                                                *)

\* A thread holds a message exactly where its code has one in hand.
Holders ==
  /\ net_pc \in {"check", "publish"} <=> net_msg # None
  /\ logger_pc \in {"log", "forward", "evict", "retry"} <=> log_msg # None

\* A receiver is suspended only on an empty queue; RequeueFits; and after an
\* eviction there is room for the logger's retry even if the network thread,
\* which took a message meanwhile, puts it back.
Rooms ==
  /\ net_pc = "pend" => network_queue = <<>>
  /\ logger_pc = "pend" => sensor_queue = <<>>
  /\ RequeueFits
  /\ RetryFits
  /\ logger_pc = "retry" /\ net_pc = "check" => Len(network_queue) + 1 < NetCap

\* The flag agrees with the existence of a session, except after a disconnect
\* that has returned and before the flag is cleared.
Sessions ==
  /\ IF net_pc \in {"clear", "reset"}
     THEN session = "none"
     ELSE mqtt_connected <=> session # "none"
  /\ net_pc \in {"wait", "nap", "resolve", "connect"} => ~mqtt_connected

Core == TypeOK /\ Holders /\ Rooms /\ Sessions /\ ResolvedIsMonitored

\* Core holds when the threads start.
THEOREM InitCore == Init => Core
<1> SUFFICES ASSUME Init PROVE Core
  OBVIOUS
<1>1. Bound(<<>>, SensorCap) /\ Bound(<<>>, NetCap)
  BY NetworkStationAssumption DEF Bound
<1>2. 0 \in 0 .. MaxFlaps /\ 0 \in 0 .. MaxReadings
  BY NetworkStationAssumption
<1>4. TypeOK
  BY <1>1, <1>2 DEF Init, TypeOK, None
<1>3. Holders /\ Rooms /\ Sessions /\ ResolvedIsMonitored
  BY NetworkStationAssumption DEF Init, Holders, Rooms, Sessions,
     ResolvedIsMonitored, RequeueFits, RetryFits, HasRoom, None
<1> QED BY <1>3, <1>4 DEF Core

\* No step of any thread, and nothing the environment does, breaks Core.
LEMMA CoreStep ==
  ASSUME Core, [Next]_vars
  PROVE  Core'
<1> USE NetworkStationAssumption DEF Core, TypeOK, Holders, Rooms, Sessions,
    ResolvedIsMonitored, RequeueFits, RetryFits, HasRoom, Bound, None, env,
    dhcp, sensor, logger, net, fates
<1>1. CASE CableChange
  BY <1>1 DEF CableChange
<1>2. CASE BrokerDrops
  BY <1>2 DEF BrokerDrops
<1>3. CASE DhcpWake
  BY <1>3 DEF DhcpWake, DhcpFrame
<1>4. CASE DhcpPollSame
  BY <1>4 DEF DhcpPollSame, DhcpFrame
<1>5. CASE DhcpLinkUp
  BY <1>5 DEF DhcpLinkUp, DhcpFrame
<1>6. CASE DhcpEnableFails
  BY <1>6 DEF DhcpEnableFails, DhcpFrame
<1>7. CASE DhcpLinkDown
  <2> USE <1>7
  <2>0. /\ session' \in {"none", "live", "stale", "dead"}
        /\ ip_resolved' \in BOOLEAN /\ prev_link_up' \in BOOLEAN
        /\ address' = "none" /\ dhcp_pc' = "nap"
    BY DEF DhcpLinkDown
  <2>1. TypeOK'
    <3> HIDE DEF Bound, Holders, Rooms, Sessions, ResolvedIsMonitored
    <3>1. UNCHANGED <<env, sensor, sensor_queue, logger, network_queue, net,
                      fates>>
      BY DEF DhcpLinkDown, DhcpFrame
    <3> HIDE <1>7
    <3> QED BY <2>0, <3>1
  <2>2. (Holders /\ Rooms /\ Sessions /\ ResolvedIsMonitored)'
    BY DEF DhcpLinkDown, DhcpFrame
  <2> QED BY <2>1, <2>2
<1>8. CASE DhcpResolved
  BY <1>8 DEF DhcpResolved, DhcpFrame
<1>9. CASE SensorWake
  BY <1>9 DEF SensorWake, SensorFrame
<1>10. CASE SensorReadFails
  BY <1>10 DEF SensorReadFails, SensorFrame
<1>11. CASE SensorSend
  <2> USE <1>11
  <2>1. taken + 1 \in Reading /\ taken + 1 \in 0 .. MaxReadings
    BY DEF SensorSend, Reading
  <2>2. CASE logger_pc = "pend"
    BY <2>1, <2>2 DEF SensorSend, SensorFrame
  <2>3. CASE logger_pc # "pend" /\ HasRoom(sensor_queue, SensorCap)
    <3>1. sensor_queue' = Append(sensor_queue, taken + 1)
      BY <2>3 DEF SensorSend
    <3>2. Bound(sensor_queue', SensorCap)
      BY <2>1, <2>3, <3>1, AppendBound
    <3>3. TypeOK'
      BY <2>1, <2>3, <3>2 DEF SensorSend, SensorFrame
    <3>4. (Holders /\ Rooms /\ Sessions /\ ResolvedIsMonitored)'
      BY <2>3 DEF SensorSend, SensorFrame
    <3> QED BY <3>3, <3>4
  <2>4. CASE logger_pc # "pend" /\ ~HasRoom(sensor_queue, SensorCap)
    BY <2>4, <2>1 DEF SensorSend, SensorFrame
  <2> QED BY <2>2, <2>3, <2>4
<1>12. CASE LoggerReceive
  <2> USE <1>12
  <2>1. CASE sensor_queue = <<>>
    BY <2>1 DEF LoggerReceive, LoggerFrame
  <2>2. CASE sensor_queue # <<>>
    <3>1. /\ sensor_queue' = Tail(sensor_queue)
          /\ log_msg' = Head(sensor_queue) /\ logger_pc' = "log"
      BY <2>2 DEF LoggerReceive
    <3>2. Bound(sensor_queue', SensorCap) /\ log_msg' \in Reading
      BY <2>2, <3>1, TailBound
    <3>3. log_msg' # None
      BY <3>2 DEF Reading
    <3>4. TypeOK'
      BY <3>1, <3>2 DEF LoggerReceive, LoggerFrame
    <3>5. (Holders /\ Rooms /\ Sessions /\ ResolvedIsMonitored)'
      BY <3>1, <3>3 DEF LoggerReceive, LoggerFrame
    <3> QED BY <3>4, <3>5
  <2> QED BY <2>1, <2>2
<1>13. CASE LoggerWrite
  <2> USE <1>13
  <2>1. TypeOK'
    BY DEF LoggerWrite, LoggerFrame
  <2>2. (Holders /\ Rooms /\ Sessions /\ ResolvedIsMonitored)'
    BY DEF LoggerWrite, LoggerFrame
  <2> QED BY <2>1, <2>2
<1>14. CASE LoggerForward
  <2> USE <1>14
  <2>1. log_msg \in Reading /\ net_pc # "check"
    BY DEF LoggerForward, LoggerCanRun, NetReady
  <2>2. CASE net_pc = "pend"
    BY <2>1, <2>2 DEF LoggerForward, LoggerFrame
  <2>3. CASE net_pc # "pend" /\ HasRoom(network_queue, NetCap)
    <3>1. network_queue' = Append(network_queue, log_msg)
      BY <2>3 DEF LoggerForward
    <3>2. Bound(network_queue', NetCap)
      BY <2>1, <2>3, <3>1, AppendBound
    <3>3. TypeOK'
      BY <2>3, <3>2 DEF LoggerForward, LoggerFrame
    <3>4. (Holders /\ Rooms /\ Sessions /\ ResolvedIsMonitored)'
      BY <2>1, <2>3 DEF LoggerForward, LoggerFrame
    <3> QED BY <3>3, <3>4
  <2>4. CASE net_pc # "pend" /\ ~HasRoom(network_queue, NetCap)
    BY <2>1, <2>4 DEF LoggerForward, LoggerFrame
  <2> QED BY <2>2, <2>3, <2>4
<1>15. CASE LoggerEvict
  <2> USE <1>15
  <2>1. net_pc # "check" /\ log_msg \in Reading
    BY DEF LoggerEvict, LoggerCanRun, NetReady
  <2>2. CASE network_queue = <<>>
    BY <2>1, <2>2 DEF LoggerEvict, LoggerFrame
  <2>3. CASE network_queue # <<>>
    <3>1. /\ network_queue' = Tail(network_queue)
          /\ evicted' = evicted \union {Head(network_queue)}
      BY <2>3 DEF LoggerEvict
    <3>2. /\ Bound(network_queue', NetCap) /\ evicted' \in SUBSET Reading
          /\ Len(network_queue') = Len(network_queue) - 1
      BY <2>3, <3>1, TailBound
    <3>3. TypeOK'
      <4> HIDE DEF Bound, Holders, Rooms, Sessions, ResolvedIsMonitored
      <4> QED BY <3>2 DEF LoggerEvict, LoggerFrame
    <3>4. (Holders /\ Rooms /\ Sessions /\ ResolvedIsMonitored)'
      BY <2>1, <3>1, <3>2 DEF LoggerEvict, LoggerFrame
    <3> QED BY <3>3, <3>4
  <2> QED BY <2>2, <2>3
<1>16. CASE LoggerRetry
  <2> USE <1>16
  <2>1. log_msg \in Reading
    BY DEF LoggerRetry
  <2>2. CASE net_pc = "pend"
    BY <2>1, <2>2 DEF LoggerRetry, LoggerFrame
  <2>3. CASE net_pc # "pend"
    <3>1. /\ network_queue' = Append(network_queue, log_msg)
          /\ UNCHANGED <<net_pc, net_msg, lost>> /\ net_pc # "check"
      BY <2>3 DEF LoggerRetry, LoggerCanRun, NetReady
    <3>2. Bound(network_queue', NetCap)
      BY <2>1, <3>1, AppendBound DEF LoggerRetry
    <3>3. TypeOK'
      BY <3>1, <3>2 DEF LoggerRetry, LoggerFrame
    <3>4. (Holders /\ Rooms /\ Sessions /\ ResolvedIsMonitored)'
      BY <2>3, <3>1 DEF LoggerRetry, LoggerFrame
    <3> QED BY <3>3, <3>4
  <2> QED BY <2>2, <2>3
<1>17. CASE NetWake
  BY <1>17 DEF NetWake, NetFrame
<1>18. CASE NetNoAddress
  BY <1>18 DEF NetNoAddress, NetFrame
<1>19. CASE NetDnsFails
  BY <1>19 DEF NetDnsFails, NetFrame
<1>20. CASE NetDnsReady
  BY <1>20 DEF NetDnsReady, NetFrame
<1>21. CASE NetAttemptFails
  BY <1>21 DEF NetAttemptFails, NetFrame
<1>22. CASE NetResolved
  BY <1>22 DEF NetResolved, NetFrame
<1>23. CASE NetConnected
  BY <1>23 DEF NetConnected, NetFrame
<1>24. CASE NetLoop
  BY <1>24 DEF NetLoop, NetFrame
<1>25. CASE NetReceive
  <2> USE <1>25
  <2>1. CASE network_queue = <<>>
    BY <2>1 DEF NetReceive, NetFrame
  <2>2. CASE network_queue # <<>>
    <3>1. /\ network_queue' = Tail(network_queue)
          /\ net_msg' = Head(network_queue) /\ net_pc' = "check"
      BY <2>2 DEF NetReceive
    <3>2. /\ Bound(network_queue', NetCap) /\ net_msg' \in Reading
          /\ Len(network_queue') = Len(network_queue) - 1
      BY <2>2, <3>1, TailBound
    <3>3. net_msg' # None
      BY <3>2 DEF Reading
    <3>4. TypeOK'
      BY <3>1, <3>2 DEF NetReceive, NetFrame
    <3>5. (Holders /\ Rooms /\ Sessions /\ ResolvedIsMonitored)'
      BY <3>1, <3>2, <3>3 DEF NetReceive, NetFrame
    <3> QED BY <3>4, <3>5
  <2> QED BY <2>1, <2>2
<1>26. CASE NetReceiveTimeout
  BY <1>26 DEF NetReceiveTimeout, NetFrame
<1>27. CASE NetCheck
  <2> USE <1>27
  <2>1. net_msg \in Reading /\ HasRoom(network_queue, NetCap)
    BY DEF NetCheck
  <2>2. CASE ip_resolved /\ mqtt_connected
    BY <2>1, <2>2 DEF NetCheck, NetFrame
  <2>3. CASE ~ip_resolved \/ ~mqtt_connected
    <3>1. /\ Bound(<<net_msg>> \o network_queue, NetCap)
          /\ Len(<<net_msg>> \o network_queue) = Len(network_queue) + 1
      BY <2>1, FrontBound
    <3>2. network_queue' = <<net_msg>> \o network_queue
      BY <2>1, <2>3 DEF NetCheck
    <3> QED BY <2>1, <2>3, <3>1, <3>2 DEF NetCheck, NetFrame
  <2> QED BY <2>2, <2>3
<1>28. CASE NetPublished
  BY <1>28 DEF NetPublished, NetFrame
<1>29. CASE NetPublishFails
  <2>0. /\ lost' \in SUBSET Reading /\ net_msg' = None /\ net_pc' = "close"
        /\ UNCHANGED <<env, dhcp, sensor, sensor_queue, logger, network_queue,
                      dns_initialized, dropped, evicted, published,
                      session, mqtt_connected>>
    BY <1>29 DEF NetPublishFails, NetFrame
  <2>1. TypeOK'
    <3> HIDE DEF Bound, Holders, Rooms, Sessions, ResolvedIsMonitored
    <3> QED BY <2>0
  <2>2. (Holders /\ Rooms /\ Sessions /\ ResolvedIsMonitored)'
    BY <1>29, <2>0 DEF NetPublishFails
  <2> QED BY <2>1, <2>2
<1>30. CASE NetDisconnect
  <2>0. /\ session' = "none" /\ net_pc' = "clear"
        /\ UNCHANGED <<env, dhcp, sensor, sensor_queue, logger, network_queue,
                      dns_initialized, dropped, evicted, published,
                      mqtt_connected, net_msg, lost>>
    BY <1>30 DEF NetDisconnect, NetFrame
  <2>1. TypeOK'
    <3> HIDE DEF Bound, Holders, Rooms, Sessions, ResolvedIsMonitored
    <3> QED BY <2>0
  <2>2. (Holders /\ Rooms /\ Sessions /\ ResolvedIsMonitored)'
    BY <1>30, <2>0 DEF NetDisconnect
  <2> QED BY <2>1, <2>2
<1>31. CASE NetClear
  <2>0. /\ mqtt_connected' = FALSE /\ mqtt_connected' \in BOOLEAN
        /\ net_pc' = "loop"
        /\ UNCHANGED <<env, dhcp, sensor, sensor_queue, logger, network_queue,
                      dns_initialized, dropped, evicted, published,
                      session, net_msg, lost>>
    BY <1>31 DEF NetClear, NetFrame
  <2>1. TypeOK'
    <3> HIDE DEF Bound, Holders, Rooms, Sessions, ResolvedIsMonitored
    <3> QED BY <2>0
  <2>2. (Holders /\ Rooms /\ Sessions /\ ResolvedIsMonitored)'
    BY <1>31, <2>0 DEF NetClear
  <2> QED BY <2>1, <2>2
<1>32. CASE NetLeave
  BY <1>32 DEF NetLeave, NetFrame
<1>33. CASE NetQuit
  <2>0. /\ session' = "none" /\ net_pc' = "reset"
        /\ UNCHANGED <<env, dhcp, sensor, sensor_queue, logger, network_queue,
                      dns_initialized, dropped, evicted, published,
                      mqtt_connected, net_msg, lost>>
    BY <1>33 DEF NetQuit, NetFrame
  <2>1. TypeOK'
    <3> HIDE DEF Bound, Holders, Rooms, Sessions, ResolvedIsMonitored
    <3> QED BY <2>0
  <2>2. (Holders /\ Rooms /\ Sessions /\ ResolvedIsMonitored)'
    BY <1>33, <2>0 DEF NetQuit
  <2> QED BY <2>1, <2>2
<1>34. CASE NetReset
  <2>0. /\ mqtt_connected' = FALSE /\ mqtt_connected' \in BOOLEAN
        /\ net_pc' = "wait"
        /\ UNCHANGED <<env, dhcp, sensor, sensor_queue, logger, network_queue,
                      dns_initialized, dropped, evicted, published,
                      session, net_msg, lost>>
    BY <1>34 DEF NetReset, NetFrame
  <2>1. TypeOK'
    <3> HIDE DEF Bound, Holders, Rooms, Sessions, ResolvedIsMonitored
    <3> QED BY <2>0
  <2>2. (Holders /\ Rooms /\ Sessions /\ ResolvedIsMonitored)'
    BY <1>34, <2>0 DEF NetReset
  <2> QED BY <2>1, <2>2
<1>35. CASE UNCHANGED vars
  BY <1>35 DEF vars
<1> QED BY <1>1, <1>2, <1>3, <1>4, <1>5, <1>6, <1>7, <1>8, <1>9, <1>10,
   <1>11, <1>12, <1>13, <1>14, <1>15, <1>16, <1>17, <1>18, <1>19, <1>20,
   <1>21, <1>22, <1>23, <1>24, <1>25, <1>26, <1>27, <1>28, <1>29, <1>30,
   <1>31, <1>32, <1>33, <1>34, <1>35
   DEF Next, DhcpThread, SensorThread, LoggerThread, NetThread

-----------------------------------------------------------------------------
(* What Core gives.                                                        *)

\* Core holds in every state the station can reach.
THEOREM CoreInvariant == Spec => []Core
<1>1. Init => Core
  BY InitCore
<1>2. Core /\ [Next]_vars => Core'
  BY CoreStep
<1> QED BY <1>1, <1>2, PTL DEF Spec

\* The state always has its type; in particular neither queue ever holds more
\* messages than the memory given to tx_queue_create.
THEOREM TypeCorrect == Spec => []TypeOK
<1>1. Core => TypeOK
  BY DEF Core
<1> QED BY <1>1, CoreInvariant, PTL

\* The network thread's re-queue at the front and the logger's unchecked
\* second send both find room, for every capacity of the queue.
THEOREM SendsFit == Spec => []RequeueFits /\ []RetryFits
<1>1. Core => RequeueFits /\ RetryFits
  BY DEF Core, Rooms
<1> QED BY <1>1, CoreInvariant, PTL

\* The thread never opens a session on top of another: by whichever of its exits
\* it left the publish loop, the old one has been closed and the flag cleared,
\* though a disconnect lets everything else run before it returns.
THEOREM SessionsClosed == Spec => []ClosedBeforeReconnect
<1>1. Core => ClosedBeforeReconnect
  BY DEF Core, Sessions, TypeOK, ClosedBeforeReconnect
<1> QED BY <1>1, CoreInvariant, PTL

\* An address the network thread may use is one whose link is watched.
THEOREM ResolvedMonitored == Spec => []ResolvedIsMonitored
<1>1. Core => ResolvedIsMonitored
  BY DEF Core
<1> QED BY <1>1, CoreInvariant, PTL

-----------------------------------------------------------------------------
(* The order and the fate of the readings: no reading overtakes another,   *)
(* and none is lost from sight or duplicated.                              *)

\* What reaches the broker, or is on its way, is in order and was sampled.
Order ==
  /\ InOrder
  /\ \A r \in published \union InFlight : r \in 1 .. taken

\* Nothing is on its way in the initial state.
LEMMA InitOrder == Init => Order
<1> SUFFICES ASSUME Init PROVE Order
  OBVIOUS
<1>1. /\ InQueue(<<>>) = {} /\ Increasing(<<>>) /\ Held(None) = {}
  BY DEF InQueue, Increasing, Held
<1> QED BY <1>1 DEF Init, Order, InOrder, InFlight, Before

\* Nothing happens to the readings in a step that moves none.
LEMMA OrderStutter ==
  ASSUME Order,
         UNCHANGED <<taken, sensor_queue, log_msg, network_queue, net_msg,
                     published>>
  PROVE  Order'
BY DEF Order, InOrder, InFlight, Increasing, Before, InQueue, Held

\* The steps that move a reading keep the order.
LEMMA OrderStep ==
  ASSUME Core, Order, [Next]_vars
  PROVE  Order'
<1> USE DEF Order, InOrder, InFlight, Before
<1>a. /\ Bound(sensor_queue, SensorCap) /\ Bound(network_queue, NetCap)
      /\ SensorCap \in Nat /\ NetCap \in Nat
      /\ taken \in Nat
      /\ log_msg \in Reading \union {None} /\ net_msg \in Reading \union {None}
  BY NetworkStationAssumption DEF Core, TypeOK
<1>b. Held(None) = {} /\ \A r \in Reading : Held(r) = {r}
  BY DEF Held, None, Reading
<1>c. InQueue(<<>>) = {}
  BY DEF InQueue
<1>1. CASE SensorSend
  <2> USE <1>1
  <2> DEFINE n == taken + 1
  <2>0. taken < MaxReadings /\ taken' = taken + 1
    BY DEF SensorSend
  <2>1. /\ n \in Reading /\ taken' = n
        /\ network_queue' = network_queue /\ net_msg' = net_msg
        /\ published' = published
    <3>1. n \in Reading
      BY <1>a, <2>0, NetworkStationAssumption DEF Reading
    <3>2. /\ network_queue' = network_queue /\ net_msg' = net_msg
          /\ published' = published
      BY DEF SensorSend, SensorFrame, net
    <3> QED BY <2>0, <3>1, <3>2
  <2>2. /\ \A r \in published \union InFlight : r < n
        /\ \A r \in 1 .. taken : r \in 1 .. n
        /\ n \in 1 .. n
    BY <1>a
  <2>3. CASE logger_pc = "pend"
    <3>1. /\ sensor_queue' = sensor_queue /\ sensor_queue = <<>>
          /\ log_msg' = n /\ log_msg = None
      BY <2>3 DEF SensorSend, Core, Rooms, Holders
    <3>2. Held(log_msg') = {n} /\ InQueue(sensor_queue) = {}
      BY <1>b, <1>c, <2>1, <3>1
    <3> HIDE DEF n
    <3> QED BY <2>1, <2>2, <3>1, <3>2
  <2>4. CASE logger_pc # "pend" /\ HasRoom(sensor_queue, SensorCap)
    <3>1. sensor_queue' = Append(sensor_queue, n) /\ log_msg' = log_msg
      BY <2>4 DEF SensorSend
    <3>2. InQueue(sensor_queue') = InQueue(sensor_queue) \union {n}
      BY <1>a, <2>1, <2>4, <3>1, AppendBound
    <3>3. Increasing(sensor_queue')
      BY <1>a, <2>1, <2>2, <3>1, AppendOrder
    <3> HIDE DEF n
    <3> QED BY <2>1, <2>2, <3>1, <3>2, <3>3
  <2>5. CASE logger_pc # "pend" /\ ~HasRoom(sensor_queue, SensorCap)
    <3>1. sensor_queue' = sensor_queue /\ log_msg' = log_msg
      BY <2>5 DEF SensorSend
    <3> HIDE DEF n
    <3> QED BY <2>1, <2>2, <3>1
  <2> QED BY <2>3, <2>4, <2>5
<1>2. CASE LoggerReceive
  <2> USE <1>2
  <2>1. /\ network_queue' = network_queue /\ net_msg' = net_msg
        /\ published' = published /\ taken' = taken /\ log_msg = None
    BY DEF LoggerReceive, LoggerFrame, sensor, Core, Holders
  <2>2. CASE sensor_queue = <<>>
    BY <2>1, <2>2, OrderStutter DEF LoggerReceive
  <2>3. CASE sensor_queue # <<>>
    <3>1. log_msg' = Head(sensor_queue) /\ sensor_queue' = Tail(sensor_queue)
      BY <2>3 DEF LoggerReceive
    <3>2. /\ log_msg' \in Reading
          /\ InQueue(sensor_queue) = InQueue(sensor_queue') \union {log_msg'}
      BY <1>a, <2>3, <3>1, TailBound
    <3>3. /\ Increasing(sensor_queue')
          /\ Before({log_msg'}, InQueue(sensor_queue'))
      BY <1>a, <2>3, <3>1, TailOrder
    <3>4. Held(log_msg') = {log_msg'}
      BY <1>b, <3>2
    <3> QED BY <2>1, <3>2, <3>3, <3>4
  <2> QED BY <2>2, <2>3
<1>3. ASSUME LoggerForward \/ LoggerRetry
      PROVE  Order'
  <2> USE <1>3
  <2>1. /\ sensor_queue' = sensor_queue /\ published' = published
        /\ taken' = taken /\ log_msg \in Reading
    BY <1>a DEF LoggerForward, LoggerRetry, LoggerFrame, sensor, Core, Holders
  <2>2. CASE log_msg' = None /\ net_pc = "pend"
    <3>1. /\ net_msg' = log_msg /\ network_queue' = network_queue
          /\ network_queue = <<>> /\ net_msg = None
      BY <2>2 DEF LoggerForward, LoggerRetry, Core, Rooms, Holders
    <3>2. /\ Held(log_msg') = {} /\ Held(net_msg') = Held(log_msg)
          /\ InQueue(network_queue) = {}
      BY <1>b, <1>c, <2>2, <3>1
    <3> QED BY <2>1, <3>1, <3>2
  <2>3. CASE /\ log_msg' = None /\ net_msg' = net_msg
             /\ HasRoom(network_queue, NetCap)
             /\ network_queue' = Append(network_queue, log_msg)
    <3>1. Held(log_msg') = {} /\ Held(log_msg) = {log_msg}
      BY <1>b, <2>1, <2>3
    <3>2. InQueue(network_queue') = InQueue(network_queue) \union {log_msg}
      BY <1>a, <2>1, <2>3, AppendBound
    <3>3. Increasing(network_queue')
      BY <1>a, <2>1, <2>3, <3>1, AppendOrder
    <3> QED BY <2>1, <2>3, <3>1, <3>2, <3>3
  <2>4. CASE /\ log_msg' = None /\ UNCHANGED <<net_msg, network_queue>>
    <3>1. Held(log_msg') = {}
      BY <1>b, <2>4
    <3> QED BY <2>1, <2>4, <3>1
  <2>5. CASE UNCHANGED <<log_msg, net_msg, network_queue>>
    BY <2>1, <2>5, OrderStutter
  <2> QED BY <2>2, <2>3, <2>4, <2>5 DEF LoggerForward, LoggerRetry
<1>4. CASE LoggerEvict
  <2> USE <1>4
  <2>1. /\ sensor_queue' = sensor_queue /\ published' = published
        /\ taken' = taken /\ log_msg' = log_msg /\ net_msg' = net_msg
    BY DEF LoggerEvict, LoggerFrame, sensor
  <2>2. CASE network_queue = <<>>
    BY <2>1, <2>2, OrderStutter DEF LoggerEvict
  <2>3. CASE network_queue # <<>>
    <3>1. network_queue' = Tail(network_queue)
      BY <2>3 DEF LoggerEvict
    <3>2. InQueue(network_queue)
            = InQueue(network_queue') \union {Head(network_queue)}
      BY <1>a, <2>3, <3>1, TailBound
    <3>3. Increasing(network_queue')
      BY <1>a, <2>3, <3>1, TailOrder
    <3> QED BY <2>1, <3>2, <3>3
  <2> QED BY <2>2, <2>3
<1>5. CASE NetReceive
  <2> USE <1>5
  <2>1. /\ sensor_queue' = sensor_queue /\ log_msg' = log_msg
        /\ published' = published /\ taken' = taken /\ net_msg = None
    BY DEF NetReceive, NetFrame, sensor, logger, Core, Holders
  <2>2. CASE network_queue = <<>>
    BY <2>1, <2>2, OrderStutter DEF NetReceive
  <2>3. CASE network_queue # <<>>
    <3>1. /\ net_msg' = Head(network_queue)
          /\ network_queue' = Tail(network_queue)
      BY <2>3 DEF NetReceive
    <3>2. /\ net_msg' \in Reading
          /\ InQueue(network_queue) = InQueue(network_queue') \union {net_msg'}
      BY <1>a, <2>3, <3>1, TailBound
    <3>3. /\ Increasing(network_queue')
          /\ Before({net_msg'}, InQueue(network_queue'))
      BY <1>a, <2>3, <3>1, TailOrder
    <3>4. Held(net_msg') = {net_msg'}
      BY <1>b, <3>2
    <3> QED BY <2>1, <3>2, <3>3, <3>4
  <2> QED BY <2>2, <2>3
<1>6. CASE NetCheck
  <2> USE <1>6
  <2>1. /\ sensor_queue' = sensor_queue /\ log_msg' = log_msg
        /\ published' = published /\ taken' = taken
        /\ net_msg \in Reading /\ HasRoom(network_queue, NetCap)
    BY <1>a DEF NetCheck, NetFrame, sensor, logger, Core, Holders, Rooms,
       RequeueFits
  <2>2. CASE ip_resolved /\ mqtt_connected
    BY <2>1, <2>2, OrderStutter DEF NetCheck
  <2>3. CASE ~ip_resolved \/ ~mqtt_connected
    <3>1. /\ network_queue' = <<net_msg>> \o network_queue
          /\ net_msg' = None
      BY <2>1, <2>3 DEF NetCheck
    <3>2. Held(net_msg) = {net_msg} /\ Held(net_msg') = {}
      BY <1>b, <2>1, <3>1
    <3>3. InQueue(network_queue') = {net_msg} \union InQueue(network_queue)
      BY <1>a, <2>1, <3>1, FrontBound
    <3>4. Increasing(network_queue')
      BY <1>a, <2>1, <3>1, <3>2, FrontOrder
    <3> QED BY <2>1, <3>2, <3>3, <3>4
  <2> QED BY <2>2, <2>3
<1>7. CASE NetPublished
  <2>1. /\ sensor_queue' = sensor_queue /\ log_msg' = log_msg
        /\ network_queue' = network_queue /\ taken' = taken
        /\ net_msg \in Reading /\ net_msg' = None
        /\ published' = published \union {net_msg}
    BY <1>7, <1>a DEF NetPublished, NetFrame, sensor, logger, Core, Holders
  <2>2. Held(net_msg) = {net_msg} /\ Held(net_msg') = {}
    BY <1>b, <2>1
  <2> QED BY <2>1, <2>2
<1>8. CASE NetPublishFails
  <2>1. /\ sensor_queue' = sensor_queue /\ log_msg' = log_msg
        /\ network_queue' = network_queue /\ taken' = taken
        /\ net_msg' = None /\ published' = published
    BY <1>8 DEF NetPublishFails, NetFrame, sensor, logger
  <2>2. Held(net_msg') = {}
    BY <1>b, <2>1
  <2> QED BY <2>1, <2>2
<1>9. ASSUME \/ CableChange \/ BrokerDrops \/ DhcpWake \/ DhcpThread
             \/ DhcpResolved \/ SensorWake \/ SensorReadFails \/ LoggerWrite
             \/ NetWake \/ NetNoAddress \/ NetDnsFails \/ NetDnsReady
             \/ NetAttemptFails \/ NetResolved \/ NetConnected \/ NetLoop
             \/ NetReceiveTimeout \/ NetDisconnect \/ NetClear \/ NetLeave
             \/ NetQuit \/ NetReset \/ UNCHANGED vars
      PROVE  Order'
  <2>1. UNCHANGED <<taken, sensor_queue, log_msg, network_queue, net_msg,
                    published>>
    BY <1>9 DEF CableChange, BrokerDrops, DhcpWake, DhcpThread, DhcpPollSame,
       DhcpLinkUp, DhcpEnableFails, DhcpLinkDown, DhcpResolved, SensorWake,
       SensorReadFails, LoggerWrite, NetWake, NetNoAddress, NetDnsFails,
       NetDnsReady, NetAttemptFails, NetResolved, NetConnected, NetLoop,
       NetReceiveTimeout, NetDisconnect, NetClear, NetLeave, NetQuit,
       NetReset, DhcpFrame, SensorFrame, LoggerFrame,
       NetFrame, vars, env, dhcp, sensor, logger, net, fates
  <2> QED BY <2>1, OrderStutter
<1> QED BY <1>1, <1>2, <1>3, <1>4, <1>5, <1>6, <1>7, <1>8, <1>9
     DEF Next, SensorThread, LoggerThread, NetThread

\* The readings are in order all along the pipeline, in every reachable state
\* and for every queue capacity.
THEOREM KeepsOrder == Spec => []InOrder
<1>1. Init => Core /\ Order
  BY InitCore, InitOrder
<1>2. Core /\ Order /\ [Next]_vars => Core' /\ Order'
  BY CoreStep, OrderStep
<1>3. Order => InOrder
  BY DEF Order
<1> QED BY <1>1, <1>2, <1>3, PTL DEF Spec

\* Only a publish adds a reading to what the broker has seen, and the reading in
\* the network thread's hands is newer than all of them.
LEMMA ForwardStep ==
  ASSUME Core, Order, [Next]_vars
  PROVE  \A r \in published' \ published : Before(published, {r})
<1>1. CASE NetPublished
  <2>1. net_msg \in Held(net_msg)
    BY <1>1 DEF NetPublished, Core, Holders, Held
  <2>2. published' = published \union {net_msg}
    BY <1>1 DEF NetPublished
  <2> QED BY <2>1, <2>2 DEF Order, InOrder, InFlight, Before
<1>2. CASE published' = published
  BY <1>2
<1> QED BY <1>1, <1>2 DEF Next, vars, env, dhcp, sensor, logger, net, fates,
     DhcpThread, SensorThread, LoggerThread, NetThread, CableChange,
     BrokerDrops, DhcpWake, DhcpPollSame, DhcpLinkUp, DhcpEnableFails,
     DhcpLinkDown, DhcpResolved, SensorWake, SensorReadFails, SensorSend,
     LoggerReceive, LoggerWrite, LoggerForward, LoggerEvict, LoggerRetry,
     NetWake, NetNoAddress, NetDnsFails, NetDnsReady, NetAttemptFails,
     NetResolved, NetConnected, NetLoop, NetReceive, NetReceiveTimeout,
     NetCheck, NetPublishFails, NetDisconnect, NetClear, NetLeave, NetQuit,
     NetReset, DhcpFrame, SensorFrame,
     LoggerFrame, NetFrame

\* Every reading the broker sees is newer than all those it saw before.
THEOREM Forward == Spec => PublishesForward
<1>1. Init => Core /\ Order
  BY InitCore, InitOrder
<1>2. Core /\ Order /\ [Next]_vars => Core' /\ Order'
  BY CoreStep, OrderStep
<1>3. Core /\ Order /\ [Next]_vars
        => [\A r \in published' \ published : Before(published, {r})]_published
  BY ForwardStep
<1> QED BY <1>1, <1>2, <1>3, PTL DEF Spec, PublishesForward

-----------------------------------------------------------------------------
(* Every reading is in one place.                                          *)

Accounted ==
  /\ Conservation
  /\ \A k \in 1 .. 8 : \A r \in Places[k] : r \in 1 .. taken

\* No reading has been taken yet.
LEMMA InitAccounted == Init => Accounted
<1> SUFFICES ASSUME Init PROVE Accounted
  OBVIOUS
<1>1. InQueue(<<>>) = {} /\ Held(None) = {} /\ 1 .. 0 = {}
  BY DEF InQueue, Held
<1>2. Places = <<{}, {}, {}, {}, {}, {}, {}, {}>> /\ 1 .. taken = {}
  BY <1>1 DEF Init, Places
<1> QED BY <1>2 DEF Accounted, Conservation

\* A reading can be in one of eight places.
LEMMA PlacesDomain == DOMAIN Places = 1 .. 8 /\ DOMAIN Places' = 1 .. 8
BY DEF Places

\* Moving one reading from a place to another keeps the account.
LEMMA Moved ==
  ASSUME Accounted, taken' = taken,
         NEW i \in 1 .. 8, NEW j \in 1 .. 8, i # j, NEW x \in Places[i],
         Places'[i] = Places[i] \ {x},
         Places'[j] = Places[j] \union {x},
         \A k \in 1 .. 8 : k # i /\ k # j => Places'[k] = Places[k]
  PROVE  Accounted'
<1>1. x \in 1 .. taken /\ \A k \in 1 .. 8 : x \in Places[k] => k = i
  BY PlacesDomain DEF Accounted, Conservation
<1>2. \A k \in 1 .. 8 : x \in Places'[k] <=> k = j
  BY <1>1
<1>3. \A r : r # x => \A k \in 1 .. 8 : r \in Places'[k] <=> r \in Places[k]
  OBVIOUS
<1>4. Conservation'
  BY <1>1, <1>2, <1>3, PlacesDomain DEF Accounted, Conservation
<1> QED BY <1>1, <1>2, <1>3, <1>4 DEF Accounted

\* So does a new reading that goes to one place.
LEMMA Sampled ==
  ASSUME Accounted, taken \in Nat, taken' = taken + 1, NEW j \in 1 .. 8,
         Places'[j] = Places[j] \union {taken + 1},
         \A k \in 1 .. 8 : k # j => Places'[k] = Places[k]
  PROVE  Accounted'
<1> DEFINE x == taken + 1
<1>1. x \notin 1 .. taken /\ 1 .. x = (1 .. taken) \union {x}
  OBVIOUS
<1>2. \A k \in 1 .. 8 : x \in Places'[k] <=> k = j
  BY <1>1 DEF Accounted
<1>3. \A r : r # x => \A k \in 1 .. 8 : r \in Places'[k] <=> r \in Places[k]
  OBVIOUS
<1> HIDE DEF x
<1>4. Conservation'
  BY <1>1, <1>2, <1>3, PlacesDomain DEF Accounted, Conservation, x
<1>5. \A k \in 1 .. 8 : \A r \in Places'[k] : r \in 1 .. x
  BY <1>1, <1>2, <1>3 DEF Accounted
<1> QED BY <1>4, <1>5 DEF Accounted, x

\* Nothing changes in a step that moves no reading.
LEMMA AccountedStutter ==
  ASSUME Accounted,
         UNCHANGED <<taken, sensor_queue, log_msg, network_queue, net_msg,
                     fates>>
  PROVE  Accounted'
<1>1. Places' = Places
  BY DEF Places, InQueue, Held, fates
<1> QED BY <1>1 DEF Accounted, Conservation

\* Every step of every thread keeps the account.
LEMMA AccountedStep ==
  ASSUME Core, Order, Accounted, [Next]_vars
  PROVE  Accounted'
<1>a. /\ Bound(sensor_queue, SensorCap) /\ Bound(network_queue, NetCap)
      /\ SensorCap \in Nat /\ NetCap \in Nat /\ taken \in Nat
      /\ log_msg \in Reading \union {None} /\ net_msg \in Reading \union {None}
      /\ Increasing(sensor_queue) /\ Increasing(network_queue)
  BY NetworkStationAssumption DEF Core, TypeOK, Order, InOrder
<1>b. Held(None) = {} /\ \A r \in Reading : Held(r) = {r}
  BY DEF Held, None, Reading
<1>1. CASE SensorSend
  <2> USE <1>1
  <2>0. /\ taken' = taken + 1 /\ taken + 1 \in Reading
        /\ UNCHANGED <<published, evicted, lost, net_msg, network_queue>>
    <3>1. taken < MaxReadings /\ taken' = taken + 1
      BY DEF SensorSend
    <3>2. taken + 1 \in Reading
      BY <1>a, <3>1, NetworkStationAssumption DEF Reading
    <3> QED BY <3>1, <3>2 DEF SensorSend, SensorFrame, net
  <2>1. CASE logger_pc = "pend"
    <3>1. /\ UNCHANGED <<sensor_queue, dropped>>
          /\ log_msg' = taken + 1 /\ log_msg = None
      BY <2>1 DEF SensorSend, Core, Holders
    <3>2. Held(log_msg') = Held(log_msg) \union {taken + 1}
      BY <1>b, <2>0, <3>1
    <3>3. /\ Places'[6] = Places[6] \union {taken + 1}
          /\ \A k \in 1 .. 8 : k # 6 => Places'[k] = Places[k]
      BY <2>0, <3>1, <3>2 DEF Places
    <3> QED BY <1>a, <2>0, <3>3, Sampled
  <2>2. CASE logger_pc # "pend" /\ HasRoom(sensor_queue, SensorCap)
    <3>1. /\ sensor_queue' = Append(sensor_queue, taken + 1)
          /\ UNCHANGED <<log_msg, dropped>>
      BY <2>2 DEF SensorSend
    <3>2. InQueue(sensor_queue') = InQueue(sensor_queue) \union {taken + 1}
      BY <1>a, <2>0, <2>2, <3>1, AppendBound
    <3>3. /\ Places'[7] = Places[7] \union {taken + 1}
          /\ \A k \in 1 .. 8 : k # 7 => Places'[k] = Places[k]
      BY <2>0, <3>1, <3>2 DEF Places
    <3> QED BY <1>a, <2>0, <3>3, Sampled
  <2>3. CASE logger_pc # "pend" /\ ~HasRoom(sensor_queue, SensorCap)
    <3>1. /\ dropped' = dropped \union {taken + 1}
          /\ UNCHANGED <<log_msg, sensor_queue>>
      BY <2>3 DEF SensorSend
    <3>3. /\ Places'[8] = Places[8] \union {taken + 1}
          /\ \A k \in 1 .. 8 : k # 8 => Places'[k] = Places[k]
      BY <2>0, <3>1 DEF Places
    <3> QED BY <1>a, <2>0, <3>3, Sampled
  <2> QED BY <2>1, <2>2, <2>3
<1>2. CASE LoggerReceive
  <2> USE <1>2
  <2>1. /\ UNCHANGED <<taken, network_queue, net_msg, fates>>
        /\ log_msg = None
    BY DEF LoggerReceive, LoggerFrame, sensor, fates, Core, Holders
  <2>2. CASE sensor_queue = <<>>
    BY <2>1, <2>2, AccountedStutter DEF LoggerReceive
  <2>3. CASE sensor_queue # <<>>
    <3> DEFINE x == Head(sensor_queue)
    <3>1. log_msg' = x /\ sensor_queue' = Tail(sensor_queue)
      BY <2>3 DEF LoggerReceive
    <3>2. /\ x \in Reading
          /\ InQueue(sensor_queue) = InQueue(sensor_queue') \union {x}
      BY <1>a, <2>3, <3>1, TailBound
    <3>3. x \notin InQueue(sensor_queue')
      BY <1>a, <2>3, <3>1, <3>2, TailOrder DEF Before, Reading
    <3>4. Held(log_msg') = {x} /\ Held(log_msg) = {}
      BY <1>b, <2>1, <3>1, <3>2
    <3> HIDE DEF x
    <3>5. /\ x \in Places[7] /\ Places'[7] = Places[7] \ {x}
          /\ Places'[6] = Places[6] \union {x}
          /\ \A k \in 1 .. 8 : k # 7 /\ k # 6 => Places'[k] = Places[k]
      BY <2>1, <3>2, <3>3, <3>4 DEF Places, fates
    <3> QED BY <2>1, <3>5, Moved
  <2> QED BY <2>2, <2>3
<1>3. ASSUME LoggerForward \/ LoggerRetry
      PROVE  Accounted'
  <2> USE <1>3
  <2>1. /\ UNCHANGED <<sensor_queue, published, dropped, evicted, taken>>
        /\ log_msg \in Reading
    BY <1>a DEF LoggerForward, LoggerRetry, LoggerFrame, sensor, Core, Holders
  <2>2. Held(log_msg) = {log_msg} /\ Held(None) = {}
    BY <1>b, <2>1
  <2>3. CASE log_msg' = None /\ net_pc = "pend"
    <3>1. /\ net_msg' = log_msg /\ UNCHANGED <<network_queue, lost>>
          /\ net_msg = None
      BY <2>3 DEF LoggerForward, LoggerRetry, Core, Rooms, Holders
    <3>2. Held(log_msg') = {} /\ Held(net_msg') = {log_msg} /\ Held(net_msg) = {}
      BY <2>2, <2>3, <3>1
    <3>3. /\ log_msg \in Places[6] /\ Places'[6] = Places[6] \ {log_msg}
          /\ Places'[4] = Places[4] \union {log_msg}
          /\ \A k \in 1 .. 8 : k # 6 /\ k # 4 => Places'[k] = Places[k]
      BY <2>1, <2>2, <3>1, <3>2 DEF Places
    <3> QED BY <2>1, <3>3, Moved
  <2>4. CASE /\ log_msg' = None /\ net_msg' = net_msg /\ lost' = lost
             /\ HasRoom(network_queue, NetCap)
             /\ network_queue' = Append(network_queue, log_msg)
    <3>1. InQueue(network_queue') = InQueue(network_queue) \union {log_msg}
      BY <1>a, <2>1, <2>4, AppendBound
    <3>2. Held(log_msg') = {}
      BY <2>2, <2>4
    <3>3. /\ log_msg \in Places[6] /\ Places'[6] = Places[6] \ {log_msg}
          /\ Places'[5] = Places[5] \union {log_msg}
          /\ \A k \in 1 .. 8 : k # 6 /\ k # 5 => Places'[k] = Places[k]
      BY <2>1, <2>2, <2>4, <3>1, <3>2 DEF Places
    <3> QED BY <2>1, <3>3, Moved
  <2>5. CASE /\ log_msg' = None /\ UNCHANGED <<net_msg, network_queue>>
             /\ lost' = lost \union {log_msg}
    <3>2. Held(log_msg') = {}
      BY <2>2, <2>5
    <3>3. /\ log_msg \in Places[6] /\ Places'[6] = Places[6] \ {log_msg}
          /\ Places'[3] = Places[3] \union {log_msg}
          /\ \A k \in 1 .. 8 : k # 6 /\ k # 3 => Places'[k] = Places[k]
      BY <2>1, <2>2, <2>5, <3>2 DEF Places
    <3> QED BY <2>1, <3>3, Moved
  <2>6. CASE UNCHANGED <<log_msg, net_msg, network_queue, lost>>
    BY <2>1, <2>6, AccountedStutter DEF fates
  <2> QED BY <2>3, <2>4, <2>5, <2>6 DEF LoggerForward, LoggerRetry
<1>4. CASE LoggerEvict
  <2> USE <1>4
  <2>1. UNCHANGED <<sensor_queue, published, dropped, lost, taken, log_msg,
                    net_msg>>
    BY DEF LoggerEvict, LoggerFrame, sensor
  <2>2. CASE network_queue = <<>>
    BY <2>1, <2>2, AccountedStutter DEF LoggerEvict, fates
  <2>3. CASE network_queue # <<>>
    <3> DEFINE x == Head(network_queue)
    <3>1. /\ network_queue' = Tail(network_queue)
          /\ evicted' = evicted \union {x}
      BY <2>3 DEF LoggerEvict
    <3>2. /\ x \in Reading
          /\ InQueue(network_queue) = InQueue(network_queue') \union {x}
      BY <1>a, <2>3, <3>1, TailBound
    <3>3. x \notin InQueue(network_queue')
      BY <1>a, <2>3, <3>1, <3>2, TailOrder DEF Before, Reading
    <3> HIDE DEF x
    <3>5. /\ x \in Places[5] /\ Places'[5] = Places[5] \ {x}
          /\ Places'[2] = Places[2] \union {x}
          /\ \A k \in 1 .. 8 : k # 5 /\ k # 2 => Places'[k] = Places[k]
      BY <2>1, <3>1, <3>2, <3>3 DEF Places
    <3> QED BY <2>1, <3>5, Moved
  <2> QED BY <2>2, <2>3
<1>5. CASE NetReceive
  <2> USE <1>5
  <2>1. /\ UNCHANGED <<sensor_queue, log_msg, taken, fates>>
        /\ net_msg = None
    BY DEF NetReceive, NetFrame, sensor, logger, fates, Core, Holders
  <2>2. CASE network_queue = <<>>
    BY <2>1, <2>2, AccountedStutter DEF NetReceive
  <2>3. CASE network_queue # <<>>
    <3> DEFINE x == Head(network_queue)
    <3>1. net_msg' = x /\ network_queue' = Tail(network_queue)
      BY <2>3 DEF NetReceive
    <3>2. /\ x \in Reading
          /\ InQueue(network_queue) = InQueue(network_queue') \union {x}
      BY <1>a, <2>3, <3>1, TailBound
    <3>3. x \notin InQueue(network_queue')
      BY <1>a, <2>3, <3>1, <3>2, TailOrder DEF Before, Reading
    <3>4. Held(net_msg') = {x} /\ Held(net_msg) = {}
      BY <1>b, <2>1, <3>1, <3>2
    <3> HIDE DEF x
    <3>5. /\ x \in Places[5] /\ Places'[5] = Places[5] \ {x}
          /\ Places'[4] = Places[4] \union {x}
          /\ \A k \in 1 .. 8 : k # 5 /\ k # 4 => Places'[k] = Places[k]
      BY <2>1, <3>2, <3>3, <3>4 DEF Places, fates
    <3> QED BY <2>1, <3>5, Moved
  <2> QED BY <2>2, <2>3
<1>6. ASSUME NetCheck \/ NetPublished \/ NetPublishFails
      PROVE  Accounted'
  <2> USE <1>6
  <2>1. /\ UNCHANGED <<sensor_queue, log_msg, taken, dropped, evicted>>
        /\ net_msg \in Reading
    BY <1>a DEF NetCheck, NetPublished, NetPublishFails, NetFrame, sensor,
       logger, Core, Holders
  <2>2. Held(net_msg) = {net_msg} /\ Held(None) = {}
    BY <1>b, <2>1
  <2>3. CASE UNCHANGED <<net_msg, network_queue, lost, published>>
    BY <2>1, <2>3, AccountedStutter DEF fates
  <2>4. CASE /\ net_msg' = None /\ HasRoom(network_queue, NetCap)
             /\ network_queue' = <<net_msg>> \o network_queue
             /\ UNCHANGED <<lost, published>>
    <3>1. InQueue(network_queue') = InQueue(network_queue) \union {net_msg}
      BY <1>a, <2>1, <2>4, FrontBound
    <3>2. Held(net_msg') = {}
      BY <2>2, <2>4
    <3>3. /\ net_msg \in Places[4] /\ Places'[4] = Places[4] \ {net_msg}
          /\ Places'[5] = Places[5] \union {net_msg}
          /\ \A k \in 1 .. 8 : k # 4 /\ k # 5 => Places'[k] = Places[k]
      BY <2>1, <2>2, <2>4, <3>1, <3>2 DEF Places
    <3> QED BY <2>1, <3>3, Moved
  <2>5. CASE /\ net_msg' = None /\ published' = published \union {net_msg}
             /\ UNCHANGED <<lost, network_queue>>
    <3>2. Held(net_msg') = {}
      BY <2>2, <2>5
    <3>3. /\ net_msg \in Places[4] /\ Places'[4] = Places[4] \ {net_msg}
          /\ Places'[1] = Places[1] \union {net_msg}
          /\ \A k \in 1 .. 8 : k # 4 /\ k # 1 => Places'[k] = Places[k]
      BY <2>1, <2>2, <2>5, <3>2 DEF Places
    <3> QED BY <2>1, <3>3, Moved
  <2>6. CASE /\ net_msg' = None /\ lost' = lost \union {net_msg}
             /\ UNCHANGED <<published, network_queue>>
    <3>2. Held(net_msg') = {}
      BY <2>2, <2>6
    <3>3. /\ net_msg \in Places[4] /\ Places'[4] = Places[4] \ {net_msg}
          /\ Places'[3] = Places[3] \union {net_msg}
          /\ \A k \in 1 .. 8 : k # 4 /\ k # 3 => Places'[k] = Places[k]
      BY <2>1, <2>2, <2>6, <3>2 DEF Places
    <3> QED BY <2>1, <3>3, Moved
  <2> QED BY <2>3, <2>4, <2>5, <2>6 DEF NetCheck, NetPublished, NetPublishFails
<1>7. ASSUME \/ CableChange \/ BrokerDrops \/ DhcpWake \/ DhcpThread
             \/ DhcpResolved \/ SensorWake \/ SensorReadFails \/ LoggerWrite
             \/ NetWake \/ NetNoAddress \/ NetDnsFails \/ NetDnsReady
             \/ NetAttemptFails \/ NetResolved \/ NetConnected \/ NetLoop
             \/ NetReceiveTimeout \/ NetDisconnect \/ NetClear \/ NetLeave
             \/ NetQuit \/ NetReset \/ UNCHANGED vars
      PROVE  Accounted'
  <2>1. UNCHANGED <<taken, sensor_queue, log_msg, network_queue, net_msg,
                    fates>>
    BY <1>7 DEF CableChange, BrokerDrops, DhcpWake, DhcpThread, DhcpPollSame,
       DhcpLinkUp, DhcpEnableFails, DhcpLinkDown, DhcpResolved, SensorWake,
       SensorReadFails, LoggerWrite, NetWake, NetNoAddress, NetDnsFails,
       NetDnsReady, NetAttemptFails, NetResolved, NetConnected, NetLoop,
       NetReceiveTimeout, NetDisconnect, NetClear, NetLeave, NetQuit,
       NetReset, DhcpFrame, SensorFrame, LoggerFrame,
       NetFrame, vars, env, dhcp, sensor, logger, net, fates
  <2> QED BY <2>1, AccountedStutter
<1> QED BY <1>1, <1>2, <1>3, <1>4, <1>5, <1>6, <1>7
     DEF Next, SensorThread, LoggerThread, NetThread

\* Every reading taken is in exactly one place, in every reachable state.
THEOREM Conserves == Spec => []Conservation
<1>1. Init => Core /\ Order /\ Accounted
  BY InitCore, InitOrder, InitAccounted
<1>2. Core /\ Order /\ Accounted /\ [Next]_vars
        => Core' /\ Order' /\ Accounted'
  BY CoreStep, OrderStep, AccountedStep
<1>3. Accounted => Conservation
  BY DEF Accounted
<1> QED BY <1>1, <1>2, <1>3, PTL DEF Spec
=============================================================================

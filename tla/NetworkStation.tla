--------------------------- MODULE NetworkStation ---------------------------
(***************************************************************************)
(* The environmental station of                                            *)
(* STM32F767ZI-Nucleo/app/demos/network_station/main.c: a sensor thread    *)
(* samples readings into sensor_queue, a logger thread writes them to a    *)
(* RAM disk and forwards them to network_queue with an "evict oldest"      *)
(* policy, a DHCP thread follows the Ethernet cable, and a network thread  *)
(* keeps an MQTT session and publishes what is in network_queue.  The      *)
(* status thread below them only reads two flags and is left out.          *)
(*                                                                         *)
(* ThreadX runs the highest-priority ready thread and time-slices none of  *)
(* these, so a thread takes a step only when no thread above it is ready   *)
(* (CanRun).  A sleep, a wait or a blocking NetX call may end at any time; *)
(* a thread that is suspended in one lets the threads below it run.        *)
(* A reading is the number of the sample it comes from.                    *)
(***************************************************************************)
EXTENDS Integers, Sequences

CONSTANTS
  SensorCap,      \* messages sensor_queue holds  (SENSOR_QUEUE_MAX_MSGS)
  NetCap,         \* messages network_queue holds (SENSOR_QUEUE_MAX_MSGS)
  MaxReadings,    \* bound of the model: samples taken in one behaviour
  MaxFlaps,       \* bound of the model: cable changes and broker drops
  EnableCanFail   \* may the driver refuse NX_LINK_ENABLE?

ASSUME NetworkStationAssumption ==
  /\ SensorCap \in Nat \ {0}
  /\ NetCap \in Nat \ {0}
  /\ MaxReadings \in Nat
  /\ MaxFlaps \in Nat
  /\ EnableCanFail \in BOOLEAN

VARIABLES
  \* environment
  cable,          \* is the Ethernet cable plugged in (what the PHY reports)?
  flaps,          \* environment events so far, bounded by MaxFlaps
  \* dhcp_thread
  dhcp_pc, prev_link_up, ip_resolved, address,
  \* sensor_thread
  sensor_pc, taken, sensor_queue,
  \* logger_thread
  logger_pc, log_msg, network_queue,
  \* network_thread
  net_pc, net_msg, mqtt_connected, dns_initialized,
  session,        \* NXD_MQTT_CLIENT: none, live, dead (dropped), or stale: the
                  \* interface it was opened on has been disabled since
  \* history: the fate of the readings that left the queues
  dropped, evicted, lost, published

env    == <<cable, flaps>>
dhcp   == <<dhcp_pc, prev_link_up, ip_resolved, address>>
sensor == <<sensor_pc, taken>>
logger == <<logger_pc, log_msg>>
net    == <<net_pc, net_msg, mqtt_connected, dns_initialized>>
fates  == <<dropped, evicted, lost, published>>
vars   == <<env, dhcp, sensor, sensor_queue, logger, network_queue, net,
            session, fates>>

None    == 0
Reading == 1 .. MaxReadings

-----------------------------------------------------------------------------
(* ThreadX scheduling: dhcp 2, sensor 3, network 4, logger 5.              *)

DhcpReady   == dhcp_pc = "poll"
SensorReady == sensor_pc = "run"
NetReady    == net_pc \in {"wait", "loop", "recv", "check", "clear", "leave",
                            "reset"}

\* Faulty variant: the logger created above the network thread.
LoggerCanRun_AboveNetwork == ~DhcpReady /\ ~SensorReady

SensorCanRun == ~DhcpReady
NetCanRun    == ~DhcpReady /\ ~SensorReady
LoggerCanRun == NetCanRun /\ ~NetReady

Init ==
  /\ cable \in BOOLEAN /\ flaps = 0
  /\ dhcp_pc = "poll" /\ prev_link_up = FALSE /\ ip_resolved = FALSE
  /\ address = "none"
  /\ sensor_pc = "run" /\ taken = 0 /\ sensor_queue = <<>>
  /\ logger_pc = "recv" /\ log_msg = None /\ network_queue = <<>>
  /\ net_pc = "wait" /\ net_msg = None /\ mqtt_connected = FALSE
  /\ dns_initialized = FALSE /\ session = "none"
  /\ dropped = {} /\ evicted = {} /\ lost = {} /\ published = {}

-----------------------------------------------------------------------------
(* Environment: the cable, and the broker closing the TCP connection.      *)

CableChange ==
  /\ flaps < MaxFlaps
  /\ cable' = ~cable
  /\ flaps' = flaps + 1
  /\ UNCHANGED <<dhcp, sensor, sensor_queue, logger, network_queue, net,
                 session, fates>>

BrokerDrops ==
  /\ flaps < MaxFlaps
  /\ session \in {"live", "stale"}
  /\ session' = "dead"
  /\ flaps' = flaps + 1
  /\ UNCHANGED <<cable, dhcp, sensor, sensor_queue, logger, network_queue,
                 net, fates>>

-----------------------------------------------------------------------------
(* dhcp_thread_entry                                                       *)

DhcpFrame == UNCHANGED <<env, sensor, sensor_queue, logger, network_queue,
                         net, fates>>

DhcpWake ==
  /\ dhcp_pc = "nap"
  /\ dhcp_pc' = "poll"
  /\ UNCHANGED <<prev_link_up, ip_resolved, address, session>>
  /\ DhcpFrame

DhcpPollSame ==
  /\ dhcp_pc = "poll"
  /\ cable = prev_link_up
  /\ dhcp_pc' = "nap"
  /\ UNCHANGED <<prev_link_up, ip_resolved, address, session>>
  /\ DhcpFrame

\* The link came up and the driver was enabled: nx_dhcp_start, then wait.
DhcpLinkUp ==
  /\ dhcp_pc = "poll"
  /\ cable /\ ~prev_link_up
  /\ dhcp_pc' = "waitIp"
  /\ UNCHANGED <<prev_link_up, ip_resolved, address, session>>
  /\ DhcpFrame

\* The driver refused: only a message is printed, and the change is taken
\* as handled.
DhcpEnableFails ==
  /\ EnableCanFail
  /\ dhcp_pc = "poll"
  /\ cable /\ ~prev_link_up
  /\ prev_link_up' = TRUE
  /\ dhcp_pc' = "nap"
  /\ UNCHANGED <<ip_resolved, address, session>>
  /\ DhcpFrame

\* nx_ip_status_check returned: an address was leased, or 1000 ticks went by
\* and the static address is used.  The cable is not looked at again.
DhcpResolved ==
  /\ dhcp_pc = "waitIp"
  /\ \/ cable /\ address' = "leased"
     \/ address' = "static"
  /\ ip_resolved' = TRUE
  /\ prev_link_up' = TRUE
  /\ dhcp_pc' = "nap"
  /\ UNCHANGED session
  /\ DhcpFrame

\* Faulty variant: ip_resolved is left set when the link goes down.
DhcpLinkDown_KeepsResolved ==
  /\ dhcp_pc = "poll"
  /\ ~cable /\ prev_link_up
  /\ address' = "none"
  /\ session' = IF session = "live" THEN "stale" ELSE session
  /\ prev_link_up' = FALSE
  /\ dhcp_pc' = "nap"
  /\ UNCHANGED ip_resolved
  /\ DhcpFrame

\* Faulty variant: the loss of the link is not recorded as handled.
DhcpLinkDown_KeepsPrevious ==
  /\ dhcp_pc = "poll"
  /\ ~cable /\ prev_link_up
  /\ ip_resolved' = FALSE
  /\ address' = "none"
  /\ session' = IF session = "live" THEN "stale" ELSE session
  /\ dhcp_pc' = "nap"
  /\ UNCHANGED prev_link_up
  /\ DhcpFrame

DhcpLinkDown ==
  /\ dhcp_pc = "poll"
  /\ ~cable /\ prev_link_up
  /\ ip_resolved' = FALSE
  /\ address' = "none"
  /\ session' = IF session = "live" THEN "stale" ELSE session
  /\ prev_link_up' = FALSE
  /\ dhcp_pc' = "nap"
  /\ DhcpFrame

DhcpThread ==
  \/ DhcpPollSame
  \/ DhcpLinkUp
  \/ DhcpEnableFails
  \/ DhcpLinkDown

-----------------------------------------------------------------------------
(* tx_queue_send with TX_NO_WAIT: a message for a suspended receiver is    *)
(* given to it directly, otherwise it is queued if there is room.          *)

\* Faulty variant: a queue created one message short of its memory.
HasRoom_OffByOne(q, cap) == Len(q) <= cap

HasRoom(q, cap) == Len(q) < cap

\* Readings a sequence or a holder contains.
InQueue(q) == {q[i] : i \in DOMAIN q}
Held(m)    == {m} \ {None}

-----------------------------------------------------------------------------
(* sensor_thread_entry                                                     *)

SensorFrame == UNCHANGED <<env, dhcp, network_queue, net, session,
                            evicted, lost, published>>

SensorWake ==
  /\ sensor_pc = "nap"
  /\ taken < MaxReadings
  /\ sensor_pc' = "run"
  /\ UNCHANGED <<taken, sensor_queue, logger_pc, log_msg, dropped>>
  /\ SensorFrame

SensorReadFails ==
  /\ sensor_pc = "run" /\ SensorCanRun
  /\ sensor_pc' = "nap"
  /\ UNCHANGED <<taken, sensor_queue, logger_pc, log_msg, dropped>>
  /\ SensorFrame

\* A reading is taken and sent: to the logger if it is suspended on the
\* queue, to the queue if there is room, else it is dropped.
SensorSend ==
  /\ sensor_pc = "run" /\ SensorCanRun
  /\ taken < MaxReadings
  /\ taken' = taken + 1
  /\ sensor_pc' = "nap"
  /\ \/ /\ logger_pc = "pend"
        /\ logger_pc' = "log"
        /\ log_msg' = taken + 1
        /\ UNCHANGED <<sensor_queue, dropped>>
     \/ /\ logger_pc # "pend"
        /\ HasRoom(sensor_queue, SensorCap)
        /\ sensor_queue' = Append(sensor_queue, taken + 1)
        /\ UNCHANGED <<logger_pc, log_msg, dropped>>
     \/ /\ logger_pc # "pend"
        /\ ~HasRoom(sensor_queue, SensorCap)
        /\ dropped' = dropped \union {taken + 1}
        /\ UNCHANGED <<logger_pc, log_msg, sensor_queue>>
  /\ SensorFrame

SensorThread == SensorReadFails \/ SensorSend

-----------------------------------------------------------------------------
(* logger_thread_entry                                                     *)

LoggerFrame == UNCHANGED <<env, dhcp, sensor, mqtt_connected,
                           dns_initialized, session, dropped,
                           published>>

LoggerReceive ==
  /\ logger_pc = "recv" /\ LoggerCanRun
  /\ IF sensor_queue = <<>>
     THEN /\ logger_pc' = "pend"
          /\ UNCHANGED <<log_msg, sensor_queue>>
     ELSE /\ logger_pc' = "log"
          /\ log_msg' = Head(sensor_queue)
          /\ sensor_queue' = Tail(sensor_queue)
  /\ UNCHANGED <<network_queue, net_pc, net_msg, evicted,
                 lost>>
  /\ LoggerFrame

\* fx_file_write and fx_media_flush, as a step of the thread: a failed write is
\* only reported, and the contents of the file are left out.
LoggerWrite ==
  /\ logger_pc = "log" /\ LoggerCanRun
  /\ logger_pc' = "forward"
  /\ UNCHANGED <<log_msg, sensor_queue, network_queue, net_pc, net_msg,
                 evicted, lost>>
  /\ LoggerFrame

\* The first tx_queue_send to network_queue.
LoggerForward ==
  /\ logger_pc = "forward" /\ LoggerCanRun
  /\ \/ /\ net_pc = "pend"
        /\ net_pc' = "check"
        /\ net_msg' = log_msg
        /\ logger_pc' = "recv" /\ log_msg' = None
        /\ UNCHANGED network_queue
     \/ /\ net_pc # "pend"
        /\ HasRoom(network_queue, NetCap)
        /\ network_queue' = Append(network_queue, log_msg)
        /\ logger_pc' = "recv" /\ log_msg' = None
        /\ UNCHANGED <<net_pc, net_msg>>
     \/ /\ net_pc # "pend"
        /\ ~HasRoom(network_queue, NetCap)
        /\ logger_pc' = "evict"
        /\ UNCHANGED <<network_queue, log_msg, net_pc, net_msg>>
  /\ UNCHANGED <<sensor_queue, evicted, lost>>
  /\ LoggerFrame

\* tx_queue_receive with TX_NO_WAIT: discards whatever is now at the front.
LoggerEvict ==
  /\ logger_pc = "evict" /\ LoggerCanRun
  /\ IF network_queue = <<>>
     THEN UNCHANGED <<network_queue, evicted>>
     ELSE /\ evicted' = evicted \union {Head(network_queue)}
          /\ network_queue' = Tail(network_queue)
  /\ logger_pc' = "retry"
  /\ UNCHANGED <<log_msg, sensor_queue, net_pc, net_msg, lost>>
  /\ LoggerFrame

\* The second tx_queue_send, whose result nobody looks at.
LoggerRetry ==
  /\ logger_pc = "retry" /\ LoggerCanRun
  /\ \/ /\ net_pc = "pend"
        /\ net_pc' = "check"
        /\ net_msg' = log_msg
        /\ UNCHANGED <<network_queue, lost>>
     \/ /\ net_pc # "pend"
        /\ HasRoom(network_queue, NetCap)
        /\ network_queue' = Append(network_queue, log_msg)
        /\ UNCHANGED <<net_pc, net_msg, lost>>
     \/ /\ net_pc # "pend"
        /\ ~HasRoom(network_queue, NetCap)
        /\ lost' = lost \union {log_msg}
        /\ UNCHANGED <<network_queue, net_pc, net_msg>>
  /\ logger_pc' = "recv" /\ log_msg' = None
  /\ UNCHANGED <<sensor_queue, evicted>>
  /\ LoggerFrame

LoggerThread ==
  \/ LoggerReceive
  \/ LoggerWrite
  \/ LoggerForward
  \/ LoggerEvict
  \/ LoggerRetry

-----------------------------------------------------------------------------
(* network_thread_entry: the reconnection and publish state machine.       *)

NetFrame == UNCHANGED <<env, dhcp, sensor, sensor_queue, logger,
                        dropped, evicted>>

NetWake ==
  /\ net_pc = "nap"
  /\ net_pc' = "wait"
  /\ UNCHANGED <<net_msg, mqtt_connected, dns_initialized, session,
                 network_queue, lost, published>>
  /\ NetFrame

\* Top of the loop: no address yet, sleep.
NetNoAddress ==
  /\ net_pc = "wait" /\ NetCanRun
  /\ ~ip_resolved
  /\ net_pc' = "nap"
  /\ UNCHANGED <<net_msg, mqtt_connected, dns_initialized, session,
                 network_queue, lost, published>>
  /\ NetFrame

\* nx_dns_create, once in the life of the program; if it fails, sleep.
NetDnsFails ==
  /\ net_pc = "wait" /\ NetCanRun
  /\ ip_resolved /\ ~dns_initialized
  /\ net_pc' = "nap"
  /\ UNCHANGED <<net_msg, mqtt_connected, dns_initialized, session,
                 network_queue, lost, published>>
  /\ NetFrame

NetDnsReady ==
  /\ net_pc = "wait" /\ NetCanRun
  /\ ip_resolved
  /\ dns_initialized' = TRUE
  /\ net_pc' = "resolve"
  /\ UNCHANGED <<net_msg, mqtt_connected, session, network_queue, lost,
                 published>>
  /\ NetFrame

\* nxd_dns_host_by_name_get and nxd_mqtt_client_connect failing: sleep, retry
\* from the top.
NetAttemptFails ==
  /\ net_pc \in {"resolve", "connect"} /\ NetCanRun
  /\ net_pc' = "nap"
  /\ UNCHANGED <<net_msg, mqtt_connected, dns_initialized, session,
                 network_queue, lost, published>>
  /\ NetFrame

NetResolved ==
  /\ net_pc = "resolve" /\ NetCanRun
  /\ cable
  /\ net_pc' = "connect"
  /\ UNCHANGED <<net_msg, mqtt_connected, dns_initialized, session,
                 network_queue, lost, published>>
  /\ NetFrame

\* The MQTT client accepts a connect only when it has no session.
NetConnected ==
  /\ net_pc = "connect" /\ NetCanRun
  /\ cable /\ session = "none"
  /\ session' = "live"
  /\ mqtt_connected' = TRUE
  /\ net_pc' = "loop"
  /\ UNCHANGED <<net_msg, dns_initialized, network_queue, lost, published>>
  /\ NetFrame

NetLoop ==
  /\ net_pc = "loop" /\ NetCanRun
  /\ net_pc' = IF ip_resolved /\ mqtt_connected THEN "recv" ELSE "leave"
  /\ UNCHANGED <<net_msg, mqtt_connected, dns_initialized, session,
                 network_queue, lost, published>>
  /\ NetFrame

NetReceive ==
  /\ net_pc = "recv" /\ NetCanRun
  /\ IF network_queue = <<>>
     THEN /\ net_pc' = "pend"
          /\ UNCHANGED <<net_msg, network_queue>>
     ELSE /\ net_pc' = "check"
          /\ net_msg' = Head(network_queue)
          /\ network_queue' = Tail(network_queue)
  /\ UNCHANGED <<mqtt_connected, dns_initialized, session, lost, published>>
  /\ NetFrame

NetReceiveTimeout ==
  /\ net_pc = "pend" /\ NetCanRun
  /\ net_pc' = "loop"
  /\ UNCHANGED <<net_msg, mqtt_connected, dns_initialized, session,
                 network_queue, lost, published>>
  /\ NetFrame

\* Faulty variant: the reading is sent again to the back of the queue.
NetCheck_AtBack ==
  /\ net_pc = "check" /\ NetCanRun
  /\ \/ /\ ip_resolved /\ mqtt_connected
        /\ net_pc' = "publish"
        /\ UNCHANGED <<net_msg, network_queue>>
     \/ /\ ~ip_resolved \/ ~mqtt_connected
        /\ network_queue' = Append(network_queue, net_msg)
        /\ net_msg' = None
        /\ net_pc' = "leave"
  /\ UNCHANGED <<mqtt_connected, dns_initialized, session, lost, published>>
  /\ NetFrame

\* Faulty variant: after putting the reading back the loop is not left.
NetCheck_NoBreak ==
  /\ net_pc = "check" /\ NetCanRun
  /\ network_queue' = IF ip_resolved /\ mqtt_connected THEN network_queue
                      ELSE <<net_msg>> \o network_queue
  /\ net_pc' = "publish"
  /\ UNCHANGED <<net_msg, mqtt_connected, dns_initialized, session, lost,
                 published>>
  /\ NetFrame

\* "Check if the link was lost while waiting for the message": if so the
\* message goes back to the front of the queue, or is lost if that is full.
NetCheck ==
  /\ net_pc = "check" /\ NetCanRun
  /\ \/ /\ ip_resolved /\ mqtt_connected
        /\ net_pc' = "publish"
        /\ UNCHANGED <<net_msg, network_queue, lost>>
     \/ /\ ~ip_resolved \/ ~mqtt_connected
        /\ IF HasRoom(network_queue, NetCap)
           THEN /\ network_queue' = <<net_msg>> \o network_queue
                /\ UNCHANGED lost
           ELSE /\ lost' = lost \union {net_msg}
                /\ UNCHANGED network_queue
        /\ net_msg' = None
        /\ net_pc' = "leave"
  /\ UNCHANGED <<mqtt_connected, dns_initialized, session, published>>
  /\ NetFrame

\* nxd_mqtt_client_publish at QoS 0 succeeds once the segment is queued on the
\* TCP socket; it fails without one or on a dropped one, and may fail on any.
NetPublished ==
  /\ net_pc = "publish" /\ NetCanRun
  /\ session \in {"live", "stale"}
  /\ published' = published \union {net_msg}
  /\ net_msg' = None
  /\ net_pc' = "loop"
  /\ UNCHANGED <<mqtt_connected, dns_initialized, session, network_queue,
                 lost>>
  /\ NetFrame

NetPublishFails ==
  /\ net_pc = "publish" /\ NetCanRun
  /\ lost' = lost \union {net_msg}
  /\ net_msg' = None
  /\ net_pc' = "close"
  /\ UNCHANGED <<mqtt_connected, dns_initialized, session, network_queue,
                 published>>
  /\ NetFrame

\* nxd_mqtt_client_disconnect after a failed publish: it may block in NetX,
\* and the flag says connected until it has returned.
NetDisconnect ==
  /\ net_pc = "close" /\ NetCanRun
  /\ session' = "none"
  /\ net_pc' = "clear"
  /\ UNCHANGED <<net_msg, mqtt_connected, dns_initialized, network_queue,
                 lost, published>>
  /\ NetFrame

\* Faulty variant: the flag is left set after a failed publish.
NetClear_KeepsFlag ==
  /\ net_pc = "clear" /\ NetCanRun
  /\ net_pc' = "loop"
  /\ UNCHANGED <<net_msg, mqtt_connected, dns_initialized, session,
                 network_queue, lost, published>>
  /\ NetFrame

NetClear ==
  /\ net_pc = "clear" /\ NetCanRun
  /\ mqtt_connected' = FALSE
  /\ net_pc' = "loop"
  /\ UNCHANGED <<net_msg, dns_initialized, session, network_queue, lost,
                 published>>
  /\ NetFrame

\* Faulty variant: the client is not disconnected on the way out.
NetLeave_NoDisconnect ==
  /\ net_pc = "leave" /\ NetCanRun
  /\ net_pc' = "reset"
  /\ UNCHANGED <<net_msg, mqtt_connected, dns_initialized, session,
                 network_queue, lost, published>>
  /\ NetFrame

NetLeave ==
  /\ net_pc = "leave" /\ NetCanRun
  /\ net_pc' = IF mqtt_connected THEN "quit" ELSE "reset"
  /\ UNCHANGED <<net_msg, mqtt_connected, dns_initialized, session,
                 network_queue, lost, published>>
  /\ NetFrame

\* The disconnect on the way out, which may block as well.
NetQuit ==
  /\ net_pc = "quit" /\ NetCanRun
  /\ session' = "none"
  /\ net_pc' = "reset"
  /\ UNCHANGED <<net_msg, mqtt_connected, dns_initialized, network_queue,
                 lost, published>>
  /\ NetFrame

NetReset ==
  /\ net_pc = "reset" /\ NetCanRun
  /\ mqtt_connected' = FALSE
  /\ net_pc' = "wait"
  /\ UNCHANGED <<net_msg, dns_initialized, session, network_queue, lost,
                 published>>
  /\ NetFrame

NetThread ==
  \/ NetNoAddress
  \/ NetDnsFails
  \/ NetDnsReady
  \/ NetAttemptFails
  \/ NetResolved
  \/ NetConnected
  \/ NetLoop
  \/ NetReceive
  \/ NetReceiveTimeout
  \/ NetCheck
  \/ NetPublished
  \/ NetPublishFails
  \/ NetDisconnect
  \/ NetClear
  \/ NetLeave
  \/ NetQuit
  \/ NetReset

-----------------------------------------------------------------------------
Next ==
  \/ CableChange \/ BrokerDrops
  \/ DhcpWake \/ DhcpThread \/ DhcpResolved
  \/ SensorWake \/ SensorThread
  \/ LoggerThread
  \/ NetWake \/ NetThread

Spec == Init /\ [][Next]_vars

\* Sleeps and timed waits end, and a ready thread is run again and again
\* although threads above it interrupt it: the threads sleep for most of the
\* time.  What is retried for ever while the cable is in succeeds: creating the
\* DNS client, resolving the broker and connecting to it.
Fairness ==
  /\ WF_vars(DhcpWake) /\ WF_vars(DhcpThread) /\ WF_vars(DhcpResolved)
  /\ WF_vars(SensorWake) /\ SF_vars(SensorThread)
  /\ WF_vars(NetWake) /\ SF_vars(NetThread)
  /\ SF_vars(NetDnsReady) /\ SF_vars(NetResolved) /\ SF_vars(NetConnected)
  /\ SF_vars(LoggerThread)

FairSpec == Spec /\ Fairness

-----------------------------------------------------------------------------
(* Properties.                                                             *)

Bound(q, cap) == q \in Seq(Reading) /\ Len(q) <= cap

TypeOK ==
  /\ cable \in BOOLEAN /\ flaps \in 0 .. MaxFlaps
  /\ dhcp_pc \in {"poll", "nap", "waitIp"}
  /\ prev_link_up \in BOOLEAN /\ ip_resolved \in BOOLEAN
  /\ address \in {"none", "leased", "static"}
  /\ sensor_pc \in {"run", "nap"} /\ taken \in 0 .. MaxReadings
  /\ Bound(sensor_queue, SensorCap) /\ Bound(network_queue, NetCap)
  /\ logger_pc \in {"recv", "pend", "log", "forward", "evict", "retry"}
  /\ log_msg \in Reading \union {None}
  /\ net_pc \in {"wait", "nap", "resolve", "connect", "loop", "recv", "pend",
                 "check", "publish", "close", "clear", "leave", "quit",
                 "reset"}
  /\ net_msg \in Reading \union {None}
  /\ mqtt_connected \in BOOLEAN /\ dns_initialized \in BOOLEAN
  /\ session \in {"none", "live", "stale", "dead"}
  /\ dropped \in SUBSET Reading /\ evicted \in SUBSET Reading
  /\ lost \in SUBSET Reading /\ published \in SUBSET Reading

\* The places a reading can be in, in the order of the pipeline.
Places ==
  <<published, evicted, lost, Held(net_msg), InQueue(network_queue),
    Held(log_msg), InQueue(sensor_queue), dropped>>

\* Every reading taken is in exactly one place: none vanishes and none is in
\* flight twice, through hand-overs to a suspended receiver, evictions,
\* re-queueing at the front and failed publishes.
Conservation ==
  \A r \in 1 .. taken :
    \E i \in DOMAIN Places :
      /\ r \in Places[i]
      /\ \A j \in DOMAIN Places : r \in Places[j] => j = i

Increasing(q) == \A i, j \in DOMAIN q : i < j => q[i] < q[j]
Before(S, T)  == \A x \in S, y \in T : x < y

\* The readings on their way to the broker.
InFlight == Held(net_msg) \union InQueue(network_queue) \union Held(log_msg)
            \union InQueue(sensor_queue)

\* Readings keep their order all along the pipeline, so the broker never
\* sees an older reading after a newer one, or one reading twice, although
\* the network thread puts a reading back at the front of the queue.
InOrder ==
  /\ Increasing(network_queue) /\ Increasing(sensor_queue)
  /\ Before(published, InFlight)
  /\ Before(Held(net_msg), InQueue(network_queue))
  /\ Before(Held(net_msg) \union InQueue(network_queue), Held(log_msg))
  /\ Before(Held(net_msg) \union InQueue(network_queue)
              \union Held(log_msg), InQueue(sensor_queue))

\* What reaches the broker is newer than everything that reached it before.
PublishesForward ==
  [][\A r \in published' \ published : Before(published, {r})]_published

\* The re-queue after a lost link always finds room: the logger cannot run
\* between the receive and the check, because its priority is lower.
RequeueFits == net_pc = "check" => HasRoom(network_queue, NetCap)

\* The logger's second send, whose result is ignored, never fails, so the
\* newest reading always enters the network queue.
RetryFits == logger_pc = "retry" => HasRoom(network_queue, NetCap)

\* Whenever the thread is about to open a session the previous one has been
\* closed and the flag cleared; the client refuses a second connect.
ClosedBeforeReconnect ==
  net_pc \in {"wait", "nap", "resolve", "connect"}
    => session = "none" /\ ~mqtt_connected

\* ip_resolved is only set with an address, and only after the link thread
\* has recorded the link as up, so that a later cable loss is noticed.
ResolvedIsMonitored ==
  ip_resolved => address # "none" /\ prev_link_up

-----------------------------------------------------------------------------
(* Liveness, under FairSpec.                                               *)

\* A lost connection shows only in the next publish; here there is none to make.
Unnoticed == session \in {"stale", "dead"} /\ InFlight = {}

\* With the cable in for good, the station gets (back) to a live session with its
\* broker, again and again, whatever flaps and broker drops came before: it
\* does not stay without one, nor on a lost one while it has readings to send.
Reconnects == <>[]cable => []<>(session = "live" \/ Unnoticed)

\* With the cable in for good, every reading leaves the queues.
Drains == <>[]cable => <>[](sensor_queue = <<>> /\ network_queue = <<>>)

\* With the cable out for good, the station stops believing in its address
\* and closes its session.
LossNoticed ==
  <>[]~cable => <>[](~ip_resolved /\ ~mqtt_connected /\ session = "none")

=============================================================================

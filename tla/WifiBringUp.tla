---------------------------- MODULE WifiBringUp ----------------------------
(***************************************************************************)
(* MXChip/AZ3166/app/common/wwd_networking.c, as the starter, mqtt and     *)
(* arcade applications call it: wwd_network_init creates the network step  *)
(* by step and deletes by hand what it created when a step fails;          *)
(* wwd_network_connect, called whatever came of that, joins the Wi-Fi      *)
(* network, waits for an address, sets the DNS servers and synchronises    *)
(* the time (SntpClient).                                                  *)
(*                                                                         *)
(* The network is brought up once per start, so the Wi-Fi is never already *)
(* connected when wwd_network_connect begins.  A delete is a step of its   *)
(* own.                                                                    *)
(***************************************************************************)
EXTENDS SntpClient, Sequences, SequencesExt

\* The calls of wwd_network_init and of sntp_init, which it makes last.
Calls ==
  <<"tx_pool", "rx_pool", "wifi", "ip", "arp", "tcp", "udp", "icmp", "dhcp",
    "dhcp_start", "dns", "dns_pool", "sntp_flags", "sntp", "sntp_time",
    "sntp_notify">>

\* The calls that create an object of that name.
Objects == {"tx_pool", "rx_pool", "ip", "dhcp", "dns", "sntp_flags", "sntp"}

Pools == <<"tx_pool", "rx_pool">>

\* Faulty variant: the DHCP client is forgotten where DNS cannot be created.
CleanUp_ForgetsDhcp(call) ==
  CASE call = "tx_pool" -> <<>>
    [] call = "rx_pool" -> <<"tx_pool">>
    [] call \in {"wifi", "ip"} -> Pools
    [] call \in {"arp", "tcp", "udp", "icmp", "dhcp", "dns"} ->
         <<"ip">> \o Pools
    [] call = "dhcp_start" -> <<"dhcp", "ip">> \o Pools
    [] call \in {"dns_pool", "sntp_flags", "sntp"} ->
         <<"dns", "dhcp", "ip">> \o Pools
    [] call \in {"sntp_time", "sntp_notify"} ->
         <<"sntp", "dns", "dhcp", "ip">> \o Pools

\* Faulty variant: sntp_init leaves its client to a caller that does not
\* know of it.
CleanUp_KeepsSntp(call) ==
  CASE call = "tx_pool" -> <<>>
    [] call = "rx_pool" -> <<"tx_pool">>
    [] call \in {"wifi", "ip"} -> Pools
    [] call \in {"arp", "tcp", "udp", "icmp", "dhcp"} -> <<"ip">> \o Pools
    [] call \in {"dhcp_start", "dns"} -> <<"dhcp", "ip">> \o Pools
    [] OTHER -> <<"dns", "dhcp", "ip">> \o Pools

\* What is deleted, in this order, when a call fails.
CleanUp(call) ==
  CASE call = "tx_pool" -> <<>>
    [] call = "rx_pool" -> <<"tx_pool">>
    [] call \in {"wifi", "ip"} -> Pools
    [] call \in {"arp", "tcp", "udp", "icmp", "dhcp"} -> <<"ip">> \o Pools
    [] call \in {"dhcp_start", "dns"} -> <<"dhcp", "ip">> \o Pools
    [] call \in {"dns_pool", "sntp_flags", "sntp"} ->
         <<"dns", "dhcp", "ip">> \o Pools
    [] call \in {"sntp_time", "sntp_notify"} ->
         <<"sntp", "dns", "dhcp", "ip">> \o Pools

\* The objects an object works on.
Needs ==
  [o \in Objects |-> CASE o = "ip" -> {"tx_pool"}
                       [] o \in {"dhcp", "dns", "sntp"} -> {"ip", "tx_pool"}
                       [] OTHER -> {}]

\* The Wi-Fi driver is no object, but it was given both pools by wwd_buffer_init
\* and works on them as long as the radio is on.
DriverNeeds == {"tx_pool", "rx_pool"}

VARIABLES
  ap, dhcp_server,   \* is there an access point, and a DHCP server?
  objects,           \* those that exist
  radio,             \* is the Wi-Fi chip on?
  net_pc, call,      \* the thread; number of its call in Calls
  failed,            \* did wwd_network_init fail?
  todo,              \* objects still to be deleted
  ip_mutex,          \* nx_ip_protection: "app", the "ip" thread, or nobody
  joined, address    \* Wi-Fi joined, address assigned

ladder == <<objects, radio, call, failed, todo>>
link   == <<ap, dhcp_server, joined, address>>
wifi   == <<ladder, link, net_pc, ip_mutex>>
vars   == <<sntp, wifi>>

Init ==
  /\ SntpInit
  /\ ap \in BOOLEAN /\ dhcp_server \in BOOLEAN
  /\ objects = {} /\ radio = FALSE
  /\ net_pc = "init" /\ call = 1 /\ failed = FALSE /\ todo = <<>>
  /\ ip_mutex = "nobody"
  /\ joined = FALSE /\ address = FALSE

-----------------------------------------------------------------------------
(* wwd_network_init                                                        *)

CallSucceeds ==
  /\ net_pc = "init" /\ call <= Len(Calls)
  /\ objects' = objects \union ({Calls[call]} \intersect Objects)
  /\ radio' = (radio \/ Calls[call] = "wifi")
  /\ call' = call + 1
  /\ net_pc' = IF call = Len(Calls) THEN "connect" ELSE "init"
  /\ UNCHANGED <<sntp, link, failed, todo, ip_mutex>>

CallFails ==
  /\ net_pc = "init" /\ call <= Len(Calls)
  /\ failed' = TRUE
  /\ todo' = CleanUp(Calls[call])
  /\ net_pc' = "clean"
  /\ UNCHANGED <<sntp, link, objects, radio, call, ip_mutex>>

\* An IP instance is deleted under its mutex.
Delete ==
  /\ net_pc = "clean" /\ todo # <<>>
  /\ Head(todo) = "ip" => ip_mutex = "nobody"
  /\ objects' = objects \ {Head(todo)}
  /\ todo' = Tail(todo)
  /\ UNCHANGED <<sntp, link, radio, net_pc, call, failed, ip_mutex>>

\* wwd_network_init returns; the caller prints the error and goes on.
InitReturns ==
  /\ net_pc = "clean" /\ todo = <<>>
  /\ net_pc' = "connect"
  /\ UNCHANGED <<sntp, ladder, link, ip_mutex>>

-----------------------------------------------------------------------------
(* wwd_network_connect                                                     *)

\* tx_mutex_get of the IP instance; without one it fails, and nobody looks.
TakeMutex ==
  /\ net_pc = "connect"
  /\ IF "ip" \in objects THEN ip_mutex = "nobody" /\ ip_mutex' = "app"
                         ELSE UNCHANGED ip_mutex
  /\ net_pc' = "join"
  /\ UNCHANGED <<sntp, ladder, link>>

\* wwd_wifi_join, tx_mutex_put.  A chip that is off joins nothing; a driver whose
\* pools were deleted may or may not find the buffers to join.
Join ==
  /\ net_pc = "join"
  /\ \/ joined' = (radio /\ ap)
     \/ ~(DriverNeeds \subseteq objects) /\ joined' = FALSE
  /\ ip_mutex' = IF ip_mutex = "app" THEN "nobody" ELSE ip_mutex
  /\ net_pc' = "joinNap"
  /\ UNCHANGED <<sntp, ladder, ap, dhcp_server, address>>

\* Five seconds later: again, as long as it failed.
JoinNapEnds ==
  /\ net_pc = "joinNap"
  /\ net_pc' = IF joined THEN "dhcp" ELSE "connect"
  /\ UNCHANGED <<sntp, ladder, link, ip_mutex>>

\* nx_ip_status_check
Resolved == "ip" \in objects /\ address

\* dhcp_connect: an address within 30 seconds.
HasAddress ==
  /\ net_pc = "dhcp" /\ Resolved
  /\ net_pc' = "dns"
  /\ UNCHANGED <<sntp, ladder, link, ip_mutex>>

\* Faulty variant: the error is printed, but not returned.
NoAddress_GoesOn ==
  /\ net_pc = "dhcp" /\ ~Resolved
  /\ net_pc' = "dns"
  /\ UNCHANGED <<sntp, ladder, link, ip_mutex>>

\* ... or none, or no IP instance to ask.  wwd_network_connect returns, and is
\* not called again.
NoAddress ==
  /\ net_pc = "dhcp" /\ ~Resolved
  /\ net_pc' = "offline"
  /\ UNCHANGED <<sntp, ladder, link, ip_mutex>>

\* dns_connect: any of its calls may fail.
DnsFails ==
  /\ net_pc = "dns"
  /\ net_pc' = "offline"
  /\ UNCHANGED <<sntp, ladder, link, ip_mutex>>

Dns ==
  /\ net_pc = "dns"
  /\ net_pc' = "sync" /\ CallSync
  /\ UNCHANGED <<ladder, link, ip_mutex>>

SyncReturns ==
  /\ net_pc = "sync" /\ pc = "done"
  /\ net_pc' = "online"
  /\ UNCHANGED <<sntp, ladder, link, ip_mutex>>

NetworkThread ==
  \/ CallSucceeds \/ CallFails \/ Delete \/ InitReturns
  \/ TakeMutex \/ Join \/ JoinNapEnds \/ HasAddress \/ NoAddress
  \/ DnsFails \/ Dns \/ SyncReturns

-----------------------------------------------------------------------------
(* The IP thread works under its mutex, and with it the DHCP client.       *)

IpThreadTakes ==
  /\ "ip" \in objects /\ ip_mutex = "nobody"
  /\ ip_mutex' = "ip"
  /\ UNCHANGED <<sntp, ladder, link, net_pc>>

IpThreadGives ==
  /\ ip_mutex = "ip"
  /\ ip_mutex' = "nobody"
  /\ address' = (address \/ (joined /\ dhcp_server))
  /\ UNCHANGED <<sntp, ladder, ap, dhcp_server, net_pc, joined>>

ApComesUp ==
  /\ ~ap /\ ap' = TRUE
  /\ UNCHANGED <<sntp, ladder, dhcp_server, net_pc, ip_mutex, joined, address>>

-----------------------------------------------------------------------------
Next ==
  \/ NetworkThread
  \/ IpThreadTakes \/ IpThreadGives \/ ApComesUp
  \/ (SyncThread \/ ServerComesUp \/ Answer) /\ UNCHANGED wifi

Spec == Init /\ [][Next]_vars

\* The threads go on (the IP thread takes turns with the network thread at
\* the mutex); servers that are up keep answering.
FairSpec ==
  /\ Spec
  /\ SF_vars(NetworkThread) /\ WF_vars(IpThreadGives)
  /\ WF_vars(SyncThread /\ UNCHANGED wifi) /\ WF_vars(Answer /\ UNCHANGED wifi)

-----------------------------------------------------------------------------
(* Properties                                                              *)

\* The variables have their types.
TypeOK ==
  /\ SntpTypeOK
  /\ objects \subseteq Objects /\ ToSet(todo) \subseteq Objects
  /\ {ap, dhcp_server, radio, failed, joined, address} \subseteq BOOLEAN
  /\ net_pc \in {"init", "clean", "connect", "join", "joinNap", "dhcp", "dns",
                 "sync", "offline", "online"}
  /\ call \in 1..Len(Calls) + 1
  /\ ip_mutex \in {"nobody", "app", "ip"}

\* Among the objects of NetX the hand-written clean-up deletes only what was
\* created and not deleted before, and nothing that an object still there works
\* on, whichever call failed.  The Wi-Fi driver has its pools until a call
\* fails; no clean-up turns the radio off, and each of those after
\* wifi_init deletes the pools under it.
DeletesInOrder ==
  /\ ToSet(todo) \subseteq objects
  /\ \A o \in objects : Needs[o] \subseteq objects
  /\ radio /\ ~failed => DriverNeeds \subseteq objects

\* After a failure no object is left but the event flags of sntp_init (the
\* radio, no object, stays on); without one everything is there.
AllOrNothing ==
  /\ TypeOK
  /\ net_pc \notin {"init", "clean"} =>
       IF failed THEN objects \subseteq {"sntp_flags"} ELSE objects = Objects

\* The application connects even when the initialisation failed; the time is
\* nevertheless synchronised on a network that is there: joined, with an
\* address, and every object in place; and the time is one that a server told.
SyncsOnNetwork ==
  /\ pc # "idle" => ~failed /\ objects = Objects /\ joined /\ address
  /\ TimeWasTold

\* Once there is an access point, wwd_network_connect returns, after an
\* initialisation that worked, if by then one of the time servers is up and
\* answers come in time, whatever the servers before it in the table do.
ConnectReturns ==
  net_pc \in {"connect", "join", "joinNap"} /\ ap /\ ~failed
    /\ in_time /\ up # {}
    ~> net_pc \in {"online", "offline"}
=============================================================================

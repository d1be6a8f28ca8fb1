---------------------------- MODULE AZ3166Proofs ----------------------------
(***************************************************************************)
(* Theorems about the two programs of the AZ3166 board: WifiBringUp, for   *)
(* every table of time servers, and MqttTelemetry, for every queue.  The   *)
(* lists of wwd_network_init are those of the code: the proofs go through  *)
(* its sixteen calls and the eight lists of objects that remain to be      *)
(* deleted.                                                                *)
(***************************************************************************)
EXTENDS WifiBringUp, MqttTelemetry, SequenceTheorems, TLAPS

-----------------------------------------------------------------------------
(* Lists of objects.                                                       *)

Three == <<"ip", "tx_pool", "rx_pool">>
Four  == <<"dhcp", "ip", "tx_pool", "rx_pool">>
Five  == <<"dns", "dhcp", "ip", "tx_pool", "rx_pool">>
Six   == <<"sntp", "dns", "dhcp", "ip", "tx_pool", "rx_pool">>

\* What CleanUp returns, and what is left of it after some deletes.
ToDelete == {<<>>, <<"tx_pool">>, <<"rx_pool">>, Pools, Three, Four, Five, Six}

\* Nothing that is there works on something that is not.
Closed(S) == \A o \in S : Needs[o] \subseteq S

\* A concatenation, by its elements.
LEMMA ConcatIs ==
  ASSUME NEW S, NEW s \in Seq(S), NEW t \in Seq(S), NEW u \in Seq(S),
         Len(u) = Len(s) + Len(t), \A i \in 1..Len(s) : u[i] = s[i],
         \A i \in 1..Len(t) : u[Len(s) + i] = t[i]
  PROVE  s \o t = u
<1> DEFINE v == s \o t
<1>1. /\ v \in Seq(S) /\ Len(v) = Len(s) + Len(t)
      /\ \A i \in 1 .. Len(s) + Len(t) : v[i] = IF i <= Len(s) THEN s[i] ELSE t[i - Len(s)]
  BY ConcatProperties, Zenon
<1>2. Len(s) \in Nat /\ Len(t) \in Nat
  OBVIOUS
<1> HIDE DEF v
<1>3. ASSUME NEW i \in 1..Len(v) PROVE v[i] = u[i]
  <2>1. CASE i <= Len(s)
    BY <1>1, <1>2, <2>1
  <2>2. CASE ~(i <= Len(s))
    <3>1. i - Len(s) \in 1..Len(t) /\ i = Len(s) + (i - Len(s))
       BY <1>1, <1>2, <2>2
    <3> QED BY <1>1, <2>2, <3>1
  <2> QED BY <2>1, <2>2
<1> QED BY <1>1, <1>3, SeqEqual DEF v

\* One before two.
LEMMA ConcatOne ==
  ASSUME NEW a, NEW e, NEW f
  PROVE  <<a>> \o <<e, f>> = <<a, e, f>>
<1> DEFINE S == {a, e, f}
           s == <<a>>
           t == <<e, f>>
           u == <<a, e, f>>
<1>1. s \in Seq(S) /\ Len(s) = 1
  OBVIOUS
<1>2. t \in Seq(S) /\ Len(t) = 2
  OBVIOUS
<1>3. u \in Seq(S) /\ Len(u) = 3
  OBVIOUS
<1>4. \A i \in 1..1 : u[i] = s[i]
  OBVIOUS
<1>5. \A i \in 1..2 : u[1 + i] = t[i]
  OBVIOUS
<1> HIDE DEF S, s, t, u
<1>6. /\ Len(u) = Len(s) + Len(t)
      /\ \A i \in 1..Len(s) : u[i] = s[i]
      /\ \A i \in 1..Len(t) : u[Len(s) + i] = t[i]
  BY <1>1, <1>2, <1>3, <1>4, <1>5
<1>7. s \o t = u
  BY <1>1, <1>2, <1>3, <1>6, ConcatIs, Zenon
<1> QED BY <1>7 DEF s, t, u

\* Two before two.
LEMMA ConcatTwo ==
  ASSUME NEW a, NEW b, NEW e, NEW f
  PROVE  <<a, b>> \o <<e, f>> = <<a, b, e, f>>
<1> DEFINE S == {a, b, e, f}
           s == <<a, b>>
           t == <<e, f>>
           u == <<a, b, e, f>>
<1>1. s \in Seq(S) /\ Len(s) = 2
  OBVIOUS
<1>2. t \in Seq(S) /\ Len(t) = 2
  OBVIOUS
<1>3. u \in Seq(S) /\ Len(u) = 4
  OBVIOUS
<1>4. \A i \in 1..2 : u[i] = s[i]
  OBVIOUS
<1>5. \A i \in 1..2 : u[2 + i] = t[i]
  OBVIOUS
<1> HIDE DEF S, s, t, u
<1>6. /\ Len(u) = Len(s) + Len(t)
      /\ \A i \in 1..Len(s) : u[i] = s[i]
      /\ \A i \in 1..Len(t) : u[Len(s) + i] = t[i]
  BY <1>1, <1>2, <1>3, <1>4, <1>5
<1>7. s \o t = u
  BY <1>1, <1>2, <1>3, <1>6, ConcatIs, Zenon
<1> QED BY <1>7 DEF s, t, u

\* Three before two.
LEMMA ConcatThree ==
  ASSUME NEW a, NEW b, NEW c, NEW e, NEW f
  PROVE  <<a, b, c>> \o <<e, f>> = <<a, b, c, e, f>>
<1> DEFINE S == {a, b, c, e, f}
           s == <<a, b, c>>
           t == <<e, f>>
           u == <<a, b, c, e, f>>
<1>1. s \in Seq(S) /\ Len(s) = 3
  OBVIOUS
<1>2. t \in Seq(S) /\ Len(t) = 2
  OBVIOUS
<1>3. u \in Seq(S) /\ Len(u) = 5
  OBVIOUS
<1>4. \A i \in 1..3 : u[i] = s[i]
  OBVIOUS
<1>5. \A i \in 1..2 : u[3 + i] = t[i]
  OBVIOUS
<1> HIDE DEF S, s, t, u
<1>6. /\ Len(u) = Len(s) + Len(t)
      /\ \A i \in 1..Len(s) : u[i] = s[i]
      /\ \A i \in 1..Len(t) : u[Len(s) + i] = t[i]
  BY <1>1, <1>2, <1>3, <1>4, <1>5
<1>7. s \o t = u
  BY <1>1, <1>2, <1>3, <1>6, ConcatIs, Zenon
<1> QED BY <1>7 DEF s, t, u

\* Four before two.
LEMMA ConcatFour ==
  ASSUME NEW a, NEW b, NEW c, NEW d, NEW e, NEW f
  PROVE  <<a, b, c, d>> \o <<e, f>> = <<a, b, c, d, e, f>>
<1> DEFINE S == {a, b, c, d, e, f}
           s == <<a, b, c, d>>
           t == <<e, f>>
           u == <<a, b, c, d, e, f>>
<1>1. s \in Seq(S) /\ Len(s) = 4
  OBVIOUS
<1>2. t \in Seq(S) /\ Len(t) = 2
  OBVIOUS
<1>3. u \in Seq(S) /\ Len(u) = 6
  OBVIOUS
<1>4. \A i \in 1..4 : u[i] = s[i]
  OBVIOUS
<1>5. \A i \in 1..2 : u[4 + i] = t[i]
  OBVIOUS
<1> HIDE DEF S, s, t, u
<1>6. /\ Len(u) = Len(s) + Len(t)
      /\ \A i \in 1..Len(s) : u[i] = s[i]
      /\ \A i \in 1..Len(t) : u[Len(s) + i] = t[i]
  BY <1>1, <1>2, <1>3, <1>4, <1>5
<1>7. s \o t = u
  BY <1>1, <1>2, <1>3, <1>6, ConcatIs, Zenon
<1> QED BY <1>7 DEF s, t, u

\* The sixteen calls.
LEMMA TheCalls ==
  /\ Len(Calls) = 16
  /\ Calls[1] = "tx_pool" /\ Calls[2] = "rx_pool" /\ Calls[3] = "wifi" /\ Calls[4] = "ip"
  /\ Calls[5] = "arp" /\ Calls[6] = "tcp" /\ Calls[7] = "udp" /\ Calls[8] = "icmp"
  /\ Calls[9] = "dhcp" /\ Calls[10] = "dhcp_start" /\ Calls[11] = "dns"
  /\ Calls[12] = "dns_pool" /\ Calls[13] = "sntp_flags" /\ Calls[14] = "sntp"
  /\ Calls[15] = "sntp_time" /\ Calls[16] = "sntp_notify"
BY DEF Calls

\* What each call that fails leaves to be deleted.
LEMMA CleanUps ==
  /\ CleanUp(Calls[1]) = <<>> /\ CleanUp(Calls[2]) = <<"tx_pool">>
  /\ \A k \in 3..4 : CleanUp(Calls[k]) = Pools
  /\ \A k \in 5..9 : CleanUp(Calls[k]) = Three
  /\ \A k \in 10..11 : CleanUp(Calls[k]) = Four
  /\ \A k \in 12..14 : CleanUp(Calls[k]) = Five
  /\ \A k \in 15..16 : CleanUp(Calls[k]) = Six
<1>1. <<"ip">> \o Pools = Three
  <2>1. <<"ip">> \o <<"tx_pool", "rx_pool">> = <<"ip", "tx_pool", "rx_pool">>
    BY ConcatOne
  <2> QED BY <2>1 DEF Pools, Three
<1>2. <<"dhcp", "ip">> \o Pools = Four
  <2>1. <<"dhcp", "ip">> \o <<"tx_pool", "rx_pool">>
          = <<"dhcp", "ip", "tx_pool", "rx_pool">>
    BY ConcatTwo
  <2> QED BY <2>1 DEF Pools, Four
<1>3. <<"dns", "dhcp", "ip">> \o Pools = Five
  <2>1. <<"dns", "dhcp", "ip">> \o <<"tx_pool", "rx_pool">>
          = <<"dns", "dhcp", "ip", "tx_pool", "rx_pool">>
    BY ConcatThree
  <2> QED BY <2>1 DEF Pools, Five
<1>4. <<"sntp", "dns", "dhcp", "ip">> \o Pools = Six
  <2>1. <<"sntp", "dns", "dhcp", "ip">> \o <<"tx_pool", "rx_pool">>
          = <<"sntp", "dns", "dhcp", "ip", "tx_pool", "rx_pool">>
    BY ConcatFour
  <2> QED BY <2>1 DEF Pools, Six
<1>5. CleanUp(Calls[1]) = <<>> /\ CleanUp(Calls[2]) = <<"tx_pool">>
  BY TheCalls DEF CleanUp
<1>6. ASSUME NEW k \in 3..4 PROVE CleanUp(Calls[k]) = Pools
  <2>1. Calls[k] \in {"wifi", "ip"}
    BY TheCalls
  <2> QED BY <2>1 DEF CleanUp
<1>7. ASSUME NEW k \in 5..9 PROVE CleanUp(Calls[k]) = Three
  <2>1. Calls[k] \in {"arp", "tcp", "udp", "icmp", "dhcp"}
    BY TheCalls
  <2> QED BY <1>1, <2>1 DEF CleanUp
<1>8. ASSUME NEW k \in 10..11 PROVE CleanUp(Calls[k]) = Four
  <2>1. Calls[k] \in {"dhcp_start", "dns"}
    BY TheCalls
  <2> QED BY <1>2, <2>1 DEF CleanUp
<1>9. ASSUME NEW k \in 12..14 PROVE CleanUp(Calls[k]) = Five
  <2>1. Calls[k] \in {"dns_pool", "sntp_flags", "sntp"}
    BY TheCalls
  <2> QED BY <1>3, <2>1 DEF CleanUp
<1>10. ASSUME NEW k \in 15..16 PROVE CleanUp(Calls[k]) = Six
  <2>1. Calls[k] \in {"sntp_time", "sntp_notify"}
    BY TheCalls
  <2> QED BY <1>4, <2>1 DEF CleanUp
<1> QED BY <1>5, <1>6, <1>7, <1>8, <1>9, <1>10

\* What the lists hold.
LEMMA Contents ==
  /\ ToSet(<<>>) = {}
  /\ ToSet(<<"tx_pool">>) = {"tx_pool"} /\ ToSet(<<"rx_pool">>) = {"rx_pool"}
  /\ ToSet(Pools) = {"tx_pool", "rx_pool"}
  /\ ToSet(Three) = {"ip", "tx_pool", "rx_pool"}
  /\ ToSet(Four) = {"dhcp", "ip", "tx_pool", "rx_pool"}
  /\ ToSet(Five) = {"dns", "dhcp", "ip", "tx_pool", "rx_pool"}
  /\ ToSet(Six) = {"sntp", "dns", "dhcp", "ip", "tx_pool", "rx_pool"}
<1>1. /\ ToSet(<<>>) = {}
      /\ ToSet(<<"tx_pool">>) = {"tx_pool"} /\ ToSet(<<"rx_pool">>) = {"rx_pool"}
  BY DEF ToSet
<1>2. ToSet(Pools) = {"tx_pool", "rx_pool"}
  BY DEF ToSet, Pools
<1>3. ToSet(Three) = {"ip", "tx_pool", "rx_pool"}
  BY DEF ToSet, Three
<1>4. ToSet(Four) = {"dhcp", "ip", "tx_pool", "rx_pool"}
  BY DEF ToSet, Four
<1>5. ToSet(Five) = {"dns", "dhcp", "ip", "tx_pool", "rx_pool"}
  BY DEF ToSet, Five
<1>6. ToSet(Six) = {"sntp", "dns", "dhcp", "ip", "tx_pool", "rx_pool"}
  BY DEF ToSet, Six
<1> QED BY <1>1, <1>2, <1>3, <1>4, <1>5, <1>6

\* Each list without its first object is the next.
LEMMA Tails ==
  /\ Head(<<"tx_pool">>) = "tx_pool" /\ Tail(<<"tx_pool">>) = <<>>
  /\ Head(<<"rx_pool">>) = "rx_pool" /\ Tail(<<"rx_pool">>) = <<>>
  /\ Head(Pools) = "tx_pool" /\ Tail(Pools) = <<"rx_pool">>
  /\ Head(Three) = "ip" /\ Tail(Three) = Pools
  /\ Head(Four) = "dhcp" /\ Tail(Four) = Three
  /\ Head(Five) = "dns" /\ Tail(Five) = Four
  /\ Head(Six) = "sntp" /\ Tail(Six) = Five
<1>1. /\ Head(<<"tx_pool">>) = "tx_pool" /\ Tail(<<"tx_pool">>) = <<>>
      /\ Head(<<"rx_pool">>) = "rx_pool" /\ Tail(<<"rx_pool">>) = <<>>
  OBVIOUS
<1>2. Head(Pools) = "tx_pool" /\ Tail(Pools) = <<"rx_pool">>
  BY DEF Pools
<1>3. Head(Three) = "ip" /\ Tail(Three) = Pools
  BY DEF Pools, Three
<1>4. Head(Four) = "dhcp" /\ Tail(Four) = Three
  BY DEF Three, Four
<1>5. Head(Five) = "dns" /\ Tail(Five) = Four
  BY DEF Four, Five
<1>6. Head(Six) = "sntp" /\ Tail(Six) = Five
  BY DEF Five, Six
<1> QED BY <1>1, <1>2, <1>3, <1>4, <1>5, <1>6

\* A delete takes the first object of the list, and that one only.
LEMMA OneDelete ==
  ASSUME NEW t \in ToDelete, t # <<>>
  PROVE  /\ Tail(t) \in ToDelete
         /\ Head(t) # "sntp_flags"
         /\ ToSet(Tail(t)) = ToSet(t) \ {Head(t)}
<1>1. CASE t \in {<<"tx_pool">>, <<"rx_pool">>}
  BY <1>1, Tails, Contents DEF ToDelete
<1>2. CASE t = Pools
  BY <1>2, Tails, Contents DEF ToDelete
<1>3. CASE t = Three
  BY <1>3, Tails, Contents DEF ToDelete
<1>4. CASE t = Four
  BY <1>4, Tails, Contents DEF ToDelete
<1>5. CASE t = Five
  BY <1>5, Tails, Contents DEF ToDelete
<1>6. CASE t = Six
  BY <1>6, Tails, Contents DEF ToDelete
<1> QED BY <1>1, <1>2, <1>3, <1>4, <1>5, <1>6 DEF ToDelete

\* What is left to be deleted can do without what has been deleted.
LEMMA NothingMissing ==
  ASSUME NEW t \in ToDelete
  PROVE  ToSet(t) \subseteq Objects \ {"sntp_flags"} /\ Closed(ToSet(t))
<1>1. CASE t \in {<<>>, <<"tx_pool">>, <<"rx_pool">>, Pools}
  BY <1>1, Contents DEF Objects, Needs, Closed
<1>2. CASE t = Three
  BY <1>2, Contents DEF Objects, Needs, Closed
<1>3. CASE t = Four
  BY <1>3, Contents DEF Objects, Needs, Closed
<1>4. CASE t = Five
  BY <1>4, Contents DEF Objects, Needs, Closed
<1>5. CASE t = Six
  BY <1>5, Contents DEF Objects, Needs, Closed
<1> QED BY <1>1, <1>2, <1>3, <1>4, <1>5 DEF ToDelete

\* The objects that exist before the k-th call: those that its failure has
\* deleted, and the event flags.
Made(k) ==
  ToSet(CleanUp(Calls[k])) \union (IF k > 13 THEN {"sntp_flags"} ELSE {})

\* ... one by one.
LEMMA MadeSets ==
  /\ Made(1) = {} /\ Made(2) = {"tx_pool"}
  /\ \A k \in 3..4 : Made(k) = {"tx_pool", "rx_pool"}
  /\ \A k \in 5..9 : Made(k) = {"ip", "tx_pool", "rx_pool"}
  /\ \A k \in 10..11 : Made(k) = {"dhcp", "ip", "tx_pool", "rx_pool"}
  /\ \A k \in 12..13 : Made(k) = {"dns", "dhcp", "ip", "tx_pool", "rx_pool"}
  /\ Made(14) = {"sntp_flags", "dns", "dhcp", "ip", "tx_pool", "rx_pool"}
  /\ \A k \in 15..16 :
       Made(k) = {"sntp_flags", "sntp", "dns", "dhcp", "ip", "tx_pool", "rx_pool"}
<1>1. Made(1) = {} /\ Made(2) = {"tx_pool"}
  BY CleanUps, Contents DEF Made
<1>2. \A k \in 3..4 : Made(k) = {"tx_pool", "rx_pool"}
  BY CleanUps, Contents DEF Made
<1>3. \A k \in 5..9 : Made(k) = {"ip", "tx_pool", "rx_pool"}
  BY CleanUps, Contents DEF Made
<1>4. \A k \in 10..11 : Made(k) = {"dhcp", "ip", "tx_pool", "rx_pool"}
  BY CleanUps, Contents DEF Made
<1>5. \A k \in 12..13 : Made(k) = {"dns", "dhcp", "ip", "tx_pool", "rx_pool"}
  BY CleanUps, Contents DEF Made
<1>6. Made(14) = {"sntp_flags", "dns", "dhcp", "ip", "tx_pool", "rx_pool"}
  BY CleanUps, Contents DEF Made
<1>7. \A k \in 15..16 :
       Made(k) = {"sntp_flags", "sntp", "dns", "dhcp", "ip", "tx_pool", "rx_pool"}
  BY CleanUps, Contents DEF Made
<1> QED BY <1>1, <1>2, <1>3, <1>4, <1>5, <1>6, <1>7

\* A call that succeeds adds its object to those.
LEMMA OneCall ==
  ASSUME NEW k \in 1..16
  PROVE  Made(k) \union ({Calls[k]} \intersect Objects)
           = IF k = 16 THEN Objects ELSE Made(k + 1)
<1>1. CASE k = 1
  <2>1. Made(k + 1) = Made(2) /\ k # 16
    BY <1>1
  <2> QED BY <1>1, <2>1, TheCalls, MadeSets DEF Objects
<1>2. CASE k = 2
  <2>1. Made(k + 1) = Made(3) /\ k # 16
    BY <1>2
  <2> QED BY <1>2, <2>1, TheCalls, MadeSets DEF Objects
<1>3. CASE k = 3
  <2>1. Made(k + 1) = Made(4) /\ k # 16
    BY <1>3
  <2> QED BY <1>3, <2>1, TheCalls, MadeSets DEF Objects
<1>4. CASE k = 4
  <2>1. Made(k + 1) = Made(5) /\ k # 16
    BY <1>4
  <2> QED BY <1>4, <2>1, TheCalls, MadeSets DEF Objects
<1>5. CASE k = 9
  <2>1. Made(k + 1) = Made(10) /\ k # 16
    BY <1>5
  <2> QED BY <1>5, <2>1, TheCalls, MadeSets DEF Objects
<1>6. CASE k = 10
  <2>1. Made(k + 1) = Made(11) /\ k # 16
    BY <1>6
  <2> QED BY <1>6, <2>1, TheCalls, MadeSets DEF Objects
<1>7. CASE k = 11
  <2>1. Made(k + 1) = Made(12) /\ k # 16
    BY <1>7
  <2> QED BY <1>7, <2>1, TheCalls, MadeSets DEF Objects
<1>8. CASE k = 12
  <2>1. Made(k + 1) = Made(13) /\ k # 16
    BY <1>8
  <2> QED BY <1>8, <2>1, TheCalls, MadeSets DEF Objects
<1>9. CASE k = 13
  <2>1. Made(k + 1) = Made(14) /\ k # 16
    BY <1>9
  <2> QED BY <1>9, <2>1, TheCalls, MadeSets DEF Objects
<1>10. CASE k = 14
  <2>1. Made(k + 1) = Made(15) /\ k # 16
    BY <1>10
  <2> QED BY <1>10, <2>1, TheCalls, MadeSets DEF Objects
<1>11. CASE k = 15
  <2>1. Made(k + 1) = Made(16) /\ k # 16
    BY <1>11
  <2> QED BY <1>11, <2>1, TheCalls, MadeSets DEF Objects
<1>12. CASE k \in 5..8
  <2>1. Made(k + 1) = {"ip", "tx_pool", "rx_pool"} /\ Made(k) = Made(k + 1)
    BY <1>12, MadeSets
  <2>2. Calls[k] \in {"arp", "tcp", "udp", "icmp"} /\ k # 16
    BY <1>12, TheCalls
  <2> QED BY <2>1, <2>2 DEF Objects
<1>13. CASE k = 16
  BY <1>13, TheCalls, MadeSets DEF Objects
<1> QED BY <1>1, <1>2, <1>3, <1>4, <1>5, <1>6, <1>7, <1>8, <1>9, <1>10, <1>11,
           <1>12, <1>13

\* The list of a call holds what was made before it.
LEMMA CleanUpOf ==
  ASSUME NEW k \in 1..16
  PROVE  /\ CleanUp(Calls[k]) \in ToDelete
         /\ Made(k) \ {"sntp_flags"} = ToSet(CleanUp(Calls[k]))
<1>1. CleanUp(Calls[k]) \in ToDelete
  BY CleanUps DEF ToDelete
<1>2. "sntp_flags" \notin ToSet(CleanUp(Calls[k]))
  BY <1>1, NothingMissing
<1> QED BY <1>1, <1>2 DEF Made

-----------------------------------------------------------------------------
(* The inductive invariant.                                                *)

\* sntp_sync: the table is not left by more than one, and the event is
\* raised by an answer only.
Sntp ==
  /\ SntpTypeOK
  /\ pc = "start" => sntp_server_count \in 0 .. NServers
  /\ flag => answers # {}
  /\ TimeWasTold

Types ==
  /\ ap \in BOOLEAN /\ dhcp_server \in BOOLEAN /\ radio \in BOOLEAN
  /\ failed \in BOOLEAN /\ joined \in BOOLEAN /\ address \in BOOLEAN
  /\ net_pc \in {"init", "clean", "connect", "join", "joinNap", "dhcp", "dns",
                 "sync", "offline", "online"}
  /\ call \in 1..17
  /\ ip_mutex \in {"nobody", "app", "ip"}

\* Before each call the objects of the calls before it are there; after one
\* that failed, what is there is what is still to be deleted.
Ladder ==
  /\ net_pc = "init" => call \in 1..16 /\ ~failed /\ objects = Made(call)
  /\ net_pc \notin {"init", "clean"} =>
       todo = <<>> /\ (~failed => objects = Objects)
  /\ net_pc = "clean" => failed
  /\ ~failed => todo = <<>>
  /\ failed => todo \in ToDelete /\ objects \ {"sntp_flags"} = ToSet(todo)
  /\ net_pc = "init" /\ radio => call > 3

\* An address can only be found where there is an IP instance.
Connected ==
  /\ net_pc \in {"dhcp", "dns", "sync", "online"} => joined
  /\ net_pc \in {"dns", "sync", "online"} => address /\ "ip" \in objects
  /\ pc # "idle" => net_pc \in {"sync", "online"}

Inv == Sntp /\ Types /\ Ladder /\ Connected

-----------------------------------------------------------------------------
(* Steps of the SNTP client and its servers.                               *)

\* The thread that synchronises, its servers, or the call of sntp_sync keep
\* the client's part.
LEMMA SntpStep ==
  ASSUME Sntp, SyncThread \/ ServerComesUp \/ Answer \/ CallSync
  PROVE  Sntp'
<1>0. /\ up \subseteq Server /\ changes \in 0 .. MaxChanges /\ in_time \in BOOLEAN
      /\ client \in Server \union {None} /\ flag \in BOOLEAN
      /\ sntp_server_count \in 0 .. NServers + 1
      /\ pc \in {"idle", "check", "start", "wait", "stop", "done", "fault"}
      /\ answers \subseteq Server
      /\ pc = "start" => sntp_server_count \in 0 .. NServers
      /\ flag => answers # {}
      /\ pc \in {"stop", "done"} => answers # {}
      /\ NServers \in Nat \ {0} /\ MaxChanges \in Nat
  BY SntpClientAssumption DEF Sntp, SntpTypeOK, TimeWasTold
<1>1. CASE ServerComesUp
  <2>1. changes' \in 0 .. MaxChanges /\ up' \subseteq Server
    BY <1>0, <1>1 DEF ServerComesUp
  <2> QED BY <1>0, <1>1, <2>1 DEF ServerComesUp, Sntp, SntpTypeOK, TimeWasTold
<1>2. CASE Answer
  <2>1. client \in Server /\ answers' \subseteq Server /\ answers' # {}
    BY <1>0, <1>2 DEF Answer, None
  <2> QED BY <1>0, <1>2, <2>1 DEF Answer, world, Sntp, SntpTypeOK, TimeWasTold
<1>3. CASE CallSync
  BY <1>0, <1>3 DEF CallSync, world, Sntp, SntpTypeOK, TimeWasTold
<1>4. CASE FailOut
  BY <1>0, <1>4 DEF FailOut, world, Sntp, SntpTypeOK, TimeWasTold
<1>5. CASE StopClient
  <2>1. sntp_server_count \in 0 .. NServers
    BY <1>0, <1>5 DEF StopClient, RotatedThrough
  <2> QED BY <1>0, <1>5, <2>1 DEF StopClient, world, Sntp, SntpTypeOK, TimeWasTold
<1>6. CASE StartFails
  <2>1. sntp_server_count + 1 \in 0 .. NServers + 1
    BY <1>0, <1>6 DEF StartFails
  <2> QED BY <1>0, <1>6, <2>1 DEF StartFails, world, Sntp, SntpTypeOK, TimeWasTold
<1>7. CASE Start
  <2>1. sntp_server_count + 1 \in 0 .. NServers + 1
    BY <1>0, <1>7 DEF Start
  <2> QED BY <1>0, <1>7, <2>1 DEF Start, world, Sntp, SntpTypeOK, TimeWasTold
<1>8. CASE Fault
  BY <1>0, <1>8 DEF Fault, world, Sntp, SntpTypeOK, TimeWasTold
<1>9. CASE Updated
  BY <1>0, <1>9 DEF Updated, world, Sntp, SntpTypeOK, TimeWasTold
<1>10. CASE TimedOut
  BY <1>0, <1>10 DEF TimedOut, world, Sntp, SntpTypeOK, TimeWasTold
<1>11. CASE Stop
  BY <1>0, <1>11 DEF Stop, world, Sntp, SntpTypeOK, TimeWasTold
<1> QED BY <1>1, <1>2, <1>3, <1>4, <1>5, <1>6, <1>7, <1>8, <1>9, <1>10, <1>11
       DEF SyncThread

\* A step that leaves the client alone keeps its part.
LEMMA SntpKept ==
  ASSUME Sntp, UNCHANGED sntp
  PROVE  Sntp'
BY DEF Sntp, SntpTypeOK, TimeWasTold, sntp, world

-----------------------------------------------------------------------------
(* Steps of the network thread.                                            *)

\* wwd_network_init.
LEMMA LadderStep ==
  ASSUME Inv, CallSucceeds \/ CallFails \/ Delete \/ InitReturns
  PROVE  Types' /\ Ladder'
<1>0. Types /\ Ladder
  BY DEF Inv
<1>1. CASE CallSucceeds
  <2>1. /\ call \in 1..16 /\ ~failed /\ objects = Made(call) /\ todo = <<>>
    BY <1>0, <1>1 DEF CallSucceeds, Ladder
  <2>2. objects' = IF call = 16 THEN Objects ELSE Made(call + 1)
    BY <1>1, <2>1, OneCall DEF CallSucceeds
  <2>3. /\ call' = call + 1 /\ net_pc' = IF call = 16 THEN "connect" ELSE "init"
        /\ failed' = failed /\ todo' = todo
    BY <1>1, TheCalls DEF CallSucceeds, ladder
  <2>7. radio' => call + 1 > 3
    <3>1. radio' = (radio \/ Calls[call] = "wifi")
      BY <1>1 DEF CallSucceeds
    <3>2. radio => call > 3
      BY <1>0, <1>1 DEF CallSucceeds, Ladder
    <3>3. Calls[call] = "wifi" => call = 3
      BY <2>1, TheCalls
    <3>4. call > 3 \/ call = 3 => call + 1 > 3
      BY <2>1
    <3> QED BY <3>1, <3>2, <3>3, <3>4, Zenon
  <2>4. Ladder'
    <3>1. CASE call = 16
      BY <2>1, <2>2, <2>3, <3>1 DEF Ladder
    <3>2. CASE call # 16
      <4>1. call + 1 \in 1..16
        BY <2>1, <3>2
      <4> QED BY <2>1, <2>2, <2>3, <2>7, <3>2, <4>1 DEF Ladder
    <3> QED BY <3>1, <3>2
  <2>5. radio' \in BOOLEAN
    <3>1. radio \in BOOLEAN /\ radio' = (radio \/ Calls[call] = "wifi")
      BY <1>0, <1>1, Zenon DEF CallSucceeds, Types
    <3> QED BY <3>1, Zenon
  <2>6. call + 1 \in 1..17
    BY <2>1
  <2> QED BY <1>0, <1>1, <2>3, <2>4, <2>5, <2>6 DEF CallSucceeds, link, Types
<1>2. CASE CallFails
  <2>1. /\ call \in 1..16 /\ objects = Made(call)
    BY <1>0, <1>2 DEF CallFails, Ladder
  <2>2. /\ todo' \in ToDelete /\ objects' \ {"sntp_flags"} = ToSet(todo')
    BY <1>2, <2>1, CleanUpOf DEF CallFails
  <2>3. Ladder'
    BY <1>2, <2>2 DEF CallFails, Ladder
  <2> QED BY <1>0, <1>2, <2>3 DEF CallFails, link, Types
<1>3. CASE Delete
  <2>1. /\ failed /\ todo \in ToDelete /\ todo # <<>>
        /\ objects \ {"sntp_flags"} = ToSet(todo)
    BY <1>0, <1>3 DEF Delete, Ladder
  <2>2. todo' = Tail(todo) /\ objects' = objects \ {Head(todo)}
    BY <1>3 DEF Delete
  <2>3. /\ todo' \in ToDelete /\ objects' \ {"sntp_flags"} = ToSet(todo')
    BY <2>1, <2>2, OneDelete
  <2>4. Ladder'
    BY <1>3, <2>1, <2>3 DEF Delete, Ladder
  <2> QED BY <1>0, <1>3, <2>4 DEF Delete, link, Types
<1>4. CASE InitReturns
  BY <1>0, <1>4 DEF InitReturns, ladder, link, Types, Ladder
<1> QED BY <1>1, <1>2, <1>3, <1>4

\* The synchronisation has not begun, and nothing is said about the network.
LEMMA ConnectedThen ==
  ASSUME Connected, UNCHANGED sntp,
         net_pc \in {"init", "clean", "connect", "join", "joinNap"},
         net_pc' \in {"init", "clean", "connect", "join", "joinNap"}
  PROVE  Connected'
BY DEF Connected, sntp

\* wwd_network_connect.
LEMMA ConnectStep ==
  ASSUME Inv, TakeMutex \/ Join \/ JoinNapEnds \/ HasAddress \/ NoAddress \/ DnsFails
              \/ Dns \/ SyncReturns
  PROVE  Types' /\ Ladder' /\ Connected'
<1>0. Types /\ Ladder /\ Connected
  BY DEF Inv
<1>1. CASE TakeMutex
  <2>1. ip_mutex' \in {"nobody", "app", "ip"}
    BY <1>0, <1>1 DEF TakeMutex, Types
  <2>2. UNCHANGED <<sntp, ladder, link>> /\ net_pc = "connect" /\ net_pc' = "join"
    BY <1>1 DEF TakeMutex
  <2> QED BY <1>0, <2>1, <2>2, ConnectedThen DEF ladder, link, Types, Ladder
<1>2. CASE Join
  <2>1. ip_mutex' \in {"nobody", "app", "ip"}
    BY <1>0, <1>2 DEF Join, Types
  <2>2. joined' \in BOOLEAN
    BY <1>0, <1>2, Zenon DEF Join, Types
  <2>3. /\ UNCHANGED <<sntp, ladder, ap, dhcp_server, address>>
        /\ net_pc = "join" /\ net_pc' = "joinNap"
    BY <1>2 DEF Join
  <2> QED BY <1>0, <2>1, <2>2, <2>3, ConnectedThen DEF ladder, Types, Ladder
<1>3. CASE JoinNapEnds
  <2>1. /\ UNCHANGED <<sntp, ladder, link, ip_mutex>>
        /\ net_pc = "joinNap" /\ net_pc' = IF joined THEN "dhcp" ELSE "connect"
    BY <1>3 DEF JoinNapEnds
  <2> QED BY <1>0, <2>1 DEF ladder, link, sntp, Types, Ladder, Connected
<1>4. CASE HasAddress
  <2>1. /\ UNCHANGED <<sntp, ladder, link, ip_mutex>>
        /\ net_pc = "dhcp" /\ net_pc' = "dns" /\ "ip" \in objects /\ address
    BY <1>4 DEF HasAddress, Resolved
  <2> QED BY <1>0, <2>1 DEF ladder, link, sntp, Types, Ladder, Connected
<1>5. CASE NoAddress \/ DnsFails
  <2>1. /\ UNCHANGED <<sntp, ladder, link, ip_mutex>>
        /\ net_pc \in {"dhcp", "dns"} /\ net_pc' = "offline"
    BY <1>5 DEF NoAddress, DnsFails
  <2> QED BY <1>0, <2>1 DEF ladder, link, sntp, Types, Ladder, Connected
<1>6. CASE Dns
  <2>1. /\ UNCHANGED <<ladder, link, ip_mutex>>
        /\ net_pc = "dns" /\ net_pc' = "sync"
    BY <1>6 DEF Dns
  <2> QED BY <1>0, <2>1 DEF ladder, link, Types, Ladder, Connected
<1>7. CASE SyncReturns
  <2>1. /\ UNCHANGED <<sntp, ladder, link, ip_mutex>>
        /\ net_pc = "sync" /\ net_pc' = "online"
    BY <1>7 DEF SyncReturns
  <2> QED BY <1>0, <2>1 DEF ladder, link, sntp, Types, Ladder, Connected
<1> QED BY <1>1, <1>2, <1>3, <1>4, <1>5, <1>6, <1>7

\* The IP thread and the access point: an address once assigned stays.
LEMMA LinkStep ==
  ASSUME Inv, IpThreadTakes \/ IpThreadGives \/ ApComesUp
  PROVE  Types' /\ Ladder' /\ Connected'
<1>0. Types /\ Ladder /\ Connected
  BY DEF Inv
<1>1. CASE IpThreadTakes
  BY <1>0, <1>1 DEF IpThreadTakes, ladder, link, sntp, Types, Ladder, Connected
<1>2. CASE IpThreadGives
  <2>1. address' \in BOOLEAN /\ (address => address')
    BY <1>0, <1>2, Zenon DEF IpThreadGives, Types
  <2>2. /\ UNCHANGED <<sntp, ladder, ap, dhcp_server, net_pc, joined>>
        /\ ip_mutex' = "nobody"
    BY <1>2 DEF IpThreadGives
  <2> QED BY <1>0, <2>1, <2>2 DEF ladder, sntp, Types, Ladder, Connected
<1>3. CASE ApComesUp
  BY <1>0, <1>3 DEF ApComesUp, ladder, sntp, Types, Ladder, Connected
<1> QED BY <1>1, <1>2, <1>3

\* Before wwd_network_connect the client has no part in anything.
LEMMA InitStep ==
  ASSUME Inv, CallSucceeds \/ CallFails \/ Delete \/ InitReturns
  PROVE  Connected' /\ UNCHANGED sntp
<1>1. /\ UNCHANGED sntp /\ net_pc \in {"init", "clean"}
      /\ net_pc' \in {"init", "clean", "connect"}
  BY DEF CallSucceeds, CallFails, Delete, InitReturns
<1> QED BY <1>1, ConnectedThen DEF Inv

\* Every step keeps the invariant.
LEMMA InvStep ==
  ASSUME Inv, [Next]_vars
  PROVE  Inv'
<1>0. Sntp /\ Types /\ Ladder /\ Connected
  BY DEF Inv
<1>1. CASE CallSucceeds \/ CallFails \/ Delete \/ InitReturns
  BY <1>0, <1>1, LadderStep, InitStep, SntpKept DEF Inv
<1>2. CASE TakeMutex \/ Join \/ JoinNapEnds \/ HasAddress \/ NoAddress \/ DnsFails
           \/ SyncReturns
  <2>1. UNCHANGED sntp
    BY <1>2 DEF TakeMutex, Join, JoinNapEnds, HasAddress, NoAddress, DnsFails, SyncReturns
  <2> QED BY <1>0, <1>2, <2>1, ConnectStep, SntpKept DEF Inv
<1>3. CASE Dns
  <2>1. CallSync
    BY <1>3 DEF Dns
  <2> QED BY <1>0, <1>3, <2>1, ConnectStep, SntpStep DEF Inv
<1>4. CASE IpThreadTakes \/ IpThreadGives \/ ApComesUp
  <2>1. UNCHANGED sntp
    BY <1>4 DEF IpThreadTakes, IpThreadGives, ApComesUp
  <2> QED BY <1>0, <1>4, <2>1, LinkStep, SntpKept DEF Inv
<1>5. CASE (SyncThread \/ ServerComesUp \/ Answer) /\ UNCHANGED wifi
  <2>1. Sntp'
    BY <1>0, <1>5, SntpStep
  <2>2. pc' # "idle" => pc # "idle"
    BY <1>5 DEF SyncThread, FailOut, StopClient, StartFails, Start, Fault, Updated,
       TimedOut, Stop, ServerComesUp, Answer, world
  <2>3. UNCHANGED <<ap, dhcp_server, objects, radio, net_pc, call, failed, todo,
                    ip_mutex, joined, address>>
    BY <1>5 DEF wifi, ladder, link
  <2> QED BY <1>0, <2>1, <2>2, <2>3 DEF Types, Ladder, Connected, Inv
<1>6. CASE UNCHANGED vars
  <2>1. UNCHANGED sntp /\ UNCHANGED wifi
    BY <1>6 DEF vars
  <2>2. Sntp'
    BY <1>0, <2>1, SntpKept
  <2> QED BY <1>0, <2>1, <2>2
         DEF wifi, ladder, link, sntp, Types, Ladder, Connected, Inv
<1> QED BY <1>1, <1>2, <1>3, <1>4, <1>5, <1>6 DEF Next, NetworkThread

\* It holds before the first call.
LEMMA InitInv == Init => Inv
<1> SUFFICES ASSUME Init PROVE Inv
  OBVIOUS
<1>1. Sntp
  <2>1. 0 \in 0 .. MaxChanges /\ 0 \in 0 .. NServers + 1
    BY SntpClientAssumption
  <2>2. /\ up \subseteq Server /\ changes = 0 /\ in_time \in BOOLEAN /\ client = None
        /\ flag = FALSE /\ sntp_server_count = 0 /\ pc = "idle" /\ answers = {}
    BY DEF Init, SntpInit
  <2>3. SntpTypeOK
    BY <2>1, <2>2 DEF SntpTypeOK
  <2> QED BY <2>2, <2>3 DEF Sntp, TimeWasTold
<1>2. Types
  <2>1. /\ ap \in BOOLEAN /\ dhcp_server \in BOOLEAN /\ radio \in BOOLEAN
        /\ failed \in BOOLEAN /\ joined \in BOOLEAN /\ address \in BOOLEAN
    BY Zenon DEF Init
  <2>2. net_pc = "init" /\ call = 1 /\ ip_mutex = "nobody"
    BY DEF Init
  <2> QED BY <2>1, <2>2 DEF Types
<1>3. Ladder
  <2>1. objects = Made(1)
    BY MadeSets DEF Init
  <2> QED BY <2>1 DEF Init, Ladder
<1>4. Connected
  BY DEF Init, SntpInit, Connected
<1> QED BY <1>1, <1>2, <1>3, <1>4 DEF Inv

-----------------------------------------------------------------------------
(* The theorems.                                                           *)

\* The invariant holds in every state the program can reach.
THEOREM Invariance == Spec => []Inv
<1>1. Init => Inv
  BY InitInv
<1>2. Inv /\ [Next]_vars => Inv'
  BY InvStep
<1> QED BY <1>1, <1>2, PTL DEF Spec

\* All objects of the network can do without anything else.
LEMMA AllClosed ==
  /\ Closed(Objects)
  /\ \A k \in 1..16 : Closed(Made(k)) /\ Made(k) \subseteq Objects
<1>1. Closed(Objects)
  BY DEF Closed, Objects, Needs
<1>2. ASSUME NEW k \in 1..16 PROVE Closed(Made(k)) /\ Made(k) \subseteq Objects
  <2> DEFINE S == ToSet(CleanUp(Calls[k]))
  <2>1. S \subseteq Objects \ {"sntp_flags"} /\ Closed(S)
    BY CleanUpOf, NothingMissing
  <2>2. Needs["sntp_flags"] = {}
    BY DEF Needs, Objects
  <2>3. Made(k) = S \/ Made(k) = S \union {"sntp_flags"}
    BY DEF Made
  <2>4. "sntp_flags" \in Objects
    BY DEF Objects
  <2> HIDE DEF S
  <2> QED BY <2>1, <2>2, <2>3, <2>4 DEF Closed
<1> QED BY <1>1, <1>2

\* What there is, whichever call fails and however many deletes have been made.
LEMMA WhatThereIs ==
  ASSUME Inv
  PROVE  /\ ToSet(todo) \subseteq objects
         /\ objects \subseteq Objects
         /\ Closed(objects)
         /\ radio /\ ~failed => DriverNeeds \subseteq objects
<1>0. Types /\ Ladder
  BY DEF Inv
<1>1. CASE failed
  <2> DEFINE S == ToSet(todo)
  <2>1. objects \ {"sntp_flags"} = S /\ S \subseteq Objects \ {"sntp_flags"} /\ Closed(S)
    BY <1>0, <1>1, NothingMissing DEF Ladder
  <2>2. "sntp_flags" \in Objects /\ Needs["sntp_flags"] = {}
    BY DEF Objects, Needs
  <2> HIDE DEF S
  <2>3. S \subseteq objects /\ objects \subseteq Objects /\ Closed(objects)
    BY <2>1, <2>2 DEF Closed
  <2> QED BY <1>1, <2>3 DEF S
<1>2. CASE ~failed
  <2>1. todo = <<>> /\ ToSet(todo) = {}
    BY <1>0, <1>2, Contents DEF Ladder
  <2>2. objects = Objects \/ \E k \in 1..16 : objects = Made(k) /\ (radio => k > 3)
    BY <1>0, <1>2 DEF Ladder, Types
  <2>3. ASSUME NEW k \in 1..16, k > 3 PROVE DriverNeeds \subseteq Made(k)
    BY <2>3, MadeSets DEF DriverNeeds
  <2>4. DriverNeeds \subseteq Objects
    BY DEF DriverNeeds, Objects
  <2>5. CASE objects = Objects
    <3>1. Closed(Objects)
      BY AllClosed
    <3>2. Closed(objects)
      BY <2>5, <3>1
    <3>3. objects \subseteq Objects /\ DriverNeeds \subseteq objects
      BY <2>4, <2>5
    <3>4. ToSet(todo) \subseteq objects
      BY <2>1
    <3> QED BY <3>2, <3>3, <3>4
  <2>6. CASE objects # Objects
    <3>1. PICK k \in 1..16 : objects = Made(k) /\ (radio => k > 3)
      BY <2>2, <2>6
    <3>2. Closed(Made(k)) /\ Made(k) \subseteq Objects
      BY AllClosed
    <3>3. radio => DriverNeeds \subseteq Made(k)
      BY <2>3, <3>1
    <3> QED BY <2>1, <3>1, <3>2, <3>3, Zenon
  <2> QED BY <2>5, <2>6
<1> QED BY <1>1, <1>2

\* Whichever of the sixteen calls fails, what is deleted by hand exists, is
\* deleted once, and no other object that still exists works on it; the
\* Wi-Fi driver, which no clean-up stops, has its pools until a call fails.
THEOREM NothingDeletedTwice == Spec => []DeletesInOrder
<1>1. Inv => DeletesInOrder
  BY WhatThereIs DEF DeletesInOrder, Closed
<1> QED BY <1>1, Invariance, PTL

\* After a failure nothing is left but the event flags; without one everything
\* is there.
THEOREM NothingHalfMade == Spec => []AllOrNothing
<1>1. Inv => AllOrNothing
  <2> SUFFICES ASSUME Inv PROVE AllOrNothing
    OBVIOUS
  <2>0. Sntp /\ Types /\ Ladder
    BY DEF Inv
  <2>1. objects \subseteq Objects /\ ToSet(todo) \subseteq Objects
    BY WhatThereIs
  <2>2. {ap, dhcp_server, radio, failed, joined, address} \subseteq BOOLEAN
    BY <2>0, Zenon DEF Types
  <2>3. call \in 1..Len(Calls) + 1
    BY <2>0, TheCalls DEF Types
  <2>4. TypeOK
    BY <2>0, <2>1, <2>2, <2>3 DEF Sntp, Types, TypeOK
  <2>5. net_pc \notin {"init", "clean"} =>
          IF failed THEN objects \subseteq {"sntp_flags"} ELSE objects = Objects
    <3>1. CASE failed /\ net_pc \notin {"init", "clean"}
      <4>1. todo = <<>> /\ objects \ {"sntp_flags"} = ToSet(todo) /\ ToSet(todo) = {}
        BY <2>0, <3>1, Contents DEF Ladder
      <4> QED BY <3>1, <4>1
    <3>2. CASE ~failed \/ net_pc \in {"init", "clean"}
      BY <2>0, <3>2 DEF Ladder
    <3> QED BY <3>1, <3>2
  <2> QED BY <2>4, <2>5 DEF AllOrNothing
<1> QED BY <1>1, Invariance, PTL

\* The time is synchronised on a network that is there, although the
\* application connects whatever came of the initialisation; and the time is
\* one that a server told, although the table may be left.
THEOREM SyncsOnlyOnNetwork == Spec => []SyncsOnNetwork
<1>1. Inv => SyncsOnNetwork
  <2> SUFFICES ASSUME Inv PROVE SyncsOnNetwork
    OBVIOUS
  <2>0. Sntp /\ Types /\ Ladder /\ Connected
    BY DEF Inv
  <2>1. ASSUME pc # "idle"
        PROVE  ~failed /\ objects = Objects /\ joined /\ address
    <3>1. net_pc \in {"sync", "online"} /\ joined /\ address /\ "ip" \in objects
      BY <2>0, <2>1 DEF Connected
    <3>2. ~failed
      <4> SUFFICES ASSUME failed PROVE FALSE
        OBVIOUS
      <4>1. todo = <<>> /\ objects \ {"sntp_flags"} = ToSet(todo) /\ ToSet(todo) = {}
        BY <2>0, <3>1, Contents DEF Ladder
      <4> QED BY <3>1, <4>1
    <3>3. objects = Objects
      BY <2>0, <3>1, <3>2 DEF Ladder
    <3> QED BY <3>1, <3>2, <3>3
  <2> QED BY <2>0, <2>1 DEF Sntp, SyncsOnNetwork
<1> QED BY <1>1, Invariance, PTL

-----------------------------------------------------------------------------
(* MqttTelemetry.                                                          *)

\* What was published is older than n.
OlderThan(n) == \A i \in DOMAIN published : published[i] < n

Increasing ==
  \A i, j \in DOMAIN published : i < j => published[i] < published[j]

\* A reading that is announced, and stored, is newer than all that were
\* published and than the one that is about to be.
Announced ==
  MessageReady \in flags /\ tel_pc = "nap" =>
    OlderThan(current) /\ (mqtt_pc = "publish" => buffer < current)

\* What the thread is about to publish is announced, stored and new; between
\* the wait and the copy into the buffer no reading is announced, and no flag
\* stays set while the thread is suspended on the group.  What it is about
\* to queue is a message.
Taken ==
  /\ mqtt_pc \in {"dispatch", "format"} => MessageReady \notin flags
  /\ mqtt_pc = "pend" => flags = {}
  /\ mqtt_pc = "dispatch" => events # {}
  /\ mqtt_pc = "dispatch" /\ MessageReady \in events /\ tel_pc = "nap" =>
       OlderThan(current)
  /\ mqtt_pc = "format" => tel_pc = "nap" /\ OlderThan(current)
  /\ mqtt_pc = "publish" => OlderThan(buffer) /\ buffer <= current
  /\ mqtt_pc = "queue" => message # 0

Telemetry ==
  /\ MqttTypeOK
  /\ tel_pc = "store" => current < MaxReadings
  /\ \A i \in DOMAIN published : published[i] <= current
  /\ Increasing
  /\ Announced
  /\ Taken

\* The invariant of the two threads is inductive.
THEOREM TelemetryInvariance == MqttSpec => []Telemetry
<1> USE MqttTelemetryAssumption DEF MqttTelemetryAssumption, MessageReady, ReceiveEvent
<1>1. MqttInit => Telemetry
  <2> SUFFICES ASSUME MqttInit PROVE Telemetry
    OBVIOUS
  <2>1. DOMAIN published = {} /\ Len(mqtt_queue) = 0
    BY DEF MqttInit
  <2>2. mqtt_queue \in Seq(1..MaxMessages) /\ inbox \in Seq(1..MaxMessages)
        /\ published \in Seq(0..MaxReadings)
    BY DEF MqttInit
  <2>3. /\ queue_created \in BOOLEAN /\ group = FALSE /\ flags = {}
        /\ subscribed = FALSE /\ notify = FALSE /\ signal = FALSE
        /\ arrived = 0 /\ message = 0 /\ buffer = 0 /\ current = 0
        /\ tel_pc = "nap" /\ mqtt_pc = "start" /\ events = {} /\ missed = 0
    BY DEF MqttInit
  <2>4. MqttTypeOK
    <3> DEFINE pcs == {"start", "connect", "listen", "wait", "pend", "dispatch",
                       "fetch", "queue", "format", "publish"}
    <3>1. /\ mqtt_pc \in pcs /\ tel_pc \in {"nap", "store"}
          /\ group \in BOOLEAN /\ subscribed \in BOOLEAN /\ notify \in BOOLEAN
          /\ signal \in BOOLEAN
      BY <2>3
    <3>2. /\ arrived \in 0..MaxMessages /\ message \in 0..MaxMessages
          /\ buffer \in 0..MaxReadings /\ current \in 0..MaxReadings
          /\ Len(mqtt_queue) <= QueueSize /\ missed \in Nat
      BY <2>1, <2>3
    <3>3. /\ flags \subseteq {ReceiveEvent, MessageReady}
          /\ events \subseteq {ReceiveEvent, MessageReady}
      BY <2>3
    <3> QED BY <2>2, <2>3, <3>1, <3>2, <3>3, Zenon DEF MqttTypeOK
  <2> QED BY <2>1, <2>3, <2>4 DEF Telemetry, Announced, Taken, OlderThan, Increasing
<1>2. Telemetry /\ [MqttNext]_mqtt_vars => Telemetry'
  <2> SUFFICES ASSUME Telemetry, [MqttNext]_mqtt_vars PROVE Telemetry'
    OBVIOUS
  <2> USE DEF Telemetry, MqttTypeOK, Announced, Taken, OlderThan, Increasing,
          mqtt_client, telemetry, thread, MqttStep,
          MqttCanRun, TelemetryCanRun, Raise, Blocked
  <2>1. CASE MessageArrives
    BY <2>1 DEF MessageArrives
  <2>2. CASE Notify
    <3>1. /\ UNCHANGED <<queue_created, mqtt_queue, group, subscribed, notify, arrived,
               inbox, tel_pc, current, message, buffer, published>>
          /\ signal' = FALSE /\ missed' \in Nat
      BY <2>2 DEF Notify
    <3>2. CASE mqtt_pc = "pend"
      <4>1. /\ events' = {ReceiveEvent} /\ mqtt_pc' = "dispatch" /\ flags' = flags
            /\ flags = {}
        BY <2>2, <3>2 DEF Notify
      <4>2. MqttTypeOK'
        BY <3>1, <4>1
      <4>3. Announced' /\ Taken'
        BY <3>1, <4>1
      <4> QED BY <3>1, <4>2, <4>3
    <3>3. CASE mqtt_pc # "pend"
      <4>1. /\ flags' \in {flags, flags \union {ReceiveEvent}}
            /\ UNCHANGED <<mqtt_pc, events>>
        BY <2>2, <3>3 DEF Notify
      <4>2. MessageReady \in flags' <=> MessageReady \in flags
        BY <4>1
      <4>3. MqttTypeOK'
        BY <3>1, <4>1
      <4>4. Announced' /\ Taken'
        BY <3>1, <3>3, <4>1, <4>2
      <4> QED BY <3>1, <4>3, <4>4
    <3> QED BY <3>2, <3>3
  <2>3. CASE SetReady
    BY <2>3 DEF SetReady
  <2>4. CASE Store
    BY <2>4 DEF Store
  <2>5. CASE CreateGroup
    BY <2>5 DEF CreateGroup
  <2>6. CASE Connect
    BY <2>6 DEF Connect
  <2>7. CASE SetNotify
    BY <2>7 DEF SetNotify
  <2>8. CASE WaitEvents
    BY <2>8 DEF WaitEvents
  <2>9. CASE Dispatch
    BY <2>9 DEF Dispatch
  <2>10. CASE Fetch
    <3>1. MqttTypeOK'
      <4>1. CASE inbox = <<>>
        BY <2>10, <4>1 DEF Fetch
      <4>2. CASE inbox # <<>>
        <5>1. Head(inbox) \in 1..MaxMessages /\ Tail(inbox) \in Seq(1..MaxMessages)
          BY <4>2
        <5>2. inbox' = Tail(inbox) /\ message' = Head(inbox) /\ mqtt_pc' = "queue"
          BY <2>10, <4>2 DEF Fetch
        <5>3. inbox' \in Seq(1..MaxMessages) /\ message' \in 0..MaxMessages
          BY <5>1, <5>2
        <5>4. UNCHANGED <<queue_created, mqtt_queue, group, flags, subscribed,
                   notify, arrived, signal, tel_pc, current, events, buffer, published,
                   missed>>
          BY <2>10, <4>2 DEF Fetch
        <5> QED BY <5>2, <5>3, <5>4
      <4> QED BY <4>1, <4>2
    <3>2. UNCHANGED <<published, current, tel_pc, flags, buffer>>
          /\ mqtt_pc' \in {"wait", "queue"}
      BY <2>10 DEF Fetch
    <3>3. mqtt_pc' = "queue" => message' # 0
      <4>1. CASE inbox = <<>>
        BY <2>10, <4>1 DEF Fetch
      <4>2. CASE inbox # <<>>
        <5>1. Head(inbox) \in 1..MaxMessages
          BY <4>2
        <5> QED BY <2>10, <4>2, <5>1 DEF Fetch
      <4> QED BY <4>1, <4>2
    <3> QED BY <3>1, <3>2, <3>3
  <2>11. CASE QueueAndPrint
    <3>1. /\ UNCHANGED <<queue_created, group, flags, subscribed, notify, arrived,
               inbox, signal, tel_pc, current, events, message, buffer, published,
               missed>>
          /\ mqtt_pc' = "wait"
      BY <2>11 DEF QueueAndPrint
    <3>2. mqtt_queue' \in Seq(1..MaxMessages) /\ Len(mqtt_queue') <= QueueSize
      <4>1. CASE UNCHANGED mqtt_queue
        BY <4>1
      <4>2. CASE Len(mqtt_queue) < QueueSize /\ mqtt_queue' = Append(mqtt_queue, message)
        <5>1. message \in 1..MaxMessages
          BY <2>11 DEF QueueAndPrint
        <5>2. Len(mqtt_queue') = Len(mqtt_queue) + 1 /\ mqtt_queue' \in Seq(1..MaxMessages)
          BY <4>2, <5>1
        <5> QED BY <4>2, <5>2
      <4> QED BY <2>11, <4>1, <4>2 DEF QueueAndPrint
    <3> QED BY <3>1, <3>2
  <2>12. CASE Format
    <3>1. OlderThan(current) /\ tel_pc = "nap" /\ MessageReady \notin flags
      BY <2>12 DEF Format
    <3>2. /\ UNCHANGED <<published, current, tel_pc, flags, events>>
          /\ buffer' = current /\ mqtt_pc' = "publish"
      BY <2>12 DEF Format
    <3>3. MqttTypeOK'
      BY <2>12 DEF Format
    <3> QED BY <3>1, <3>2, <3>3
  <2>13. CASE Publish
    <3>1. /\ OlderThan(buffer) /\ buffer <= current /\ buffer \in 0..MaxReadings
          /\ UNCHANGED <<current, tel_pc, flags>> /\ mqtt_pc' = "wait"
      BY <2>13 DEF Publish
    <3>2. CASE subscribed
      <4>1. /\ published' = Append(published, buffer)
            /\ MessageReady \in flags /\ tel_pc = "nap" => buffer < current
        BY <2>13, <3>2 DEF Publish
      <4>2. /\ published' \in Seq(0..MaxReadings)
            /\ \A i \in DOMAIN published' :
                 IF i \in DOMAIN published
                 THEN published'[i] = published[i]
                 ELSE /\ published'[i] = buffer
                      /\ \A j \in DOMAIN published' : j <= i
        BY <3>1, <4>1
      <4>2a. /\ DOMAIN published' \subseteq Nat /\ DOMAIN published \subseteq DOMAIN published'
            /\ buffer \in Nat /\ current \in Nat
        BY <3>1, <4>1
      <4>3. MqttTypeOK'
        BY <2>13, <4>2 DEF Publish
      <4>4. \A i \in DOMAIN published : published[i] \in Nat
        OBVIOUS
      <4>5. Increasing'
        <5> SUFFICES ASSUME NEW i \in DOMAIN published', NEW j \in DOMAIN published', i < j
                     PROVE  published'[i] < published'[j]
          OBVIOUS
        <5>1. CASE j \in DOMAIN published
          <6>1. i \in DOMAIN published
            BY <4>2, <4>2a, <5>1
          <6>2. published[i] < published[j]
            BY <5>1, <6>1
          <6> QED BY <4>2, <5>1, <6>1, <6>2
        <5>2. CASE j \notin DOMAIN published
          <6>1. i \in DOMAIN published /\ published'[j] = buffer
            BY <4>2, <4>2a, <5>2
          <6> QED BY <3>1, <4>2, <6>1
        <5> QED BY <5>1, <5>2
      <4>6. \A i \in DOMAIN published' : published'[i] <= current
        BY <3>1, <4>2, <4>4, <4>2a
      <4>7. Announced'
        <5> SUFFICES ASSUME MessageReady \in flags, tel_pc = "nap"
                     PROVE  \A i \in DOMAIN published' : published'[i] < current
          BY <3>1
        <5>1. OlderThan(current) /\ buffer < current
          BY <4>1
        <5> QED BY <4>2, <5>1
      <4>8. Taken'
        BY <3>1
      <4> QED BY <3>1, <4>3, <4>5, <4>6, <4>7, <4>8
    <3>3. CASE ~subscribed
      BY <2>13, <3>3 DEF Publish
    <3> QED BY <3>2, <3>3
  <2>14. CASE UNCHANGED mqtt_vars
    BY <2>14 DEF mqtt_vars
  <2> QED BY <2>1, <2>2, <2>3, <2>4, <2>5, <2>6, <2>7, <2>8, <2>9, <2>10, <2>11,
             <2>12, <2>13, <2>14 DEF MqttNext, MqttThread
<1> QED BY <1>1, <1>2, PTL DEF MqttSpec

\* The callback is set only when the flags it raises exist, and the client's
\* thread is about to call it only when it is set.
Ledger ==
  /\ MessagesAccounted
  /\ mqtt_pc # "start" => group
  /\ notify => group
  /\ signal => notify

\* The announcement of a message, in the hands of the MQTT thread.
InHand == mqtt_pc = "fetch" \/ (mqtt_pc = "dispatch" /\ ReceiveEvent \in events)

\* Every step of the two threads and of the client keeps the account.
LEMMA LedgerStep ==
  ASSUME Telemetry, Ledger, [MqttNext]_mqtt_vars
  PROVE  Ledger'
<1> USE DEF MessageReady, ReceiveEvent
<1>0. /\ inbox \in Seq(1 .. MaxMessages) /\ missed \in Nat
      /\ mqtt_pc = "pend" => flags = {}
      /\ Len(inbox) = missed + One(signal) + One(ReceiveEvent \in flags) + One(InHand)
      /\ mqtt_pc # "start" => group
      /\ notify => group
      /\ signal => notify
  BY DEF Telemetry, MqttTypeOK, Taken, Ledger, MessagesAccounted, InHand
<1>1. ASSUME /\ Len(inbox') = missed' + One(signal') + One(ReceiveEvent \in flags')
                   + One(InHand')
             /\ mqtt_pc' # "start" => group'
             /\ notify' => group'
             /\ signal' => notify'
      PROVE  Ledger'
  BY <1>1 DEF Ledger, MessagesAccounted, InHand
<1>2. CASE MessageArrives
  <2>1. /\ inbox' = Append(inbox, arrived + 1) /\ ~signal /\ signal' = notify
        /\ missed' = IF notify THEN missed ELSE missed + 1
        /\ UNCHANGED <<flags, mqtt_pc, events, group, notify>>
    BY <1>2 DEF MessageArrives, thread
  <2>2. Len(inbox') = Len(inbox) + 1
    BY <1>0, <2>1
  <2>3. InHand' = InHand /\ (ReceiveEvent \in flags') = (ReceiveEvent \in flags)
    BY <2>1 DEF InHand
  <2> QED BY <1>0, <1>1, <2>1, <2>2, <2>3 DEF One
<1>3. CASE Notify
  <2>1. /\ signal /\ signal' = FALSE /\ group
        /\ missed' = IF ReceiveEvent \in flags THEN missed + 1 ELSE missed
        /\ UNCHANGED <<inbox, group, notify>>
    BY <1>0, <1>3 DEF Notify
  <2>2. CASE mqtt_pc = "pend"
    <3>1. /\ flags = {} /\ flags' = flags /\ events' = {ReceiveEvent}
          /\ mqtt_pc' = "dispatch"
      BY <1>0, <1>3, <2>2 DEF Notify, Raise
    <3>2. ~InHand /\ InHand'
      BY <2>2, <3>1 DEF InHand
    <3> QED BY <1>0, <1>1, <2>1, <3>1, <3>2 DEF One
  <2>3. CASE mqtt_pc # "pend"
    <3>1. flags' = flags \union {ReceiveEvent} /\ UNCHANGED <<mqtt_pc, events>>
      BY <1>3, <2>1, <2>3 DEF Notify, Raise
    <3>2. InHand' = InHand
      BY <3>1 DEF InHand
    <3> QED BY <1>0, <1>1, <2>1, <3>1, <3>2 DEF One
  <2> QED BY <2>2, <2>3
<1>4. CASE SetReady
  <2>1. UNCHANGED <<inbox, signal, missed, group, notify>>
    BY <1>4 DEF SetReady, mqtt_client
  <2>2. CASE mqtt_pc = "pend"
    <3>1. flags' = flags /\ events' = {MessageReady} /\ mqtt_pc' = "dispatch"
      BY <1>4, <2>2 DEF SetReady, Raise
    <3>2. ~InHand /\ ~InHand'
      BY <2>2, <3>1 DEF InHand
    <3>3. /\ One(InHand') = One(InHand)
          /\ One(ReceiveEvent \in flags') = One(ReceiveEvent \in flags)
          /\ One(signal') = One(signal)
      BY <2>1, <3>1, <3>2 DEF One
    <3>4. Len(inbox') = missed' + One(signal') + One(ReceiveEvent \in flags') + One(InHand')
      BY <1>0, <2>1, <3>3
    <3>5. group'
      BY <1>0, <2>1, <2>2
    <3> QED BY <1>0, <1>1, <2>1, <3>4, <3>5
  <2>3. CASE mqtt_pc # "pend"
    <3>1. /\ flags' \in {flags, flags \union {MessageReady}}
          /\ UNCHANGED <<mqtt_pc, events>>
      BY <1>4, <2>3 DEF SetReady, Raise
    <3>2. (InHand' <=> InHand) /\ (ReceiveEvent \in flags' <=> ReceiveEvent \in flags)
      BY <3>1 DEF InHand
    <3>3. /\ One(InHand') = One(InHand)
          /\ One(ReceiveEvent \in flags') = One(ReceiveEvent \in flags)
          /\ One(signal') = One(signal)
      BY <2>1, <3>2 DEF One
    <3>4. Len(inbox') = missed' + One(signal') + One(ReceiveEvent \in flags') + One(InHand')
      BY <1>0, <2>1, <3>3
    <3>5. mqtt_pc' # "start" => group'
      BY <1>0, <2>1, <3>1
    <3> QED BY <1>0, <1>1, <2>1, <3>4, <3>5
  <2> QED BY <2>2, <2>3
<1>5. CASE WaitEvents
  <2>1. /\ mqtt_pc = "wait" /\ UNCHANGED <<inbox, signal, missed, group, notify>>
    BY <1>5 DEF WaitEvents, mqtt_client
  <2>2. CASE flags = {}
    <3>1. flags' = flags /\ mqtt_pc' = "pend"
      BY <1>5, <2>2 DEF WaitEvents
    <3>2. ~InHand /\ ~InHand'
      BY <2>1, <3>1 DEF InHand
    <3> QED BY <1>0, <1>1, <2>1, <3>1, <3>2 DEF One
  <2>3. CASE flags # {}
    <3>1. flags' = {} /\ events' = flags /\ mqtt_pc' = "dispatch"
      BY <1>5, <2>3 DEF WaitEvents
    <3>2. ~InHand /\ (InHand' <=> ReceiveEvent \in flags)
      BY <2>1, <3>1 DEF InHand
    <3> QED BY <1>0, <1>1, <2>1, <3>1, <3>2 DEF One
  <2> QED BY <2>2, <2>3
<1>6. CASE Dispatch
  <2>1. /\ mqtt_pc = "dispatch"
        /\ mqtt_pc' = IF ReceiveEvent \in events THEN "fetch" ELSE "format"
        /\ UNCHANGED <<inbox, signal, missed, group, notify, flags, events>>
    BY <1>6 DEF Dispatch, mqtt_client
  <2>2. InHand' = InHand
    BY <2>1 DEF InHand
  <2> QED BY <1>0, <1>1, <2>1, <2>2
<1>7. CASE Fetch
  <2>1. /\ mqtt_pc = "fetch" /\ mqtt_pc' \in {"wait", "queue"}
        /\ UNCHANGED <<signal, missed, group, notify, flags>>
    BY <1>7 DEF Fetch
  <2>2. InHand /\ ~InHand'
    BY <2>1 DEF InHand
  <2>3. Len(inbox) > 0
    BY <1>0, <2>2 DEF One
  <2>4. inbox' = Tail(inbox)
    BY <1>7, <2>3 DEF Fetch
  <2>5. Len(inbox') = Len(inbox) - 1
    BY <1>0, <2>3, <2>4
  <2> QED BY <1>0, <1>1, <2>1, <2>2, <2>5 DEF One
<1>8. ASSUME \/ Store \/ CreateGroup \/ Connect \/ QueueAndPrint \/ Format
             \/ Publish \/ UNCHANGED mqtt_vars
      PROVE  Ledger'
  <2>1. /\ UNCHANGED <<inbox, signal, missed, notify, flags>>
        /\ group => group'
        /\ mqtt_pc' # "start" => mqtt_pc # "start" \/ group'
    BY <1>8 DEF Store, CreateGroup, Connect, QueueAndPrint, Format, Publish,
       mqtt_client, telemetry, thread, mqtt_vars
  <2>2. InHand' = InHand
    BY <1>8 DEF InHand, Store, CreateGroup, Connect, QueueAndPrint, Format, Publish,
       thread, mqtt_vars
  <2> QED BY <1>0, <1>1, <2>1, <2>2
<1>9. CASE SetNotify
  <2>1. /\ UNCHANGED <<inbox, signal, missed, group, flags>> /\ notify' = TRUE
        /\ mqtt_pc = "listen" /\ mqtt_pc' = "wait"
    BY <1>9 DEF SetNotify
  <2>2. ~InHand /\ ~InHand'
    BY <2>1 DEF InHand
  <2>3. /\ One(InHand') = One(InHand)
        /\ One(ReceiveEvent \in flags') = One(ReceiveEvent \in flags)
        /\ One(signal') = One(signal)
    BY <2>1, <2>2 DEF One
  <2>4. Len(inbox') = missed' + One(signal') + One(ReceiveEvent \in flags') + One(InHand')
    BY <1>0, <2>1, <2>3
  <2>5. group'
    BY <1>0, <2>1
  <2> QED BY <1>0, <1>1, <2>1, <2>4, <2>5
<1> QED BY <1>2, <1>3, <1>4, <1>5, <1>6, <1>7, <1>8, <1>9 DEF MqttNext, MqttThread

\* A message waits in the client only as long as its announcement is under way,
\* except those that were never announced and those whose announcement met the
\* flag of another.
THEOREM MessagesKept == MqttSpec => []MessagesAccounted
<1>1. MqttInit => Ledger
  BY DEF MqttInit, Ledger, MessagesAccounted, One
<1>2. Telemetry /\ Ledger /\ [MqttNext]_mqtt_vars => Ledger'
  BY LedgerStep
<1>3. Ledger => MessagesAccounted
  BY DEF Ledger
<1> QED BY <1>1, <1>2, <1>3, TelemetryInvariance, PTL DEF MqttSpec

\* Each publish of mqtt_thread carries a newer reading than the one before,
\* although telemetry_thread raises the flag before it stores the data.
THEOREM PublishesOnlyNew == MqttSpec => []PublishesAreNew
<1>1. Telemetry => PublishesAreNew
  BY DEF Telemetry, Increasing, PublishesAreNew
<1> QED BY <1>1, TelemetryInvariance, PTL
=============================================================================

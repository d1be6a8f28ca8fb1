------------------------- MODULE ThreadxDemoProofs -------------------------
(***************************************************************************)
(* Theorems about ThreadxDemo, for every pool, every length of the queue   *)
(* and every number of blinks and readings.                                *)
(***************************************************************************)
EXTENDS ThreadxDemo, SequenceTheorems, FiniteSetTheorems, TLAPS

-----------------------------------------------------------------------------
\* The parts of a sum that has a bound have the bound.
LEMMA PartsOfSum ==
  ASSUME NEW n \in Nat, NEW a \in Nat, NEW b \in Nat, NEW c \in Nat,
         a + b + c \in 0..n
  PROVE  a \in 0..n /\ b \in 0..n
OBVIOUS

-----------------------------------------------------------------------------
(* Lists without duplicates.                                               *)

\* A list of one element.
LEMMA OneElement ==
  ASSUME NEW S, NEW e \in S
  PROVE  /\ <<e>> \in Seq(S) /\ Len(<<e>>) = 1
         /\ ToSet(<<e>>) = {e} /\ IsInjective(<<e>>)
BY DEF ToSet, IsInjective

\* What a concatenation holds, and when it holds nothing twice.
LEMMA ConcatSets ==
  ASSUME NEW S, NEW s \in Seq(S), NEW t \in Seq(S)
  PROVE  /\ s \o t \in Seq(S) /\ Len(s \o t) = Len(s) + Len(t)
         /\ ToSet(s \o t) = ToSet(s) \union ToSet(t)
         /\ IsInjective(s \o t) <=> /\ IsInjective(s) /\ IsInjective(t)
                                    /\ ToSet(s) \intersect ToSet(t) = {}
<1> DEFINE u == s \o t
<1>1. /\ u \in Seq(S) /\ Len(u) = Len(s) + Len(t)
      /\ \A i \in 1..(Len(s) + Len(t)) : u[i] = IF i <= Len(s) THEN s[i] ELSE t[i - Len(s)]
  BY ConcatProperties, Zenon
<1>2. /\ DOMAIN u = 1..Len(u) /\ DOMAIN s = 1..Len(s) /\ DOMAIN t = 1..Len(t)
      /\ Len(s) \in Nat /\ Len(t) \in Nat
  BY <1>1, LenProperties
<1> HIDE DEF u
<1>3. /\ \A i \in 1..Len(s) : i \in DOMAIN u /\ u[i] = s[i]
      /\ \A i \in 1..Len(t) : Len(s) + i \in DOMAIN u /\ u[Len(s) + i] = t[i]
      /\ \A i \in DOMAIN u : \/ i \in 1..Len(s) /\ u[i] = s[i]
                             \/ i - Len(s) \in 1..Len(t) /\ u[i] = t[i - Len(s)]
  <2>1. ASSUME NEW i \in 1..Len(s)
        PROVE  i \in DOMAIN u /\ u[i] = s[i]
    BY <1>1, <1>2
  <2>2. ASSUME NEW i \in 1..Len(t)
        PROVE  Len(s) + i \in DOMAIN u /\ u[Len(s) + i] = t[i]
    <3>1. /\ Len(s) + i \in 1..(Len(s) + Len(t)) /\ ~(Len(s) + i <= Len(s))
          /\ Len(s) + i - Len(s) = i
      BY <1>2
    <3> QED BY <1>1, <1>2, <3>1
  <2>3. ASSUME NEW i \in DOMAIN u
        PROVE  \/ i \in 1..Len(s) /\ u[i] = s[i]
               \/ i - Len(s) \in 1..Len(t) /\ u[i] = t[i - Len(s)]
    BY <1>1, <1>2
  <2> QED BY <2>1, <2>2, <2>3
<1>4. ToSet(u) = ToSet(s) \union ToSet(t)
  <2>1. ASSUME NEW x \in ToSet(u) PROVE x \in ToSet(s) \union ToSet(t)
    <3>1. PICK i \in DOMAIN u : x = u[i]
      BY DEF ToSet
    <3> QED BY <1>2, <1>3, <3>1 DEF ToSet
  <2>2. ASSUME NEW x \in ToSet(s) PROVE x \in ToSet(u)
    BY <1>2, <1>3 DEF ToSet
  <2>3. ASSUME NEW x \in ToSet(t) PROVE x \in ToSet(u)
    <3>1. PICK i \in 1..Len(t) : x = t[i]
      BY <1>2 DEF ToSet
    <3>2. Len(s) + i \in DOMAIN u /\ u[Len(s) + i] = x
      BY <1>3, <3>1
    <3> QED BY <3>2 DEF ToSet
  <2> QED BY <2>1, <2>2, <2>3
<1>5. ASSUME IsInjective(u)
      PROVE  IsInjective(s) /\ IsInjective(t) /\ ToSet(s) \intersect ToSet(t) = {}
  <2>1. IsInjective(s)
    BY <1>2, <1>3, <1>5 DEF IsInjective
  <2>2. IsInjective(t)
    <3>1. ASSUME NEW a \in 1..Len(t), NEW b \in 1..Len(t), t[a] = t[b]
          PROVE  a = b
      <4>1. Len(s) + a = Len(s) + b
        BY <1>3, <1>5, <3>1 DEF IsInjective
      <4> QED BY <1>2, <4>1
    <3> QED BY <1>2, <3>1 DEF IsInjective
  <2>3. ASSUME NEW x \in ToSet(s), x \in ToSet(t) PROVE FALSE
    <3>1. PICK a \in 1..Len(s), b \in 1..Len(t) : x = s[a] /\ x = t[b]
      BY <1>2, <2>3 DEF ToSet
    <3>2. a = Len(s) + b
      BY <1>3, <1>5, <3>1 DEF IsInjective
    <3> QED BY <1>2, <3>2
  <2> QED BY <2>1, <2>2, <2>3
<1>6. ASSUME IsInjective(s), IsInjective(t), ToSet(s) \intersect ToSet(t) = {}
      PROVE  IsInjective(u)
  <2>1. ASSUME NEW a \in DOMAIN u, NEW b \in DOMAIN u, u[a] = u[b]
        PROVE  a = b
    <3>1. CASE a \in 1..Len(s) /\ b \in 1..Len(s)
      BY <1>2, <1>3, <1>6, <2>1, <3>1 DEF IsInjective
    <3>2. CASE a \notin 1..Len(s) /\ b \notin 1..Len(s)
      <4>1. a - Len(s) = b - Len(s)
        BY <1>2, <1>3, <1>6, <2>1, <3>2 DEF IsInjective
      <4> QED BY <1>1, <1>2, <4>1
    <3>3. CASE a \in 1..Len(s) /\ b \notin 1..Len(s)
      BY <1>2, <1>3, <1>6, <2>1, <3>3 DEF ToSet
    <3>4. CASE a \notin 1..Len(s) /\ b \in 1..Len(s)
      BY <1>2, <1>3, <1>6, <2>1, <3>4 DEF ToSet
    <3> QED BY <3>1, <3>2, <3>3, <3>4
  <2> QED BY <2>1 DEF IsInjective
<1> QED BY <1>1, <1>4, <1>5, <1>6 DEF u

\* A list is its head and its tail.
LEMMA HeadTailSets ==
  ASSUME NEW S, NEW s \in Seq(S), s # <<>>
  PROVE  /\ Head(s) \in S /\ Tail(s) \in Seq(S)
         /\ ToSet(s) = {Head(s)} \union ToSet(Tail(s))
         /\ IsInjective(s) <=> IsInjective(Tail(s)) /\ Head(s) \notin ToSet(Tail(s))
<1>1. Head(s) \in S /\ Tail(s) \in Seq(S)
  BY HeadTailProperties
<1>2. s = <<Head(s)>> \o Tail(s)
  <2>1. SubSeq(s, 1, Len(s)) = <<s[1]>> \o SubSeq(s, 2, Len(s))
    <3>1. Len(s) \in Nat \ {0}
      BY EmptySeq, Zenon
    <3>2. 1 \in 1..Len(s) /\ Len(s) \in 1..Len(s)
      BY <3>1
    <3>3. SubSeq(s, 1, Len(s)) = <<s[1]>> \o SubSeq(s, 1 + 1, Len(s))
      BY <3>2, SubSeqRecursiveFirst, Zenon
    <3> QED BY <3>3
  <2>2. SubSeq(s, 1, Len(s)) = s /\ Tail(s) = SubSeq(s, 2, Len(s))
    BY SubSeqFull, TailIsSubSeq, Zenon
  <2>3. Head(s) = s[1]
    OBVIOUS
  <2> QED BY <2>1, <2>2, <2>3
<1> DEFINE h == <<Head(s)>>
<1>3. h \in Seq(S) /\ ToSet(h) = {Head(s)} /\ IsInjective(h)
  BY <1>1, OneElement
<1>4. s = h \o Tail(s)
  BY <1>2
<1> HIDE DEF h
<1>5. /\ ToSet(h \o Tail(s)) = ToSet(h) \union ToSet(Tail(s))
      /\ IsInjective(h \o Tail(s)) <=> /\ IsInjective(h) /\ IsInjective(Tail(s))
                                       /\ ToSet(h) \intersect ToSet(Tail(s)) = {}
  BY <1>1, <1>3, ConcatSets
<1> QED BY <1>1, <1>3, <1>4, <1>5

\* The list the pool starts with has every block once.
LEMMA AllBlocks ==
  ASSUME NEW S, IsFiniteSet(S)
  PROVE  /\ SetToSeq(S) \in Seq(S)
         /\ IsInjective(SetToSeq(S)) /\ ToSet(SetToSeq(S)) = S
<1> DEFINE n == Cardinality(S)
           f == SetToSeq(S)
<1>1. n \in Nat /\ ExistsBijection(1..n, S)
  BY FS_CardinalityType
<1>2. PICK g \in Bijection(1..n, S) : TRUE
  BY <1>1 DEF ExistsBijection
<1>3. f \in [1..n -> S] /\ IsInjective(f)
  BY <1>2 DEF SetToSeq, Bijection, Injection
<1> HIDE DEF f
<1>4. f \in Injection(1..n, S)
  BY <1>3 DEF Injection
<1>5. Cardinality(1..n) = n
  BY <1>1, FS_Interval
<1>6. f \in Surjection(1..n, S)
  BY <1>4, <1>5, FS_Injection
<1>7. ToSet(f) = S
  BY <1>3, <1>6 DEF Surjection, ToSet
<1>8. f \in Seq(S)
  BY <1>1, <1>3, SeqDef
<1> QED BY <1>3, <1>7, <1>8 DEF f
-----------------------------------------------------------------------------
(* The inductive invariant.                                                *)

\* Where each thread can be, and what it knows there: a thread at its bound
\* sleeps for good, the receiver has a pointer exactly between receive and
\* release, and it waits for an empty queue only.
Places ==
  /\ pc["blink"] \in {"none", "run", "sleep"}
  /\ pc["event"] \in {"none", "run", "pend", "got"}
  /\ pc["semaphore"] \in {"none", "run", "pend", "got"}
  /\ pc["sender"] \in {"none", "run", "sleep"}
  /\ pc["receiver"] \in {"none", "run", "pend", "got"}
  /\ pc["blink"] = "run" => blink_counter < MaxBlinks
  /\ pc["sender"] = "run" => msg_val < MaxReadings
  /\ pc["receiver"] = "got" <=> rx_data_ptr # None
  /\ pc["receiver"] = "pend" => queue = <<>>

\* BlinksAccounted, and the flag stands for a blink nobody saw.
Blinks == BlinksAccounted /\ (event_flags => noticed < blink_counter)

\* BlocksAccounted, place by place.  Where an ULONG holds no pointer a block
\* can be lost but still not be in two places.
Owned ==
  /\ IsInjective(pool) /\ IsInjective(queue)
  /\ ToSet(pool) \intersect ToSet(queue) = {}
  /\ rx_data_ptr \notin ToSet(pool) \union ToSet(queue)
  /\ UlongHoldsPointer =>
       /\ rx_data_ptr # Wild
       /\ ToSet(pool) \union ToSet(queue) \union ({rx_data_ptr} \ {None}) = Blocks

\* ReadingsInOrder, and no reading is newer than the counter.
Readings ==
  /\ ReadingsInOrder
  /\ last_received <= msg_val
  /\ \A b \in Blocks : reading[b] <= msg_val

Inv == TypeOK /\ Places /\ Blinks /\ Owned /\ Readings

-----------------------------------------------------------------------------
\* The table of priorities has seven threads.
LEMMA ThreadNames ==
  Threads = {"blink", "event", "semaphore", "mutex1", "mutex2", "sender", "receiver"}
BY DEF Threads, Priority

\* At the start every block is free and no thread has run.
LEMMA InitInv == Init => Inv
<1> SUFFICES ASSUME Init PROVE Inv
  OBVIOUS
<1> USE ThreadxDemoAssumption
<1>1. /\ pc \in [Threads -> {"none", "run"}]
      /\ pc \in [Threads -> {"none", "run", "sleep", "pend", "got", "use", "put"}]
  BY DEF Init
<1>2. \A t \in Threads : pc[t] \in {"none", "run"}
  BY <1>1
<1>3. /\ pool \in Seq(Blocks) /\ IsInjective(pool) /\ ToSet(pool) = Blocks
      /\ queue = <<>> /\ rx_data_ptr = None /\ reading = [b \in Blocks |-> 0]
  BY AllBlocks DEF Init
<1>4. queue \in Seq(Blocks) /\ Len(queue) = 0
  BY <1>3, EmptySeq, Zenon
<1>5. IsInjective(queue) /\ ToSet(queue) = {} /\ DOMAIN queue = {}
  BY <1>3 DEF IsInjective, ToSet
<1>6. TypeOK
  <2>1. /\ event_flags \in BOOLEAN /\ rx_upper \in BOOLEAN
        /\ mutex_owner \in Mutexers \union {None}
    BY Zenon DEF Init
  <2>2. /\ noticed \in 0..MaxBlinks /\ semaphore \in 0..MaxBlinks
        /\ blink_counter \in 0..MaxBlinks
        /\ event_flags_processed \in 0..MaxBlinks /\ semaphore_wakes \in 0..MaxBlinks
        /\ msg_val \in 0..MaxReadings /\ last_received \in 0..MaxReadings
    BY DEF Init
  <2>3. reading \in [Blocks -> 0..MaxReadings]
    BY <1>3
  <2>4. Len(queue) <= QueueCap
    BY <1>4
  <2> QED BY <1>1, <1>3, <1>4, <2>1, <2>2, <2>3, <2>4 DEF TypeOK
<1>7. Places
  BY <1>2, <1>3, ThreadNames DEF Init, Places
<1>8. Blinks
  BY <1>2, ThreadNames DEF Init, Blinks, BlinksAccounted
<1>10. Owned
  BY <1>3, <1>5 DEF Owned
<1>11. Readings
  BY <1>3, <1>5 DEF Init, Readings, ReadingsInOrder
<1> QED BY <1>6, <1>7, <1>8, <1>10, <1>11 DEF Inv

\* Steps that touch neither blocks nor readings, for the threads around them.
LEMMA DataKept ==
  ASSUME Inv, UNCHANGED data
  PROVE  Owned' /\ Readings'
BY DEF Inv, data, Owned, Readings, ReadingsInOrder

\* A sleep ends.
LEMMA WakeStep ==
  ASSUME Inv, NEW t \in Threads, Wake(t)
  PROVE  Inv'
<1>1. /\ UNCHANGED <<signals, mutex_owner, data, counters>>
      /\ \/ pc[t] = "sleep" /\ pc' = [pc EXCEPT ![t] = "run"]
         \/ pc[t] = "use" /\ pc' = [pc EXCEPT ![t] = "put"]
      /\ t = "blink" => blink_counter < MaxBlinks
      /\ t = "sender" => msg_val < MaxReadings
  BY DEF Wake, Goto
<1>2. pc \in [Threads -> {"none", "run", "sleep", "pend", "got", "use", "put"}]
  BY DEF Inv, TypeOK
<1>3. pc' \in [Threads -> {"none", "run", "sleep", "pend", "got", "use", "put"}]
  BY <1>1, <1>2
<1>4. TypeOK'
  BY <1>1, <1>3 DEF Inv, TypeOK, signals, data, counters
<1>5. /\ \A u \in Threads \ {t} : pc'[u] = pc[u]
      /\ \/ pc[t] = "sleep" /\ pc'[t] = "run"
         \/ pc[t] = "use" /\ pc'[t] = "put"
  BY <1>1, <1>2
<1>6. Places'
  BY <1>1, <1>5, ThreadNames DEF Inv, Places, data, counters
<1>7. Blinks'
  BY <1>1, <1>5, ThreadNames DEF Inv, Places, Blinks, BlinksAccounted, signals, counters
<1> QED BY <1>1, <1>4, <1>6, <1>7, DataKept DEF Inv
\* blink_thread_entry.
LEMMA BlinkStep ==
  ASSUME Inv, Blink
  PROVE  Inv'
<1> USE ThreadxDemoAssumption
<1>1. /\ pc["blink"] = "run" /\ blink_counter < MaxBlinks
      /\ blink_counter' = blink_counter + 1
      /\ event_flags' = (pc["event"] # "pend")
      /\ noticed' = IF pc["event"] = "pend" THEN blink_counter + 1 ELSE noticed
      /\ semaphore' = IF pc["semaphore"] = "pend" THEN semaphore ELSE semaphore + 1
      /\ UNCHANGED <<mutex_owner, data, event_flags_processed, semaphore_wakes>>
  BY DEF Blink, CanRun, Ready, Inv, Places
<1>2. pc' = [pc EXCEPT !["blink"] = "sleep",
                      !["event"] = IF @ = "pend" THEN "got" ELSE @,
                      !["semaphore"] = IF @ = "pend" THEN "got" ELSE @]
  BY DEF Blink
<1>3. pc \in [Threads -> {"none", "run", "sleep", "pend", "got", "use", "put"}]
  BY DEF Inv, TypeOK
<1>4. /\ pc' \in [Threads -> {"none", "run", "sleep", "pend", "got", "use", "put"}]
      /\ pc'["blink"] = "sleep"
      /\ pc'["event"] = IF pc["event"] = "pend" THEN "got" ELSE pc["event"]
      /\ pc'["semaphore"] = IF pc["semaphore"] = "pend" THEN "got" ELSE pc["semaphore"]
      /\ \A t \in {"mutex1", "mutex2", "sender", "receiver"} : pc'[t] = pc[t]
  BY <1>2, <1>3, ThreadNames
<1>5. /\ noticed \in Nat /\ semaphore \in Nat /\ blink_counter \in Nat
      /\ event_flags_processed \in Nat /\ semaphore_wakes \in Nat
      /\ noticed <= blink_counter
  BY DEF Inv, TypeOK, Blinks, BlinksAccounted
<1>6. Blinks'
  <2>1. ~event_flags' => noticed' = blink_counter'
    BY <1>1
  <2>2. event_flags' => noticed' < blink_counter'
    <3>1. event_flags' => pc["event"] # "pend"
      BY <1>1, Zenon
    <3>2. pc["event"] # "pend" => noticed' < blink_counter'
      BY <1>1, <1>5
    <3> QED BY <3>1, <3>2
  <2>3. event_flags_processed' + (IF pc'["event"] = "got" THEN 1 ELSE 0) <= noticed'
    BY <1>1, <1>4, <1>5 DEF Inv, Blinks, BlinksAccounted
  <2>4. blink_counter' = semaphore' + semaphore_wakes'
                         + (IF pc'["semaphore"] = "got" THEN 1 ELSE 0)
    BY <1>1, <1>4, <1>5 DEF Inv, Blinks, BlinksAccounted
  <2> QED BY <2>1, <2>2, <2>3, <2>4 DEF Blinks, BlinksAccounted
<1>7. TypeOK'
  <2>1. event_flags' \in BOOLEAN
    BY <1>1, Zenon
  <2>2. /\ blink_counter' \in 0..MaxBlinks /\ noticed' \in 0..MaxBlinks
        /\ semaphore' \in 0..MaxBlinks
    BY <1>1, <1>5 DEF Inv, TypeOK, Blinks, BlinksAccounted
  <2> QED BY <1>1, <1>4, <2>1, <2>2 DEF Inv, TypeOK, data
<1>8. Places'
  BY <1>1, <1>4 DEF Inv, Places, data
<1> QED BY <1>1, <1>6, <1>7, <1>8, DataKept DEF Inv

\* event_thread_entry.
LEMMA EventStep ==
  ASSUME Inv, EventGet \/ EventCount
  PROVE  Inv'
<1> USE ThreadxDemoAssumption
<1>1. pc \in [Threads -> {"none", "run", "sleep", "pend", "got", "use", "put"}]
  BY DEF Inv, TypeOK
<1>2. /\ noticed \in Nat /\ semaphore \in Nat /\ blink_counter \in Nat
      /\ event_flags_processed \in Nat /\ semaphore_wakes \in Nat
      /\ event_flags \in BOOLEAN
  BY DEF Inv, TypeOK
<1>3. UNCHANGED <<semaphore, mutex_owner, data, blink_counter, semaphore_wakes>>
  BY DEF EventGet, EventCount, counters, signals
<1>4. PICK step \in {"run", "got", "pend"} : pc' = [pc EXCEPT !["event"] = step]
  BY DEF EventGet, EventCount, Goto
<1>5. /\ pc' \in [Threads -> {"none", "run", "sleep", "pend", "got", "use", "put"}]
      /\ pc'["event"] = step
      /\ \A t \in Threads \ {"event"} : pc'[t] = pc[t]
  BY <1>1, <1>4, ThreadNames
<1>6. Places'
  BY <1>3, <1>5, ThreadNames DEF Inv, Places, data
<1>8. CASE EventGet
  <2>1. /\ pc["event"] = "run" /\ event_flags' = FALSE
        /\ step = IF event_flags THEN "got" ELSE "pend"
        /\ noticed' = IF event_flags THEN blink_counter ELSE noticed
        /\ event_flags_processed' = event_flags_processed
    <3>1. pc' = [pc EXCEPT !["event"] = IF event_flags THEN "got" ELSE "pend"]
      BY <1>8 DEF EventGet, Goto
    <3>2. pc'["event"] = IF event_flags THEN "got" ELSE "pend"
      BY <1>1, <3>1, ThreadNames
    <3> QED BY <1>5, <1>8, <3>2 DEF EventGet, counters
  <2>2. Blinks'
    BY <1>2, <1>3, <1>5, <2>1, ThreadNames DEF Inv, Blinks, BlinksAccounted
  <2>3. event_flags' \in BOOLEAN
    BY <2>1, Zenon
  <2>4. TypeOK'
    BY <1>3, <1>5, <2>1, <2>3 DEF Inv, TypeOK, data
  <2> QED BY <1>3, <1>6, <2>2, <2>4, DataKept DEF Inv
<1>9. CASE EventCount
  <2>1. /\ pc["event"] = "got" /\ step = "run"
        /\ event_flags_processed' = event_flags_processed + 1
        /\ event_flags' = event_flags /\ noticed' = noticed
    <3>1. pc' = [pc EXCEPT !["event"] = "run"]
      BY <1>9 DEF EventCount, Goto
    <3>2. pc'["event"] = "run"
      BY <1>1, <3>1, ThreadNames
    <3> QED BY <1>5, <1>9, <3>2 DEF EventCount, signals
  <2>2. Blinks'
    BY <1>2, <1>3, <1>5, <2>1, ThreadNames DEF Inv, Blinks, BlinksAccounted
  <2>3. event_flags_processed' \in 0..MaxBlinks
    BY <1>2, <2>1 DEF Inv, TypeOK, Blinks, BlinksAccounted
  <2>4. TypeOK'
    BY <1>3, <1>5, <2>1, <2>3 DEF Inv, TypeOK, data
  <2> QED BY <1>3, <1>6, <2>2, <2>4, DataKept DEF Inv
<1> QED BY <1>8, <1>9

\* semaphore_thread_entry.
LEMMA SemaphoreStep ==
  ASSUME Inv, SemaphoreGet \/ SemaphoreCount
  PROVE  Inv'
<1> USE ThreadxDemoAssumption
<1>1. pc \in [Threads -> {"none", "run", "sleep", "pend", "got", "use", "put"}]
  BY DEF Inv, TypeOK
<1>2. semaphore \in Nat /\ blink_counter \in Nat /\ semaphore_wakes \in Nat
  BY DEF Inv, TypeOK
<1>3. UNCHANGED <<event_flags, noticed, mutex_owner, data, blink_counter,
                  event_flags_processed>>
  BY DEF SemaphoreGet, SemaphoreCount, counters, signals
<1>4. \/ /\ pc["semaphore"] = "run" /\ semaphore > 0
         /\ pc' = [pc EXCEPT !["semaphore"] = "got"]
         /\ semaphore' = semaphore - 1 /\ semaphore_wakes' = semaphore_wakes
      \/ /\ pc["semaphore"] = "run" /\ semaphore = 0
         /\ pc' = [pc EXCEPT !["semaphore"] = "pend"]
         /\ semaphore' = 0 /\ semaphore_wakes' = semaphore_wakes
      \/ /\ pc["semaphore"] = "got"
         /\ pc' = [pc EXCEPT !["semaphore"] = "run"]
         /\ semaphore' = semaphore /\ semaphore_wakes' = semaphore_wakes + 1
  BY <1>2 DEF SemaphoreGet, SemaphoreCount, Goto, counters, signals
<1>5. /\ pc' \in [Threads -> {"none", "run", "sleep", "pend", "got", "use", "put"}]
      /\ pc'["semaphore"] \in {"run", "pend", "got"}
      /\ \A t \in Threads \ {"semaphore"} : pc'[t] = pc[t]
  BY <1>1, <1>4, ThreadNames
<1>6. Places'
  BY <1>3, <1>5, ThreadNames DEF Inv, Places, data
<1>8. blink_counter' = semaphore' + semaphore_wakes'
                       + (IF pc'["semaphore"] = "got" THEN 1 ELSE 0)
  BY <1>1, <1>2, <1>3, <1>4, ThreadNames DEF Inv, Blinks, BlinksAccounted
<1>9. Blinks'
  BY <1>3, <1>5, <1>8, ThreadNames DEF Inv, Blinks, BlinksAccounted
<1>10. semaphore' \in 0..MaxBlinks /\ semaphore_wakes' \in 0..MaxBlinks
  <2>1. semaphore' \in Nat /\ semaphore_wakes' \in Nat
    BY <1>2, <1>4
  <2>2. /\ (IF pc'["semaphore"] = "got" THEN 1 ELSE 0) \in Nat
        /\ MaxBlinks \in Nat /\ blink_counter' \in 0..MaxBlinks
    BY <1>3 DEF Inv, TypeOK
  <2> QED BY <1>8, <2>1, <2>2, PartsOfSum
<1>11. TypeOK'
  BY <1>3, <1>5, <1>10 DEF Inv, TypeOK, data
<1> QED BY <1>3, <1>6, <1>9, <1>11, DataKept DEF Inv

\* mutex1_thread_entry and mutex2_thread_entry: nothing but the mutex
\* and the places of the two threads changes.
LEMMA MutexStep ==
  ASSUME Inv, NEW m \in Mutexers, MutexGet(m) \/ MutexGot(m) \/ MutexPut(m)
  PROVE  Inv'
<1> USE ThreadxDemoAssumption
<1>0. /\ pc \in [Threads -> {"none", "run", "sleep", "pend", "got", "use", "put"}]
      /\ mutex_owner \in Mutexers \union {None} /\ None \notin Mutexers
      /\ Mutexers = {"mutex1", "mutex2"}
  BY DEF Inv, TypeOK, Mutexers
<1>1. UNCHANGED <<signals, data, counters>>
  BY DEF MutexGet, MutexGot, MutexPut
<1>2. \/ /\ pc[m] = "run" /\ mutex_owner = None
         /\ mutex_owner' = m /\ pc' = [pc EXCEPT ![m] = "use"]
      \/ /\ pc[m] = "run" /\ mutex_owner # None
         /\ mutex_owner' = mutex_owner /\ pc' = [pc EXCEPT ![m] = "pend"]
      \/ /\ pc[m] = "got"
         /\ mutex_owner' = mutex_owner /\ pc' = [pc EXCEPT ![m] = "use"]
      \/ /\ pc[m] = "put"
         /\ \E w \in Mutexers :
              /\ pc[w] = "pend" /\ mutex_owner' = w
              /\ pc' = [pc EXCEPT ![m] = "sleep", ![w] = "got"]
      \/ /\ pc[m] = "put" /\ \A w \in Mutexers : pc[w] # "pend"
         /\ mutex_owner' = None /\ pc' = [pc EXCEPT ![m] = "sleep"]
  BY DEF MutexGet, MutexGot, MutexPut, Goto
<1>3. /\ pc' \in [Threads -> {"none", "run", "sleep", "pend", "got", "use", "put"}]
      /\ mutex_owner' \in Mutexers \union {None}
      /\ \A t \in Threads \ Mutexers : pc'[t] = pc[t]
  BY <1>0, <1>2, ThreadNames
<1>4. TypeOK'
  BY <1>1, <1>3 DEF Inv, TypeOK, signals, data, counters
<1>5. Places'
  BY <1>0, <1>1, <1>3, ThreadNames DEF Inv, Places, data, counters
<1>6. Blinks'
  BY <1>0, <1>1, <1>3, ThreadNames DEF Inv, Blinks, BlinksAccounted, signals, counters
<1> QED BY <1>1, <1>4, <1>5, <1>6, DataKept DEF Inv
-----------------------------------------------------------------------------
(* The sender and the receiver.                                            *)

\* They touch neither the flag, the semaphore nor the mutex.
LEMMA OthersKept ==
  ASSUME Inv, UNCHANGED <<signals, mutex_owner, counters>>,
         \A t \in Threads \ {"sender", "receiver"} : pc'[t] = pc[t]
  PROVE  Blinks'
BY ThreadNames DEF Inv, signals, counters, Blinks, BlinksAccounted

\* queue_sender_entry, when no block is free.
LEMMA SendNoBlockStep ==
  ASSUME Inv, SendNoBlock
  PROVE  Inv'
<1> USE ThreadxDemoAssumption
<1>1. /\ pc["sender"] = "run" /\ msg_val < MaxReadings /\ msg_val' = msg_val + 1
      /\ pc' = [pc EXCEPT !["sender"] = "sleep"]
      /\ UNCHANGED <<signals, mutex_owner, pool, queue, reading, rx_data_ptr,
                     rx_upper, last_received, counters>>
  BY DEF SendNoBlock, Goto, CanRun, Ready, Inv, Places
<1>2. /\ pc \in [Threads -> {"none", "run", "sleep", "pend", "got", "use", "put"}]
      /\ msg_val \in Nat /\ last_received \in Nat
      /\ reading \in [Blocks -> 0..MaxReadings]
  BY DEF Inv, TypeOK
<1>3. /\ pc' \in [Threads -> {"none", "run", "sleep", "pend", "got", "use", "put"}]
      /\ pc'["sender"] = "sleep"
      /\ \A t \in Threads \ {"sender"} : pc'[t] = pc[t]
  BY <1>1, <1>2, ThreadNames
<1>4. msg_val' \in 0..MaxReadings
  BY <1>1, <1>2
<1>5. TypeOK'
  BY <1>1, <1>3, <1>4 DEF Inv, TypeOK, signals, counters
<1>6. Places'
  BY <1>1, <1>3, ThreadNames DEF Inv, Places, counters
<1>7. Owned'
  BY <1>1 DEF Inv, Owned
<1>8. Readings'
  <2>1. last_received' <= msg_val' /\ \A b \in Blocks : reading'[b] <= msg_val'
    BY <1>1, <1>2 DEF Inv, Readings
  <2> QED BY <1>1, <2>1 DEF Inv, Readings, ReadingsInOrder
<1> QED BY <1>1, <1>3, <1>5, <1>6, <1>7, <1>8, OthersKept DEF Inv

\* What is in the queue keeps its reading while the sender fills a block of
\* the pool.
LEMMA FillsFree ==
  ASSUME Inv, Send
  PROVE  /\ pc["sender"] = "run" /\ Head(pool) \in Blocks
         /\ msg_val \in Nat /\ last_received \in Nat /\ msg_val' = msg_val + 1
         /\ msg_val' \in 0..MaxReadings
         /\ reading' \in [Blocks -> 0..MaxReadings]
         /\ reading'[Head(pool)] = msg_val + 1
         /\ \A b \in Blocks : reading'[b] <= msg_val'
         /\ \A i \in DOMAIN queue : /\ queue[i] \in Blocks
                                    /\ reading[queue[i]] \in Nat
                                    /\ reading[queue[i]] <= msg_val
                                    /\ reading'[queue[i]] = reading[queue[i]]
<1> USE ThreadxDemoAssumption
<1>1. /\ pc["sender"] = "run" /\ msg_val < MaxReadings /\ pool # <<>>
      /\ msg_val' = msg_val + 1
      /\ reading' = [reading EXCEPT ![Head(pool)] = msg_val + 1]
  BY DEF Send, CanRun, Ready, Inv, Places
<1>2. /\ msg_val \in Nat /\ last_received \in Nat
      /\ reading \in [Blocks -> 0..MaxReadings]
      /\ pool \in Seq(Blocks) /\ queue \in Seq(Blocks)
  BY DEF Inv, TypeOK
<1>3. Head(pool) \in Blocks /\ Head(pool) \in ToSet(pool)
  BY <1>1, <1>2, HeadTailSets
<1>4. msg_val' \in 0..MaxReadings
  BY <1>1, <1>2
<1>5. /\ reading' \in [Blocks -> 0..MaxReadings]
      /\ reading'[Head(pool)] = msg_val + 1
      /\ \A b \in Blocks \ {Head(pool)} : reading'[b] = reading[b]
  BY <1>1, <1>2, <1>3, <1>4
<1>6. \A b \in Blocks : reading'[b] <= msg_val'
  <2>1. ASSUME NEW b \in Blocks PROVE reading'[b] <= msg_val'
    <3>1. reading[b] <= msg_val /\ reading[b] \in Nat
      BY <1>2 DEF Inv, Readings
    <3>2. reading'[b] = msg_val + 1 \/ reading'[b] = reading[b]
      BY <1>5
    <3> QED BY <1>1, <1>2, <3>1, <3>2
  <2> QED BY <2>1
<1>7. ASSUME NEW i \in DOMAIN queue
      PROVE  /\ queue[i] \in Blocks /\ reading[queue[i]] \in Nat
             /\ reading[queue[i]] <= msg_val
             /\ reading'[queue[i]] = reading[queue[i]]
  <2>1. queue[i] \in Blocks /\ queue[i] \in ToSet(queue)
    <3>1. DOMAIN queue = 1..Len(queue)
      BY <1>2, LenProperties, Zenon
    <3>2. queue[i] \in Blocks
      BY <1>2, <3>1, ElementOfSeq, Zenon
    <3> QED BY <3>2 DEF ToSet
  <2>2. queue[i] # Head(pool)
    BY <1>3, <2>1 DEF Inv, Owned
  <2>3. reading[queue[i]] <= msg_val /\ reading[queue[i]] \in Nat
    BY <1>2, <2>1 DEF Inv, Readings
  <2> QED BY <1>5, <2>1, <2>2, <2>3
<1> QED BY <1>1, <1>2, <1>3, <1>4, <1>5, <1>6, <1>7

\* queue_sender_entry, with a block: it is kept, handed over or queued.
LEMMA SendStep ==
  ASSUME Inv, Send
  PROVE  Inv'
<1> USE ThreadxDemoAssumption
<1>1. UNCHANGED <<signals, mutex_owner, rx_upper, counters>> /\ pool # <<>>
  BY DEF Send
<1>2. /\ pc \in [Threads -> {"none", "run", "sleep", "pend", "got", "use", "put"}]
      /\ pool \in Seq(Blocks) /\ queue \in Seq(Blocks) /\ Len(queue) <= QueueCap
      /\ Len(queue) \in Nat /\ DOMAIN queue = 1..Len(queue)
      /\ rx_data_ptr \in Blocks \union {None, Wild}
  BY LenProperties DEF Inv, TypeOK
<1>3. /\ Head(pool) \in Blocks /\ Tail(pool) \in Seq(Blocks)
      /\ ToSet(pool) = {Head(pool)} \union ToSet(Tail(pool))
      /\ IsInjective(Tail(pool)) /\ Head(pool) \notin ToSet(Tail(pool))
  BY <1>1, <1>2, HeadTailSets DEF Inv, Owned
<1>4. CASE SendQueueFull
  <2>1. /\ pc' = [pc EXCEPT !["sender"] = "sleep"]
        /\ UNCHANGED <<pool, queue, rx_data_ptr, last_received>>
    BY <1>4 DEF SendQueueFull, Goto
  <2>2. /\ pc' \in [Threads -> {"none", "run", "sleep", "pend", "got", "use", "put"}]
        /\ pc'["sender"] = "sleep"
        /\ \A t \in Threads \ {"sender"} : pc'[t] = pc[t]
    BY <1>2, <2>1, ThreadNames
  <2>3. TypeOK'
    BY <1>1, <2>1, <2>2, FillsFree DEF Inv, TypeOK, signals, counters
  <2>4. Places'
    BY <1>1, <2>1, <2>2, ThreadNames DEF Inv, Places, counters
  <2>5. Owned'
    BY <2>1 DEF Inv, Owned
  <2>6. last_received' <= msg_val'
    BY <2>1, FillsFree DEF Inv, Readings
  <2>7. Readings'
    BY <2>1, <2>6, FillsFree DEF Inv, Readings, ReadingsInOrder
  <2> QED BY <1>1, <2>2, <2>3, <2>4, <2>5, <2>7, OthersKept DEF Inv
<1>5. CASE SendHandOver
  <2>1. /\ pc["receiver"] = "pend" /\ pool' = Tail(pool) /\ queue' = queue
        /\ rx_data_ptr' = Received(Head(pool)) /\ last_received' = msg_val'
        /\ pc' = [pc EXCEPT !["sender"] = "sleep", !["receiver"] = "got"]
    BY <1>5 DEF SendHandOver
  <2>2. /\ pc' \in [Threads -> {"none", "run", "sleep", "pend", "got", "use", "put"}]
        /\ pc'["sender"] = "sleep" /\ pc'["receiver"] = "got"
        /\ \A t \in Threads \ {"sender", "receiver"} : pc'[t] = pc[t]
    BY <1>2, <2>1, ThreadNames
  <2>3. queue = <<>> /\ rx_data_ptr = None /\ DOMAIN queue = {} /\ ToSet(queue) = {}
    BY <2>1 DEF Inv, Places, ToSet
  <2>4. /\ rx_data_ptr' \in {Head(pool), Wild} /\ rx_data_ptr' # None
        /\ UlongHoldsPointer => rx_data_ptr' = Head(pool)
    BY <1>3, <2>1 DEF Received
  <2>5. TypeOK'
    BY <1>1, <1>3, <2>1, <2>2, <2>4, FillsFree DEF Inv, TypeOK, signals, counters
  <2>6. Places'
    BY <1>1, <2>1, <2>2, <2>3, <2>4, ThreadNames DEF Inv, Places, counters
  <2>7. Owned'
    <3>1. Wild \notin ToSet(Tail(pool))
      <4>1. ToSet(Tail(pool)) \subseteq Blocks
        BY <1>3, LenProperties, ElementOfSeq DEF ToSet
      <4> QED BY <4>1
    <3> QED BY <1>3, <2>1, <2>3, <2>4, <3>1 DEF Inv, Owned
  <2>8. Readings'
    <3>1. last_received' <= msg_val'
      BY <2>1, FillsFree
    <3> QED BY <2>1, <2>3, <3>1, FillsFree DEF Readings, ReadingsInOrder
  <2> QED BY <1>1, <2>2, <2>5, <2>6, <2>7, <2>8, OthersKept DEF Inv
<1>6. CASE SendQueued
  <2>1. /\ pc["receiver"] # "pend" /\ Len(queue) < QueueCap /\ pool' = Tail(pool)
        /\ queue' = Append(queue, Head(pool))
        /\ UNCHANGED <<rx_data_ptr, last_received>>
        /\ pc' = [pc EXCEPT !["sender"] = "sleep"]
    BY <1>6 DEF SendQueued, Goto
  <2>2. /\ pc' \in [Threads -> {"none", "run", "sleep", "pend", "got", "use", "put"}]
        /\ pc'["sender"] = "sleep"
        /\ \A t \in Threads \ {"sender"} : pc'[t] = pc[t]
    BY <1>2, <2>1, ThreadNames
  <2>3. /\ queue' \in Seq(Blocks) /\ Len(queue') = Len(queue) + 1
        /\ \A i \in 1..Len(queue) : queue'[i] = queue[i]
        /\ queue'[Len(queue) + 1] = Head(pool)
        /\ DOMAIN queue' = 1..(Len(queue) + 1)
    BY <1>2, <1>3, <2>1, AppendProperties, LenProperties
  <2>4. /\ ToSet(queue') = ToSet(queue) \union {Head(pool)}
        /\ IsInjective(queue') <=> IsInjective(queue) /\ Head(pool) \notin ToSet(queue)
    <3> DEFINE h == <<Head(pool)>>
    <3>1. queue' = queue \o h
      BY <1>2, <1>3, <2>1, AppendIsConcat
    <3>2. h \in Seq(Blocks) /\ ToSet(h) = {Head(pool)} /\ IsInjective(h)
      BY <1>3, OneElement
    <3> HIDE DEF h
    <3>3. /\ ToSet(queue \o h) = ToSet(queue) \union ToSet(h)
          /\ IsInjective(queue \o h) <=> /\ IsInjective(queue) /\ IsInjective(h)
                                         /\ ToSet(queue) \intersect ToSet(h) = {}
      BY <1>2, <3>2, ConcatSets
    <3> QED BY <3>1, <3>2, <3>3
  <2>5. TypeOK'
    <3>1. Len(queue') <= QueueCap
      BY <1>2, <2>1, <2>3
    <3> QED BY <1>1, <1>3, <2>1, <2>2, <2>3, <3>1, FillsFree
            DEF Inv, TypeOK, signals, counters
  <2>6. Places'
    BY <1>1, <2>1, <2>2, ThreadNames DEF Inv, Places, counters
  <2>7. Owned'
    BY <1>3, <2>1, <2>4 DEF Inv, Owned
  <2>8. Readings'
    <3>1. last_received' <= msg_val'
      BY <2>1, FillsFree DEF Inv, Readings
    <3>2. ASSUME NEW i \in 1..(Len(queue) + 1)
          PROVE  last_received' < reading'[queue'[i]]
      <4>1. CASE i \in 1..Len(queue)
        BY <1>2, <2>1, <2>3, <4>1, FillsFree DEF Inv, Readings, ReadingsInOrder
      <4>2. CASE i = Len(queue) + 1
        BY <2>1, <2>3, <4>2, FillsFree DEF Inv, Readings
      <4> QED BY <1>2, <4>1, <4>2
    <3>3. ASSUME NEW i \in 1..(Len(queue) + 1), NEW j \in 1..(Len(queue) + 1), i < j
          PROVE  reading'[queue'[i]] < reading'[queue'[j]]
      <4>0. i \in 1..Len(queue)
        BY <1>2, <3>3
      <4>1. CASE j \in 1..Len(queue)
        BY <1>2, <2>3, <3>3, <4>0, <4>1, FillsFree DEF Inv, Readings, ReadingsInOrder
      <4>2. CASE j = Len(queue) + 1
        <5>1. /\ reading'[queue'[j]] = msg_val + 1 /\ msg_val \in Nat
              /\ queue'[i] = queue[i] /\ i \in DOMAIN queue
          BY <1>2, <2>3, <4>0, <4>2, FillsFree
        <5>2. reading'[queue[i]] \in Nat /\ reading'[queue[i]] <= msg_val
          BY <5>1, FillsFree
        <5> QED BY <5>1, <5>2
      <4> QED BY <1>2, <4>1, <4>2
    <3> QED BY <2>3, <3>1, <3>2, <3>3, FillsFree DEF Readings, ReadingsInOrder
  <2> QED BY <1>1, <2>2, <2>5, <2>6, <2>7, <2>8, OthersKept DEF Inv
<1> QED BY <1>4, <1>5, <1>6 DEF Send
\* queue_receiver_entry: tx_queue_receive.
LEMMA ReceiveStep ==
  ASSUME Inv, Receive
  PROVE  Inv'
<1> USE ThreadxDemoAssumption
<1>1. /\ pc["receiver"] = "run"
      /\ UNCHANGED <<signals, mutex_owner, pool, reading, rx_upper, msg_val, counters>>
  BY DEF Receive
<1>2. /\ pc \in [Threads -> {"none", "run", "sleep", "pend", "got", "use", "put"}]
      /\ queue \in Seq(Blocks) /\ Len(queue) \in Nat /\ DOMAIN queue = 1..Len(queue)
      /\ reading \in [Blocks -> 0..MaxReadings] /\ rx_data_ptr = None
  BY <1>1, LenProperties DEF Inv, TypeOK, Places
<1>3. CASE queue = <<>>
  <2>1. /\ pc' = [pc EXCEPT !["receiver"] = "pend"]
        /\ UNCHANGED <<queue, rx_data_ptr, last_received>>
    BY <1>3 DEF Receive, Goto
  <2>2. /\ pc' \in [Threads -> {"none", "run", "sleep", "pend", "got", "use", "put"}]
        /\ pc'["receiver"] = "pend"
        /\ \A t \in Threads \ {"receiver"} : pc'[t] = pc[t]
    BY <1>2, <2>1, ThreadNames
  <2>3. TypeOK'
    BY <1>1, <2>1, <2>2 DEF Inv, TypeOK, signals, counters
  <2>4. Places'
    BY <1>1, <1>2, <1>3, <2>1, <2>2, ThreadNames DEF Inv, Places, counters
  <2>5. Owned' /\ Readings'
    BY <1>1, <2>1 DEF Inv, Owned, Readings, ReadingsInOrder
  <2> QED BY <1>1, <2>2, <2>3, <2>4, <2>5, OthersKept DEF Inv
<1>4. CASE queue # <<>>
  <2>1. /\ pc' = [pc EXCEPT !["receiver"] = "got"]
        /\ rx_data_ptr' = Received(Head(queue))
        /\ last_received' = reading[Head(queue)] /\ queue' = Tail(queue)
    BY <1>4 DEF Receive, Goto
  <2>2. /\ pc' \in [Threads -> {"none", "run", "sleep", "pend", "got", "use", "put"}]
        /\ pc'["receiver"] = "got"
        /\ \A t \in Threads \ {"receiver"} : pc'[t] = pc[t]
    BY <1>2, <2>1, ThreadNames
  <2>3. /\ Head(queue) \in Blocks /\ Tail(queue) \in Seq(Blocks)
        /\ ToSet(queue) = {Head(queue)} \union ToSet(Tail(queue))
        /\ IsInjective(Tail(queue)) /\ Head(queue) \notin ToSet(Tail(queue))
    BY <1>2, <1>4, HeadTailSets DEF Inv, Owned
  <2>4. /\ Len(queue) \in Nat \ {0} /\ Head(queue) = queue[1]
        /\ Len(Tail(queue)) = Len(queue) - 1
        /\ \A i \in 1..Len(Tail(queue)) : Tail(queue)[i] = queue[i + 1]
        /\ DOMAIN Tail(queue) = 1..Len(Tail(queue))
    <3>1. Len(queue) \in Nat \ {0} /\ Head(queue) = queue[1]
      BY <1>2, <1>4, EmptySeq
    <3>2. /\ Len(Tail(queue)) = Len(queue) - 1
          /\ \A i \in 1..Len(Tail(queue)) : Tail(queue)[i] = queue[i + 1]
      BY <1>2, <1>4, HeadTailProperties, Zenon
    <3>3. DOMAIN Tail(queue) = 1..Len(Tail(queue))
      BY <2>3, LenProperties, Zenon
    <3> QED BY <3>1, <3>2, <3>3
  <2>5. /\ rx_data_ptr' \in {Head(queue), Wild} /\ rx_data_ptr' # None
        /\ UlongHoldsPointer => rx_data_ptr' = Head(queue)
    BY <2>1, <2>3 DEF Received
  <2>6. TypeOK'
    <3>1. reading[Head(queue)] \in 0..MaxReadings
      BY <1>2, <2>3
    <3>2. Len(queue') <= QueueCap
      BY <1>2, <2>1, <2>4 DEF Inv, TypeOK
    <3> QED BY <1>1, <2>1, <2>2, <2>3, <2>5, <3>1, <3>2
            DEF Inv, TypeOK, signals, counters
  <2>7. Places'
    BY <1>1, <2>1, <2>2, <2>5, ThreadNames DEF Inv, Places, counters
  <2>8. Owned'
    <3>1. Wild \notin ToSet(Tail(queue)) \union ToSet(pool)
      <4>1. ToSet(Tail(queue)) \subseteq Blocks
        BY <2>3, LenProperties, ElementOfSeq DEF ToSet
      <4>2. pool \in Seq(Blocks)
        BY DEF Inv, TypeOK
      <4>3. ToSet(pool) \subseteq Blocks
        BY <4>2, LenProperties, ElementOfSeq DEF ToSet
      <4> QED BY <4>1, <4>3
    <3> QED BY <1>1, <1>2, <2>1, <2>3, <2>5, <3>1 DEF Inv, Owned
  <2>9. Readings'
    <3>1. last_received' <= msg_val' /\ \A b \in Blocks : reading'[b] <= msg_val'
      BY <1>1, <2>1, <2>3 DEF Inv, Readings
    <3>2. ASSUME NEW i \in 1..Len(queue')
          PROVE  /\ i + 1 \in DOMAIN queue /\ 1 \in DOMAIN queue /\ 1 < i + 1
                 /\ queue'[i] = queue[i + 1]
      BY <1>2, <2>1, <2>4
    <3>3. ASSUME NEW i \in 1..Len(queue')
          PROVE  last_received' < reading'[queue'[i]]
      BY <1>1, <2>1, <2>4, <3>2 DEF Inv, Readings, ReadingsInOrder
    <3>4. ASSUME NEW i \in 1..Len(queue'), NEW j \in 1..Len(queue'), i < j
          PROVE  reading'[queue'[i]] < reading'[queue'[j]]
      <4>1. i + 1 < j + 1
        BY <3>4
      <4> QED BY <1>1, <3>2, <4>1 DEF Inv, Readings, ReadingsInOrder
    <3> QED BY <2>1, <2>4, <3>1, <3>3, <3>4 DEF Readings, ReadingsInOrder
  <2> QED BY <1>1, <2>2, <2>6, <2>7, <2>8, <2>9, OthersKept DEF Inv
<1> QED BY <1>3, <1>4

\* queue_receiver_entry: tx_block_release.
LEMMA ReleaseStep ==
  ASSUME Inv, Release
  PROVE  Inv'
<1> USE ThreadxDemoAssumption
<1>1. /\ pc["receiver"] = "got" /\ pc' = [pc EXCEPT !["receiver"] = "run"]
      /\ pool' = IF rx_data_ptr = Wild THEN pool ELSE <<rx_data_ptr>> \o pool
      /\ rx_data_ptr' = None
      /\ UNCHANGED <<signals, mutex_owner, queue, reading, rx_upper, msg_val,
                     last_received, counters>>
  BY DEF Release, Goto
<1>2. /\ pc \in [Threads -> {"none", "run", "sleep", "pend", "got", "use", "put"}]
      /\ pool \in Seq(Blocks) /\ queue \in Seq(Blocks)
      /\ rx_data_ptr \in Blocks \union {Wild}
  BY <1>1 DEF Inv, TypeOK, Places
<1>3. /\ pc' \in [Threads -> {"none", "run", "sleep", "pend", "got", "use", "put"}]
      /\ pc'["receiver"] = "run"
      /\ \A t \in Threads \ {"receiver"} : pc'[t] = pc[t]
  BY <1>1, <1>2, ThreadNames
<1>4. /\ pool' \in Seq(Blocks) /\ IsInjective(pool')
      /\ ToSet(pool') = ToSet(pool) \union ({rx_data_ptr} \ {Wild})
  <2>1. CASE rx_data_ptr = Wild
    BY <1>1, <1>2, <2>1 DEF Inv, Owned
  <2>2. CASE rx_data_ptr # Wild
    <3> DEFINE h == <<rx_data_ptr>>
    <3>1. rx_data_ptr \in Blocks /\ rx_data_ptr \notin ToSet(pool) /\ IsInjective(pool)
      BY <1>2, <2>2 DEF Inv, Owned
    <3>2. h \in Seq(Blocks) /\ ToSet(h) = {rx_data_ptr} /\ IsInjective(h)
      BY <3>1, OneElement
    <3>3. pool' = h \o pool
      BY <1>1, <2>2
    <3> HIDE DEF h
    <3>4. /\ h \o pool \in Seq(Blocks)
          /\ ToSet(h \o pool) = ToSet(h) \union ToSet(pool)
          /\ IsInjective(h \o pool) <=> /\ IsInjective(h) /\ IsInjective(pool)
                                        /\ ToSet(h) \intersect ToSet(pool) = {}
      BY <1>2, <3>2, ConcatSets
    <3> QED BY <2>2, <3>1, <3>2, <3>3, <3>4
  <2> QED BY <2>1, <2>2
<1>5. TypeOK'
  BY <1>1, <1>3, <1>4 DEF Inv, TypeOK, signals, counters
<1>6. Places'
  BY <1>1, <1>3, ThreadNames DEF Inv, Places, counters
<1>7. Owned'
  <2>1. None \notin ToSet(pool') \union ToSet(queue)
    <3>1. ToSet(queue) \subseteq Blocks /\ ToSet(pool') \subseteq Blocks
      BY <1>2, <1>4, LenProperties, ElementOfSeq DEF ToSet
    <3> QED BY <3>1
  <2> QED BY <1>1, <1>2, <1>4, <2>1 DEF Inv, Owned
<1>8. Readings'
  BY <1>1 DEF Inv, Readings, ReadingsInOrder
<1> QED BY <1>1, <1>3, <1>5, <1>6, <1>7, <1>8, OthersKept DEF Inv

-----------------------------------------------------------------------------
\* The invariant holds in every state the program can reach.
THEOREM Invariance == Spec => []Inv
<1>1. Init => Inv
  BY InitInv
<1>2. Inv /\ [Next]_vars => Inv'
  <2> SUFFICES ASSUME Inv, [Next]_vars PROVE Inv'
    OBVIOUS
  <2>1. CASE UNCHANGED vars
    BY <2>1 DEF vars, signals, data, counters, Inv, TypeOK, Places, Blinks,
       BlinksAccounted, Owned, Readings, ReadingsInOrder
  <2> QED
    BY <2>1, WakeStep, BlinkStep, EventStep, SemaphoreStep, MutexStep,
       SendNoBlockStep, SendStep, ReceiveStep, ReleaseStep DEF Next
<1> QED BY <1>1, <1>2, PTL DEF Spec

\* No blink is lost or counted twice, whichever threads exist and however they
\* are interrupted.
THEOREM BlinksAreAccounted == Spec => []BlinksAccounted
<1>1. Inv => BlinksAccounted
  BY DEF Inv, Blinks
<1> QED BY <1>1, Invariance, PTL

\* The readings leave the queue in the order in which they were taken, each
\* once: no block is filled again while its address is in the queue.
THEOREM ReadingsArriveInOrder == Spec => []ReadingsInOrder
<1>1. Inv => ReadingsInOrder
  BY DEF Inv, Readings
<1> QED BY <1>1, Invariance, PTL

\* On a port where a pointer is one ULONG no block of the pool is lost and none
\* has two owners, for every pool and every length of the queue.
THEOREM NoBlockIsLost ==
  ASSUME UlongHoldsPointer
  PROVE  Spec => []BlocksAccounted
<1>1. Inv => BlocksAccounted
  <2> SUFFICES ASSUME Inv PROVE BlocksAccounted
    OBVIOUS
  <2> DEFINE held == IF rx_data_ptr = None THEN <<>> ELSE <<rx_data_ptr>>
  <2>1. /\ pool \in Seq(Blocks) /\ queue \in Seq(Blocks)
        /\ rx_data_ptr \in Blocks \union {None}
    BY UlongHoldsPointer DEF Inv, TypeOK, Owned
  <2>2. /\ held \in Seq(Blocks) /\ IsInjective(held)
        /\ ToSet(held) = {rx_data_ptr} \ {None}
    <3>1. CASE rx_data_ptr = None
      <4>1. /\ <<>> \in Seq(Blocks) /\ IsInjective(<<>>) /\ ToSet(<<>>) = {}
        BY EmptySeq DEF IsInjective, ToSet
      <4> QED BY <3>1, <4>1
    <3>2. CASE rx_data_ptr # None
      BY <2>1, <3>2, OneElement
    <3> QED BY <3>1, <3>2
  <2> HIDE DEF held
  <2>3. /\ pool \o queue \in Seq(Blocks) /\ IsInjective(pool \o queue)
        /\ ToSet(pool \o queue) = ToSet(pool) \union ToSet(queue)
    BY <2>1, ConcatSets DEF Inv, Owned
  <2>4. ToSet(pool \o queue) \intersect ToSet(held) = {}
    BY <2>2, <2>3 DEF Inv, Owned
  <2>5. /\ IsInjective((pool \o queue) \o held)
        /\ ToSet((pool \o queue) \o held) = ToSet(pool \o queue) \union ToSet(held)
    BY <2>2, <2>3, <2>4, ConcatSets
  <2>6. ToSet((pool \o queue) \o held) = Blocks
    BY UlongHoldsPointer, <2>2, <2>3, <2>5 DEF Inv, Owned
  <2> QED BY <2>5, <2>6 DEF Inv, BlocksAccounted, held
<1> QED BY <1>1, Invariance, PTL
=============================================================================

------------------------ MODULE DeviceMonitorProofs ------------------------
(***************************************************************************)
(* Theorems about DeviceMonitor and the traps below it, for every length   *)
(* of tick, receiver and queue, every period and every threshold.          *)
(***************************************************************************)
EXTENDS DeviceMonitor, SequenceTheorems, TLAPS

-----------------------------------------------------------------------------
(* The inductive invariant.                                                *)

\* ClockKept and what its steps need: the comparand is never before the next
\* tick that is due, the time read is never ahead of MTIME, and the handler
\* acknowledges a deadline that has passed.
Clock ==
  /\ (ticks + 1) * TickCycles <= mtimecmp
  /\ ticks * TickCycles <= mtime
  /\ ~rebased => mtimecmp = (ticks + 1) * TickCycles
  /\ now <= mtime
  /\ IF trap = "ack" THEN mtimecmp <= now ELSE mtimecmp > now

\* Where each thread can be, and a sleep has ticks left.
Places ==
  /\ pc["sampler"] \in {"run", "sent", "sleep"}
  /\ pc["analyzer"] \in {"run", "pend", "got"}
  /\ pc["reporter"] \in {"run", "rx", "show", "sleep"}
  /\ \A t \in Threads : pc[t] = "sleep" => sleep[t] # 0

Inv == TypeOK /\ Clock /\ Places /\ SamplesHandedOver /\ AlarmKept /\ NewestShown

-----------------------------------------------------------------------------
\* One period more.
LEMMA NextPeriod ==
  ASSUME NEW n \in Nat, NEW c \in Nat
  PROVE  (n + 1) * c = n * c + c
OBVIOUS

\* The table of priorities has three threads.
LEMMA ThreadNames ==
  /\ Threads = {"sampler", "analyzer", "reporter"}
  /\ Priority["analyzer"] = 8 /\ Priority["sampler"] = 10
  /\ Priority["reporter"] = 12
BY DEF Threads, Priority

\* The sampler runs only while the analyzer waits for a sample.
LEMMA AnalyzerFirst ==
  ASSUME Places, CanRun("sampler")
  PROVE  pc["analyzer"] = "pend"
BY ThreadNames DEF Places, CanRun, Ready

\* At reset no tick has passed, and no thread has taken or shown anything.
LEMMA InitInv == Init => Inv
<1> SUFFICES ASSUME Init PROVE Inv
  OBVIOUS
<1> USE PolarfireTrapAssumption, DeviceMonitorAssumption, ThreadNames
<1>1. TypeOK
  <2>1. TrapTypeOK
    <3>1. rx \in Seq(1..MaxBytes) /\ Len(rx) = 0
      BY EmptySeq, Zenon DEF Init, TrapInit
    <3>2. mtimecmp \in Nat /\ mtime \in 0..MaxTime /\ now \in 0..MaxTime
      BY DEF Init, TrapInit
    <3>3. ticks \in Nat /\ arrived \in 0..MaxBytes /\ Len(rx) <= UartFifo
      BY <3>1 DEF Init, TrapInit
    <3>4. /\ rebased \in BOOLEAN /\ pending \in BOOLEAN /\ in_service \in BOOLEAN
          /\ trap \in {"none", "ack", "drain", "complete"}
      BY Zenon DEF Init, TrapInit
    <3> QED BY <3>1, <3>2, <3>3, <3>4 DEF TrapTypeOK
  <2>2. 0 \in 0..(IF SampleTicks > ReportTicks THEN SampleTicks ELSE ReportTicks)
    OBVIOUS
  <2>3. /\ pc \in [Threads -> {"run", "sent", "sleep", "pend", "got", "rx", "show"}]
        /\ sleep \in [Threads -> 0..(IF SampleTicks > ReportTicks
                                    THEN SampleTicks ELSE ReportTicks)]
    BY <2>2 DEF Init
  <2>4. g_last_rx_char \in 0..MaxBytes /\ shown \in 0..MaxBytes
    BY DEF Init
  <2> QED BY <2>1, <2>3, <2>4 DEF Init, TypeOK
<1>2. Clock
  BY DEF Init, TrapInit, Clock
<1>3. Places
  BY DEF Init, Places
<1>4. SamplesHandedOver /\ AlarmKept /\ NewestShown
  BY <1>1 DEF Init, SamplesHandedOver, AlarmKept, NewestShown
<1> QED BY <1>1, <1>2, <1>3, <1>4 DEF Inv

-----------------------------------------------------------------------------
\* The timer and the trap handler keep the clock; the threads do not touch it.
LEMMA ClockStep ==
  ASSUME TypeOK, Clock, [Next]_vars
  PROVE  Clock'
<1> USE PolarfireTrapAssumption DEF Clock
<1>0. /\ mtime \in Nat /\ mtimecmp \in Nat /\ now \in Nat /\ ticks \in Nat
      /\ TickCycles \in Nat \ {0}
  BY DEF TypeOK, TrapTypeOK
<1>1. CASE TimePasses
  BY <1>0, <1>1 DEF TimePasses, timer
<1>2. CASE ByteArrives
  BY <1>2 DEF ByteArrives, timer
<1>3. CASE TimerTrap
  BY <1>0, <1>3 DEF TimerTrap, TimerPending
<1>4. CASE TimerAck
  <2>1. /\ (ticks + 1) * TickCycles = ticks * TickCycles + TickCycles
        /\ (ticks + 1 + 1) * TickCycles = (ticks + 1) * TickCycles + TickCycles
        /\ ticks * TickCycles \in Nat /\ (ticks + 1) * TickCycles \in Nat
    BY <1>0, NextPeriod
  <2>2. /\ ticks' = ticks + 1 /\ mtime' = mtime /\ now' = now /\ trap' = "none"
        /\ mtimecmp <= now
        /\ mtimecmp' = NextCmp(mtimecmp, now)
        /\ rebased' = (rebased \/ mtimecmp + TickCycles <= now)
    BY <1>4 DEF TimerAck
  <2>3. CASE mtimecmp + TickCycles <= now
    <3>1. mtimecmp' = now + TickCycles /\ rebased'
      BY <2>2, <2>3 DEF NextCmp
    <3> HIDE DEF Clock
    <3>2. (ticks + 1) * TickCycles <= mtimecmp /\ now <= mtime
      BY DEF Clock
    <3>3. /\ (ticks' + 1) * TickCycles <= mtimecmp'
          /\ ticks' * TickCycles <= mtime'
          /\ mtimecmp' > now'
      BY <1>0, <2>1, <2>2, <2>3, <3>1, <3>2
    <3> QED BY <2>2, <3>1, <3>2, <3>3 DEF Clock
  <2>4. CASE ~(mtimecmp + TickCycles <= now)
    <3>1. mtimecmp' = mtimecmp + TickCycles /\ rebased' = rebased
      BY <2>2, <2>4 DEF NextCmp, TypeOK, TrapTypeOK
    <3> HIDE DEF Clock
    <3>2. /\ (ticks + 1) * TickCycles <= mtimecmp /\ now <= mtime
          /\ ~rebased => mtimecmp = (ticks + 1) * TickCycles
      BY DEF Clock
    <3>3. /\ (ticks' + 1) * TickCycles <= mtimecmp'
          /\ ticks' * TickCycles <= mtime'
          /\ ~rebased' => mtimecmp' = (ticks' + 1) * TickCycles
          /\ mtimecmp' > now'
      BY <1>0, <2>1, <2>2, <2>4, <3>1, <3>2
    <3> QED BY <2>2, <3>2, <3>3 DEF Clock
  <2> QED BY <2>3, <2>4
<1>5. CASE Claim \/ DrainEnds \/ Complete \/ Getc
  BY <1>5 DEF Claim, DrainEnds, Complete, Getc, timer
<1>6. CASE UNCHANGED board
  BY <1>6 DEF board, timer
<1> QED
  BY <1>1, <1>2, <1>3, <1>4, <1>5, <1>6
     DEF Next, Hardware, InTrap, Tick, Dispatch, Sampler, SamplerSleep, AnalyzerReceive,
         Analyze, ReportAlarm, ReportRx, ReportShow, vars

-----------------------------------------------------------------------------
(* The steps, one lemma for the hardware and the handler, one for threads. *)

\* The types of the board.
LEMMA TrapTypeStep ==
  ASSUME TrapTypeOK, [Next]_vars
  PROVE  TrapTypeOK'
<1> USE PolarfireTrapAssumption DEF TrapTypeOK
<1>1. CASE TimePasses
  BY <1>1 DEF TimePasses, timer, console
<1>2. CASE ByteArrives
  <2>1. arrived' \in 0..MaxBytes /\ arrived + 1 \in 1..MaxBytes
    BY <1>2 DEF ByteArrives
  <2>2. rx' \in Seq(1..MaxBytes) /\ Len(rx') <= UartFifo
    <3>1. CASE Len(rx) < UartFifo
      <4>1. rx' = Append(rx, arrived + 1)
        BY <1>2, <3>1 DEF ByteArrives
      <4>2. /\ Append(rx, arrived + 1) \in Seq(1..MaxBytes)
            /\ Len(Append(rx, arrived + 1)) = Len(rx) + 1
        BY <2>1
      <4>3. Len(rx) \in Nat
        OBVIOUS
      <4> QED BY <3>1, <4>1, <4>2, <4>3
    <3>2. CASE ~(Len(rx) < UartFifo)
      BY <1>2, <3>2 DEF ByteArrives
    <3> QED BY <3>1, <3>2
  <2>3. pending' \in BOOLEAN
    BY <1>2 DEF ByteArrives
  <2> QED BY <1>2, <2>1, <2>2, <2>3 DEF ByteArrives, timer
<1>3. CASE TimerTrap
  BY <1>3 DEF TimerTrap, console
<1>4. CASE TimerAck
  BY <1>4 DEF TimerAck, NextCmp, console
<1>5. CASE Claim \/ DrainEnds \/ Complete
  BY <1>5 DEF Claim, DrainEnds, Complete, timer, console
<1>6. CASE Getc
  <2>1. rx # <<>> /\ rx' = Tail(rx)
    BY <1>6 DEF Getc
  <2>2. /\ Tail(rx) \in Seq(1..MaxBytes) /\ Len(Tail(rx)) = Len(rx) - 1
        /\ Len(rx) \in Nat
    BY <2>1
  <2>3. rx' \in Seq(1..MaxBytes) /\ Len(rx') <= UartFifo
    BY <2>1, <2>2
  <2> QED BY <1>6, <2>3 DEF Getc, timer
<1>7. CASE UNCHANGED board
  BY <1>7 DEF board, timer, console
<1> QED
  BY <1>1, <1>2, <1>3, <1>4, <1>5, <1>6, <1>7
     DEF Next, Hardware, InTrap, Tick, Dispatch, Sampler, SamplerSleep, AnalyzerReceive,
         Analyze, ReportAlarm, ReportRx, ReportShow, vars

\* Interrupts leave what the threads have handed over as it is.
LEMMA InterruptStep ==
  ASSUME Inv, (Hardware \/ InTrap \/ Tick \/ Dispatch)
  PROVE  /\ (pc \in [Threads -> {"run", "sent", "sleep", "pend", "got", "rx", "show"}])'
         /\ (sleep \in [Threads -> 0..(IF SampleTicks > ReportTicks
                                      THEN SampleTicks ELSE ReportTicks)])'
         /\ (alarm_flags \subseteq {Alarm, UartRx})'
         /\ (g_last_rx_char \in 0..MaxBytes)'
         /\ Places' /\ AlarmKept' /\ NewestShown'
         /\ pc'["analyzer"] = pc["analyzer"]
         /\ UNCHANGED <<sampling, analysis, report>>
<1> DEFINE Longest == IF SampleTicks > ReportTicks THEN SampleTicks
                      ELSE ReportTicks
<1>0. /\ Longest \in Nat
      /\ pc \in [Threads -> {"run", "sent", "sleep", "pend", "got", "rx", "show"}]
      /\ sleep \in [Threads -> 0..Longest]
      /\ alarm_flags \subseteq {Alarm, UartRx}
      /\ g_last_rx_char \in 0..MaxBytes
  BY DeviceMonitorAssumption DEF Inv, TypeOK
<1> HIDE DEF Longest
<1>1. CASE Hardware \/ InTrap
  <2>1. UNCHANGED app
    BY <1>1 DEF Hardware, InTrap
  <2> QED
    BY <1>0, <2>1 DEF app, sampling, analysis, report, Longest, Inv, Places,
      AlarmKept, NewestShown
<1>2. CASE Tick
  <2>1. /\ sleep' = [t \in Threads |-> IF pc[t] = "sleep" THEN sleep[t] - 1 ELSE 0]
        /\ pc' = [t \in Threads |-> IF pc[t] = "sleep" /\ sleep[t] = 1
                                    THEN "run" ELSE pc[t]]
        /\ UNCHANGED <<sampling, analysis, alarm_flags, report, g_last_rx_char>>
    BY <1>2 DEF Tick
  <2>2. \A t \in Threads : pc[t] = "sleep" => sleep[t] \in 1..Longest
    BY <1>0 DEF Inv, Places
  <2>3. /\ sleep' \in [Threads -> 0..Longest]
        /\ pc' \in [Threads -> {"run", "sent", "sleep", "pend", "got", "rx", "show"}]
    BY <1>0, <2>1, <2>2
  <2>4. \A t \in Threads : pc'[t] = "sleep" => sleep'[t] # 0
    BY <1>0, <2>1, <2>2
  <2>5. /\ pc'["sampler"] \in {"run", "sent", "sleep"}
        /\ pc'["analyzer"] = pc["analyzer"]
        /\ pc'["reporter"] \in {"run", "rx", "show", "sleep"}
        /\ pc'["reporter"] = "show" <=> pc["reporter"] = "show"
    BY <2>1, ThreadNames DEF Inv, Places
  <2>6. Places'
    BY <2>4, <2>5 DEF Inv, Places
  <2>7. AlarmKept' /\ NewestShown'
    BY <2>1, <2>5 DEF Inv, AlarmKept, NewestShown, analysis, report
  <2> QED BY <1>0, <2>1, <2>3, <2>5, <2>6, <2>7 DEF Longest
<1>3. CASE Dispatch
  <2>1. /\ rx # <<>> /\ g_last_rx_char' = Head(rx)
        /\ alarm_flags' = alarm_flags \union {UartRx}
        /\ UNCHANGED <<pc, sleep, sampling, analysis, report>>
    BY <1>3 DEF Dispatch, Getc
  <2>2. Head(rx) \in 1..MaxBytes
    <3>1. rx \in Seq(1..MaxBytes)
      BY DEF Inv, TypeOK, TrapTypeOK
    <3> QED BY <2>1, <3>1, HeadTailProperties, Zenon
  <2>3. g_last_rx_char' \in 0..MaxBytes
    BY <2>1, <2>2
  <2> QED
    BY <1>0, <2>1, <2>3 DEF sampling, analysis, report, Longest, Inv, Places,
      AlarmKept, NewestShown
<1> QED BY <1>1, <1>2, <1>3

\* Every step of the board and of the threads keeps the invariant.
LEMMA InvStep ==
  ASSUME Inv, [Next]_vars
  PROVE  Inv'
<1> USE DeviceMonitorAssumption
<1>1. TrapTypeOK' /\ Clock'
  BY TrapTypeStep, ClockStep DEF Inv, TypeOK
<1> DEFINE Longest == IF SampleTicks > ReportTicks THEN SampleTicks
                      ELSE ReportTicks
<1>2. /\ Longest \in Nat
      /\ SampleTicks \in 0..Longest /\ SampleTicks # 0
      /\ ReportTicks \in 0..Longest /\ ReportTicks # 0
      /\ pc \in [Threads -> {"run", "sent", "sleep", "pend", "got", "rx", "show"}]
      /\ sleep \in [Threads -> 0..Longest]
  BY DEF Inv, TypeOK
<1>3. CASE Hardware \/ InTrap \/ Tick \/ Dispatch
  <2>1. UNCHANGED <<sampling, analysis, report>> /\ pc'["analyzer"] = pc["analyzer"]
    BY <1>3, InterruptStep
  <2>2. TypeOK'
    BY <1>1, <1>3, <2>1, InterruptStep
       DEF Inv, TypeOK, sampling, analysis, report
  <2>3. SamplesHandedOver'
    BY <2>1, <2>2 DEF Inv, SamplesHandedOver, sampling, analysis
  <2> QED BY <1>1, <1>3, <2>2, <2>3, InterruptStep DEF Inv
<1> HIDE DEF Longest
<1>4. CASE Sampler
  <2>1. pc["analyzer"] = "pend"
    BY <1>4, AnalyzerFirst DEF Sampler, Inv
  <2>2. /\ samples' = samples + 1 /\ sample' = samples + 1
        /\ pc' = [pc EXCEPT !["sampler"] = "sent", !["analyzer"] = "got"]
        /\ UNCHANGED <<sleep, sensor_queue, refused, board, analyzed, hot, alarm_flags,
                       report, g_last_rx_char>>
    BY <1>4, <2>1 DEF Sampler
  <2>3. /\ pc' \in [Threads -> {"run", "sent", "sleep", "pend", "got", "rx", "show"}]
        /\ sleep' \in [Threads -> 0..Longest]
    BY <1>2, <2>2
  <2>4. /\ pc'["sampler"] = "sent" /\ pc'["analyzer"] = "got"
        /\ pc'["reporter"] = pc["reporter"]
    BY <1>2, <2>2, ThreadNames
  <2>5. TypeOK'
    BY <1>1, <2>2, <2>3 DEF Inv, TypeOK, report, Longest
  <2>6. Places'
    <3>1. ASSUME NEW t \in Threads, pc'[t] = "sleep"
          PROVE  sleep'[t] # 0
      BY <1>2, <2>2, <2>4, <3>1, ThreadNames DEF Inv, Places
    <3> QED BY <2>4, <3>1 DEF Inv, Places
  <2>7. SamplesHandedOver'
    BY <2>1, <2>2, <2>4, <2>5 DEF Inv, SamplesHandedOver, TypeOK
  <2>8. AlarmKept' /\ NewestShown'
    BY <2>2, <2>4 DEF Inv, AlarmKept, NewestShown, report
  <2> QED BY <1>1, <2>5, <2>6, <2>7, <2>8 DEF Inv
<1>4a. CASE SamplerSleep
  <2>1. /\ pc["sampler"] = "sent"
        /\ pc' = [pc EXCEPT !["sampler"] = "sleep"]
        /\ sleep' = [sleep EXCEPT !["sampler"] = SampleTicks]
        /\ UNCHANGED <<board, sampling, analysis, alarm_flags, report, g_last_rx_char>>
    BY <1>4a DEF SamplerSleep, Sleeps
  <2>2. /\ pc' \in [Threads -> {"run", "sent", "sleep", "pend", "got", "rx", "show"}]
        /\ sleep' \in [Threads -> 0..Longest]
    BY <1>2, <2>1
  <2>3. /\ pc'["sampler"] = "sleep" /\ pc'["analyzer"] = pc["analyzer"]
        /\ pc'["reporter"] = pc["reporter"]
    BY <1>2, <2>1, ThreadNames
  <2>4. TypeOK'
    BY <1>1, <2>1, <2>2 DEF Inv, TypeOK, sampling, analysis, report, Longest
  <2>5. Places'
    <3>1. ASSUME NEW t \in Threads, pc'[t] = "sleep"
          PROVE  sleep'[t] # 0
      BY <1>2, <2>1, <2>3, <3>1, ThreadNames DEF Inv, Places
    <3> QED BY <2>3, <3>1 DEF Inv, Places
  <2>6. SamplesHandedOver' /\ AlarmKept' /\ NewestShown'
    BY <2>1, <2>3, <2>4 DEF Inv, SamplesHandedOver, AlarmKept, NewestShown,
       sampling, analysis, report
  <2> QED BY <1>1, <2>4, <2>5, <2>6 DEF Inv
<1>5. CASE AnalyzerReceive
  <2>1. /\ pc["analyzer"] = "run"
        /\ pc' = [pc EXCEPT !["analyzer"] = "pend"]
        /\ UNCHANGED <<board, sleep, sampling, analysis, alarm_flags, report,
                       g_last_rx_char>>
    BY <1>5 DEF AnalyzerReceive, Inv, SamplesHandedOver, sampling, analysis
  <2>2. pc' \in [Threads -> {"run", "sent", "sleep", "pend", "got", "rx", "show"}]
    BY <1>2, <2>1
  <2>3. /\ pc'["sampler"] = pc["sampler"] /\ pc'["analyzer"] = "pend"
        /\ pc'["reporter"] = pc["reporter"]
        /\ \A t \in Threads : pc'[t] = "sleep" => pc[t] = "sleep"
    BY <1>2, <2>1, ThreadNames
  <2>4. TypeOK'
    BY <1>1, <2>1, <2>2 DEF Inv, TypeOK, sampling, analysis, report
  <2>5. Places'
    BY <2>1, <2>3 DEF Inv, Places
  <2>6. SamplesHandedOver' /\ AlarmKept' /\ NewestShown'
    BY <2>1, <2>3, <2>4 DEF Inv, SamplesHandedOver, AlarmKept, NewestShown,
       sampling, analysis, report
  <2> QED BY <1>1, <2>4, <2>5, <2>6 DEF Inv
<1>6. CASE Analyze
  <2>1. /\ pc["analyzer"] = "got" /\ analyzed' = analyzed + 1
        /\ hot' = IF IsHot(sample) THEN hot + 1 ELSE hot
        /\ alarm_flags' = IF IsHot(sample) THEN alarm_flags \union {Alarm}
                          ELSE alarm_flags
        /\ pc' = [pc EXCEPT !["analyzer"] = "run"]
        /\ UNCHANGED <<board, sleep, sampling, sample, report, g_last_rx_char>>
    BY <1>6 DEF Analyze
  <2>2. pc' \in [Threads -> {"run", "sent", "sleep", "pend", "got", "rx", "show"}]
    BY <1>2, <2>1
  <2>3. /\ pc'["sampler"] = pc["sampler"] /\ pc'["analyzer"] = "run"
        /\ pc'["reporter"] = pc["reporter"]
        /\ \A t \in Threads : pc'[t] = "sleep" => pc[t] = "sleep"
    BY <1>2, <2>1, ThreadNames
  <2> HIDE DEF IsHot
  <2>4. TypeOK'
    BY <1>1, <2>1, <2>2 DEF Inv, TypeOK, sampling, report
  <2>5. Places'
    BY <2>1, <2>3 DEF Inv, Places
  <2>6. SamplesHandedOver'
    BY <2>1, <2>3, <2>4 DEF Inv, SamplesHandedOver, TypeOK, sampling
  <2>7. AlarmKept'
    BY <2>1 DEF Inv, AlarmKept, report
  <2>8. NewestShown'
    BY <2>1, <2>3 DEF Inv, NewestShown, Alarm, UartRx, report
  <2> QED BY <1>1, <2>4, <2>5, <2>6, <2>7, <2>8 DEF Inv
<1>7. CASE ReportAlarm
  <2>1. /\ alarm_flags' = alarm_flags \ {Alarm}
        /\ reported_hot' = IF Alarm \in alarm_flags THEN hot ELSE reported_hot
        /\ pc' = [pc EXCEPT !["reporter"] = "rx"] /\ pc["reporter"] = "run"
        /\ UNCHANGED <<board, sleep, sampling, analysis, g_last_rx_char, shown>>
    BY <1>7 DEF ReportAlarm
  <2>2. pc' \in [Threads -> {"run", "sent", "sleep", "pend", "got", "rx", "show"}]
    BY <1>2, <2>1
  <2>3. /\ pc'["sampler"] = pc["sampler"] /\ pc'["analyzer"] = pc["analyzer"]
        /\ pc'["reporter"] = "rx"
        /\ \A t \in Threads : pc'[t] = "sleep" => pc[t] = "sleep"
    BY <1>2, <2>1, ThreadNames
  <2>4. TypeOK'
    BY <1>1, <2>1, <2>2 DEF Inv, TypeOK, sampling, analysis
  <2>5. Places'
    BY <2>1, <2>3 DEF Inv, Places
  <2>6. SamplesHandedOver'
    BY <2>1, <2>3, <2>4 DEF Inv, SamplesHandedOver, sampling, analysis
  <2>7. AlarmKept' /\ NewestShown'
    BY <2>1 DEF Inv, AlarmKept, NewestShown, Alarm, UartRx, analysis
  <2> QED BY <1>1, <2>4, <2>5, <2>6, <2>7 DEF Inv
<1>8. CASE ReportRx
  <2>1. /\ alarm_flags' = alarm_flags \ {UartRx} /\ pc["reporter"] = "rx"
        /\ UNCHANGED <<board, sampling, analysis, report, g_last_rx_char>>
    BY <1>8 DEF ReportRx
  <2>2. \/ /\ UartRx \in alarm_flags
           /\ pc' = [pc EXCEPT !["reporter"] = "show"] /\ sleep' = sleep
        \/ /\ UartRx \notin alarm_flags
           /\ pc' = [pc EXCEPT !["reporter"] = "sleep"]
           /\ sleep' = [sleep EXCEPT !["reporter"] = ReportTicks]
    BY <1>8 DEF ReportRx, Sleeps
  <2>3. /\ pc' \in [Threads -> {"run", "sent", "sleep", "pend", "got", "rx", "show"}]
        /\ sleep' \in [Threads -> 0..Longest]
    BY <1>2, <2>2
  <2>4. /\ pc'["sampler"] = pc["sampler"] /\ pc'["analyzer"] = pc["analyzer"]
        /\ pc'["reporter"] \in {"show", "sleep"}
    BY <1>2, <2>2, ThreadNames
  <2>5. TypeOK'
    BY <1>1, <2>1, <2>3 DEF Inv, TypeOK, sampling, analysis, report, Longest
  <2>6. Places'
    <3>1. ASSUME NEW t \in Threads, pc'[t] = "sleep"
          PROVE  sleep'[t] # 0
      BY <1>2, <2>1, <2>2, <3>1, ThreadNames DEF Inv, Places
    <3> QED BY <2>4, <3>1 DEF Inv, Places
  <2>7. SamplesHandedOver'
    BY <2>1, <2>4, <2>5 DEF Inv, SamplesHandedOver, sampling, analysis
  <2>8. AlarmKept'
    BY <2>1 DEF Inv, AlarmKept, Alarm, UartRx, analysis, report
  <2>9. NewestShown'
    BY <1>2, <2>1, <2>2, ThreadNames DEF Inv, NewestShown, report
  <2> QED BY <1>1, <2>5, <2>6, <2>7, <2>8, <2>9 DEF Inv
<1>9. CASE ReportShow
  <2>1. /\ shown' = g_last_rx_char /\ pc["reporter"] = "show"
        /\ pc' = [pc EXCEPT !["reporter"] = "sleep"]
        /\ sleep' = [sleep EXCEPT !["reporter"] = ReportTicks]
        /\ UNCHANGED <<board, sampling, analysis, alarm_flags, reported_hot,
                       g_last_rx_char>>
    BY <1>9 DEF ReportShow, Sleeps
  <2>2. /\ pc' \in [Threads -> {"run", "sent", "sleep", "pend", "got", "rx", "show"}]
        /\ sleep' \in [Threads -> 0..Longest]
    BY <1>2, <2>1
  <2>3. /\ pc'["sampler"] = pc["sampler"] /\ pc'["analyzer"] = pc["analyzer"]
        /\ pc'["reporter"] = "sleep"
    BY <1>2, <2>1, ThreadNames
  <2>4. TypeOK'
    BY <1>1, <2>1, <2>2 DEF Inv, TypeOK, sampling, analysis, Longest
  <2>5. Places'
    <3>1. ASSUME NEW t \in Threads, pc'[t] = "sleep"
          PROVE  sleep'[t] # 0
      BY <1>2, <2>1, <3>1, ThreadNames DEF Inv, Places
    <3> QED BY <2>3, <3>1 DEF Inv, Places
  <2>6. SamplesHandedOver'
    BY <2>1, <2>3, <2>4 DEF Inv, SamplesHandedOver, sampling, analysis
  <2>7. AlarmKept' /\ NewestShown'
    BY <2>1 DEF Inv, AlarmKept, NewestShown, analysis
  <2> QED BY <1>1, <2>4, <2>5, <2>6, <2>7 DEF Inv
<1>10. CASE UNCHANGED vars
  <2>1. TypeOK'
    BY <1>1, <1>10 DEF Inv, TypeOK, vars, app, sampling, analysis, report
  <2> QED
    BY <1>1, <1>10, <2>1 DEF Inv, vars, app, sampling, analysis, report,
       Places, SamplesHandedOver, AlarmKept, NewestShown
<1> QED
  BY <1>3, <1>4, <1>4a, <1>5, <1>6, <1>7, <1>8, <1>9, <1>10 DEF Next

-----------------------------------------------------------------------------
\* The invariant holds in every state the program can reach.
THEOREM Invariance == Spec => []Inv
<1>1. Init => Inv
  BY InitInv
<1>2. Inv /\ [Next]_vars => Inv'
  BY InvStep
<1> QED BY <1>1, <1>2, PTL DEF Spec

\* The kernel's clock is not ahead of the timer, does not drift as long as no
\* deadline is missed, and has no backlog after one, for every length of tick
\* and however late trap_handler runs.
THEOREM ClockIsKept == Spec => []ClockKept
<1>1. Inv => ClockKept
  BY DEF Inv, Clock, ClockKept
<1> QED BY <1>1, Invariance, PTL

\* Every sample is handed to the analyzer directly: sensor_queue, however
\* short, refuses none, so the sampler need not retry.
THEOREM SamplesArrive == Spec => []SamplesHandedOver
<1>1. Inv => SamplesHandedOver
  BY DEF Inv
<1> QED BY <1>1, Invariance, PTL

\* No alarm is cleared without its report, although handler, analyzer and
\* reporter share one group of flags.
THEOREM AlarmIsKept == Spec => []AlarmKept
<1>1. Inv => AlarmKept
  BY DEF Inv
<1> QED BY <1>1, Invariance, PTL

\* The newest byte in g_last_rx_char is printed, its flag is raised, or the
\* reporter is about to print it: one is never missed.
THEOREM NewestIsShown == Spec => []NewestShown
<1>1. Inv => NewestShown
  BY DEF Inv
<1> QED BY <1>1, Invariance, PTL
=============================================================================

--------------------------- MODULE DeviceMonitor ---------------------------
(***************************************************************************)
(* targets/Microchip/POLARFIRE_ICICLE_RENODE/app/main.c on its board       *)
(* support: the sampler sends a temperature through sensor_queue, the      *)
(* analyzer raises an alarm flag for a hot one, the console handler stores *)
(* the last byte and raises another flag, and the reporter polls both.     *)
(* The ticks of PolarfireTrap end the sleeps.                              *)
(*                                                                         *)
(* A thread steps outside the trap handler, when no interrupt is pending   *)
(* and no thread of a higher priority (a smaller number) is ready.  A      *)
(* sample is its number, its temperature the place in the saw tooth.       *)
(***************************************************************************)
EXTENDS PolarfireTrap

CONSTANTS
  QueueItems,                 \* DEMO_QUEUE_ITEMS
  SampleTicks, ReportTicks,   \* the two periods
  Temperatures,               \* length of the saw tooth
  Hot                         \* first place in it above 45.0

ASSUME DeviceMonitorAssumption ==
  /\ QueueItems \in Nat \ {0} /\ SampleTicks \in Nat \ {0}
  /\ ReportTicks \in Nat \ {0} /\ Temperatures \in Nat \ {0}
  /\ Hot \in 0..Temperatures

\* Faulty variant: the analyzer is below the others.
Priority_AnalyzerLast == [sampler |-> 8, analyzer |-> 12, reporter |-> 10]

Priority == [sampler |-> 10, analyzer |-> 8, reporter |-> 12]
Threads  == DOMAIN Priority

Alarm  == "ALARM_OVERTEMP"
UartRx == "EVENT_FLAG_UART_RX"

VARIABLES
  pc, sleep,                 \* threads; ticks left of a sleep
  samples, refused,          \* samples taken, and those the queue refused
  sensor_queue, sample,      \* messages; the one the analyzer works on
  analyzed, hot,             \* samples and hot samples analyzed
  alarm_flags,
  reported_hot,              \* `hot' when the alarm was last reported
  g_last_rx_char, shown      \* last byte received, last byte printed

sampling  == <<samples, refused, sensor_queue>>
analysis  == <<sample, analyzed, hot>>
report    == <<reported_hot, shown>>
app       == <<pc, sleep, sampling, analysis, alarm_flags, report,
               g_last_rx_char>>
vars      == <<board, app>>

\* tx_application_define; the highest thread runs first.
Init ==
  /\ TrapInit
  /\ pc = [t \in Threads |-> "run"] /\ sleep = [t \in Threads |-> 0]
  /\ samples = 0 /\ refused = 0 /\ sensor_queue = <<>>
  /\ sample = 0 /\ analyzed = 0 /\ hot = 0
  /\ alarm_flags = {} /\ reported_hot = 0
  /\ g_last_rx_char = 0 /\ shown = 0

IsHot(s)  == (s - 1) % Temperatures >= Hot
Ready(t)  == pc[t] \notin {"sleep", "pend"}
CanRun(t) == /\ Ready(t)
             /\ trap = "none" /\ ~pending /\ ~TimerPending
             /\ \A u \in Threads : Ready(u) => Priority[u] >= Priority[t]

-----------------------------------------------------------------------------
(* Interrupts                                                              *)

Hardware == (TimePasses \/ ByteArrives) /\ UNCHANGED app

InTrap == (TimerTrap \/ Claim \/ DrainEnds \/ Complete) /\ UNCHANGED app

\* _tx_timer_interrupt: sleeps get shorter and end.
Tick ==
  /\ TimerAck
  /\ sleep' = [t \in Threads |-> IF pc[t] = "sleep" THEN sleep[t] - 1 ELSE 0]
  /\ pc' = [t \in Threads |-> IF pc[t] = "sleep" /\ sleep[t] = 1 THEN "run"
                              ELSE pc[t]]
  /\ UNCHANGED <<sampling, analysis, alarm_flags, report, g_last_rx_char>>

\* console_rx_handler
Dispatch ==
  /\ Getc
  /\ g_last_rx_char' = Head(rx)
  /\ alarm_flags' = alarm_flags \union {UartRx}
  /\ UNCHANGED <<pc, sleep, sampling, analysis, report>>

-----------------------------------------------------------------------------
(* Threads                                                                 *)

\* tx_thread_sleep
Sleeps(t, n) == sleep' = [sleep EXCEPT ![t] = n]

\* sampler_thread_entry: tx_queue_send with TX_NO_WAIT.  A message that the
\* analyzer waits for is handed to it, and it runs next.
Sampler ==
  /\ pc["sampler"] = "run" /\ CanRun("sampler")
  /\ samples' = samples + 1
  /\ IF pc["analyzer"] = "pend"
     THEN /\ sample' = samples + 1
          /\ pc' = [pc EXCEPT !["sampler"] = "sent", !["analyzer"] = "got"]
          /\ UNCHANGED <<sensor_queue, refused>>
     ELSE /\ IF Len(sensor_queue) < QueueItems
             THEN /\ sensor_queue' = Append(sensor_queue, samples + 1)
                  /\ UNCHANGED refused
             ELSE refused' = refused + 1 /\ UNCHANGED sensor_queue
          /\ pc' = [pc EXCEPT !["sampler"] = "sent"]
          /\ UNCHANGED sample
  /\ UNCHANGED <<board, sleep, analyzed, hot, alarm_flags, report, g_last_rx_char>>

\* ... and the sleep.
SamplerSleep ==
  /\ pc["sampler"] = "sent" /\ CanRun("sampler")
  /\ pc' = [pc EXCEPT !["sampler"] = "sleep"]
  /\ Sleeps("sampler", SampleTicks)
  /\ UNCHANGED <<board, sampling, analysis, alarm_flags, report, g_last_rx_char>>

\* analyzer_thread_entry: tx_queue_receive with TX_WAIT_FOREVER.
AnalyzerReceive ==
  /\ pc["analyzer"] = "run" /\ CanRun("analyzer")
  /\ IF sensor_queue # <<>>
     THEN /\ sample' = Head(sensor_queue) /\ sensor_queue' = Tail(sensor_queue)
          /\ pc' = [pc EXCEPT !["analyzer"] = "got"]
     ELSE /\ pc' = [pc EXCEPT !["analyzer"] = "pend"]
          /\ UNCHANGED <<sample, sensor_queue>>
  /\ UNCHANGED <<board, sleep, samples, refused, analyzed, hot, alarm_flags,
                 report, g_last_rx_char>>

\* ... and the analysis of the sample.
Analyze ==
  /\ pc["analyzer"] = "got" /\ CanRun("analyzer")
  /\ analyzed' = analyzed + 1
  /\ hot' = IF IsHot(sample) THEN hot + 1 ELSE hot
  /\ alarm_flags' = IF IsHot(sample) THEN alarm_flags \union {Alarm}
                    ELSE alarm_flags
  /\ pc' = [pc EXCEPT !["analyzer"] = "run"]
  /\ UNCHANGED <<board, sleep, sampling, sample, report, g_last_rx_char>>

\* Faulty variant: all flags are cleared with the alarm.
ReportAlarm_ClearsAll ==
  /\ pc["reporter"] = "run" /\ CanRun("reporter")
  /\ alarm_flags' = IF Alarm \in alarm_flags THEN {} ELSE alarm_flags
  /\ reported_hot' = IF Alarm \in alarm_flags THEN hot ELSE reported_hot
  /\ pc' = [pc EXCEPT !["reporter"] = "rx"]
  /\ UNCHANGED <<board, sleep, sampling, analysis, g_last_rx_char, shown>>

\* reporter_thread_entry: TX_OR_CLEAR of the alarm, and its message.
ReportAlarm ==
  /\ pc["reporter"] = "run" /\ CanRun("reporter")
  /\ alarm_flags' = alarm_flags \ {Alarm}
  /\ reported_hot' = IF Alarm \in alarm_flags THEN hot ELSE reported_hot
  /\ pc' = [pc EXCEPT !["reporter"] = "rx"]
  /\ UNCHANGED <<board, sleep, sampling, analysis, g_last_rx_char, shown>>

\* Faulty variant: all flags are cleared with that of the console.
ReportRx_ClearsAll ==
  /\ pc["reporter"] = "rx" /\ CanRun("reporter")
  /\ alarm_flags' = IF UartRx \in alarm_flags THEN {} ELSE alarm_flags
  /\ \/ /\ UartRx \in alarm_flags
        /\ pc' = [pc EXCEPT !["reporter"] = "show"] /\ UNCHANGED sleep
     \/ /\ UartRx \notin alarm_flags
        /\ pc' = [pc EXCEPT !["reporter"] = "sleep"]
        /\ Sleeps("reporter", ReportTicks)
  /\ UNCHANGED <<board, sampling, analysis, report, g_last_rx_char>>

\* TX_OR_CLEAR of the console's flag
ReportRx ==
  /\ pc["reporter"] = "rx" /\ CanRun("reporter")
  /\ alarm_flags' = alarm_flags \ {UartRx}
  /\ \/ /\ UartRx \in alarm_flags
        /\ pc' = [pc EXCEPT !["reporter"] = "show"] /\ UNCHANGED sleep
     \/ /\ UartRx \notin alarm_flags
        /\ pc' = [pc EXCEPT !["reporter"] = "sleep"]
        /\ Sleeps("reporter", ReportTicks)
  /\ UNCHANGED <<board, sampling, analysis, report, g_last_rx_char>>

\* ... and its message, with the byte that is the last one by now.
ReportShow ==
  /\ pc["reporter"] = "show" /\ CanRun("reporter")
  /\ shown' = g_last_rx_char
  /\ pc' = [pc EXCEPT !["reporter"] = "sleep"]
  /\ Sleeps("reporter", ReportTicks)
  /\ UNCHANGED <<board, sampling, analysis, alarm_flags, reported_hot,
                 g_last_rx_char>>

-----------------------------------------------------------------------------
Next ==
  \/ Hardware \/ InTrap \/ Tick \/ Dispatch
  \/ Sampler \/ SamplerSleep \/ AnalyzerReceive \/ Analyze
  \/ ReportAlarm \/ ReportRx \/ ReportShow

Spec == Init /\ [][Next]_vars

\* The processor executes the trap handler and the ready thread.
Fairness ==
  /\ WF_vars(InTrap \/ Tick \/ Dispatch)
  /\ WF_vars(Sampler \/ SamplerSleep \/ AnalyzerReceive \/ Analyze
             \/ ReportAlarm \/ ReportRx \/ ReportShow)

FairSpec == Spec /\ Fairness

-----------------------------------------------------------------------------
(* Properties                                                              *)

\* The variables have their types.
TypeOK ==
  /\ TrapTypeOK
  /\ pc \in [Threads -> {"run", "sent", "sleep", "pend", "got", "rx", "show"}]
  /\ sleep \in [Threads -> 0..(IF SampleTicks > ReportTicks THEN SampleTicks
                               ELSE ReportTicks)]
  /\ samples \in Nat /\ refused \in Nat /\ analyzed \in Nat /\ hot \in Nat
  /\ sensor_queue \in Seq(Nat) /\ Len(sensor_queue) <= QueueItems
  /\ sample \in Nat
  /\ alarm_flags \subseteq {Alarm, UartRx} /\ reported_hot \in Nat
  /\ g_last_rx_char \in 0..MaxBytes /\ shown \in 0..MaxBytes

\* The result of the sampler's send needs no retry: the analyzer is above the
\* sampler and waits when that runs, so every sample is handed over, none is
\* refused or overtaken, and all but the one in hand are analyzed.
SamplesHandedOver ==
  /\ TypeOK
  /\ sensor_queue = <<>> /\ refused = 0
  /\ samples = analyzed + (IF pc["analyzer"] = "got" THEN 1 ELSE 0)
  /\ pc["analyzer"] = "got" => sample = samples

\* A hot sample is reported or its alarm stands, whatever the console raises
\* and the reporter clears in between.
AlarmKept == reported_hot = hot \/ Alarm \in alarm_flags

\* When its flag is down and the reporter is not about to print, the last
\* byte received has been printed: bytes may share a report, the newest is
\* never missed.
NewestShown ==
  UartRx \in alarm_flags \/ pc["reporter"] = "show" \/ shown = g_last_rx_char

\* Bytes do not stay in the receiver.
BytesDispatched == rx # <<>> ~> rx = <<>>
=============================================================================

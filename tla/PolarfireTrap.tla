--------------------------- MODULE PolarfireTrap ---------------------------
(***************************************************************************)
(* The interrupts of the PolarFire board support (lib/bsp/src of           *)
(* targets/Microchip/POLARFIRE_ICICLE_RENODE): trap_handler with the       *)
(* machine timer (hwtimer.c), the interrupt controller (plic.c) and the    *)
(* console receiver (uart.c, bsp_console.c), and the hardware below them.  *)
(*                                                                         *)
(* The trap handler runs with interrupts disabled; time and bytes go on    *)
(* between any two of its steps.  A byte is its number in the order of     *)
(* arrival.  What a tick and a byte do to the kernel and the application   *)
(* is added by the module that extends this one.                           *)
(***************************************************************************)
EXTENDS Integers, Sequences

CONSTANTS
  TickCycles,   \* TICK_CYCLES
  UartFifo,     \* bytes the receiver holds
  MaxTime,      \* bound of the model: cycles
  MaxBytes      \* bound of the model: bytes that arrive

ASSUME PolarfireTrapAssumption ==
  /\ TickCycles \in Nat \ {0} /\ UartFifo \in Nat \ {0}
  /\ MaxTime \in Nat /\ MaxBytes \in Nat

VARIABLES
  mtime, mtimecmp,       \* CLINT; time 0 is when hwtimer_init ran
  now,                   \* MTIME as hwtimer_ack read it
  ticks, rebased,        \* calls of _tx_timer_interrupt; was a deadline missed?
  rx, arrived,           \* receive buffer; bytes that arrived
  pending, in_service,   \* PLIC: source 91 pending, claimed
  trap                   \* where trap_handler is; "none" outside

timer   == <<mtimecmp, now, ticks, rebased>>
console == <<rx, arrived, pending, in_service>>
board   == <<mtime, timer, console, trap>>

\* hwtimer_init and plic_init; interrupts are enabled when the scheduler
\* starts the first thread.
TrapInit ==
  /\ mtime = 0 /\ mtimecmp = TickCycles /\ now = 0
  /\ ticks = 0 /\ rebased = FALSE
  /\ rx = <<>> /\ arrived = 0 /\ pending = FALSE /\ in_service = FALSE
  /\ trap = "none"

TimerPending == mtime >= mtimecmp

-----------------------------------------------------------------------------
(* Hardware                                                                *)

TimePasses ==
  /\ mtime < MaxTime
  /\ mtime' = mtime + 1
  /\ UNCHANGED <<timer, console, trap>>

\* The receiver loses a byte that finds it full.  The controller lets a
\* request through only while the last one is not being served.
ByteArrives ==
  /\ arrived < MaxBytes
  /\ arrived' = arrived + 1
  /\ rx' = IF Len(rx) < UartFifo THEN Append(rx, arrived + 1) ELSE rx
  /\ pending' = ~in_service
  /\ UNCHANGED <<mtime, timer, in_service, trap>>

-----------------------------------------------------------------------------
(* trap_handler                                                            *)

\* Faulty variant: missed deadlines are worked off one by one.
NextCmp_Chases(cmp, t) == cmp + TickCycles

\* Faulty variant: the deadline is always set from the present.
NextCmp_Drifts(cmp, t) == t + TickCycles

\* hwtimer_next_cmp
NextCmp(cmp, t) ==
  IF cmp + TickCycles <= t THEN t + TickCycles ELSE cmp + TickCycles

\* Machine timer interrupt: hwtimer_ack reads MTIME.  An external interrupt
\* goes first.
TimerTrap ==
  /\ trap = "none" /\ TimerPending /\ ~pending
  /\ trap' = "ack"
  /\ now' = mtime
  /\ UNCHANGED <<mtime, mtimecmp, ticks, rebased, console>>

\* Faulty variant: a missed deadline is left as it is.
TimerAck_KeepsDeadline ==
  /\ trap = "ack"
  /\ mtimecmp' = IF mtimecmp + TickCycles <= now THEN mtimecmp
                 ELSE mtimecmp + TickCycles
  /\ rebased' = (rebased \/ mtimecmp + TickCycles <= now)
  /\ ticks' = ticks + 1
  /\ trap' = "none"
  /\ UNCHANGED <<mtime, now, console>>

\* ... and writes the comparand; _tx_timer_interrupt.
TimerAck ==
  /\ trap = "ack"
  /\ mtimecmp' = NextCmp(mtimecmp, now)
  /\ rebased' = (rebased \/ mtimecmp + TickCycles <= now)
  /\ ticks' = ticks + 1
  /\ trap' = "none"
  /\ UNCHANGED <<mtime, now, console>>

\* Machine external interrupt: plic_claim returns source 91.
Claim ==
  /\ trap = "none" /\ pending
  /\ trap' = "drain"
  /\ pending' = FALSE /\ in_service' = TRUE
  /\ UNCHANGED <<mtime, timer, rx, arrived>>

\* uart_has_rx, uart_getc; the byte goes to polarfire_console_rx_dispatch.
Getc ==
  /\ trap = "drain" /\ rx # <<>>
  /\ rx' = Tail(rx)
  /\ UNCHANGED <<mtime, timer, arrived, pending, in_service, trap>>

DrainEnds ==
  /\ trap = "drain" /\ rx = <<>>
  /\ trap' = "complete"
  /\ UNCHANGED <<mtime, timer, console>>

\* Faulty variant: the claim is not completed.
Complete_Missing ==
  /\ trap = "complete"
  /\ trap' = "none"
  /\ UNCHANGED <<mtime, timer, console>>

\* plic_complete: the controller looks at the line again; a byte that came
\* after the last uart_has_rx is a new request.
Complete ==
  /\ trap = "complete"
  /\ trap' = "none"
  /\ in_service' = FALSE /\ pending' = (rx # <<>>)
  /\ UNCHANGED <<mtime, timer, rx, arrived>>

-----------------------------------------------------------------------------
(* Properties                                                              *)

TrapTypeOK ==
  /\ mtime \in 0..MaxTime /\ mtimecmp \in Nat /\ now \in 0..MaxTime
  /\ ticks \in Nat /\ rebased \in BOOLEAN
  /\ rx \in Seq(1..MaxBytes) /\ Len(rx) <= UartFifo /\ arrived \in 0..MaxBytes
  /\ pending \in BOOLEAN /\ in_service \in BOOLEAN
  /\ trap \in {"none", "ack", "drain", "complete"}

\* The kernel's clock is never ahead of the timer, however late interrupts are
\* served: no period is counted twice.  Without a missed deadline it does not
\* drift: ticks are due at multiples of the period.  After a
\* missed one, outside the handler, the next is later than the last service:
\* no backlog of ticks is worked off at once.
ClockKept ==
  /\ ticks * TickCycles <= mtime
  /\ ~rebased => mtimecmp = (ticks + 1) * TickCycles
  /\ trap = "none" => mtimecmp > now
=============================================================================

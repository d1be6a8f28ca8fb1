----------------------------- MODULE UartInput -----------------------------
(***************************************************************************)
(* The serial input of                                                     *)
(* STM32F767ZI-Nucleo/app/demos/threadx_basic/main.c: USART3_IRQHandler    *)
(* puts bytes into a ring buffer, input_thread_entry takes them out and    *)
(* assembles lines, which it prints.  They share ring_head and ring_tail   *)
(* without a lock; the handler interrupts the thread between any two of    *)
(* its accesses.  A byte is its number in the order of arrival; which      *)
(* bytes end a line is chosen as they arrive.  The other threads of the    *)
(* program are in BasicDemo.                                               *)
(***************************************************************************)
EXTENDS Integers, Sequences, SequencesExt

CONSTANTS
  RingSize,       \* RING_BUF_SIZE
  LineCap,        \* sizeof(line_buffer) - 1
  MaxBytes        \* bound of the model: bytes that arrive

ASSUME UartInputAssumption ==
  RingSize \in Nat \ {0} /\ LineCap \in Nat /\ MaxBytes \in Nat

Byte   == 1 .. MaxBytes
NoByte == 0

VARIABLES
  rdr, rxne,          \* USART3: received byte, and is there one?
  arrived,            \* bytes that arrived on the wire
  eol,                \* those of them that are \r or \n
  ring_buf, ring_head, ring_tail,
  pc, ch,             \* input_thread
  line_buffer,
  printed,            \* the lines it printed
  accepted            \* history: the bytes put into the ring

usart == <<rdr, rxne, arrived, eol>>
thread == <<pc, ch, line_buffer, printed>>
input == <<usart, ring_buf, ring_head, ring_tail, thread, accepted>>

\* The state when the thread has enabled the interrupt.
InputInit ==
  /\ rdr = NoByte /\ rxne = FALSE /\ arrived = 0 /\ eol = {}
  /\ ring_buf = [i \in 0 .. RingSize - 1 |-> NoByte]
  /\ ring_head = 0 /\ ring_tail = 0
  /\ pc = "test" /\ ch = NoByte /\ line_buffer = <<>> /\ printed = <<>>
  /\ accepted = <<>>

\* A byte arrives; on top of an unread one it is lost (overrun).
Arrive ==
  /\ arrived < MaxBytes
  /\ arrived' = arrived + 1
  /\ eol' \in {eol, eol \union {arrived + 1}}
  /\ rxne' = TRUE
  /\ rdr' = IF rxne THEN rdr ELSE arrived + 1
  /\ UNCHANGED <<ring_buf, ring_head, ring_tail, thread, accepted>>

NextHead == (ring_head + 1) % RingSize

\* Faulty variant: the byte is stored whether the ring is full or not.
Usart3Handler_NoFullTest ==
  /\ rxne
  /\ rxne' = FALSE
  /\ ring_buf' = [ring_buf EXCEPT ![ring_head] = rdr]
  /\ ring_head' = NextHead
  /\ accepted' = Append(accepted, rdr)
  /\ UNCHANGED <<rdr, arrived, eol, ring_tail, thread>>

\* USART3_IRQHandler: the byte goes into the ring unless that is full.
Usart3Handler ==
  /\ rxne
  /\ rxne' = FALSE
  /\ IF NextHead # ring_tail
     THEN /\ ring_buf' = [ring_buf EXCEPT ![ring_head] = rdr]
          /\ ring_head' = NextHead
          /\ accepted' = Append(accepted, rdr)
     ELSE UNCHANGED <<ring_buf, ring_head, accepted>>
  /\ UNCHANGED <<rdr, arrived, eol, ring_tail, thread>>

-----------------------------------------------------------------------------
(* input_thread_entry.  It sleeps when the ring is empty ("asleep") and     *)
(* while the LED flashes ("flash").                                        *)

IsrFrame == UNCHANGED <<usart, ring_buf, ring_head, accepted>>

\* Faulty variant: a head that has wrapped counts as an empty ring.
TestRing_NotWrapped ==
  /\ pc = "test"
  /\ pc' = IF ring_tail < ring_head THEN "take" ELSE "asleep"
  /\ UNCHANGED <<ring_tail, ch, line_buffer, printed>>
  /\ IsrFrame

TestRing ==
  /\ pc = "test"
  /\ pc' = IF ring_tail # ring_head THEN "take" ELSE "asleep"
  /\ UNCHANGED <<ring_tail, ch, line_buffer, printed>>
  /\ IsrFrame

Take ==
  /\ pc = "take"
  /\ ch' = ring_buf[ring_tail]
  /\ pc' = "advance"
  /\ UNCHANGED <<ring_tail, line_buffer, printed>>
  /\ IsrFrame

Advance ==
  /\ pc = "advance"
  /\ ring_tail' = (ring_tail + 1) % RingSize
  /\ pc' = "line"
  /\ UNCHANGED <<ch, line_buffer, printed>>
  /\ IsrFrame

\* End of line: print what there is, and flash.  Else append, if there is
\* space.
Line ==
  /\ pc = "line"
  /\ IF ch \in eol /\ line_buffer # <<>>
     THEN /\ printed' = Append(printed, line_buffer)
          /\ pc' = "flash"
          /\ UNCHANGED line_buffer
     ELSE /\ line_buffer' = IF ch \notin eol /\ Len(line_buffer) < LineCap
                            THEN Append(line_buffer, ch) ELSE line_buffer
          /\ pc' = "test"
          /\ UNCHANGED printed
  /\ UNCHANGED <<ring_tail, ch>>
  /\ IsrFrame

\* Faulty variant: the line buffer is not emptied.
Flashed_NotEmptied ==
  /\ pc = "flash" /\ pc' = "test"
  /\ UNCHANGED <<ring_tail, ch, line_buffer, printed>>
  /\ IsrFrame

\* The flash is over; only now is the line buffer empty.
Flashed ==
  /\ pc = "flash" /\ pc' = "test"
  /\ line_buffer' = <<>>
  /\ UNCHANGED <<ring_tail, ch, printed>>
  /\ IsrFrame

InputWake ==
  /\ pc = "asleep" /\ pc' = "test"
  /\ UNCHANGED <<ring_tail, ch, line_buffer, printed>>
  /\ IsrFrame

InputAwake  == TestRing \/ Take \/ Advance \/ Line
InputTimer  == Flashed \/ InputWake
InputThread == InputAwake \/ InputTimer

InputNext == Arrive \/ Usart3Handler \/ InputThread

-----------------------------------------------------------------------------
(* Properties.                                                             *)

InRing == (ring_head - ring_tail) % RingSize
RingContent ==
  [k \in 1 .. InRing |-> ring_buf[(ring_tail + k - 1) % RingSize]]

InputTypeOK ==
  /\ rdr \in Byte \union {NoByte} /\ rxne \in BOOLEAN
  /\ arrived \in 0 .. MaxBytes
  /\ eol \subseteq Byte
  /\ ring_buf \in [0 .. RingSize - 1 -> Byte \union {NoByte}]
  /\ ring_head \in 0 .. RingSize - 1 /\ ring_tail \in 0 .. RingSize - 1
  /\ pc \in {"test", "take", "advance", "line", "flash", "asleep"} /\ ch \in Byte \union {NoByte}
  /\ line_buffer \in Seq(Byte) /\ Len(line_buffer) <= LineCap
  /\ printed \in Seq(Seq(Byte))
  /\ accepted \in Seq(Byte)

\* Without a lock, handler and thread make the ring a FIFO of RingSize - 1
\* bytes: no byte is duplicated, overwritten or taken out of order.
Fifo == INSTANCE ByteFifo WITH Capacity <- RingSize - 1, fifo <- RingContent
ImplementsFifo == Fifo!Spec

\* The lines a sequence of bytes stands for: cut at each end of line, without
\* the empty ones, each shortened to LineCap bytes.
Lines(bytes) ==
  LET Add(acc, b) ==
        IF b \notin eol
        THEN [acc EXCEPT !.line = IF Len(@) < LineCap THEN Append(@, b) ELSE @]
        ELSE IF acc.line = <<>> THEN acc
        ELSE [lines |-> Append(acc.lines, acc.line), line |-> <<>>]
  IN  FoldLeft(Add, [lines |-> <<>>, line |-> <<>>], bytes).lines

\* In the end exactly the lines that entered the ring were printed, whatever
\* arrived while the LED flashed.
PrintsAll == <>[](printed = Lines(accepted))
=============================================================================

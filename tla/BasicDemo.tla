----------------------------- MODULE BasicDemo -----------------------------
(***************************************************************************)
(* STM32F767ZI-Nucleo/app/demos/threadx_basic/main.c: besides the serial   *)
(* input (UartInput), a button thread that sends a message for each press  *)
(* it notices, without waiting and without a look at the result, and a     *)
(* logger thread that prints them.  The two have the same priority and no  *)
(* time slice, the input thread a higher one, so each of the two runs      *)
(* until it blocks, while the input thread sleeps.  The message is the     *)
(* number of the press, for the tick count the code sends.                 *)
(***************************************************************************)
EXTENDS UartInput

CONSTANTS
  QueueSize,      \* QUEUE_MAX_MESSAGES
  MaxPresses      \* bound of the model: presses of the button

ASSUME BasicDemoAssumption ==
  QueueSize \in Nat \ {0} /\ MaxPresses \in Nat

VARIABLES
  button, presses,        \* is the button down, how often was it pressed?
  button_was_pressed, led2,
  noticed,                \* history: presses the button thread has noticed
  ready,                  \* the threads that are ready, in ThreadX's order
  msg_queue,
  received, printing,     \* logger: the message it took, and is it printing?
  logged                  \* messages printed

buttons == <<button, presses, button_was_pressed, led2, noticed>>
logger  == <<msg_queue, received, printing, logged>>
vars    == <<input, buttons, ready, logger>>

Nothing == 0

Init ==
  /\ InputInit
  /\ button = FALSE /\ presses = 0
  /\ button_was_pressed = FALSE /\ led2 = FALSE /\ noticed = 0
  /\ ready = <<"button", "logger">>
  /\ msg_queue = <<>> /\ received = Nothing /\ printing = FALSE
  /\ logged = <<>>

\* The user presses the button or lets it go.
PressOrRelease ==
  /\ button \/ presses < MaxPresses
  /\ button' = ~button
  /\ presses' = IF button THEN presses ELSE presses + 1
  /\ UNCHANGED <<button_was_pressed, led2, noticed, ready, input, logger>>

\* The thread of this priority that runs, when the input thread does not.
Runs(t) ==
  /\ pc \in {"asleep", "flash"}
  /\ ready # <<>> /\ Head(ready) = t

-----------------------------------------------------------------------------
(* Thread 2, button_thread_entry.                                          *)

\* Faulty variant: the woken thread goes ahead of the one that runs, as with
\* a priority above the logger's.
ButtonWake_Preempts ==
  /\ "button" \notin Range(ready)
  /\ ready' = <<"button">> \o ready
  /\ UNCHANGED <<input, buttons, logger>>

\* The sleep of two ticks is over.
ButtonWake ==
  /\ "button" \notin Range(ready)
  /\ ready' = Append(ready, "button")
  /\ UNCHANGED <<input, buttons, logger>>

\* tx_queue_send with TX_NO_WAIT, then the sleep.  A waiting logger is given
\* the message and becomes ready; a full queue refuses it.
SendPress(press) ==
  IF "logger" \notin Range(ready)
  THEN /\ received' = press /\ printing' = TRUE
       /\ ready' = Append(Tail(ready), "logger")
       /\ UNCHANGED <<msg_queue, logged>>
  ELSE /\ msg_queue' = IF Len(msg_queue) < QueueSize
                       THEN Append(msg_queue, press) ELSE msg_queue
       /\ ready' = Tail(ready)
       /\ UNCHANGED <<received, printing, logged>>

\* A press sets the LED and sends a message, once; a release ends it.
Poll ==
  /\ Runs("button")
  /\ button_was_pressed' = button
  /\ led2' = button
  /\ IF button /\ ~button_was_pressed
     THEN noticed' = noticed + 1 /\ SendPress(noticed + 1)
     ELSE ready' = Tail(ready) /\ UNCHANGED <<logger, noticed>>
  /\ UNCHANGED <<input, button, presses>>

-----------------------------------------------------------------------------
(* Thread 3, logger_thread_entry.                                          *)

LoggerTake ==
  /\ Runs("logger") /\ ~printing /\ msg_queue # <<>>
  /\ received' = Head(msg_queue) /\ msg_queue' = Tail(msg_queue)
  /\ printing' = TRUE
  /\ UNCHANGED <<input, buttons, ready, logged>>

\* The queue is empty: wait for ever.
LoggerWait ==
  /\ Runs("logger") /\ ~printing /\ msg_queue = <<>>
  /\ ready' = Tail(ready)
  /\ UNCHANGED <<input, buttons, logger>>

LoggerPrint ==
  /\ Runs("logger") /\ printing
  /\ logged' = Append(logged, received)
  /\ received' = Nothing /\ printing' = FALSE
  /\ UNCHANGED <<input, buttons, ready, msg_queue>>

Logger == LoggerTake \/ LoggerWait \/ LoggerPrint

Input == InputNext /\ UNCHANGED <<buttons, ready, logger>>

Next == Input \/ PressOrRelease \/ ButtonWake \/ Poll \/ Logger

Spec == Init /\ [][Next]_vars

\* Interrupts are served, sleeps end, a ready thread that nothing preempts
\* runs, and the input thread, which bytes can keep busy only for so long,
\* sleeps again and again.
FairSpec ==
  /\ Spec
  /\ WF_vars(Usart3Handler /\ UNCHANGED <<buttons, ready, logger>>)
  /\ WF_vars(InputThread /\ UNCHANGED <<buttons, ready, logger>>)
  /\ WF_vars(ButtonWake)
  /\ SF_vars(Poll) /\ SF_vars(Logger)

-----------------------------------------------------------------------------
(* Properties.                                                             *)

Press == 1 .. MaxPresses

TypeOK ==
  /\ InputTypeOK
  /\ button \in BOOLEAN /\ presses \in 0 .. MaxPresses
  /\ button_was_pressed \in BOOLEAN /\ led2 \in BOOLEAN
  /\ noticed \in 0 .. presses
  /\ ready \in Seq({"button", "logger"}) /\ IsInjective(ready)
  /\ msg_queue \in Seq(Press) /\ Len(msg_queue) <= QueueSize
  /\ received \in Press \union {Nothing} /\ printing \in BOOLEAN
  /\ logged \in Seq(Press)

\* A press that was noticed is never lost, although the result of the send
\* is ignored, nor logged twice or out of order: the button thread cannot
\* run while the logger prints, so the queue always has room.
PressesAccounted ==
  /\ TypeOK
  /\ logged \o (IF printing THEN <<received>> ELSE <<>>) \o msg_queue
       = [i \in 1 .. noticed |-> i]
=============================================================================

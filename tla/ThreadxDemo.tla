---------------------------- MODULE ThreadxDemo ----------------------------
(***************************************************************************)
(* apps/threadx_demo/main.c, the demo shared by all targets: a blinking    *)
(* thread that sets an event flag and puts a semaphore, a thread that      *)
(* waits for each, two threads that take turns with a mutex, and a sender  *)
(* that passes blocks of a pool through a queue to a receiver.             *)
(*                                                                         *)
(* A step is the code of one thread up to the next kernel call at which a  *)
(* thread above it, or the one it serves, can tell the difference; what a  *)
(* thread does without such a call is one step.  A thread steps when no    *)
(* thread of a higher priority (a smaller number) is ready.  Sleeps last   *)
(* any time, so a thread may be kept from the processor for as long as the *)
(* reporter prints.  A reading is its reading_id, a block its number.      *)
(***************************************************************************)
EXTENDS Integers, Sequences, FiniteSets, SequencesExt

CONSTANTS
  Blocks,             \* blocks in sensor_block_pool
  QueueCap,           \* messages msg_queue holds
  UlongHoldsPointer,  \* is a pointer one ULONG (32-bit ports)?
  MaxBlinks,          \* bound of the model: runs of the blink thread
  MaxReadings,        \* bound of the model: runs of the sender
  None, Wild          \* no block; an address that is no block's

Mutexers == {"mutex1", "mutex2"}

ASSUME ThreadxDemoAssumption ==
  /\ QueueCap \in Nat \ {0} /\ MaxBlinks \in Nat \ {0}
  /\ MaxReadings \in Nat \ {0}
  /\ UlongHoldsPointer \in BOOLEAN
  /\ IsFiniteSet(Blocks) /\ Blocks # {}
  /\ None \notin Blocks \union Mutexers /\ Wild \notin Blocks \union {None}

\* The threads in the order in which their stacks are allocated.
Creation == <<"monitor", "reporter", "blink", "event", "semaphore", "mutex1",
              "mutex2", "sender", "receiver">>

Priority == [blink |-> 11, event |-> 12, semaphore |-> 12, mutex1 |-> 13,
             mutex2 |-> 13, sender |-> 14, receiver |-> 15]
Threads  == DOMAIN Priority

VARIABLES
  pc,
  event_flags, noticed,           \* bit 0; blinks it stood for when taken
  semaphore, mutex_owner,
  pool, queue, reading,           \* list of free blocks, msg_queue, contents
  rx_data_ptr, rx_upper,          \* receiver's pointer; is its upper half,
                                  \* never written, that of a block?
  blink_counter, event_flags_processed, semaphore_wakes,
  msg_val, last_received          \* last reading_id taken from the queue

signals  == <<event_flags, noticed, semaphore>>
counters == <<blink_counter, event_flags_processed, semaphore_wakes>>
data     == <<pool, queue, reading, rx_data_ptr, rx_upper, msg_val,
              last_received>>
vars     == <<pc, signals, mutex_owner, data, counters>>

-----------------------------------------------------------------------------
(* Start: tx_application_define goes on when a stack cannot be allocated;  *)
(* the stacks have one size and none is given back, so once one fails, all *)
(* that follow fail.                                                       *)

Init ==
  /\ \E n \in 0..Len(Creation) :
       pc = [t \in Threads |->
               IF \E i \in 1..n : Creation[i] = t THEN "run" ELSE "none"]
  /\ event_flags = FALSE /\ noticed = 0 /\ semaphore = 0
  /\ mutex_owner = None
  /\ pool = SetToSeq(Blocks) /\ queue = <<>> /\ reading = [b \in Blocks |-> 0]
  /\ rx_data_ptr = None /\ rx_upper \in BOOLEAN
  /\ (UlongHoldsPointer => rx_upper)
  /\ blink_counter = 0 /\ event_flags_processed = 0 /\ semaphore_wakes = 0
  /\ msg_val = 0 /\ last_received = 0

Created(t) == pc[t] # "none"
Ready(t)   == pc[t] \in {"run", "got", "put"}
CanRun(t)  == Ready(t) /\ \A u \in Threads : Ready(u) => Priority[u] >= Priority[t]

Goto(t, step) == pc' = [pc EXCEPT ![t] = step]

\* A sleep ends.  The second is the one that holds the mutex.  At its bound a
\* thread sleeps for good.
Wake(t) ==
  /\ t = "blink" => blink_counter < MaxBlinks
  /\ t = "sender" => msg_val < MaxReadings
  /\ \/ pc[t] = "sleep" /\ Goto(t, "run")
     \/ pc[t] = "use" /\ Goto(t, "put")
  /\ UNCHANGED <<signals, mutex_owner, data, counters>>

-----------------------------------------------------------------------------
(* Event flag and semaphore                                                *)

\* Faulty variant: the semaphore is put only when nobody saw the flag.
Blink_SkipsPut ==
  /\ CanRun("blink")
  /\ blink_counter' = blink_counter + 1
  /\ event_flags' = (pc["event"] # "pend")
  /\ noticed' = IF pc["event"] = "pend" THEN blink_counter + 1 ELSE noticed
  /\ semaphore' = IF pc["semaphore"] = "pend" \/ event_flags THEN semaphore
                  ELSE semaphore + 1
  /\ pc' = [pc EXCEPT !["blink"] = "sleep",
                      !["event"] = IF @ = "pend" THEN "got" ELSE @,
                      !["semaphore"] = IF @ = "pend" THEN "got" ELSE @]
  /\ UNCHANGED <<mutex_owner, data, event_flags_processed, semaphore_wakes>>

\* blink_thread_entry: a flag or a put that somebody waits for is taken at
\* once.
Blink ==
  /\ CanRun("blink")
  /\ blink_counter' = blink_counter + 1
  /\ event_flags' = (pc["event"] # "pend")
  /\ noticed' = IF pc["event"] = "pend" THEN blink_counter + 1 ELSE noticed
  /\ semaphore' = IF pc["semaphore"] = "pend" THEN semaphore ELSE semaphore + 1
  /\ pc' = [pc EXCEPT !["blink"] = "sleep",
                      !["event"] = IF @ = "pend" THEN "got" ELSE @,
                      !["semaphore"] = IF @ = "pend" THEN "got" ELSE @]
  /\ UNCHANGED <<mutex_owner, data, event_flags_processed, semaphore_wakes>>

\* Faulty variant: the flag is cleared after the thread has counted it.
EventGet_ClearsBefore ==
  /\ pc["event"] = "run" /\ CanRun("event")
  /\ Goto("event", "pend")
  /\ event_flags' = FALSE
  /\ UNCHANGED <<noticed, semaphore, mutex_owner, data, counters>>

EventGet ==
  /\ pc["event"] = "run" /\ CanRun("event")
  /\ Goto("event", IF event_flags THEN "got" ELSE "pend")
  /\ event_flags' = FALSE
  /\ noticed' = IF event_flags THEN blink_counter ELSE noticed
  /\ UNCHANGED <<semaphore, mutex_owner, data, counters>>

EventCount ==
  /\ pc["event"] = "got" /\ CanRun("event")
  /\ Goto("event", "run")
  /\ event_flags_processed' = event_flags_processed + 1
  /\ UNCHANGED <<signals, mutex_owner, data, blink_counter, semaphore_wakes>>

SemaphoreGet ==
  /\ pc["semaphore"] = "run" /\ CanRun("semaphore")
  /\ Goto("semaphore", IF semaphore > 0 THEN "got" ELSE "pend")
  /\ semaphore' = IF semaphore > 0 THEN semaphore - 1 ELSE 0
  /\ UNCHANGED <<event_flags, noticed, mutex_owner, data, counters>>

SemaphoreCount ==
  /\ pc["semaphore"] = "got" /\ CanRun("semaphore")
  /\ Goto("semaphore", "run")
  /\ semaphore_wakes' = semaphore_wakes + 1
  /\ UNCHANGED <<signals, mutex_owner, data, blink_counter,
                 event_flags_processed>>

-----------------------------------------------------------------------------
(* Mutex threads: tx_mutex_get, count, sleep with it, tx_mutex_put, sleep  *)

MutexGet(m) ==
  /\ pc[m] = "run" /\ CanRun(m)
  /\ IF mutex_owner = None
     THEN mutex_owner' = m /\ Goto(m, "use")
     ELSE Goto(m, "pend") /\ UNCHANGED mutex_owner
  /\ UNCHANGED <<signals, data, counters>>

\* tx_mutex_get returns to a thread that waited in it.
MutexGot(m) ==
  /\ pc[m] = "got" /\ CanRun(m)
  /\ Goto(m, "use")
  /\ UNCHANGED <<signals, mutex_owner, data, counters>>

\* Faulty variant: the thread sleeps without tx_mutex_put.
MutexPut_Forgotten(m) ==
  /\ pc[m] = "put" /\ CanRun(m)
  /\ Goto(m, "sleep")
  /\ UNCHANGED <<signals, mutex_owner, data, counters>>

\* tx_mutex_put hands the mutex to a thread that waits for it.
MutexPut(m) ==
  /\ pc[m] = "put" /\ CanRun(m)
  /\ \/ \E w \in Mutexers :
          /\ pc[w] = "pend" /\ mutex_owner' = w
          /\ pc' = [pc EXCEPT ![m] = "sleep", ![w] = "got"]
     \/ /\ \A w \in Mutexers : pc[w] # "pend"
        /\ mutex_owner' = None /\ Goto(m, "sleep")
  /\ UNCHANGED <<signals, data, counters>>

-----------------------------------------------------------------------------
(* Block pool and queue.  tx_block_allocate takes the head of the list of   *)
(* free blocks, tx_block_release puts a block back there.                  *)

\* tx_queue_send and tx_queue_receive copy one ULONG.
Received(b) == IF UlongHoldsPointer \/ rx_upper THEN b ELSE Wild

\* queue_sender_entry, when no block is free.
SendNoBlock ==
  /\ CanRun("sender") /\ pool = <<>>
  /\ msg_val' = msg_val + 1
  /\ Goto("sender", "sleep")
  /\ UNCHANGED <<signals, mutex_owner, pool, queue, reading, rx_data_ptr,
                 rx_upper, last_received, counters>>

\* Faulty variant: the block is not released when the queue is full.
SendQueueFull_Leaks ==
  /\ pc["receiver"] # "pend" /\ Len(queue) = QueueCap
  /\ pool' = Tail(pool)
  /\ Goto("sender", "sleep")
  /\ UNCHANGED <<queue, rx_data_ptr, last_received>>

\* The queue is full: the block is released.
SendQueueFull ==
  /\ pc["receiver"] # "pend" /\ Len(queue) = QueueCap
  /\ Goto("sender", "sleep")
  /\ UNCHANGED <<pool, queue, rx_data_ptr, last_received>>

\* The receiver waits: the message is copied to it.
SendHandOver ==
  /\ pc["receiver"] = "pend"
  /\ pool' = Tail(pool)
  /\ rx_data_ptr' = Received(Head(pool)) /\ last_received' = msg_val'
  /\ pc' = [pc EXCEPT !["sender"] = "sleep", !["receiver"] = "got"]
  /\ UNCHANGED queue

\* Faulty variant: the new message overtakes those in the queue.
SendQueued_AtFront ==
  /\ pc["receiver"] # "pend" /\ Len(queue) < QueueCap
  /\ pool' = Tail(pool)
  /\ queue' = <<Head(pool)>> \o queue
  /\ Goto("sender", "sleep")
  /\ UNCHANGED <<rx_data_ptr, last_received>>

\* There is room in the queue.
SendQueued ==
  /\ pc["receiver"] # "pend" /\ Len(queue) < QueueCap
  /\ pool' = Tail(pool)
  /\ queue' = Append(queue, Head(pool))
  /\ Goto("sender", "sleep")
  /\ UNCHANGED <<rx_data_ptr, last_received>>

\* queue_sender_entry, with a block: fill it and send its address.
Send ==
  /\ CanRun("sender") /\ pool # <<>>
  /\ msg_val' = msg_val + 1
  /\ reading' = [reading EXCEPT ![Head(pool)] = msg_val + 1]
  /\ SendQueueFull \/ SendHandOver \/ SendQueued
  /\ UNCHANGED <<signals, mutex_owner, rx_upper, counters>>

\* queue_receiver_entry: tx_queue_receive.
Receive ==
  /\ pc["receiver"] = "run" /\ CanRun("receiver")
  /\ \/ /\ queue # <<>>
        /\ rx_data_ptr' = Received(Head(queue))
        /\ last_received' = reading[Head(queue)]
        /\ queue' = Tail(queue) /\ Goto("receiver", "got")
     \/ /\ queue = <<>> /\ Goto("receiver", "pend")
        /\ UNCHANGED <<queue, rx_data_ptr, last_received>>
  /\ UNCHANGED <<signals, mutex_owner, pool, reading, rx_upper, msg_val,
                 counters>>

\* queue_receiver_entry: tx_block_release.  What lies before an address that
\* is no block's is not a pool: the block stays taken.
Release ==
  /\ pc["receiver"] = "got" /\ CanRun("receiver")
  /\ pool' = IF rx_data_ptr = Wild THEN pool ELSE <<rx_data_ptr>> \o pool
  /\ rx_data_ptr' = None /\ Goto("receiver", "run")
  /\ UNCHANGED <<signals, mutex_owner, queue, reading, rx_upper, msg_val,
                 last_received, counters>>

-----------------------------------------------------------------------------
Next ==
  \/ \E t \in Threads : Wake(t)
  \/ Blink \/ EventGet \/ EventCount \/ SemaphoreGet \/ SemaphoreCount
  \/ \E m \in Mutexers : MutexGet(m) \/ MutexGot(m) \/ MutexPut(m)
  \/ SendNoBlock \/ Send \/ Receive \/ Release

Spec == Init /\ [][Next]_vars

\* Sleeps end, and the processor idles again and again: the threads run for
\* moments and sleep for 50 ms and more.  A ready thread is therefore not kept
\* from it for ever by threads above it that take turns.
Idle == \A t \in Threads : ~Ready(t)

Fairness == []<>Idle /\ \A t \in Threads : WF_vars(Wake(t))

FairSpec == Spec /\ Fairness

-----------------------------------------------------------------------------
(* Properties                                                              *)

\* The variables have their types.
TypeOK ==
  /\ pc \in [Threads -> {"none", "run", "sleep", "pend", "got", "use", "put"}]
  /\ event_flags \in BOOLEAN /\ noticed \in 0..MaxBlinks
  /\ semaphore \in 0..MaxBlinks /\ mutex_owner \in Mutexers \union {None}
  /\ pool \in Seq(Blocks) /\ queue \in Seq(Blocks) /\ Len(queue) <= QueueCap
  /\ reading \in [Blocks -> 0..MaxReadings]
  /\ rx_data_ptr \in Blocks \union {None, Wild} /\ rx_upper \in BOOLEAN
  /\ blink_counter \in 0..MaxBlinks
  /\ event_flags_processed \in 0..MaxBlinks /\ semaphore_wakes \in 0..MaxBlinks
  /\ msg_val \in 0..MaxReadings /\ last_received \in 0..MaxReadings

\* No blink is lost, however the threads are started and interrupted: the
\* event thread saw it or it stands in the flag (several may be one wake,
\* never the other way round), and what was put into the semaphore was taken
\* or is left.
BlinksAccounted ==
  /\ ~event_flags => noticed = blink_counter
  /\ event_flags_processed + (IF pc["event"] = "got" THEN 1 ELSE 0) <= noticed
  /\ blink_counter = semaphore + semaphore_wakes
                     + (IF pc["semaphore"] = "got" THEN 1 ELSE 0)

\* Each block is in the pool, in the queue or with the receiver, and in one
\* of them only: the sender that is refused gives its block back, and none is
\* reused while its address is under way.
BlocksAccounted ==
  /\ TypeOK
  /\ LET held   == IF rx_data_ptr = None THEN <<>> ELSE <<rx_data_ptr>>
         places == pool \o queue \o held
     IN  IsInjective(places) /\ ToSet(places) = Blocks

\* Readings arrive in the order in which they were taken, each once: a block
\* in the queue still has the reading it was sent with.
ReadingsInOrder ==
  /\ \A i, j \in DOMAIN queue : i < j => reading[queue[i]] < reading[queue[j]]
  /\ \A i \in DOMAIN queue : last_received < reading[queue[i]]

\* "Stores 10 SensorData pointers": what the receiver takes out of the queue
\* is a pointer to a block.
ReceivesPointers == rx_data_ptr # Wild

\* The receiver empties the queue, the semaphore and event threads catch up
\* with the blinks, and no mutex thread is shut out by the other.
CatchesUp ==
  /\ \A m \in Mutexers : Created(m) => []<>(pc[m] = "use")
  /\ queue # <<>> /\ Created("receiver") ~> queue = <<>>
  /\ semaphore > 0 /\ Created("semaphore") ~> semaphore_wakes = blink_counter
  /\ event_flags /\ Created("event") ~> ~event_flags
=============================================================================

--------------------------- MODULE MqttTelemetry ---------------------------
(***************************************************************************)
(* The "mqtt" configuration of MXChip/AZ3166/app: the telemetry thread     *)
(* (mqtt/telemetry.c) reads the sensors and raises MQTT_MESSAGE_READY when *)
(* they changed, the MQTT client's own thread raises MQTT_RECEIVE_EVENT    *)
(* when messages arrive, and the MQTT thread (mqtt/mqtt_client.c) serves   *)
(* both: it publishes the current data, or takes a message, puts it into   *)
(* mqtt_queue and prints it.                                               *)
(*                                                                         *)
(* Telemetry and MQTT thread have one priority and no time slice: each     *)
(* runs until it blocks.  The client's thread is above them and runs       *)
(* between any two steps.  A reading is its number among the changes, a    *)
(* message its number in the order of arrival.                             *)
(***************************************************************************)
EXTENDS Integers, Sequences

CONSTANTS
  QueueSize,      \* messages mqtt_queue holds
  MaxReadings,    \* bound of the model: changes of the sensor data
  MaxMessages     \* bound of the model: messages that arrive

ASSUME MqttTelemetryAssumption ==
  QueueSize \in Nat /\ MaxReadings \in Nat /\ MaxMessages \in Nat

ReceiveEvent == "MQTT_RECEIVE_EVENT"
MessageReady == "MQTT_MESSAGE_READY"

VARIABLES
  queue_created,      \* did tx_queue_create succeed?
  mqtt_queue,         \* messages in it
  group, flags,       \* mqtt_app_flag: does it exist, and its bits
  subscribed, notify, \* MQTT client: connected and subscribed, callback set
  arrived, inbox,     \* messages that arrived, and those not fetched yet
  signal,             \* MQTT client's thread: about to call the callback?
  tel_pc, current,    \* telemetry_thread, current_sensor_data
  mqtt_pc, events, message, buffer,     \* mqtt_thread
  published, missed   \* history: data published, messages never announced

mqtt_client == <<subscribed, notify, arrived, inbox, signal>>
telemetry   == <<tel_pc, current>>
thread      == <<mqtt_pc, events, message, buffer>>
mqtt_vars   == <<queue_created, mqtt_queue, group, flags, mqtt_client, telemetry,
                 thread, published, missed>>

\* mqtt_queue's memory comes from a byte pool that is never created, at an
\* address nobody set: whether tx_queue_create accepts it is not determined.
MqttInit ==
  /\ queue_created \in BOOLEAN /\ mqtt_queue = <<>>
  /\ group = FALSE /\ flags = {}
  /\ subscribed = FALSE /\ notify = FALSE
  /\ arrived = 0 /\ inbox = <<>> /\ signal = FALSE
  /\ tel_pc = "nap" /\ current = 0
  /\ mqtt_pc = "start" /\ events = {} /\ message = 0 /\ buffer = 0
  /\ published = <<>> /\ missed = 0

\* tx_event_flags_set: an error while the group does not exist.  A thread that
\* is suspended in tx_event_flags_get is handed the flag at once.
Raise(e) ==
  \/ /\ mqtt_pc = "pend"
     /\ events' = {e} /\ mqtt_pc' = "dispatch"
     /\ UNCHANGED flags
  \/ /\ mqtt_pc # "pend"
     /\ flags' = IF group THEN flags \union {e} ELSE flags
     /\ UNCHANGED <<events, mqtt_pc>>

\* Faulty variant: the MQTT thread may interrupt the telemetry thread.
MqttCanRun_Preempts == TRUE

\* The MQTT thread waits for room in mqtt_queue.
Blocked ==
  mqtt_pc = "queue" /\ queue_created /\ Len(mqtt_queue) = QueueSize

\* Where the other thread is not in the middle of its run.
MqttCanRun      == tel_pc # "store"
TelemetryCanRun ==
  mqtt_pc \in {"start", "connect", "listen", "pend", "publish"} \/ Blocked

-----------------------------------------------------------------------------
(* The broker and the MQTT client's thread                                 *)

MessageArrives ==
  /\ subscribed /\ arrived < MaxMessages /\ ~signal
  /\ arrived' = arrived + 1
  /\ inbox' = Append(inbox, arrived + 1)
  /\ signal' = notify
  /\ missed' = IF notify THEN missed ELSE missed + 1
  /\ UNCHANGED <<queue_created, mqtt_queue, group, flags, subscribed, notify,
                 telemetry, thread, published>>

\* client_notify_func, which does not look at the number of messages.
Notify ==
  /\ signal
  /\ signal' = FALSE
  /\ Raise(ReceiveEvent)
  /\ missed' = IF ReceiveEvent \in flags THEN missed + 1 ELSE missed
  /\ UNCHANGED <<queue_created, mqtt_queue, group, subscribed, notify, arrived,
                 inbox, telemetry, message, buffer, published>>

-----------------------------------------------------------------------------
(* telemetry_thread_entry                                                  *)

\* The sensors are read and differ from current_sensor_data.
SetReady ==
  /\ tel_pc = "nap" /\ TelemetryCanRun /\ ~signal
  /\ current < MaxReadings
  /\ Raise(MessageReady)
  /\ tel_pc' = "store"
  /\ UNCHANGED <<queue_created, mqtt_queue, group, mqtt_client, current,
                 message, buffer, published, missed>>

Store ==
  /\ tel_pc = "store" /\ ~signal
  /\ current' = current + 1
  /\ tel_pc' = "nap"
  /\ UNCHANGED <<queue_created, mqtt_queue, group, flags, mqtt_client, thread,
                 published, missed>>

-----------------------------------------------------------------------------
(* mqtt_thread_work                                                        *)

MqttStep == MqttCanRun /\ ~signal

\* The network is up and the client exists: create the event flags group.
CreateGroup ==
  /\ mqtt_pc = "start" /\ MqttStep
  /\ group' = TRUE
  /\ mqtt_pc' = "connect"
  /\ UNCHANGED <<queue_created, mqtt_queue, flags, mqtt_client, telemetry, events,
                 message, buffer, published, missed>>

\* Connect and subscribe; a failure is only printed.
Connect ==
  /\ mqtt_pc = "connect" /\ MqttStep
  /\ subscribed' \in BOOLEAN
  /\ mqtt_pc' = "listen"
  /\ UNCHANGED <<queue_created, mqtt_queue, group, flags, notify, arrived,
                 inbox, signal, telemetry, events, message, buffer, published, missed>>

SetNotify ==
  /\ mqtt_pc = "listen" /\ MqttStep
  /\ notify' = TRUE
  /\ mqtt_pc' = "wait"
  /\ UNCHANGED <<queue_created, mqtt_queue, group, flags, subscribed, arrived,
                 inbox, signal, telemetry, events, message, buffer, published, missed>>

\* tx_event_flags_get with TX_OR_CLEAR, TX_WAIT_FOREVER.
WaitEvents ==
  /\ mqtt_pc = "wait" /\ MqttStep
  /\ IF flags = {}
     THEN mqtt_pc' = "pend" /\ UNCHANGED <<events, flags>>
     ELSE /\ events' = flags /\ flags' = {}
          /\ mqtt_pc' = "dispatch"
  /\ UNCHANGED <<queue_created, mqtt_queue, group, mqtt_client, telemetry, message,
                 buffer, published, missed>>

\* Faulty variant: the telemetry is looked at first.
Dispatch_ReadyFirst ==
  /\ mqtt_pc = "dispatch" /\ MqttStep
  /\ mqtt_pc' = IF MessageReady \in events THEN "format" ELSE "fetch"
  /\ UNCHANGED <<queue_created, mqtt_queue, group, flags, mqtt_client, telemetry,
                 events, message, buffer, published, missed>>

\* if (events & MQTT_RECEIVE_EVENT) ... else if (events & MQTT_MESSAGE_READY)
Dispatch ==
  /\ mqtt_pc = "dispatch" /\ MqttStep
  /\ mqtt_pc' = IF ReceiveEvent \in events THEN "fetch" ELSE "format"
  /\ UNCHANGED <<queue_created, mqtt_queue, group, flags, mqtt_client, telemetry,
                 events, message, buffer, published, missed>>

\* nxd_mqtt_client_message_get: one message.
Fetch ==
  /\ mqtt_pc = "fetch" /\ MqttStep
  /\ IF inbox = <<>>
     THEN mqtt_pc' = "wait" /\ UNCHANGED <<inbox, message>>
     ELSE /\ message' = Head(inbox)
          /\ inbox' = Tail(inbox)
          /\ mqtt_pc' = "queue"
  /\ UNCHANGED <<queue_created, mqtt_queue, group, flags, subscribed, notify,
                 arrived, signal, telemetry, events, buffer, published, missed>>

\* tx_queue_send with TX_WAIT_FOREVER, then the message is printed.  Nobody
\* receives from mqtt_queue.
QueueAndPrint ==
  /\ mqtt_pc = "queue" /\ MqttStep
  /\ \/ ~queue_created /\ UNCHANGED mqtt_queue
     \/ /\ queue_created /\ Len(mqtt_queue) < QueueSize
        /\ mqtt_queue' = Append(mqtt_queue, message)
  /\ mqtt_pc' = "wait"
  /\ UNCHANGED <<queue_created, group, flags, mqtt_client, telemetry, events,
                 message, buffer, published, missed>>

\* send_message: get_current_telemetry_string.
Format ==
  /\ mqtt_pc = "format" /\ MqttStep
  /\ buffer' = current
  /\ mqtt_pc' = "publish"
  /\ UNCHANGED <<queue_created, mqtt_queue, group, flags, mqtt_client, telemetry,
                 events, message, published, missed>>

\* nxd_mqtt_client_publish; a failure is only printed.
Publish ==
  /\ mqtt_pc = "publish" /\ MqttStep
  /\ published' = IF subscribed THEN Append(published, buffer) ELSE published
  /\ mqtt_pc' = "wait"
  /\ UNCHANGED <<queue_created, mqtt_queue, group, flags, mqtt_client, telemetry,
                 events, message, buffer, missed>>

MqttThread ==
  \/ CreateGroup \/ Connect \/ SetNotify
  \/ WaitEvents \/ Dispatch
  \/ Fetch \/ QueueAndPrint
  \/ Format \/ Publish

-----------------------------------------------------------------------------
MqttNext ==
  \/ MessageArrives \/ Notify
  \/ SetReady \/ Store
  \/ MqttThread

MqttSpec == MqttInit /\ [][MqttNext]_mqtt_vars

\* A thread that can run does so in the end: the ones above or beside it only
\* run for a short time.
MqttFairSpec ==
  /\ MqttSpec
  /\ WF_mqtt_vars(Notify) /\ WF_mqtt_vars(Store) /\ SF_mqtt_vars(MqttThread)

-----------------------------------------------------------------------------
(* Properties.                                                             *)

MqttTypeOK ==
  /\ queue_created \in BOOLEAN
  /\ mqtt_queue \in Seq(1 .. MaxMessages) /\ Len(mqtt_queue) <= QueueSize
  /\ group \in BOOLEAN /\ flags \subseteq {ReceiveEvent, MessageReady}
  /\ subscribed \in BOOLEAN /\ notify \in BOOLEAN /\ signal \in BOOLEAN
  /\ arrived \in 0 .. MaxMessages /\ inbox \in Seq(1 .. MaxMessages)
  /\ tel_pc \in {"nap", "store"} /\ current \in 0 .. MaxReadings
  /\ mqtt_pc \in {"start", "connect", "listen", "wait", "pend", "dispatch",
                  "fetch", "queue", "format", "publish"}
  /\ events \subseteq {ReceiveEvent, MessageReady}
  /\ message \in 0 .. MaxMessages /\ buffer \in 0 .. MaxReadings
  /\ published \in Seq(0 .. MaxReadings) /\ missed \in Nat

\* Each publish carries a newer reading than the one before.  The flag is
\* raised before the data it announces is stored; that is right only because
\* no other thread reads the data in between.
PublishesAreNew ==
  /\ MqttTypeOK
  /\ \A i, j \in DOMAIN published : i < j => published[i] < published[j]

One(b) == IF b THEN 1 ELSE 0

\* A message waits in the client only as long as its announcement is under way:
\* about to be made, in the flag, or in the hands of the MQTT thread.  The
\* others that wait are those that arrived before the callback was set, and
\* those whose announcement found the flag of the one before still set: two
\* announcements then make one event, and one fetch.
MessagesAccounted ==
  Len(inbox) = missed + One(signal) + One(ReceiveEvent \in flags)
                 + One(\/ mqtt_pc = "fetch"
                       \/ mqtt_pc = "dispatch" /\ ReceiveEvent \in events)

=============================================================================

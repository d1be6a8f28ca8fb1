----------------------------- MODULE SntpClient -----------------------------
(***************************************************************************)
(* sntp_sync of MXChip/AZ3166/app/common/sntp_client.c: the thread that    *)
(* brings up the network starts an SNTP client on one pool server after    *)
(* the other until time_update_callback, on the client's own thread, has   *)
(* raised SNTP_UPDATE_EVENT.  WifiBringUp calls it once, so nothing is left *)
(* over from an earlier synchronisation.                                   *)
(***************************************************************************)
EXTENDS Integers, FiniteSets

CONSTANTS
  NServers,       \* length of SNTP_SERVER
  MaxChanges      \* bound of the model: servers that come up during the sync

ASSUME SntpClientAssumption ==
  NServers \in Nat \ {0} /\ MaxChanges \in Nat

Server == 0 .. NServers - 1
None   == -1

VARIABLES
  up, changes,        \* servers that can be reached, and how many came up
  in_time,            \* are they resolved, and do they answer, within the waits
                      \* of the code?
  client,             \* NX_SNTP_CLIENT: the server it is started on, or None
  flag,               \* SNTP_UPDATE_EVENT
  sntp_server_count,
  pc,
  answers             \* history: the servers that answered

world == <<up, changes, in_time>>
sntp == <<world, client, flag, sntp_server_count, pc, answers>>

SntpInit ==
  /\ up \in SUBSET Server /\ changes = 0 /\ in_time \in BOOLEAN
  /\ client = None /\ flag = FALSE
  /\ sntp_server_count = 0
  /\ pc = "idle"
  /\ answers = {}

ServerComesUp ==
  /\ changes < MaxChanges
  /\ changes' = changes + 1
  /\ \E s \in Server \ up : up' = up \union {s}
  /\ UNCHANGED <<in_time, client, flag, sntp_server_count, pc, answers>>

\* time_update_callback, on every answer of the server.
Answer ==
  /\ client \in up
  /\ flag' = TRUE
  /\ answers' = answers \union {client}
  /\ UNCHANGED <<world, client, sntp_server_count, pc>>

\* sntp_sync starts from the beginning of the table.
CallSync ==
  /\ pc = "idle"
  /\ sntp_server_count' = 0
  /\ pc' = "check"
  /\ UNCHANGED <<world, client, flag, answers>>

-----------------------------------------------------------------------------
(* sntp_client_run                                                         *)

\* sntp_server_count > sizeof(SNTP_SERVER) / sizeof(&SNTP_SERVER)
RotatedThrough == sntp_server_count > NServers

\* The error returned here is not looked at by sntp_sync.
FailOut ==
  /\ pc = "check" /\ RotatedThrough
  /\ pc' = "wait"
  /\ UNCHANGED <<world, client, flag, sntp_server_count, answers>>

\* nx_sntp_client_stop
StopClient ==
  /\ pc = "check" /\ ~RotatedThrough
  /\ client' = None
  /\ pc' = "start"
  /\ UNCHANGED <<world, flag, sntp_server_count, answers>>

\* Faulty variant: only a server that was started is passed over.
StartFails_SameServer ==
  /\ pc = "start"
  /\ in_time => sntp_server_count \notin up
  /\ pc' = "wait"
  /\ UNCHANGED <<world, client, flag, sntp_server_count, answers>>

\* DNS, nxd_sntp_client_initialize_unicast or nx_sntp_client_run_unicast fails.
StartFails ==
  /\ pc = "start"
  /\ in_time => sntp_server_count \notin up
  /\ sntp_server_count' = sntp_server_count + 1
  /\ pc' = "wait"
  /\ UNCHANGED <<world, client, flag, answers>>

\* The name is resolved and the client started, whether or not the server will
\* answer.
Start ==
  /\ pc = "start" /\ sntp_server_count \in Server
  /\ client' = sntp_server_count
  /\ sntp_server_count' = sntp_server_count + 1
  /\ pc' = "wait"
  /\ UNCHANGED <<world, flag, answers>>

\* SNTP_SERVER is read behind its end: what is found there may pass for a name
\* that is not resolved (StartFails), or stop the processor.
Fault ==
  /\ pc = "start" /\ sntp_server_count \notin Server
  /\ pc' = "fault"
  /\ UNCHANGED <<world, client, flag, sntp_server_count, answers>>

-----------------------------------------------------------------------------
(* sntp_sync                                                               *)

\* tx_event_flags_get with TX_OR_CLEAR; then the time is taken.
Updated ==
  /\ pc = "wait" /\ flag
  /\ flag' = FALSE
  /\ pc' = "stop"
  /\ UNCHANGED <<world, client, sntp_server_count, answers>>

\* Faulty variant: a timeout is taken for an update.
TimedOut_Accepted ==
  /\ pc = "wait" /\ ~flag
  /\ in_time => client \notin up
  /\ pc' = "stop"
  /\ UNCHANGED <<world, client, flag, sntp_server_count, answers>>

TimedOut ==
  /\ pc = "wait" /\ ~flag
  /\ in_time => client \notin up
  /\ pc' = "check"
  /\ UNCHANGED <<world, client, flag, sntp_server_count, answers>>

Stop ==
  /\ pc = "stop"
  /\ client' = None
  /\ pc' = "done"
  /\ UNCHANGED <<world, flag, sntp_server_count, answers>>

SyncThread ==
  \/ FailOut \/ StopClient \/ StartFails \/ Start \/ Fault
  \/ Updated \/ TimedOut \/ Stop

-----------------------------------------------------------------------------
(* Properties.                                                             *)

SntpTypeOK ==
  /\ up \subseteq Server /\ changes \in 0 .. MaxChanges /\ in_time \in BOOLEAN
  /\ client \in Server \union {None} /\ flag \in BOOLEAN
  /\ sntp_server_count \in 0 .. NServers + 1
  /\ pc \in {"idle", "check", "start", "wait", "stop", "done", "fault"}
  /\ answers \subseteq Server

\* The time reported is one that a server told, also when it answered so late
\* that the next server was being tried.
TimeWasTold == pc \in {"stop", "done"} => answers # {}

-----------------------------------------------------------------------------
(* Properties the code does not have.                                      *)

\* Only servers in the table are tried, then the function fails out ("We
\* rotated through all the servers, fail out").
TriesServersOnly == pc = "start" => sntp_server_count \in Server
=============================================================================

------------------------------ MODULE Workflows ------------------------------
(***************************************************************************)
(* What the dashboard does to one bot and its data over several steps: the *)
(* manual start, stop and restart, the offline edit of a database, live    *)
(* edits of rows and files, and the restore route.  They meet in the bot's *)
(* workflow lock, its data lock, the process itself and the data, and each *)
(* asks the supervisor over a connection that gives up after three         *)
(* seconds, while the supervisor goes on with what it was asked.           *)
(*                                                                         *)
(* Replacing the data directory is one step here; Backups.tla takes it     *)
(* apart.  The data is the one thing the edits are about, a row or a file; *)
(* writes never reproduce earlier contents, so that the hash which is an   *)
(* edit's token stands for the number of the write.                        *)
(***************************************************************************)
EXTENDS BotDataParameters, FiniteSets

VARIABLES
  kind,      \* how the data is edited: live row, offline row, file
  running,   \* the bot's process runs
  late,      \* order the supervisor still carries out, unheard
  data,      \* the bot's data: its write, whether it is valid, who wrote it
  writes,    \* writes so far
  wlock,     \* holder of process_workflow_locks
  dlock,     \* holder of bot_data_locks
  request,   \* where each request is
  outcome    \* status of each request's operation row, once it has one

workflowVars == <<kind, running, late, data, writes, wlock, dlock, request, outcome>>

Orders == {"start", "stop", "restart"}

DataState == [write : 0 .. MaxWrites, valid : BOOLEAN, by : Jobs \cup {NoJob}]

Origin == [write |-> 0, valid |-> TRUE, by |-> NoJob]

\* The steps of an offline edit under both locks, and of the others.
OfflineSteps ==
  {"backup", "look", "stop", "confirm", "write", "validate", "recover",
   "restart", "ready", "complete"}

WorkflowSteps == OfflineSteps \cup
  {"idle", "asked", "order", "done", "lock", "failed", "copy", "put", "judge",
   "policy", "halt", "take", "swap", "revive", "amend"}

\* A request: its step, what it is, the contents its user saw, those in its
\* backup, and what it remembers of the process and of its own write.
WorkflowRequest ==
  [pc        : WorkflowSteps,
   op        : Orders \cup {"none", "offline", "row", "file", "restore"},
   token     : 0 .. MaxWrites,
   saved     : DataState,
   initially : BOOLEAN,
   stopped   : BOOLEAN,
   committed : BOOLEAN,
   good      : BOOLEAN]

NoRequest ==
  [pc |-> "idle", op |-> "none", token |-> 0, saved |-> Origin,
   initially |-> FALSE, stopped |-> FALSE, committed |-> FALSE, good |-> FALSE]

WorkflowInit ==
  /\ kind \in {"row", "offline", "file"}
  /\ running \in BOOLEAN
  /\ late = "none"
  /\ data = Origin
  /\ writes = 0
  /\ wlock = NoJob
  /\ dlock = NoJob
  /\ request = [j \in Jobs |-> NoRequest]
  /\ outcome = [j \in Jobs |-> "none"]

-------------------------------------------------------------------------------
Stands(j, op, step) == request[j].op = op /\ request[j].pc = step
GoOn(j, step) == request' = [request EXCEPT ![j].pc = step]
Settle(j, status) == outcome' = [outcome EXCEPT ![j] = status]

\* The with blocks: leaving one releases what the request holds.
Without(j, holder) == IF holder = j THEN NoJob ELSE holder
Release(j) == wlock' = Without(j, wlock) /\ dlock' = Without(j, dlock)

Leave(j) == request' = [request EXCEPT ![j] = NoRequest] /\ Release(j)

OpenWith(j, op, step, token) ==
  request' = [request EXCEPT ![j] =
    [NoRequest EXCEPT !.op = op, !.pc = step, !.token = token]]

\* The supervisor obeys: it refuses to start what runs and to restart what does
\* not, and it stops either; while it works on one order it refuses others.
Obeys(order) ==
  /\ late = "none"
  /\ order = "start" => ~running
  /\ order = "restart" => running
  /\ running' = (order # "stop")
  /\ UNCHANGED late

\* It refuses, cannot be reached, or answers too late and then does it anyway.
Unheard(order) ==
  /\ late' \in {late, IF late = "none" THEN order ELSE late}
  /\ UNCHANGED running

\* What get_status says of the process: unknown, to a dashboard that cannot
\* reach the supervisor or holds the bot disabled, reads as not running.
Seen == {running, FALSE}

\* A write to the data.
Put(author, validity) ==
  /\ writes < MaxWrites
  /\ writes' = writes + 1
  /\ \E v \in validity :
       data' = [write |-> writes + 1, valid |-> v, by |-> author]

-------------------------------------------------------------------------------
\* process_action: the workflow lock, then the status and the operation row.
AskAction(j, order) ==
  /\ request[j].pc = "idle"
  /\ wlock = NoJob
  /\ wlock' = j
  /\ OpenWith(j, order, "asked", 0)
  /\ Settle(j, "none")
  /\ UNCHANGED <<kind, running, late, data, writes, dlock>>

OpenAction(j) ==
  /\ request[j].pc = "asked"
  /\ Settle(j, "running")
  /\ GoOn(j, "order")
  /\ UNCHANGED <<kind, running, late, data, writes, wlock, dlock>>

\* A status that is refused, or a database that is busy: the lock was entered
\* by hand, before the try whose finally leaves it.
ActionLeaks(j) ==
  /\ request[j].pc = "asked"
  /\ request' = [request EXCEPT ![j] = NoRequest]
  /\ wlock' = Leaked
  /\ UNCHANGED <<kind, running, late, data, writes, dlock, outcome>>

OrderObeyed(j) ==
  /\ request[j].pc = "order"
  /\ Obeys(request[j].op)
  /\ wlock' = NoJob
  /\ GoOn(j, "done")
  /\ UNCHANGED <<kind, data, writes, dlock, outcome>>

OrderFails(j) ==
  /\ request[j].pc = "order"
  /\ Unheard(request[j].op)
  /\ Settle(j, "failed")
  /\ Leave(j)
  /\ UNCHANGED <<kind, data, writes>>

ActionDone(j) ==
  /\ request[j].pc = "done"
  /\ Settle(j, "completed")
  /\ Leave(j)
  /\ UNCHANGED <<kind, running, late, data, writes>>

-------------------------------------------------------------------------------
\* mutate_process_aware: the record is as the user saw it, the operation row is
\* committed, and only then both locks are tried.
OpenOffline(j) ==
  /\ request[j].pc = "idle"
  /\ kind = "offline"
  /\ OpenWith(j, "offline", "lock", data.write)
  /\ Settle(j, "running")
  /\ UNCHANGED <<kind, running, late, data, writes, wlock, dlock>>

OfflineLocks(j) ==
  /\ Stands(j, "offline", "lock")
  /\ wlock = NoJob /\ dlock = NoJob
  /\ wlock' = j /\ dlock' = j
  /\ GoOn(j, "backup")
  /\ UNCHANGED <<kind, running, late, data, writes, outcome>>

OfflineBacksUp(j) ==
  /\ Stands(j, "offline", "backup")
  /\ request' = [request EXCEPT ![j].pc = "look", ![j].saved = data]
  /\ UNCHANGED <<kind, running, late, data, writes, wlock, dlock, outcome>>

OfflineLooks(j) ==
  /\ Stands(j, "offline", "look")
  /\ \E seen \in Seen :
       request' = [request EXCEPT ![j].initially = seen,
                                  ![j].pc = IF seen THEN "stop" ELSE "write"]
  /\ UNCHANGED <<kind, running, late, data, writes, wlock, dlock, outcome>>

OfflineStops(j) ==
  /\ Stands(j, "offline", "stop")
  /\ Obeys("stop")
  /\ GoOn(j, "confirm")
  /\ UNCHANGED <<kind, data, writes, wlock, dlock, outcome>>

\* The wait for OFFLINE; only now the workflow counts the bot as stopped.
OfflineConfirms(j) ==
  /\ Stands(j, "offline", "confirm")
  /\ ~running
  /\ request' = [request EXCEPT ![j].pc = "write", ![j].stopped = TRUE]
  /\ UNCHANGED <<kind, running, late, data, writes, wlock, dlock, outcome>>

\* A faulty transaction that trusts the token check made before the stop.
FaultyOfflineWrites(j) ==
  /\ Stands(j, "offline", "write")
  /\ Put(j, BOOLEAN)
  /\ request' = [request EXCEPT ![j].pc = "validate", ![j].committed = TRUE]
  /\ UNCHANGED <<kind, running, late, wlock, dlock, outcome>>

\* _transaction: the token is checked again under BEGIN IMMEDIATE.
OfflineWrites(j) ==
  /\ Stands(j, "offline", "write")
  /\ data.write = request[j].token
  /\ Put(j, BOOLEAN)
  /\ request' = [request EXCEPT ![j].pc = "validate", ![j].committed = TRUE]
  /\ UNCHANGED <<kind, running, late, wlock, dlock, outcome>>

AfterWrite(j) == IF request[j].initially THEN "restart" ELSE "complete"

OfflineValidates(j) ==
  /\ Stands(j, "offline", "validate")
  /\ request' = [request EXCEPT ![j].good = data.valid,
                                ![j].pc = IF data.valid THEN AfterWrite(j) ELSE "recover"]
  /\ UNCHANGED <<kind, running, late, data, writes, wlock, dlock, outcome>>

\* A faulty recovery that goes on although the restored database is not valid.
FaultyOfflineRecovers(j) ==
  /\ Stands(j, "offline", "recover")
  /\ data' \in {data, request[j].saved}
  /\ GoOn(j, AfterWrite(j))
  /\ UNCHANGED <<kind, running, late, writes, wlock, dlock, outcome>>

\* recover_pre_edit, and the validation of what it put back.
OfflineRecovers(j) ==
  /\ Stands(j, "offline", "recover")
  /\ request[j].saved.valid
  /\ data' = request[j].saved
  /\ GoOn(j, AfterWrite(j))
  /\ UNCHANGED <<kind, running, late, writes, wlock, dlock, outcome>>

OfflineRestarts(j) ==
  /\ Stands(j, "offline", "restart")
  /\ Obeys("start")
  /\ GoOn(j, "ready")
  /\ UNCHANGED <<kind, data, writes, wlock, dlock, outcome>>

\* Ready, or a timeout, which is reported and fails nothing.
OfflineReady(j) ==
  /\ Stands(j, "offline", "ready")
  /\ GoOn(j, "complete")
  /\ UNCHANGED <<kind, running, late, data, writes, wlock, dlock, outcome>>

\* A faulty completion that does not look at what became of the change.
FaultyOfflineCompletes(j) ==
  /\ Stands(j, "offline", "complete")
  /\ Settle(j, "completed")
  /\ Leave(j)
  /\ UNCHANGED <<kind, running, late, data, writes>>

OfflineCompletes(j) ==
  /\ Stands(j, "offline", "complete")
  /\ Settle(j, IF request[j].good THEN "completed" ELSE "failed")
  /\ Leave(j)
  /\ UNCHANGED <<kind, running, late, data, writes>>

\* Whatever raises: a lock that is taken, the backup, a stage that cannot be
\* committed, an order that is refused or times out, a stop that cannot be
\* confirmed, a token that is stale, a recovery that fails.  The with block is
\* left, and its locks with it, before the handler runs.
OfflineRaises(j) ==
  /\ request[j].op = "offline"
  /\ request[j].pc \in OfflineSteps \cup {"lock"}
  /\ IF request[j].pc \in {"stop", "restart"}
       THEN Unheard(IF request[j].pc = "stop" THEN "stop" ELSE "start")
       ELSE UNCHANGED <<running, late>>
  /\ \/ UNCHANGED data
     \/ request[j].pc = "recover" /\ data' = request[j].saved
  /\ GoOn(j, "failed")
  /\ Release(j)
  /\ UNCHANGED <<kind, writes, outcome>>

\* The handler starts the bot again if the workflow stopped it and had not
\* committed; it holds no lock any more.
OfflineGivesUp(j) ==
  /\ Stands(j, "offline", "failed")
  /\ IF request[j].stopped /\ ~request[j].committed
       THEN Obeys("start") \/ Unheard("start")
       ELSE UNCHANGED <<running, late>>
  /\ Settle(j, "failed")
  /\ Leave(j)
  /\ UNCHANGED <<kind, data, writes>>

-------------------------------------------------------------------------------
\* mutate and save_json: a live row or a file, under the data lock alone.
OpenEdit(j) ==
  /\ request[j].pc = "idle"
  /\ kind \in {"row", "file"}
  /\ OpenWith(j, kind, "lock", data.write)
  /\ Settle(j, "none")
  /\ UNCHANGED <<kind, running, late, data, writes, wlock, dlock>>

\* The lock is tried and the token checked; the backup comes after it.
EditLocks(j) ==
  /\ request[j].op \in {"row", "file"} /\ request[j].pc = "lock"
  /\ dlock = NoJob
  /\ data.write = request[j].token
  /\ dlock' = j
  /\ GoOn(j, "copy")
  /\ UNCHANGED <<kind, running, late, data, writes, wlock, outcome>>

EditBacksUp(j) ==
  /\ request[j].pc = "copy"
  /\ Settle(j, "running")
  /\ GoOn(j, "put")
  /\ UNCHANGED <<kind, running, late, data, writes, wlock, dlock>>

\* _transaction checks the token of a row again and commits before anything is
\* validated; _atomic_write validates the temporary file, then replaces the file
\* whatever it has become.
LiveEditWrites(j) ==
  /\ request[j].pc = "put"
  /\ request[j].op = "row" => data.write = request[j].token
  /\ Put(j, IF request[j].op = "row" THEN BOOLEAN ELSE {TRUE})
  /\ GoOn(j, "judge")
  /\ UNCHANGED <<kind, running, late, wlock, dlock, outcome>>

\* _post_write_validate of a database; the file must still hold what was written.
EditAccepted(j) ==
  /\ request[j].pc = "judge"
  /\ IF request[j].op = "row" THEN data.valid ELSE data.by = j
  /\ Settle(j, "completed")
  /\ Leave(j)
  /\ UNCHANGED <<kind, running, late, data, writes>>

\* A lock that is taken, a stale token or a backup that fails leave no
\* operation; what fails later leaves a failed one, and what was written.
LiveEditFails(j) ==
  /\ request[j].op \in {"row", "file"}
  /\ IF request[j].pc \in {"put", "judge"} THEN Settle(j, "failed")
                                          ELSE UNCHANGED outcome
  /\ Leave(j)
  /\ UNCHANGED <<kind, running, late, data, writes>>

-------------------------------------------------------------------------------
\* restore_backup: the safety backup, then the bot is stopped if it has to be,
\* without the workflow lock.
OpenRestore(j) ==
  /\ request[j].pc = "idle"
  /\ OpenWith(j, "restore", "policy", 0)
  /\ Settle(j, "none")
  /\ UNCHANGED <<kind, running, late, data, writes, wlock, dlock>>

\* A bot whose restore policy does not require a stop is not looked at.
RestoreLooks(j) ==
  /\ request[j].pc = "policy"
  /\ \E stop \in Seen : GoOn(j, IF stop THEN "halt" ELSE "take")
  /\ UNCHANGED <<kind, running, late, data, writes, wlock, dlock, outcome>>

\* An answer is all it waits for: stopped is set, offline is not confirmed.
RestoreStops(j) ==
  /\ request[j].pc = "halt"
  /\ Obeys("stop")
  /\ request' = [request EXCEPT ![j].pc = "take", ![j].stopped = TRUE]
  /\ UNCHANGED <<kind, data, writes, wlock, dlock, outcome>>

RestoreLocks(j) ==
  /\ request[j].pc = "take"
  /\ dlock = NoJob
  /\ dlock' = j
  /\ GoOn(j, "swap")
  /\ UNCHANGED <<kind, running, late, data, writes, wlock, outcome>>

\* BackupService.restore: the archive, here the one of the first contents.
RestoreSwaps(j) ==
  /\ request[j].pc = "swap"
  /\ data' = Origin
  /\ dlock' = NoJob
  /\ Settle(j, "completed")
  /\ IF request[j].stopped THEN GoOn(j, "revive")
                           ELSE request' = [request EXCEPT ![j] = NoRequest]
  /\ UNCHANGED <<kind, running, late, writes, wlock>>

RestoreRevives(j) ==
  /\ request[j].pc = "revive"
  /\ Obeys("start")
  /\ Leave(j)
  /\ UNCHANGED <<kind, data, writes, outcome>>

\* The safety backup, the stop, the data lock, the restore or the start fails.
\* A failed restore has put the data back, or has lost it.
RestoreFails(j) ==
  /\ request[j].pc \in {"policy", "halt", "take", "swap", "revive"}
  /\ IF request[j].pc \in {"halt", "revive"}
       THEN Unheard(IF request[j].pc = "halt" THEN "stop" ELSE "start")
       ELSE UNCHANGED <<running, late>>
  /\ IF request[j].pc = "swap"
       THEN /\ UNCHANGED <<data, writes>> \/ Put(j, {FALSE})
            /\ Settle(j, "failed")
       ELSE UNCHANGED <<data, writes, outcome>>
  /\ GoOn(j, "amend")
  /\ Release(j)
  /\ UNCHANGED kind

\* The bot it stopped is started again, whatever became of the data.
RestoreAmends(j) ==
  /\ request[j].pc = "amend"
  /\ IF request[j].stopped THEN Obeys("start") \/ Unheard("start")
                           ELSE UNCHANGED <<running, late>>
  /\ Leave(j)
  /\ UNCHANGED <<kind, data, writes, outcome>>

-------------------------------------------------------------------------------
\* The supervisor carries out what it was still asked to do.
LateOrder ==
  /\ late # "none"
  /\ \/ late = "start"   /\ ~running /\ running' = TRUE
     \/ late = "restart" /\ running /\ running' = TRUE
     \/ late = "stop"    /\ running' = FALSE
     \/ late # "stop"    /\ UNCHANGED running
  /\ late' = "none"
  /\ UNCHANGED <<kind, data, writes, wlock, dlock, request, outcome>>

BotDies ==
  /\ running
  /\ running' = FALSE
  /\ UNCHANGED <<kind, late, data, writes, wlock, dlock, request, outcome>>

\* The bot writes to its data, and leaves it as valid as it was.
BotChangesData ==
  /\ running
  /\ Put(NoJob, {data.valid})
  /\ UNCHANGED <<kind, running, late, wlock, dlock, request, outcome>>

\* The dashboard's process is lost, and both locks with it; the supervisor and
\* the bot go on, and the operation rows stay as they are.
DashboardCrash ==
  /\ \E j \in Jobs : request[j].pc # "idle"
  /\ request' = [j \in Jobs |-> NoRequest]
  /\ wlock' = NoJob
  /\ dlock' = NoJob
  /\ UNCHANGED <<kind, running, late, data, writes, outcome>>

Process(j) ==
  \/ \E order \in Orders : AskAction(j, order)
  \/ OpenAction(j) \/ ActionLeaks(j) \/ OrderObeyed(j) \/ OrderFails(j)
  \/ ActionDone(j)

Offline(j) ==
  \/ OpenOffline(j) \/ OfflineLocks(j) \/ OfflineBacksUp(j) \/ OfflineLooks(j)
  \/ OfflineStops(j) \/ OfflineConfirms(j) \/ OfflineWrites(j)
  \/ OfflineValidates(j) \/ OfflineRecovers(j) \/ OfflineRestarts(j)
  \/ OfflineReady(j) \/ OfflineCompletes(j) \/ OfflineRaises(j)
  \/ OfflineGivesUp(j)

Edit(j) ==
  \/ OpenEdit(j) \/ EditLocks(j) \/ EditBacksUp(j) \/ LiveEditWrites(j)
  \/ EditAccepted(j) \/ LiveEditFails(j)

Restore(j) ==
  \/ OpenRestore(j) \/ RestoreLooks(j) \/ RestoreStops(j) \/ RestoreLocks(j)
  \/ RestoreSwaps(j) \/ RestoreRevives(j) \/ RestoreFails(j)
  \/ RestoreAmends(j)

WorkflowNext ==
  \/ \E j \in Jobs : Process(j) \/ Offline(j) \/ Edit(j) \/ Restore(j)
  \/ LateOrder \/ BotDies \/ BotChangesData \/ DashboardCrash

WorkflowSpec == WorkflowInit /\ [][WorkflowNext]_workflowVars

-------------------------------------------------------------------------------
\* Type invariant.
WorkflowTypeOK ==
  /\ kind \in {"row", "offline", "file"}
  /\ running \in BOOLEAN
  /\ late \in Orders \cup {"none"}
  /\ data \in DataState
  /\ writes \in 0 .. MaxWrites
  /\ wlock \in Jobs \cup {NoJob, Leaked}
  /\ dlock \in Jobs \cup {NoJob}
  /\ request \in [Jobs -> WorkflowRequest]
  /\ outcome \in [Jobs -> {"none", "running", "completed", "failed"}]

\* The steps at which a request holds the workflow lock and the data lock.
NeedsWorkflow(j) ==
  \/ request[j].pc \in {"asked", "order"}
  \/ request[j].op = "offline" /\ request[j].pc \in OfflineSteps

NeedsData(j) ==
  \/ request[j].pc \in {"copy", "put", "judge", "swap"}
  \/ request[j].op = "offline" /\ request[j].pc \in OfflineSteps

\* Each lock is held by exactly the request that needs it, or has leaked.
WorkflowLockInv ==
  \A j \in Jobs : /\ wlock = j <=> NeedsWorkflow(j)
                  /\ dlock = j <=> NeedsData(j)

\* A request is at a step of its own kind, and edits only what it may.
StepInv ==
  \A j \in Jobs :
    /\ request[j].op = "none" <=> request[j].pc = "idle"
    /\ request[j].op \in Orders <=> request[j].pc \in {"asked", "order", "done"}
    /\ request[j].op \in {"row", "file", "offline"} => request[j].op = kind
    /\ request[j].op = "offline" => request[j].pc \in OfflineSteps \cup {"lock", "failed"}
    /\ request[j].op \in {"row", "file"} =>
         request[j].pc \in {"lock", "copy", "put", "judge"}
    /\ request[j].op = "restore" =>
         request[j].pc \in {"policy", "halt", "take", "swap", "revive", "amend"}

\* After its commit the offline edit looks at its own write or at one of the bot;
\* on the way to the restart the data is valid, and good says whether its change
\* is in it.
ChangeInv ==
  \A j \in Jobs : request[j].op = "offline" =>
    /\ request[j].pc \in {"validate", "recover"} =>
         /\ data.by \in {j, NoJob}
         /\ data.write > request[j].token
    /\ request[j].pc = "validate" => ~request[j].good
    /\ request[j].pc = "recover" => ~request[j].good /\ ~data.valid
    /\ request[j].pc \in {"restart", "ready", "complete"} =>
         /\ data.valid
         /\ request[j].good => data.by \in {j, NoJob} /\ data.write > request[j].token
    /\ request[j].pc \in {"lock", "backup", "look", "stop", "confirm", "write"} =>
         ~request[j].good

\* What a live edit is about to change is what its user saw, or the bot's; then it
\* looks at its own write, or at one of the bot.
LiveInv ==
  \A j \in Jobs :
    /\ request[j].pc \in {"copy", "put"} =>
         data.write = request[j].token \/ data.by = NoJob
    /\ request[j].pc = "judge" => data.by \in {j, NoJob} /\ data.write > request[j].token

\* The writes so far number the data, and no request has seen or saved a later one.
NumberInv ==
  /\ data.write <= writes
  /\ \A j \in Jobs : request[j].token <= writes /\ request[j].saved.write <= writes

\* The inductive invariant: every lock is where the control flow says, and what
\* stands under the data lock is what its holder put there.
WorkflowIInv ==
  WorkflowTypeOK /\ WorkflowLockInv /\ StepInv /\ ChangeInv /\ LiveInv /\ NumberInv

\* An edit changes what its user saw, however long the backup, the stop and the
\* other requests took, and a recovery takes back no one else's change.  Only a
\* file that the bot itself writes after the check is overwritten: the hash is
\* compared once, before the backup (data.py 133-141).
NoLostUpdate ==
  [][\A j \in Jobs : data' # data =>
       /\ request[j].pc \in {"put", "write"} /\ request'[j].pc \in {"judge", "validate"} =>
            \/ data.write = request[j].token
            \/ kind = "file" /\ data.by = NoJob
       /\ Stands(j, "offline", "recover") /\ request'[j].pc # "recover" =>
            data.by \in {j, NoJob}]_workflowVars

\* An offline edit starts the bot again only over data that passed validation:
\* the change, or the backup it was taken back to (sqlite_data.py 298-318).
RestartsOnlyValid ==
  [][\A j \in Jobs :
       Stands(j, "offline", "restart") /\ request'[j].pc = "ready" => data.valid]_workflowVars

\* An operation that is reported completed was: the change of its request, or
\* one of the bot on top of it, is in the data and the data is valid.
OperationTruthful ==
  [][\A j \in Jobs :
       /\ outcome[j] # "completed" /\ outcome'[j] = "completed"
       /\ request[j].op \in {"offline", "row", "file"}
       =>
           /\ request[j].op = "file" \/ data.valid
           /\ data.by \in {j, NoJob}
           /\ data.write > request[j].token]_workflowVars

\* README 369: "A write starts only after the current instance is confirmed
\* OFFLINE".
WriteOffline ==
  [][\A j \in Jobs :
       Stands(j, "offline", "write") /\ request'[j].pc = "validate" => ~running]_workflowVars
===============================================================================

------------------------------- MODULE Backups -------------------------------
(***************************************************************************)
(* The backups of one bot and what puts them back: the rows and archives   *)
(* that create, verify, pin and retention_cleanup of BackupService work    *)
(* on, the restore of an archive over the bot's data directory, and the    *)
(* recovery of an edit, cut at every rename, removal and commit.  Requests *)
(* of the dashboard (Jobs) interleave; only restore and edits take the     *)
(* bot's data lock; each file operation can fail; the dashboard can die.   *)
(*                                                                         *)
(* What a directory or an archive holds is the number of the write that    *)
(* produced it, Mixed when a copy straddled a write, Damaged when a        *)
(* removal stopped halfway.                                                *)
(***************************************************************************)
EXTENDS BotDataParameters, FiniteSets

VARIABLES
  live,       \* what the bot's data root holds
  aside,      \* what the rollback directory beside it holds
  version,    \* writes so far
  rows,       \* the backups table, each row with its archive
  last,       \* rows ever inserted
  lock,       \* holder of the bot's data lock
  job,        \* where each request is
  operation,  \* status of the operation row of each job's last restore
  archived    \* history: contents of every archive that was ever verified

vars == <<live, aside, version, rows, last, lock, job, operation, archived>>

Contents == 0 .. MaxVersion \cup {Mixed, Damaged}
RowIds   == 1 .. MaxRows

Row == [kind      : {"manual", "pre_restore", "pre_edit"},
        status    : {"none", "pending", "verified", "failed"},
        pinned    : BOOLEAN,
        protected : BOOLEAN,
        archive   : Contents \cup {Absent}]

NoRow == [kind |-> "manual", status |-> "none", pinned |-> FALSE,
          protected |-> FALSE, archive |-> Absent]

\* What each request makes a backup for.
Kind == [create |-> "manual", restore |-> "pre_restore", edit |-> "pre_edit"]

\* The steps in which the bot's data directory is, or may be, replaced.
Replacing == {"in", "validate", "remove", "commit", "undo", "return"}

Steps == Replacing \cup
  {"idle", "copy", "retain", "clean", "check", "write", "judge", "prepare",
   "aside", "report"}

\* A request: its step, what it is, the row it restores from, the row it made,
\* what it read first, what it extracted, what its retention loaded, and
\* whether the old data is, or is back, in place.
Job == [pc     : Steps,
        op     : {"none", "create", "restore", "edit"},
        target : 0 .. MaxRows,
        own    : 0 .. MaxRows,
        first  : Contents \cup {Absent},
        staged : Contents \cup {Absent},
        doomed : SUBSET RowIds,
        whole  : BOOLEAN]

Idle == [pc |-> "idle", op |-> "none", target |-> 0, own |-> 0,
         first |-> Absent, staged |-> Absent, doomed |-> {}, whole |-> TRUE]

Init ==
  /\ live = 0
  /\ aside = Absent
  /\ version = 0
  /\ rows = [r \in RowIds |-> NoRow]
  /\ last = 0
  /\ lock = NoJob
  /\ job = [j \in Jobs |-> Idle]
  /\ operation = [j \in Jobs |-> "none"]
  /\ archived = {}

-------------------------------------------------------------------------------
At(j, step)   == job[j].pc = step
Goto(j, step) == job' = [job EXCEPT ![j].pc = step]

\* The request answers, or raises; a lock it holds is given back.
End(j) ==
  /\ job' = [job EXCEPT ![j] = Idle]
  /\ lock' = IF lock = j THEN NoJob ELSE lock

\* Committed rows: what other sessions see.
Visible == {r \in RowIds : rows[r].status \in {"verified", "failed"}}

\* source_root, and with it store_root and backup_dir, raises without a directory.
Rooted == live # Absent

\* _verify_paths: the archive is there, and its members match its manifest.
Intact(r) == Rooted /\ rows[r].archive # Absent

\* The manual backups, and those that are newer than a row.
Manual   == {r \in Visible : rows[r].kind = "manual"}
Newer(r) == {s \in Manual : s > r}

\* A faulty retention that cleans backups of every kind up.
FaultyDoomed ==
  {r \in Visible :
     /\ Cardinality({s \in Visible : s > r}) >= Limit
     /\ ~rows[r].pinned}

\* A faulty retention that counts the row itself among the newest.
FaultyDoomedOneMore ==
  {r \in Manual :
     /\ Cardinality({s \in Manual : s >= r}) >= Limit
     /\ ~rows[r].pinned /\ ~rows[r].protected}

\* retention_cleanup: manual rows, failed ones included, after the newest
\* Limit, that nothing spares.
Doomed ==
  {r \in Manual :
     /\ Cardinality(Newer(r)) >= Limit
     /\ ~rows[r].pinned /\ ~rows[r].protected}

\* create: its row, not committed yet, and the first files read.  Without a
\* data directory source_root raises, whatever the request.
Begin(j, op, target) ==
  /\ At(j, "idle")
  /\ Rooted
  /\ last < MaxRows
  /\ last' = last + 1
  /\ rows' = [rows EXCEPT ![last + 1] =
       [NoRow EXCEPT !.kind = Kind[op], !.status = "pending",
                     !.protected = op # "create"]]
  /\ job' = [job EXCEPT ![j] =
       [Idle EXCEPT !.pc = "copy", !.op = op, !.own = last + 1, !.first = live,
                    !.target = IF op = "edit" THEN last + 1 ELSE target]]
  /\ UNCHANGED <<live, aside, version, operation, archived>>

RequestBackup(j) == Begin(j, "create", 0) /\ UNCHANGED lock

\* The route makes the safety backup before restore takes the data lock; the
\* row to restore is as the session loads it here (0: not verified).
RequestRestore(j) ==
  /\ \E r \in Visible :
       Begin(j, "restore", IF rows[r].status = "verified" THEN r ELSE 0)
  /\ UNCHANGED lock

\* An edit makes its backup under the data lock.
RequestEdit(j) ==
  /\ lock = NoJob
  /\ lock' = j
  /\ Begin(j, "edit", 0)

\* The archive is written, verified and renamed into place, and committed with
\* its row.  Nothing stops the data from changing while its files are read.
FinishCopy(j) ==
  /\ At(j, "copy")
  /\ Rooted
  /\ LET copy == IF live = job[j].first THEN live ELSE Mixed IN
     /\ rows' = [rows EXCEPT ![job[j].own].status = "verified",
                             ![job[j].own].archive = copy]
     /\ archived' = archived \cup {copy}
  /\ Goto(j, "retain")
  /\ UNCHANGED <<live, aside, version, last, lock, operation>>

\* Too large, no space, unreadable, changed under the copy, or not verified:
\* the row stays, without an archive.
FailCopy(j) ==
  /\ At(j, "copy")
  /\ rows' = [rows EXCEPT ![job[j].own].status = "failed"]
  /\ End(j)
  /\ UNCHANGED <<live, aside, version, last, operation, archived>>

\* What the request does once its backup and the cleanup are done.
AfterBackup(j) ==
  IF job[j].op = "create"
    THEN End(j)
    ELSE /\ job' = [job EXCEPT ![j].doomed = {},
              ![j].pc = IF job[j].op = "restore" THEN "check" ELSE "write"]
         /\ UNCHANGED lock

\* retention_cleanup loads the rows it will remove ...
Retain(j) ==
  /\ At(j, "retain")
  /\ IF Doomed = {}
       THEN AfterBackup(j)
       ELSE /\ job' = [job EXCEPT ![j].pc = "clean", ![j].doomed = Doomed]
            /\ UNCHANGED lock
  /\ UNCHANGED <<live, aside, version, rows, last, operation, archived>>

\* ... removes their archives, newest first, and deletes their rows.  The first
\* archive that is missing or cannot be removed stops it: create ignores the
\* error, and the rows of those already removed are deleted only if the session
\* commits again, which that of a plain create does not.
Clean(j) ==
  /\ At(j, "clean")
  /\ \E stop \in job[j].doomed \cup {0} :
       LET removed == {r \in job[j].doomed : r > stop} IN
       /\ \A r \in removed : Intact(r)
       /\ rows' = [r \in RowIds |->
            IF r \notin removed THEN rows[r]
            ELSE IF stop = 0 \/ job[j].op # "create" THEN NoRow
            ELSE [rows[r] EXCEPT !.archive = Absent]]
  /\ AfterBackup(j)
  /\ UNCHANGED <<live, aside, version, last, operation, archived>>

\* pin, by the owner, committed at once.  Only a manual backup is modelled:
\* nothing but retention reads the pin.
Pin(r) ==
  /\ r \in Visible
  /\ rows[r].kind = "manual"
  /\ rows' = [rows EXCEPT ![r].pinned = ~rows[r].pinned]
  /\ UNCHANGED <<live, aside, version, last, lock, job, operation, archived>>

-------------------------------------------------------------------------------
\* restore verifies the archive again and takes the data lock without waiting;
\* otherwise it is refused, and an archive that is not verified any more is
\* recorded as failed.
Accept(j) ==
  /\ At(j, "check")
  /\ lock = NoJob
  /\ job[j].target # 0
  /\ Intact(job[j].target)
  /\ lock' = j
  /\ operation' = [operation EXCEPT ![j] = "running"]
  /\ Goto(j, "prepare")
  /\ UNCHANGED <<live, aside, version, rows, last, archived>>

Refuse(j) ==
  /\ At(j, "check")
  /\ \/ UNCHANGED rows
     \/ /\ job[j].target # 0
        /\ rows[job[j].target].status = "verified"
        /\ rows' = [rows EXCEPT ![job[j].target].status = "failed"]
  /\ End(j)
  /\ UNCHANGED <<live, aside, version, last, operation, archived>>

\* Not enough space, or no staging directory: raised before the try, so that
\* the operation stays "running".
PrepareRaises(j) ==
  /\ At(j, "prepare")
  /\ job[j].op = "restore"
  /\ End(j)
  /\ UNCHANGED <<live, aside, version, rows, last, operation, archived>>

\* A faulty extraction whose members are not checked against the manifest.
FaultyExtract(j) ==
  /\ At(j, "prepare")
  /\ Intact(job[j].target)
  /\ \E c \in {rows[job[j].target].archive, Damaged} :
       job' = [job EXCEPT ![j].pc = "aside", ![j].staged = c]
  /\ UNCHANGED <<live, aside, version, rows, last, lock, operation, archived>>

\* _extract: verified once more, member by member, into the staging directory.
Extract(j) ==
  /\ At(j, "prepare")
  /\ Intact(job[j].target)
  /\ job' = [job EXCEPT ![j].pc = "aside",
                        ![j].staged = rows[job[j].target].archive]
  /\ UNCHANGED <<live, aside, version, rows, last, lock, operation, archived>>

\* The archive is gone or rotten, or the first rename fails: nothing was moved.
NothingMoved(j) ==
  /\ job[j].pc \in {"prepare", "aside"}
  /\ Goto(j, "report")
  /\ UNCHANGED <<live, aside, version, rows, last, lock, operation, archived>>

MoveAside(j) ==
  /\ At(j, "aside")
  /\ live # Absent
  /\ aside' = live
  /\ live' = Absent
  /\ job' = [job EXCEPT ![j].pc = "in", ![j].whole = FALSE]
  /\ UNCHANGED <<version, rows, last, lock, operation, archived>>

MoveIn(j) ==
  /\ At(j, "in")
  /\ live' = job[j].staged
  /\ Goto(j, "validate")
  /\ UNCHANGED <<aside, version, rows, last, lock, operation, archived>>

\* The final tree against the manifest, which is read from the archive again.
Validate(j) ==
  /\ At(j, "validate")
  /\ live = job[j].staged
  /\ Intact(job[j].target)
  /\ Goto(j, "remove")
  /\ UNCHANGED <<live, aside, version, rows, last, lock, operation, archived>>

RemoveAside(j) ==
  /\ At(j, "remove")
  /\ aside' = Absent
  /\ Goto(j, "commit")
  /\ UNCHANGED <<live, version, rows, last, lock, operation, archived>>

\* Any step after the first rename can fail: the second rename, the validation,
\* the removal, which may have begun, the commit.
Fails(j) ==
  /\ job[j].pc \in {"in", "validate", "remove", "commit"}
  /\ aside' \in IF At(j, "remove") THEN {aside, Damaged} ELSE {aside}
  /\ Goto(j, "undo")
  /\ UNCHANGED <<live, version, rows, last, lock, operation, archived>>

Commit(j) ==
  /\ At(j, "commit")
  /\ IF job[j].op = "restore"
       THEN /\ operation' = [operation EXCEPT ![j] = "completed"]
            /\ rows' = [rows EXCEPT ![job[j].own].protected = FALSE]
       ELSE UNCHANGED <<operation, rows>>
  /\ End(j)
  /\ UNCHANGED <<live, aside, version, last, archived>>

\* The handler moves what is in place out of the way ...
Undo(j) ==
  /\ At(j, "undo")
  /\ live' = Absent
  /\ Goto(j, "return")
  /\ UNCHANGED <<aside, version, rows, last, lock, operation, archived>>

\* ... and what was aside back, if it is still there.
PutBack(j) ==
  /\ At(j, "return")
  /\ aside # Absent
  /\ live' = aside
  /\ aside' = Absent
  /\ job' = [job EXCEPT ![j].pc = "report", ![j].whole = TRUE]
  /\ UNCHANGED <<version, rows, last, lock, operation, archived>>

UndoFails(j) ==
  /\ job[j].pc \in {"undo", "return"}
  /\ Goto(j, "report")
  /\ UNCHANGED <<live, aside, version, rows, last, lock, operation, archived>>

\* The failure is recorded with whether the rollback succeeded, which is what
\* the safety backup's protection depends on; recover_pre_edit just raises.
\* A commit that fails here leaves the operation "running".
Report(j) ==
  /\ At(j, "report")
  /\ \/ UNCHANGED <<operation, rows>>
     \/ /\ job[j].op = "restore"
        /\ operation' = [operation EXCEPT ![j] = "failed"]
        /\ rows' = [rows EXCEPT ![job[j].own].protected = ~job[j].whole]
  /\ aside' = IF live = Absent THEN aside ELSE Absent
  /\ End(j)
  /\ UNCHANGED <<live, version, last, archived>>

-------------------------------------------------------------------------------
\* An edit: its write, its validation, its recovery from its own backup.
EditWrites(j) ==
  /\ At(j, "write")
  /\ live # Absent
  /\ version < MaxVersion
  /\ version' = version + 1
  /\ live' = version + 1
  /\ Goto(j, "judge")
  /\ UNCHANGED <<aside, rows, last, lock, operation, archived>>

EditFails(j) ==
  /\ At(j, "write")
  /\ End(j)
  /\ UNCHANGED <<live, aside, version, rows, last, operation, archived>>

EditStands(j) ==
  /\ At(j, "judge")
  /\ rows' = [rows EXCEPT ![job[j].own].protected = FALSE]
  /\ End(j)
  /\ UNCHANGED <<live, aside, version, last, operation, archived>>

\* recover_pre_edit, which verifies the archive first and raises without it.
EditRecovers(j) ==
  /\ At(j, "judge")
  /\ Goto(j, "prepare")
  /\ UNCHANGED <<live, aside, version, rows, last, lock, operation, archived>>

\* The bot changes its own data, if there is any.
BotWrites ==
  /\ live # Absent
  /\ version < MaxVersion
  /\ version' = version + 1
  /\ live' = version + 1
  /\ UNCHANGED <<aside, rows, last, lock, job, operation, archived>>

\* The dashboard dies: locks and uncommitted rows vanish, files stay.  A
\* rollback directory beside a data directory is never looked at again.
Crash ==
  /\ \E j \in Jobs : ~At(j, "idle")
  /\ job' = [j \in Jobs |-> Idle]
  /\ lock' = NoJob
  /\ rows' = [r \in RowIds |-> IF rows[r].status = "pending" THEN NoRow ELSE rows[r]]
  /\ aside' = IF live = Absent THEN aside ELSE Absent
  /\ UNCHANGED <<live, version, last, operation, archived>>

JobStep(j) ==
  \/ FinishCopy(j) \/ FailCopy(j) \/ Retain(j) \/ Clean(j)
  \/ Accept(j) \/ Refuse(j) \/ PrepareRaises(j) \/ Extract(j) \/ NothingMoved(j)
  \/ MoveAside(j) \/ MoveIn(j) \/ Validate(j) \/ RemoveAside(j) \/ Fails(j)
  \/ Commit(j) \/ Undo(j) \/ PutBack(j) \/ UndoFails(j) \/ Report(j)
  \/ EditWrites(j) \/ EditFails(j) \/ EditStands(j) \/ EditRecovers(j)

Request(j) == RequestBackup(j) \/ RequestRestore(j) \/ RequestEdit(j)

Next ==
  \/ \E j \in Jobs : Request(j) \/ JobStep(j)
  \/ \E r \in RowIds : Pin(r)
  \/ BotWrites
  \/ Crash

Spec == Init /\ [][Next]_vars
-------------------------------------------------------------------------------
\* Every variable keeps its type.
TypeOK ==
  /\ live \in Contents \cup {Absent}
  /\ aside \in Contents \cup {Absent}
  /\ version \in 0 .. MaxVersion
  /\ rows \in [RowIds -> Row]
  /\ last \in 0 .. MaxRows
  /\ lock \in Jobs \cup {NoJob}
  /\ job \in [Jobs -> Job]
  /\ operation \in [Jobs -> {"none", "running", "completed", "failed"}]
  /\ archived \subseteq Contents

\* Whenever the data directory is missing, in the middle of a restore, after a
\* failed rollback or after the dashboard died between two renames, a protected
\* safety backup with its archive exists, whatever retention ran meanwhile.
AbsenceIsRecoverable ==
  live = Absent =>
    \E r \in RowIds : /\ rows[r].kind # "manual"
                      /\ rows[r].protected
                      /\ rows[r].archive # Absent

\* Retention preserves the newest Limit manual backups, counting rows: however
\* old the set of rows that a cleanup loaded, and whatever other cleanups removed
\* in between, that many newer ones exist when an archive is removed.
PreservesNewest ==
  [][\A r \in RowIds :
       /\ rows[r].kind = "manual"
       /\ rows[r].archive # Absent
       /\ rows'[r].archive = Absent
       => Cardinality(Newer(r)) >= Limit]_vars

\* A pinned backup keeps its archive (README: cleanup "always skips pinned or
\* protected snapshots").  It does not: the pin may come after the rows are loaded.
PinnedStays ==
  [][\A r \in RowIds :
       rows[r].pinned /\ rows[r].archive # Absent => rows'[r].archive # Absent]_vars

\* The data is replaced as a whole, by the contents of a verified archive, or put
\* back as it was; it can be lost, or left without a way back, only after the
\* replacement was validated.
Data  == IF live # Absent THEN live ELSE aside
Kept  == IF live # Absent THEN aside ELSE Absent
Phase == IF live = Absent THEN "whole"
         ELSE IF aside # Absent THEN "replaced"
         ELSE IF lock # NoJob /\ job[lock].pc \in {"commit", "undo"} THEN "settled"
         ELSE "whole"

Replaced == INSTANCE AtomicReplace WITH data <- Data, kept <- Kept, phase <- Phase

ImplementsReplace == Replaced!Spec

-------------------------------------------------------------------------------
\* The inductive invariant, by what it is about.  The lock: an edit has it from
\* the start, a restore from its acceptance on.
LockInv ==
  \A j \in Jobs :
    /\ lock = j <=> \/ job[j].op = "edit"
                    \/ job[j].pc \in Replacing \cup {"prepare", "aside", "report"}
    /\ job[j].pc = "idle" <=> job[j].op = "none"
    /\ job[j].pc \in {"write", "judge"} => job[j].op = "edit"
    /\ job[j].pc = "check" => job[j].op = "restore"
    /\ job[j].pc \in Replacing \cup {"prepare", "aside", "report"} =>
         job[j].op \in {"restore", "edit"}

\* Rows: what was not begun is not there, and every archive was verified.
RowInv ==
  /\ \A r \in RowIds : r > last => rows[r] = NoRow
  /\ \A r \in RowIds : rows[r].archive # Absent =>
       /\ rows[r].archive \in archived
       /\ rows[r].status \in {"verified", "failed"}

\* A request's own row is nobody else's; retention works on manual rows only,
\* and the safety backup of a restore or an edit keeps its archive.
OwnInv ==
  \A j \in Jobs :
    /\ IF job[j].pc = "idle" THEN job[j].own = 0 ELSE job[j].own \in 1 .. last
    /\ job[j].op = "edit" \/ job[j].pc = "prepare" => job[j].target # 0
    /\ \A i \in Jobs : job[i].own = job[j].own /\ i # j => job[j].own = 0
    /\ \A r \in job[j].doomed :
         r <= last /\ rows[r].kind = "manual" /\ rows[r].status # "pending"
    /\ job[j].pc \notin {"idle", "copy"} /\ job[j].op # "create" =>
         /\ rows[job[j].own].kind # "manual"
         /\ rows[job[j].own].protected
         /\ rows[job[j].own].archive # Absent
    /\ job[j].pc = "copy" => rows[job[j].own].status = "pending"
    /\ job[j].pc = "copy" /\ job[j].op # "create" =>
         /\ rows[job[j].own].kind # "manual"
         /\ rows[job[j].own].protected
    /\ job[j].op = "create" => job[j].whole

\* The two directories at each step of a replacement.
PlaceInv ==
  /\ \A j \in Jobs :
       /\ job[j].pc \in {"aside", "in"} => job[j].staged \in archived
       /\ job[j].pc = "in" => live = Absent /\ aside # Absent
       /\ job[j].pc \in {"validate", "remove"} => live # Absent /\ aside # Absent
       /\ job[j].pc = "commit" => live # Absent /\ aside = Absent
       /\ job[j].pc = "return" => live = Absent
       /\ job[j].pc \in Replacing => ~job[j].whole
       /\ ~job[j].whole => job[j].pc \in Replacing \cup {"report"}
  /\ live # Absent /\ aside # Absent =>
       /\ lock # NoJob
       /\ job[lock].pc \in {"validate", "remove", "undo", "report"}

\* While the data directory is missing, some safety backup is not about to lose
\* its protection.
AbsenceInv ==
  live = Absent =>
    \E r \in RowIds :
      /\ rows[r].kind # "manual" /\ rows[r].protected /\ rows[r].archive # Absent
      /\ \A j \in Jobs : job[j].own = r => ~job[j].whole

IInv == TypeOK /\ LockInv /\ RowInv /\ OwnInv /\ PlaceInv /\ AbsenceInv

\* Retention never comes to what is among the newest, since nothing removes a newer
\* row that is itself among the newest.
RetentionInv ==
  \A j \in Jobs : \A r \in job[j].doomed : Cardinality(Newer(r)) >= Limit
===============================================================================

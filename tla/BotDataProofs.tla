---------------------------- MODULE BotDataProofs ----------------------------
(***************************************************************************)
(* Proofs about what changes a bot's data.  Backups, for every set of      *)
(* requests, every retention limit and every number of backups and writes: *)
(* the inductive invariant, that a data directory that is missing can be   *)
(* recovered, that retention keeps the newest, and that a restore          *)
(* implements AtomicReplace.  Workflows, for every set of requests and     *)
(* every number of writes: who holds which lock, what stands under the     *)
(* data lock, and what follows: no update is lost, the bot is started over *)
(* valid data only, and what is reported completed was done.               *)
(***************************************************************************)
EXTENDS Backups, Workflows, FiniteSetTheorems, WellFoundedInduction, TLAPS

\* What a request forgets, and a row that is not there, are well formed.
LEMMA BackupTypes == Idle \in Job /\ NoRow \in Row
  BY BoundAssumption DEF Idle, NoRow, Job, Row, Steps

\* The initial state satisfies the inductive invariant.
LEMMA BackupInitInv == Init => IInv
  <1> SUFFICES ASSUME Init PROVE IInv
    OBVIOUS
  <1>1. TypeOK
    BY BackupTypes, BoundAssumption DEF Init, TypeOK, Contents
  <1>2. LockInv /\ OwnInv
    BY NoJobAssumption DEF Init, LockInv, OwnInv, Idle, Replacing
  <1>3. RowInv /\ PlaceInv
    BY NamesAssumption, BoundAssumption DEF Init, RowInv, PlaceInv, Idle, NoRow, Replacing
  <1>4. AbsenceInv
    BY NamesAssumption, BoundAssumption DEF Init, AbsenceInv
  <1> QED
    BY <1>1, <1>2, <1>3, <1>4 DEF IInv

\* What is in the bot's directory after a write is not its absence.
LEMMA WriteIsContents ==
  ASSUME version \in 0 .. MaxVersion, version < MaxVersion
  PROVE  version + 1 \in 0 .. MaxVersion
  BY BoundAssumption

\* A request ends: it forgets everything, and the others stay.
LEMMA EndEffect ==
  ASSUME TypeOK, NEW j \in Jobs, End(j)
  PROVE  /\ job' \in [Jobs -> Job]
         /\ job'[j] = Idle
         /\ \A k \in Jobs \ {j} : job'[k] = job[k]
         /\ lock' \in Jobs \cup {NoJob}
  BY BackupTypes DEF TypeOK, End

\* Every step has a name that a request can be at.
LEMMA StepNames ==
  /\ "idle" \in Steps /\ "copy" \in Steps /\ "retain" \in Steps /\ "clean" \in Steps
  /\ "check" \in Steps /\ "write" \in Steps /\ "judge" \in Steps /\ "prepare" \in Steps
  /\ "aside" \in Steps /\ "report" \in Steps /\ "in" \in Steps /\ "validate" \in Steps
  /\ "remove" \in Steps /\ "commit" \in Steps /\ "undo" \in Steps /\ "return" \in Steps
  BY DEF Steps, Replacing

\* What the steps write into a request keeps it well formed.
LEMMA JobWritten ==
  ASSUME TypeOK, NEW j \in Jobs, NEW step \in Steps,
         NEW staged \in Contents \cup {Absent}, NEW doomed \in SUBSET RowIds,
         NEW whole \in BOOLEAN
  PROVE  /\ [job EXCEPT ![j].pc = step] \in [Jobs -> Job]
         /\ [job EXCEPT ![j].pc = step, ![j].staged = staged] \in [Jobs -> Job]
         /\ [job EXCEPT ![j].pc = step, ![j].doomed = doomed] \in [Jobs -> Job]
         /\ [job EXCEPT ![j].doomed = doomed, ![j].pc = step] \in [Jobs -> Job]
         /\ [job EXCEPT ![j].pc = step, ![j].whole = whole] \in [Jobs -> Job]
  <1>1. job \in [Jobs -> Job]
    BY DEF TypeOK
  <1>2. [job EXCEPT ![j].pc = step] \in [Jobs -> Job]
    BY <1>1 DEF Job
  <1>3. [job EXCEPT ![j].pc = step, ![j].staged = staged] \in [Jobs -> Job]
    <2>1. [job[j] EXCEPT !.pc = step, !.staged = staged] \in Job
      BY <1>1 DEF Job
    <2>2. [job EXCEPT ![j] = [job[j] EXCEPT !.pc = step, !.staged = staged]] \in [Jobs -> Job]
      BY <1>1, <2>1
    <2>3. [job EXCEPT ![j].pc = step, ![j].staged = staged] = [job EXCEPT ![j] = [job[j] EXCEPT !.pc = step, !.staged = staged]]
      BY <1>1
    <2> QED
      BY <2>2, <2>3
  <1>4. [job EXCEPT ![j].pc = step, ![j].doomed = doomed] \in [Jobs -> Job]
    <2>1. [job[j] EXCEPT !.pc = step, !.doomed = doomed] \in Job
      BY <1>1 DEF Job
    <2>2. [job EXCEPT ![j] = [job[j] EXCEPT !.pc = step, !.doomed = doomed]] \in [Jobs -> Job]
      BY <1>1, <2>1
    <2>3. [job EXCEPT ![j].pc = step, ![j].doomed = doomed] = [job EXCEPT ![j] = [job[j] EXCEPT !.pc = step, !.doomed = doomed]]
      BY <1>1
    <2> QED
      BY <2>2, <2>3
  <1>5. [job EXCEPT ![j].doomed = doomed, ![j].pc = step] \in [Jobs -> Job]
    <2>1. [job[j] EXCEPT !.doomed = doomed, !.pc = step] \in Job
      BY <1>1 DEF Job
    <2>2. [job EXCEPT ![j] = [job[j] EXCEPT !.doomed = doomed, !.pc = step]] \in [Jobs -> Job]
      BY <1>1, <2>1
    <2>3. [job EXCEPT ![j].doomed = doomed, ![j].pc = step] = [job EXCEPT ![j] = [job[j] EXCEPT !.doomed = doomed, !.pc = step]]
      BY <1>1
    <2> QED
      BY <2>2, <2>3
  <1>6. [job EXCEPT ![j].pc = step, ![j].whole = whole] \in [Jobs -> Job]
    <2>1. [job[j] EXCEPT !.pc = step, !.whole = whole] \in Job
      BY <1>1 DEF Job
    <2>2. [job EXCEPT ![j] = [job[j] EXCEPT !.pc = step, !.whole = whole]] \in [Jobs -> Job]
      BY <1>1, <2>1
    <2>3. [job EXCEPT ![j].pc = step, ![j].whole = whole] = [job EXCEPT ![j] = [job[j] EXCEPT !.pc = step, !.whole = whole]]
      BY <1>1
    <2> QED
      BY <2>2, <2>3
  <1> QED
    BY <1>2, <1>3, <1>4, <1>5, <1>6

\* What a request does after its backup keeps its types, and all that the others are.
LEMMA AfterBackupEffect ==
  ASSUME TypeOK, NEW j \in Jobs, AfterBackup(j)
  PROVE  /\ job' \in [Jobs -> Job]
         /\ lock' \in Jobs \cup {NoJob}
         /\ \A k \in Jobs \ {j} : job'[k] = job[k]
         /\ lock # j => lock' = lock
  <1>1. CASE job[j].op = "create"
    BY <1>1, EndEffect DEF AfterBackup, End
  <1>2. CASE job[j].op # "create"
    <2>1. (IF job[j].op = "restore" THEN "check" ELSE "write") \in Steps
      BY StepNames
    <2>2. {} \in SUBSET RowIds
      OBVIOUS
    <2>3. job' = [job EXCEPT ![j].doomed = {},
                             ![j].pc = IF job[j].op = "restore" THEN "check" ELSE "write"]
      BY <1>2 DEF AfterBackup
    <2>4. job' \in [Jobs -> Job]
      BY <2>1, <2>2, <2>3, JobWritten DEF TypeOK, Contents
    <2> QED
      BY <1>2, <2>3, <2>4 DEF AfterBackup, TypeOK
  <1> QED
    BY <1>1, <1>2

\* A row as it is inserted.
LEMMA NewRow ==
  ASSUME NEW sort \in {"manual", "pre_restore", "pre_edit"}, NEW protected \in BOOLEAN
  PROVE  [NoRow EXCEPT !.kind = sort, !.status = "pending", !.protected = protected] \in Row
  BY DEF NoRow, Row

\* A request begins: one new row, its own.
LEMMA BeginEffect ==
  ASSUME IInv, NEW j \in Jobs, NEW op \in {"create", "restore", "edit"},
         NEW target \in 0 .. MaxRows, Begin(j, op, target)
  PROVE  /\ last + 1 \in RowIds /\ last' = last + 1
         /\ rows' \in [RowIds -> Row]
         /\ \A r \in RowIds \ {last + 1} : rows'[r] = rows[r]
         /\ rows'[last + 1].archive = Absent
         /\ job' \in [Jobs -> Job]
  <1>1. last + 1 \in RowIds /\ last + 1 \in 0 .. MaxRows /\ last' = last + 1
    BY BoundAssumption DEF Begin, IInv, TypeOK, RowIds
  <1>2. [NoRow EXCEPT !.kind = Kind[op], !.status = "pending", !.protected = op # "create"] \in Row
    <2>1. Kind[op] \in {"manual", "pre_restore", "pre_edit"}
      BY DEF Kind
    <2>2. (op # "create") \in BOOLEAN
      OBVIOUS
    <2> QED
      BY <2>1, <2>2, NewRow
  <1>3. [NoRow EXCEPT !.kind = Kind[op], !.status = "pending", !.protected = op # "create"].archive
          = Absent
    BY DEF NoRow
  <1>4. rows' = [rows EXCEPT ![last + 1] =
          [NoRow EXCEPT !.kind = Kind[op], !.status = "pending", !.protected = op # "create"]]
    BY DEF Begin
  <1>5. [Idle EXCEPT !.pc = "copy", !.op = op, !.own = last + 1, !.first = live,
                     !.target = IF op = "edit" THEN last + 1 ELSE target] \in Job
    <2> DEFINE to == IF op = "edit" THEN last + 1 ELSE target
    <2>1. to \in 0 .. MaxRows
      BY <1>1
    <2>2. live \in Contents \cup {Absent} /\ "copy" \in Steps
      BY StepNames DEF IInv, TypeOK
    <2> HIDE DEF to
    <2>3. \A r \in Job : [r EXCEPT !.pc = "copy", !.op = op, !.own = last + 1,
                                 !.first = live, !.target = to] \in Job
      BY <1>1, <2>1, <2>2 DEF Job
    <2>4. [Idle EXCEPT !.pc = "copy", !.op = op, !.own = last + 1, !.first = live,
                       !.target = to] \in Job
      BY <2>3, BackupTypes
    <2> QED
      BY <2>4 DEF to
  <1> QED
    BY <1>1, <1>2, <1>3, <1>4, <1>5 DEF Begin, IInv, TypeOK

\* A column of one row changes: the others, and the other rows, stay.
LEMMA StatusWritten ==
  ASSUME TypeOK, NEW r \in RowIds, NEW status \in {"none", "pending", "verified", "failed"},
         rows' = [rows EXCEPT ![r].status = status]
  PROVE  /\ rows' \in [RowIds -> Row]
         /\ \A s \in RowIds : s # r => rows'[s] = rows[s]
         /\ rows'[r].status = status
         /\ \A s \in RowIds : /\ rows'[s].archive = rows[s].archive
                              /\ rows'[s].kind = rows[s].kind
                              /\ rows'[s].protected = rows[s].protected
  BY DEF TypeOK, Row

LEMMA ProtectedWritten ==
  ASSUME TypeOK, NEW r \in RowIds, NEW protected \in BOOLEAN,
         rows' = [rows EXCEPT ![r].protected = protected]
  PROVE  /\ rows' \in [RowIds -> Row]
         /\ \A s \in RowIds : s # r => rows'[s] = rows[s]
         /\ rows'[r].protected = protected
         /\ \A s \in RowIds : /\ rows'[s].archive = rows[s].archive
                              /\ rows'[s].kind = rows[s].kind
                              /\ rows'[s].status = rows[s].status
  BY DEF TypeOK, Row

\* The row that a request has made is in the table.
LEMMA OwnRow ==
  ASSUME IInv, NEW j \in Jobs, job[j].pc # "idle"
  PROVE  job[j].own \in RowIds /\ job[j].own \in 1 .. last
  BY BoundAssumption DEF IInv, TypeOK, OwnInv, RowIds

\* The safety backup of a request that has a replacement under way holds: while
\* the directory is missing, the data can come back from it.
LEMMA SafetyBackup ==
  ASSUME IInv, NEW j \in Jobs, job[j].pc \in Replacing \cup {"aside"}
  PROVE  LET r == job[j].own IN
         /\ r \in RowIds
         /\ rows[r].kind # "manual" /\ rows[r].protected /\ rows[r].archive # Absent
         /\ \A k \in Jobs \ {j} : job[k].own # r
  <1>1. job[j].op # "create" /\ job[j].pc \notin {"idle", "copy"}
    BY DEF IInv, LockInv, Replacing
  <1>2. job[j].own \in 1 .. last
    BY <1>1, OwnRow
  <1>3. \A k \in Jobs \ {j} : job[k].own # job[j].own
    BY <1>2 DEF IInv, TypeOK, OwnInv
  <1> QED
    BY <1>1, <1>3, OwnRow DEF IInv, OwnInv

\* What the invariant says of the rows of one request.
OwnOf(j) ==
  /\ IF job[j].pc = "idle" THEN job[j].own = 0 ELSE job[j].own \in 1 .. last
  /\ job[j].op = "edit" \/ job[j].pc = "prepare" => job[j].target # 0
  /\ \A r \in job[j].doomed :
       r <= last /\ rows[r].kind = "manual" /\ rows[r].status # "pending"
  /\ job[j].pc \notin {"idle", "copy"} /\ job[j].op # "create" =>
       /\ rows[job[j].own].kind # "manual"
       /\ rows[job[j].own].protected
       /\ rows[job[j].own].archive # Absent
  /\ job[j].pc = "copy" => rows[job[j].own].status = "pending"
  /\ job[j].pc = "copy" /\ job[j].op # "create" =>
       /\ rows[job[j].own].kind # "manual"
       /\ rows[job[j].own].protected
  /\ job[j].op = "create" => job[j].whole

\* A request that touches its own row, new ones and manual backups leaves the
\* others theirs.
LEMMA OwnKept ==
  ASSUME IInv, NEW j \in Jobs, OwnOf(j)', last' \in Int, last <= last',
         \A k \in Jobs \ {j} : job'[k] = job[k],
         job'[j].own = 0 \/ job'[j].own = job[j].own \/ job'[j].own > last,
         \A r \in RowIds :
           /\ r # job[j].own /\ r <= last
           /\ rows[r].kind # "manual" \/ rows[r].status = "pending"
           => rows'[r] = rows[r],
         \A r \in RowIds :
           r <= last /\ rows[r].kind = "manual" /\ rows[r].status # "pending" =>
             rows'[r].kind = "manual" /\ rows'[r].status # "pending"
  PROVE  OwnInv'
  <1>1. last \in Nat /\ job \in [Jobs -> Job]
    BY BoundAssumption DEF IInv, TypeOK
  <1>2. \A k \in Jobs : job[k].own \in 0 .. last
    BY <1>1, BoundAssumption DEF IInv, OwnInv
  <1>3. ASSUME NEW k \in Jobs, k # j PROVE OwnOf(k)'
    <2>1. job'[k] = job[k]
      BY <1>3
    <2>2. job[k].pc # "idle" =>
            job[k].own \in RowIds /\ job[k].own <= last /\ job[k].own # job[j].own
      <3>1. job[k].pc # "idle" => job[k].own # job[j].own
        BY <1>1, <1>3, OwnRow DEF IInv, OwnInv
      <3> QED
        BY <1>1, <3>1, OwnRow
    <2>3. IF job[k].pc = "idle" THEN job[k].own = 0 ELSE job[k].own \in 1 .. last'
      BY <1>1 DEF IInv, OwnInv
    <2>4. \A r \in job[k].doomed :
            r <= last' /\ rows'[r].kind = "manual" /\ rows'[r].status # "pending"
      <3>1. \A r \in job[k].doomed : r \in RowIds
        BY <1>1 DEF Job
      <3>2. \A r \in job[k].doomed :
              r <= last /\ rows[r].kind = "manual" /\ rows[r].status # "pending"
        BY DEF IInv, OwnInv
      <3> QED
        BY <1>1, <3>1, <3>2 DEF RowIds
    <2>5. /\ job[k].op = "edit" \/ job[k].pc = "prepare" => job[k].target # 0
          /\ job[k].op = "create" => job[k].whole
      BY DEF IInv, OwnInv
    <2>6. job[k].pc \notin {"idle", "copy"} /\ job[k].op # "create" =>
            /\ rows'[job[k].own].kind # "manual"
            /\ rows'[job[k].own].protected
            /\ rows'[job[k].own].archive # Absent
      <3> SUFFICES ASSUME job[k].pc \notin {"idle", "copy"}, job[k].op # "create"
                   PROVE  /\ rows'[job[k].own] = rows[job[k].own]
                          /\ rows[job[k].own].kind # "manual"
                          /\ rows[job[k].own].protected
                          /\ rows[job[k].own].archive # Absent
        OBVIOUS
      <3>1. /\ rows[job[k].own].kind # "manual"
            /\ rows[job[k].own].protected
            /\ rows[job[k].own].archive # Absent
        BY DEF IInv, OwnInv
      <3> QED
        BY <2>2, <3>1
    <2>7. job[k].pc = "copy" =>
            /\ rows'[job[k].own] = rows[job[k].own]
            /\ rows[job[k].own].status = "pending"
      <3> SUFFICES ASSUME job[k].pc = "copy"
                   PROVE  /\ rows'[job[k].own] = rows[job[k].own]
                          /\ rows[job[k].own].status = "pending"
        OBVIOUS
      <3>1. rows[job[k].own].status = "pending"
        BY DEF IInv, OwnInv
      <3> QED
        BY <2>2, <3>1
    <2>8. job[k].pc = "copy" /\ job[k].op # "create" =>
            /\ rows'[job[k].own].kind # "manual"
            /\ rows'[job[k].own].protected
      BY <2>7 DEF IInv, OwnInv
    <2> QED
      BY <2>1, <2>3, <2>4, <2>5, <2>6, <2>7, <2>8 DEF OwnOf
  <1>4. \A k \in Jobs : OwnOf(k)'
    BY <1>3
  <1>5. ASSUME NEW k \in Jobs, NEW i \in Jobs, job'[i].own = job'[k].own, i # k
        PROVE  job'[k].own = 0
    <2>1. job[i].own = job[k].own => job[k].own = 0
      BY <1>5 DEF IInv, OwnInv
    <2>2. job[i].own \in 0 .. last /\ job[k].own \in 0 .. last
      BY <1>2
    <2>3. CASE i # j /\ k # j
      BY <1>5, <2>1, <2>3
    <2>4. CASE i = j \/ k = j
      BY <1>1, <1>5, <2>1, <2>2, <2>4
    <2> QED
      BY <2>3, <2>4
  <1> QED
    BY <1>4, <1>5 DEF OwnOf, OwnInv

\* A request that begins owns the row it inserts.
LEMMA BeginOwn ==
  ASSUME IInv, NEW j \in Jobs, NEW op \in {"create", "restore", "edit"},
         NEW target \in 0 .. MaxRows, Begin(j, op, target)
  PROVE  OwnInv'
  <1>1. /\ last + 1 \in RowIds /\ last' = last + 1
        /\ \A r \in RowIds \ {last + 1} : rows'[r] = rows[r]
    BY BeginEffect
  <1>2. last \in Nat /\ job \in [Jobs -> Job] /\ rows \in [RowIds -> Row]
    BY BoundAssumption DEF IInv, TypeOK
  <1>3. /\ \A k \in Jobs \ {j} : job'[k] = job[k]
        /\ job'[j] = [Idle EXCEPT !.pc = "copy", !.op = op, !.own = last + 1, !.first = live,
                         !.target = IF op = "edit" THEN last + 1 ELSE target]
    BY <1>2 DEF Begin
  <1>4. /\ job'[j].pc = "copy" /\ job'[j].op = op /\ job'[j].own = last + 1
        /\ job'[j].doomed = {} /\ job'[j].whole
        /\ op = "edit" => job'[j].target = last + 1
    BY <1>3 DEF Idle
  <1>5. /\ rows'[last + 1].kind = Kind[op]
        /\ rows'[last + 1].status = "pending"
        /\ rows'[last + 1].protected = (op # "create")
    BY <1>1, <1>2 DEF Begin, NoRow
  <1>6. op # "create" => Kind[op] # "manual"
    BY DEF Kind
  <1>7. OwnOf(j)'
    <2>1. job'[j].own \in 1 .. last' /\ last + 1 # 0
      BY <1>1, <1>2, <1>4
    <2> QED
      BY <1>1, <1>4, <1>5, <1>6, <2>1 DEF OwnOf
  <1>8. \A r \in RowIds : r <= last => rows'[r] = rows[r]
    BY <1>1, <1>2 DEF RowIds
  <1> QED
    <2>1. \A k \in Jobs \ {j} : job'[k] = job[k]
      BY <1>3
    <2>2. last' \in Int /\ last <= last' /\ job'[j].own > last
      BY <1>1, <1>2, <1>4
    <2> QED
      BY <1>7, <1>8, <2>1, <2>2, OwnKept

\* One lemma for each action: it keeps the inductive invariant.
LEMMA RequestBackupStep ==
  ASSUME IInv, NEW j \in Jobs, RequestBackup(j)
  PROVE  IInv'
  <1> USE NoJobAssumption, LimitAssumption, BoundAssumption, NamesAssumption DEF
     IInv, RequestBackup
  <1>1. TypeOK'
    <2>1. PICK target \in 0 .. MaxRows : Begin(j, "create", target)
      BY BoundAssumption DEF RequestBackup
    <2> QED
      <3>1. /\ last' \in 0 .. MaxRows
            /\ rows' \in [RowIds -> Row]
            /\ job' \in [Jobs -> Job]
        BY <2>1, BeginEffect DEF RowIds
      <3> QED
        BY <2>1, <3>1 DEF TypeOK, Begin
  <1>2. LockInv'
    BY DEF Begin, At, Rooted, TypeOK, LockInv, Replacing
  <1>3. RowInv'
    <2>1. PICK target \in 0 .. MaxRows : Begin(j, "create", target)
      BY BoundAssumption DEF RequestBackup
    <2>2. UNCHANGED archived
      BY <2>1 DEF Begin
    <2> QED
      <3>1. /\ last + 1 \in RowIds /\ last' = last + 1
            /\ \A r \in RowIds \ {last + 1} : rows'[r] = rows[r]
            /\ rows'[last + 1].archive = Absent
        BY <2>1, BeginEffect
      <3> QED
        BY <2>2, <3>1 DEF TypeOK, RowInv, RowIds
  <1>4. OwnInv'
    <2>1. PICK target \in 0 .. MaxRows : Begin(j, "create", target)
      BY BoundAssumption DEF RequestBackup
    <2> QED
      BY <2>1, BeginOwn
  <1>5. PlaceInv'
    BY DEF Begin, At, Rooted, TypeOK, PlaceInv, LockInv, Replacing, Idle, Job
  <1>6. AbsenceInv'
    BY DEF Begin, At, Rooted, TypeOK, AbsenceInv
  <1> QED
    BY <1>1, <1>2, <1>3, <1>4, <1>5, <1>6

LEMMA RequestRestoreStep ==
  ASSUME IInv, NEW j \in Jobs, RequestRestore(j)
  PROVE  IInv'
  <1> USE NoJobAssumption, LimitAssumption, BoundAssumption, NamesAssumption DEF
     IInv, RequestRestore
  <1>1. TypeOK'
    <2>1. PICK target \in 0 .. MaxRows : Begin(j, "restore", target)
      BY DEF RequestRestore, Visible, RowIds
    <2> QED
      <3>1. /\ last' \in 0 .. MaxRows
            /\ rows' \in [RowIds -> Row]
            /\ job' \in [Jobs -> Job]
        BY <2>1, BeginEffect DEF RowIds
      <3> QED
        BY <2>1, <3>1 DEF TypeOK, Begin
  <1>2. LockInv'
    BY DEF Begin, At, Rooted, Visible, TypeOK, LockInv, Replacing
  <1>3. RowInv'
    <2>1. PICK target \in 0 .. MaxRows : Begin(j, "restore", target)
      BY DEF RequestRestore, Visible, RowIds
    <2>2. UNCHANGED archived
      BY <2>1 DEF Begin
    <2> QED
      <3>1. /\ last + 1 \in RowIds /\ last' = last + 1
            /\ \A r \in RowIds \ {last + 1} : rows'[r] = rows[r]
            /\ rows'[last + 1].archive = Absent
        BY <2>1, BeginEffect
      <3> QED
        BY <2>2, <3>1 DEF TypeOK, RowInv, RowIds
  <1>4. OwnInv'
    <2>1. PICK target \in 0 .. MaxRows : Begin(j, "restore", target)
      BY DEF RequestRestore, Visible, RowIds
    <2> QED
      BY <2>1, BeginOwn
  <1>5. PlaceInv'
    BY DEF Begin, At, Rooted, Visible, TypeOK, PlaceInv, LockInv, Replacing,
       Idle, Job
  <1>6. AbsenceInv'
    BY DEF Begin, At, Rooted, Visible, TypeOK, AbsenceInv
  <1> QED
    BY <1>1, <1>2, <1>3, <1>4, <1>5, <1>6

LEMMA RequestEditStep ==
  ASSUME IInv, NEW j \in Jobs, RequestEdit(j)
  PROVE  IInv'
  <1> USE NoJobAssumption, LimitAssumption, BoundAssumption, NamesAssumption DEF
     IInv, RequestEdit
  <1>1. TypeOK'
    <2>1. PICK target \in 0 .. MaxRows : Begin(j, "edit", target)
      BY DEF RequestEdit
    <2> QED
      <3>1. /\ last' \in 0 .. MaxRows
            /\ rows' \in [RowIds -> Row]
            /\ job' \in [Jobs -> Job]
        BY <2>1, BeginEffect DEF RowIds
      <3> QED
        BY <2>1, <3>1 DEF TypeOK, Begin
  <1>2. LockInv'
    BY DEF Begin, At, Rooted, TypeOK, LockInv
  <1>3. RowInv'
    <2>1. PICK target \in 0 .. MaxRows : Begin(j, "edit", target)
      BY DEF RequestEdit
    <2>2. UNCHANGED archived
      BY <2>1 DEF Begin
    <2> QED
      <3>1. /\ last + 1 \in RowIds /\ last' = last + 1
            /\ \A r \in RowIds \ {last + 1} : rows'[r] = rows[r]
            /\ rows'[last + 1].archive = Absent
        BY <2>1, BeginEffect
      <3> QED
        BY <2>2, <3>1 DEF TypeOK, RowInv, RowIds
  <1>4. OwnInv'
    <2>1. PICK target \in 0 .. MaxRows : Begin(j, "edit", target)
      BY DEF RequestEdit
    <2> QED
      BY <2>1, BeginOwn
  <1>5. PlaceInv'
    BY DEF Begin, At, Rooted, TypeOK, PlaceInv, LockInv, Replacing, Idle, Job
  <1>6. AbsenceInv'
    BY DEF Begin, At, Rooted, TypeOK, AbsenceInv
  <1> QED
    BY <1>1, <1>2, <1>3, <1>4, <1>5, <1>6

LEMMA FinishCopyStep ==
  ASSUME IInv, NEW j \in Jobs, FinishCopy(j)
  PROVE  IInv'
  <1> USE NoJobAssumption, LimitAssumption, BoundAssumption, NamesAssumption DEF
     IInv, FinishCopy
  <1>1. TypeOK'
    <2>1. job[j].own \in RowIds
      BY OwnRow DEF At
    <2>2. \E c \in Contents : /\ archived' = archived \cup {c}
                             /\ rows' = [rows EXCEPT ![job[j].own].status = "verified",
                                                     ![job[j].own].archive = c]
      BY DEF TypeOK, Contents, Rooted
    <2>3. rows' \in [RowIds -> Row] /\ archived' \subseteq Contents
      BY <2>1, <2>2 DEF TypeOK, Row
    <2>4. job' \in [Jobs -> Job]
      BY StepNames, JobWritten DEF TypeOK, Goto, Contents
    <2> QED
      BY <2>3, <2>4 DEF TypeOK
  <1>2. LockInv'
    BY DEF At, Rooted, Goto, TypeOK, LockInv, Replacing
  <1>3. RowInv'
    BY DEF At, Rooted, Goto, TypeOK, RowInv, OwnInv, Row
  <1>4. OwnInv'
    <2> DEFINE own == job[j].own
    <2>1. own \in RowIds /\ own \in 1 .. last /\ rows[own].status = "pending"
      BY OwnRow DEF At, OwnInv
    <2>2. last \in Nat /\ last' = last /\ job \in [Jobs -> Job] /\ rows \in [RowIds -> Row]
      BY DEF TypeOK
    <2>3. /\ \A k \in Jobs \ {j} : job'[k] = job[k]
          /\ job'[j] = [job[j] EXCEPT !.pc = "retain"]
      BY <2>2 DEF Goto
    <2>4. /\ job'[j].pc = "retain" /\ job'[j].op = job[j].op /\ job'[j].own = own
          /\ job'[j].doomed = job[j].doomed /\ job'[j].whole = job[j].whole
          /\ job'[j].target = job[j].target
      BY <2>2, <2>3 DEF Job
    <2>5. \E c \in Contents :
            rows' = [rows EXCEPT ![own].status = "verified", ![own].archive = c]
      BY DEF TypeOK, Contents, Rooted
    <2>6. /\ \A r \in RowIds : r # own => rows'[r] = rows[r]
          /\ rows'[own].kind = rows[own].kind
          /\ rows'[own].protected = rows[own].protected
          /\ rows'[own].archive # Absent
      BY <2>1, <2>2, <2>5 DEF Row, Contents
    <2>7. OwnOf(j)'
      <3>1. \A r \in job[j].doomed :
              r \in RowIds /\ r <= last /\ rows[r].kind = "manual" /\ rows[r].status # "pending"
        BY <2>2 DEF OwnInv, Job
      <3>2. \A r \in job[j].doomed : rows'[r] = rows[r]
        BY <2>1, <2>6, <3>1
      <3>3. /\ job[j].op = "edit" => job[j].target # 0
            /\ job[j].op = "create" => job[j].whole
            /\ job[j].op # "create" => rows[own].kind # "manual" /\ rows[own].protected
        BY DEF OwnInv, At
      <3> QED
        <4>1. \A r \in job'[j].doomed :
                r <= last' /\ rows'[r].kind = "manual" /\ rows'[r].status # "pending"
          BY <2>2, <2>4, <3>1, <3>2
        <4>2. job'[j].own \in 1 .. last'
          BY <2>1, <2>2, <2>4
        <4>3. job[j].op # "create" =>
                /\ rows'[job'[j].own].kind # "manual"
                /\ rows'[job'[j].own].protected
                /\ rows'[job'[j].own].archive # Absent
          BY <2>4, <2>6, <3>3
        <4>4. job'[j].pc \notin {"idle", "prepare", "copy"}
          BY <2>4
        <4> HIDE DEF own
        <4> QED
          BY <2>4, <3>3, <4>1, <4>2, <4>3, <4>4 DEF OwnOf
    <2>8. \A r \in RowIds : rows[r].status # "pending" => rows'[r] = rows[r]
      BY <2>1, <2>6
    <2> HIDE DEF own
    <2> QED
      <3>1. last' \in Int /\ last <= last' /\ job'[j].own = job[j].own
        BY <2>2, <2>4 DEF own
      <3>2. \A r \in RowIds : r # job[j].own => rows'[r] = rows[r]
        BY <2>6 DEF own
      <3>3. \A k \in Jobs \ {j} : job'[k] = job[k]
        BY <2>3
      <3> QED
        BY <2>7, <2>8, <3>1, <3>2, <3>3, OwnKept
  <1>5. PlaceInv'
    BY DEF At, Rooted, Goto, TypeOK, PlaceInv, LockInv, Replacing
  <1>6. AbsenceInv'
    BY DEF At, Rooted, Goto, TypeOK, AbsenceInv
  <1> QED
    BY <1>1, <1>2, <1>3, <1>4, <1>5, <1>6

LEMMA FailCopyStep ==
  ASSUME IInv, NEW j \in Jobs, FailCopy(j)
  PROVE  IInv'
  <1> USE NoJobAssumption, LimitAssumption, BoundAssumption, NamesAssumption DEF
     IInv, FailCopy
  <1>1. TypeOK'
    <2>1. job[j].own \in RowIds
      BY OwnRow DEF At
    <2> QED
      BY <2>1, EndEffect, StatusWritten DEF TypeOK
  <1>2. LockInv'
    BY DEF At, End, TypeOK, LockInv, Replacing, Idle
  <1>3. RowInv'
    BY DEF At, End, TypeOK, RowInv, OwnInv, Row
  <1>4. OwnInv'
    BY DEF At, End, TypeOK, OwnInv, Idle, Job
  <1>5. PlaceInv'
    BY DEF At, End, TypeOK, PlaceInv, LockInv, Replacing, Idle, Job
  <1>6. AbsenceInv'
    BY DEF At, End, TypeOK, AbsenceInv, OwnInv, LockInv, PlaceInv, RowInv,
       Replacing, Row, RowIds, Idle, Job, NoRow, Contents
  <1> QED
    BY <1>1, <1>2, <1>3, <1>4, <1>5, <1>6

LEMMA RetainStep ==
  ASSUME IInv, NEW j \in Jobs, Retain(j)
  PROVE  IInv'
  <1> USE NoJobAssumption, LimitAssumption, BoundAssumption, NamesAssumption DEF
     IInv, Retain
  <1>1. TypeOK'
    <2>1. Doomed \subseteq RowIds
      BY DEF Doomed, Manual, Visible
    <2>2. CASE Doomed = {}
      BY <2>2, AfterBackupEffect DEF TypeOK
    <2>3. CASE Doomed # {}
      <3>1. job' = [job EXCEPT ![j].pc = "clean", ![j].doomed = Doomed]
        BY <2>3
      <3>2. job' \in [Jobs -> Job]
        BY <2>1, <3>1, StepNames, JobWritten DEF TypeOK
      <3> QED
        BY <2>3, <3>2 DEF TypeOK
    <2> QED
      BY <2>2, <2>3
  <1>2. LockInv'
    BY DEF At, Doomed, Manual, Visible, AfterBackup, End, TypeOK, LockInv, Replacing,
       Job, Steps, Idle, Kind
  <1>3. RowInv'
    BY DEF At, Doomed, Manual, Visible, AfterBackup, End, TypeOK, RowInv
  <1>4. OwnInv'
    <2>1. /\ last \in Nat /\ job \in [Jobs -> Job]
          /\ UNCHANGED <<rows, last>>
          /\ \A k \in Jobs \ {j} : job'[k] = job[k]
      BY AfterBackupEffect DEF TypeOK
    <2>2. \/ job'[j] = Idle
          \/ /\ job'[j].pc \in {"check", "write", "clean"} /\ job'[j].op = job[j].op
             /\ job'[j].own = job[j].own /\ job'[j].target = job[j].target
             /\ job'[j].whole = job[j].whole
             /\ job'[j].doomed \in {{}, Doomed}
      BY <2>1 DEF AfterBackup, End, Job
    <2>3. \A r \in Doomed :
            r <= last /\ rows[r].kind = "manual" /\ rows[r].status # "pending"
      BY <2>1 DEF Doomed, Manual, Visible, RowInv, NoRow, RowIds
    <2>4. OwnOf(j)'
      <3>1. CASE job'[j] = Idle
        BY <3>1 DEF OwnOf, Idle
      <3>2. CASE job'[j] # Idle
        <4>1. /\ job[j].own \in 1 .. last
              /\ job[j].op = "edit" => job[j].target # 0
              /\ job[j].op = "create" => job[j].whole
              /\ job[j].op # "create" =>
                   /\ rows[job[j].own].kind # "manual"
                   /\ rows[job[j].own].protected
                   /\ rows[job[j].own].archive # Absent
          BY DEF OwnInv, At
        <4> QED
          BY <2>1, <2>2, <2>3, <3>2, <4>1 DEF OwnOf
      <3> QED
        BY <3>1, <3>2
    <2>5. job'[j].own = 0 \/ job'[j].own = job[j].own
      BY <2>2 DEF Idle
    <2> QED
      BY <2>1, <2>4, <2>5, OwnKept
  <1>5. PlaceInv'
    BY DEF At, Doomed, Manual, Visible, AfterBackup, End, TypeOK, PlaceInv, LockInv,
       Replacing, Idle, Job
  <1>6. AbsenceInv'
    <2> SUFFICES ASSUME live' = Absent PROVE AbsenceInv'
      BY DEF AbsenceInv
    <2>1. PICK r \in RowIds :
            /\ rows[r].kind # "manual" /\ rows[r].protected /\ rows[r].archive # Absent
            /\ \A k \in Jobs : job[k].own = r => ~job[k].whole
      BY DEF AbsenceInv
    <2>2. \A k \in Jobs : job'[k].own = r => ~job'[k].whole
      <3>1. \A k \in Jobs \ {j} : job'[k] = job[k]
        BY DEF TypeOK, AfterBackup, End
      <3>2. \/ job'[j].own = job[j].own /\ job'[j].whole = job[j].whole
            \/ job'[j].own = 0
        BY DEF TypeOK, Job, AfterBackup, End, Idle
      <3> QED
        BY <2>1, <3>1, <3>2 DEF RowIds
    <2> QED
      BY <2>1, <2>2 DEF AbsenceInv
  <1> QED
    BY <1>1, <1>2, <1>3, <1>4, <1>5, <1>6

LEMMA CleanStep ==
  ASSUME IInv, NEW j \in Jobs, Clean(j)
  PROVE  IInv'
  <1> USE NoJobAssumption, LimitAssumption, BoundAssumption, NamesAssumption DEF
     IInv, Clean
  <1>1. TypeOK'
    <2>1. rows' \in [RowIds -> Row]
      <3>1. \A r \in RowIds : rows'[r] \in {rows[r], NoRow, [rows[r] EXCEPT !.archive = Absent]}
        OBVIOUS
      <3>2. \A r \in RowIds : [rows[r] EXCEPT !.archive = Absent] \in Row
        BY DEF TypeOK, Row
      <3>3. \A r \in RowIds : rows'[r] \in Row
        BY <3>1, <3>2, BackupTypes DEF TypeOK
      <3> QED
        BY <3>3
    <2> QED
      BY <2>1, AfterBackupEffect DEF TypeOK
  <1>2. LockInv'
    BY DEF At, AfterBackup, End, Intact, TypeOK, LockInv, Replacing, Job, Steps,
       Idle, Kind
  <1>3. RowInv'
    <2>1. \A r \in RowIds : rows'[r] \in {rows[r], NoRow, [rows[r] EXCEPT !.archive = Absent]}
      OBVIOUS
    <2>2. \A r \in RowIds : rows'[r] # rows[r] => r <= last
      BY DEF TypeOK, OwnInv
    <2>3. \A r \in RowIds : rows'[r].archive # Absent => rows'[r] = rows[r]
      BY <2>1 DEF NoRow, TypeOK, Row
    <2>4. \A r \in RowIds : r > last => rows'[r] = NoRow
      BY <2>2 DEF RowInv, RowIds, TypeOK
    <2>5. UNCHANGED <<last, archived>>
      OBVIOUS
    <2> QED
      BY <2>3, <2>4, <2>5 DEF RowInv
  <1>4. OwnInv'
    <2>1. /\ last \in Nat /\ job \in [Jobs -> Job] /\ last' = last
          /\ \A k \in Jobs \ {j} : job'[k] = job[k]
      BY AfterBackupEffect DEF TypeOK
    <2>2. \/ job'[j] = Idle
          \/ /\ job'[j].pc \in {"check", "write"} /\ job'[j].op = job[j].op
             /\ job[j].op # "create"
             /\ job'[j].own = job[j].own /\ job'[j].target = job[j].target
             /\ job'[j].doomed = {}
      BY <2>1 DEF AfterBackup, End, Job
    <2>3. \A r \in RowIds : /\ rows'[r] \in {rows[r], NoRow, [rows[r] EXCEPT !.archive = Absent]}
                            /\ r \notin job[j].doomed => rows'[r] = rows[r]
      OBVIOUS
    <2>4. \A r \in job[j].doomed : rows[r].kind = "manual" /\ rows[r].status # "pending"
      BY DEF OwnInv
    <2>5. \A r \in RowIds : rows[r].kind # "manual" \/ rows[r].status = "pending" =>
            rows'[r] = rows[r]
      BY <2>3, <2>4
    <2>6. \A r \in RowIds : rows[r].kind = "manual" /\ rows[r].status # "pending" =>
            rows'[r].kind = "manual" /\ rows'[r].status # "pending"
      BY <2>3 DEF TypeOK, Row, NoRow
    <2>7. OwnOf(j)'
      <3>1. CASE job'[j] = Idle
        BY <3>1 DEF OwnOf, Idle
      <3>2. CASE job'[j] # Idle
        <4>1. /\ job[j].own \in 1 .. last
              /\ job[j].op = "edit" => job[j].target # 0
              /\ job[j].op # "create" =>
                   /\ rows[job[j].own].kind # "manual"
                   /\ rows[job[j].own].protected
                   /\ rows[job[j].own].archive # Absent
          BY DEF OwnInv, At
        <4>2. job[j].own \in RowIds
          BY OwnRow DEF At
        <4> QED
          BY <2>1, <2>2, <2>5, <3>2, <4>1, <4>2 DEF OwnOf
      <3> QED
        BY <3>1, <3>2
    <2>8. job'[j].own = 0 \/ job'[j].own = job[j].own
      BY <2>2 DEF Idle
    <2>9. last' \in Int /\ last <= last'
      BY <2>1
    <2>10. \A k \in Jobs \ {j} : job'[k] = job[k]
      BY <2>1
    <2> QED
      BY <2>5, <2>6, <2>7, <2>8, <2>9, <2>10, OwnKept
  <1>5. PlaceInv'
    <2>1. /\ \A k \in Jobs \ {j} : job'[k] = job[k]
          /\ lock # j => lock' = lock
      BY AfterBackupEffect
    <2>2. job[j].pc = "clean"
      BY DEF At
    <2>3. job[j].whole
      BY <2>2 DEF PlaceInv, Replacing
    <2>4. job'[j].whole /\ job'[j].pc \in {"idle", "check", "write"}
      BY <2>3 DEF TypeOK, Job, AfterBackup, End, Idle
    <2>5. live # Absent /\ aside # Absent => lock # j
      BY <2>2 DEF PlaceInv
    <2>6. \A k \in Jobs : job'[k].pc \in Replacing \cup {"aside", "report"} => job'[k] = job[k]
      BY <2>1, <2>4 DEF Replacing
    <2>7. \A k \in Jobs : ~job'[k].whole => job'[k] = job[k]
      BY <2>1, <2>4
    <2>8. UNCHANGED <<live, aside, archived>>
      OBVIOUS
    <2>9. \A k \in Jobs :
            /\ job'[k].pc \in {"aside", "in"} => job'[k].staged \in archived
            /\ job'[k].pc = "in" => live = Absent /\ aside # Absent
            /\ job'[k].pc \in {"validate", "remove"} => live # Absent /\ aside # Absent
            /\ job'[k].pc = "commit" => live # Absent /\ aside = Absent
            /\ job'[k].pc = "return" => live = Absent
            /\ job'[k].pc \in Replacing => ~job'[k].whole
      BY <2>6 DEF PlaceInv, Replacing
    <2>10. \A k \in Jobs : ~job'[k].whole => job'[k].pc \in Replacing \cup {"report"}
      BY <2>7 DEF PlaceInv
    <2>11. live # Absent /\ aside # Absent =>
             lock' # NoJob /\ job'[lock'].pc \in {"validate", "remove", "undo", "report"}
      BY <2>1, <2>5 DEF PlaceInv, TypeOK
    <2> QED
      BY <2>8, <2>9, <2>10, <2>11 DEF PlaceInv
  <1>6. AbsenceInv'
    <2> SUFFICES ASSUME live' = Absent PROVE AbsenceInv'
      BY DEF AbsenceInv
    <2>1. PICK r \in RowIds :
            /\ rows[r].kind # "manual" /\ rows[r].protected /\ rows[r].archive # Absent
            /\ \A k \in Jobs : job[k].own = r => ~job[k].whole
      BY DEF AbsenceInv
    <2>2. \A k \in Jobs : job'[k].own = r => ~job'[k].whole
      <3>1. \A k \in Jobs \ {j} : job'[k] = job[k]
        BY DEF TypeOK, AfterBackup, End
      <3>2. \/ job'[j].own = job[j].own /\ job'[j].whole = job[j].whole
            \/ job'[j].own = 0
        BY DEF TypeOK, Job, AfterBackup, End, Idle
      <3> QED
        BY <2>1, <3>1, <3>2 DEF RowIds
    <2>3. rows'[r].kind # "manual" /\ rows'[r].protected /\ rows'[r].archive # Absent
      <3>1. \A s \in RowIds : rows'[s] # rows[s] => rows[s].kind = "manual"
        BY DEF OwnInv
      <3> QED
        BY <2>1, <3>1
    <2> QED
      BY <2>1, <2>2, <2>3 DEF AbsenceInv
  <1> QED
    BY <1>1, <1>2, <1>3, <1>4, <1>5, <1>6

LEMMA PinStep ==
  ASSUME IInv, NEW r \in RowIds, Pin(r)
  PROVE  IInv'
  <1> USE NoJobAssumption, LimitAssumption, BoundAssumption, NamesAssumption DEF
     IInv, Pin
  <1>1. TypeOK'
    <2>1. rows[r] \in Row
      BY DEF TypeOK, Visible
    <2>2. (~rows[r].pinned) \in BOOLEAN
      BY Zenon
    <2>3. [rows[r] EXCEPT !.pinned = ~rows[r].pinned] \in Row
      BY <2>1, <2>2 DEF Row
    <2>4. rows' \in [RowIds -> Row]
      BY <2>3 DEF TypeOK
    <2> QED
      BY <2>4 DEF TypeOK
  <1>2. LockInv'
    BY DEF Visible, TypeOK, LockInv
  <1>3. RowInv'
    <2>1. \A s \in RowIds : /\ s # r => rows'[s] = rows[s]
                          /\ rows'[s].archive = rows[s].archive
                          /\ rows'[s].status = rows[s].status
      BY DEF TypeOK, Row
    <2>2. rows[r] # NoRow
      BY DEF NoRow, Visible
    <2> QED
      BY <2>1, <2>2 DEF RowInv
  <1>4. OwnInv'
    BY DEF Visible, TypeOK, OwnInv
  <1>5. PlaceInv'
    BY DEF Visible, TypeOK, PlaceInv
  <1>6. AbsenceInv'
    BY DEF Visible, TypeOK, AbsenceInv
  <1> QED
    BY <1>1, <1>2, <1>3, <1>4, <1>5, <1>6

LEMMA AcceptStep ==
  ASSUME IInv, NEW j \in Jobs, Accept(j)
  PROVE  IInv'
  <1> USE NoJobAssumption, LimitAssumption, BoundAssumption, NamesAssumption DEF
     IInv, Accept
  <1>1. TypeOK'
    BY DEF At, Intact, Goto, TypeOK, Job, Steps, Replacing
  <1>2. LockInv'
    BY DEF At, Intact, Goto, TypeOK, LockInv
  <1>3. RowInv'
    BY DEF At, Intact, Goto, TypeOK, RowInv
  <1>4. OwnInv'
    BY DEF At, Intact, Goto, TypeOK, OwnInv
  <1>5. PlaceInv'
    BY DEF At, Intact, Goto, TypeOK, PlaceInv, LockInv, Replacing
  <1>6. AbsenceInv'
    BY DEF At, Intact, Goto, TypeOK, AbsenceInv
  <1> QED
    BY <1>1, <1>2, <1>3, <1>4, <1>5, <1>6

LEMMA RefuseStep ==
  ASSUME IInv, NEW j \in Jobs, Refuse(j)
  PROVE  IInv'
  <1> USE NoJobAssumption, LimitAssumption, BoundAssumption, NamesAssumption DEF
     IInv, Refuse
  <1>1. TypeOK'
    <2>1. job[j].target # 0 => job[j].target \in RowIds
      BY DEF TypeOK, Job, RowIds
    <2>2. rows' \in [RowIds -> Row]
      BY <2>1, StatusWritten DEF TypeOK
    <2> QED
      BY <2>2, EndEffect DEF TypeOK
  <1>2. LockInv'
    BY DEF At, End, TypeOK, LockInv, Replacing, Idle
  <1>3. RowInv'
    <2>1. job[j].target # 0 => job[j].target \in RowIds
      BY DEF TypeOK, Job, RowIds
    <2>2. \A r \in RowIds : rows[r] = NoRow => rows'[r] = rows[r]
      BY <2>1, StatusWritten DEF NoRow
    <2>3. \A r \in RowIds : /\ rows'[r].archive = rows[r].archive
                            /\ rows'[r].status \in {rows[r].status, "failed"}
      BY <2>1, StatusWritten
    <2> QED
      BY <2>2, <2>3 DEF RowInv
  <1>4. OwnInv'
    <2>1. job[j].target # 0 => job[j].target \in RowIds
      BY DEF TypeOK, Job, RowIds
    <2>2. \A r \in RowIds : /\ rows'[r].archive = rows[r].archive
                            /\ rows'[r].kind = rows[r].kind
                            /\ rows'[r].protected = rows[r].protected
                            /\ rows'[r].status # "pending" <=> rows[r].status # "pending"
      BY <2>1, StatusWritten
    <2>3. \A k \in Jobs : job'[k] = job[k] \/ job'[k] = Idle
      BY EndEffect
    <2>4. \A k \in Jobs : job'[k] = job[k] =>
            /\ IF job'[k].pc = "idle" THEN job'[k].own = 0 ELSE job'[k].own \in 1 .. last'
            /\ job'[k].op = "edit" \/ job'[k].pc = "prepare" => job'[k].target # 0
            /\ job'[k].op = "create" => job'[k].whole
      BY DEF OwnInv
    <2>5. \A k \in Jobs : job'[k] = job[k] =>
            /\ \A i \in Jobs : job'[i].own = job'[k].own /\ i # k => job'[k].own = 0
            /\ \A r \in job'[k].doomed :
                 r <= last' /\ rows'[r].kind = "manual" /\ rows'[r].status # "pending"
      BY <2>2, <2>3 DEF OwnInv, TypeOK, Job, Idle
    <2>6. \A k \in Jobs : job'[k] = job[k] =>
            /\ job'[k].pc \notin {"idle", "copy"} /\ job'[k].op # "create" =>
                 /\ rows'[job'[k].own].kind # "manual"
                 /\ rows'[job'[k].own].protected
                 /\ rows'[job'[k].own].archive # Absent
            /\ job'[k].pc = "copy" => rows'[job'[k].own].status = "pending"
            /\ job'[k].pc = "copy" /\ job'[k].op # "create" =>
                 /\ rows'[job'[k].own].kind # "manual"
                 /\ rows'[job'[k].own].protected
      BY <2>2, OwnRow DEF OwnInv, TypeOK, Row
    <2> QED
      BY <2>3, <2>4, <2>5, <2>6 DEF OwnInv, Idle
  <1>5. PlaceInv'
    BY DEF At, End, TypeOK, PlaceInv, LockInv, Replacing, Idle, Job
  <1>6. AbsenceInv'
    <2> SUFFICES ASSUME live' = Absent PROVE AbsenceInv'
      BY DEF AbsenceInv
    <2>1. PICK r \in RowIds :
            /\ rows[r].kind # "manual" /\ rows[r].protected /\ rows[r].archive # Absent
            /\ \A k \in Jobs : job[k].own = r => ~job[k].whole
      BY DEF AbsenceInv
    <2>2. \A k \in Jobs : job'[k].own = r => ~job'[k].whole
      BY <2>1, EndEffect DEF Idle, RowIds
    <2>3. rows'[r].kind # "manual" /\ rows'[r].protected /\ rows'[r].archive # Absent
      <3>1. job[j].target # 0 => job[j].target \in RowIds
        BY DEF TypeOK, Job, RowIds
      <3> QED
        BY <2>1, <3>1, StatusWritten
    <2> QED
      BY <2>1, <2>2, <2>3 DEF AbsenceInv
  <1> QED
    BY <1>1, <1>2, <1>3, <1>4, <1>5, <1>6

LEMMA PrepareRaisesStep ==
  ASSUME IInv, NEW j \in Jobs, PrepareRaises(j)
  PROVE  IInv'
  <1> USE NoJobAssumption, LimitAssumption, BoundAssumption, NamesAssumption DEF
     IInv, PrepareRaises
  <1>1. TypeOK'
    BY DEF At, End, TypeOK, Job, Steps, Replacing, Idle
  <1>2. LockInv'
    BY DEF At, End, TypeOK, LockInv, Replacing, Idle
  <1>3. RowInv'
    BY DEF At, End, TypeOK, RowInv
  <1>4. OwnInv'
    BY DEF At, End, TypeOK, OwnInv, Idle, Job
  <1>5. PlaceInv'
    BY DEF At, End, TypeOK, PlaceInv, LockInv, Replacing, Idle, Job
  <1>6. AbsenceInv'
    BY DEF At, End, TypeOK, AbsenceInv, OwnInv, LockInv, PlaceInv, RowInv,
       Replacing, Row, RowIds, Idle, Job, NoRow, Contents
  <1> QED
    BY <1>1, <1>2, <1>3, <1>4, <1>5, <1>6

LEMMA ExtractStep ==
  ASSUME IInv, NEW j \in Jobs, Extract(j)
  PROVE  IInv'
  <1> USE NoJobAssumption, LimitAssumption, BoundAssumption, NamesAssumption DEF
     IInv, Extract
  <1>1. TypeOK'
    <2>1. job[j].target \in RowIds
      BY BoundAssumption DEF TypeOK, Job, RowIds, OwnInv, At
    <2>2. rows[job[j].target].archive \in Contents \cup {Absent}
      BY <2>1 DEF TypeOK, Row
    <2>3. job' \in [Jobs -> Job]
      BY <2>2, StepNames, JobWritten
    <2> QED
      BY <2>3 DEF TypeOK
  <1>2. LockInv'
    BY DEF At, Intact, TypeOK, LockInv
  <1>3. RowInv'
    BY DEF At, Intact, TypeOK, RowInv
  <1>4. OwnInv'
    BY DEF At, Intact, TypeOK, OwnInv
  <1>5. PlaceInv'
    BY DEF At, Intact, TypeOK, PlaceInv, LockInv, RowInv, OwnInv, Replacing,
       Idle, Job, Contents, RowIds, Row, Steps
  <1>6. AbsenceInv'
    BY DEF At, Intact, TypeOK, AbsenceInv
  <1> QED
    BY <1>1, <1>2, <1>3, <1>4, <1>5, <1>6

LEMMA NothingMovedStep ==
  ASSUME IInv, NEW j \in Jobs, NothingMoved(j)
  PROVE  IInv'
  <1> USE NoJobAssumption, LimitAssumption, BoundAssumption, NamesAssumption DEF
     IInv, NothingMoved
  <1>1. TypeOK'
    BY DEF Goto, TypeOK, Job, Steps, Replacing
  <1>2. LockInv'
    BY DEF Goto, TypeOK, LockInv
  <1>3. RowInv'
    BY DEF Goto, TypeOK, RowInv
  <1>4. OwnInv'
    BY DEF Goto, TypeOK, OwnInv
  <1>5. PlaceInv'
    BY DEF Goto, TypeOK, PlaceInv, LockInv, Replacing
  <1>6. AbsenceInv'
    BY DEF Goto, TypeOK, AbsenceInv
  <1> QED
    BY <1>1, <1>2, <1>3, <1>4, <1>5, <1>6

LEMMA MoveAsideStep ==
  ASSUME IInv, NEW j \in Jobs, MoveAside(j)
  PROVE  IInv'
  <1> USE NoJobAssumption, LimitAssumption, BoundAssumption, NamesAssumption DEF
     IInv, MoveAside
  <1>1. TypeOK'
    <2>1. job' \in [Jobs -> Job]
      BY StepNames, JobWritten DEF TypeOK
    <2> QED
      BY <2>1 DEF TypeOK
  <1>2. LockInv'
    BY DEF At, TypeOK, LockInv, Replacing
  <1>3. RowInv'
    BY DEF At, TypeOK, RowInv
  <1>4. OwnInv'
    BY DEF At, TypeOK, OwnInv, LockInv, Replacing
  <1>5. PlaceInv'
    BY DEF At, TypeOK, PlaceInv, LockInv, Replacing
  <1>6. AbsenceInv'
    BY DEF At, TypeOK, AbsenceInv, OwnInv, LockInv, PlaceInv, RowInv, Replacing,
       Row, RowIds, Idle, Job, NoRow, Contents
  <1> QED
    BY <1>1, <1>2, <1>3, <1>4, <1>5, <1>6

LEMMA MoveInStep ==
  ASSUME IInv, NEW j \in Jobs, MoveIn(j)
  PROVE  IInv'
  <1> USE NoJobAssumption, LimitAssumption, BoundAssumption, NamesAssumption DEF
     IInv, MoveIn
  <1>1. TypeOK'
    BY DEF At, Goto, TypeOK, Job, Steps, Replacing, Row, Contents
  <1>2. LockInv'
    BY DEF At, Goto, TypeOK, LockInv, Replacing
  <1>3. RowInv'
    BY DEF At, Goto, TypeOK, RowInv
  <1>4. OwnInv'
    BY DEF At, Goto, TypeOK, OwnInv
  <1>5. PlaceInv'
    BY DEF At, Goto, TypeOK, PlaceInv, LockInv, RowInv, OwnInv, Replacing, Idle,
       Job, Contents, RowIds, Row, Steps
  <1>6. AbsenceInv'
    BY DEF At, Goto, TypeOK, AbsenceInv, OwnInv, LockInv, PlaceInv, Replacing
  <1> QED
    BY <1>1, <1>2, <1>3, <1>4, <1>5, <1>6

LEMMA ValidateStep ==
  ASSUME IInv, NEW j \in Jobs, Validate(j)
  PROVE  IInv'
  <1> USE NoJobAssumption, LimitAssumption, BoundAssumption, NamesAssumption DEF
     IInv, Validate
  <1>1. TypeOK'
    <2>1. job' \in [Jobs -> Job]
      BY StepNames, JobWritten DEF Goto
    <2> QED
      BY <2>1 DEF TypeOK
  <1>2. LockInv'
    BY DEF At, Goto, TypeOK, LockInv, Replacing
  <1>3. RowInv'
    BY DEF At, Goto, TypeOK, RowInv
  <1>4. OwnInv'
    BY DEF At, Goto, TypeOK, OwnInv
  <1>5. PlaceInv'
    BY DEF At, Goto, TypeOK, PlaceInv, LockInv, Replacing
  <1>6. AbsenceInv'
    BY DEF At, Goto, TypeOK, AbsenceInv
  <1> QED
    BY <1>1, <1>2, <1>3, <1>4, <1>5, <1>6

LEMMA RemoveAsideStep ==
  ASSUME IInv, NEW j \in Jobs, RemoveAside(j)
  PROVE  IInv'
  <1> USE NoJobAssumption, LimitAssumption, BoundAssumption, NamesAssumption DEF
     IInv, RemoveAside
  <1>1. TypeOK'
    BY DEF At, Goto, TypeOK, Job, Steps, Replacing
  <1>2. LockInv'
    BY DEF At, Goto, TypeOK, LockInv, Replacing
  <1>3. RowInv'
    BY DEF At, Goto, TypeOK, RowInv
  <1>4. OwnInv'
    BY DEF At, Goto, TypeOK, OwnInv
  <1>5. PlaceInv'
    BY DEF At, Goto, TypeOK, PlaceInv, LockInv, Replacing
  <1>6. AbsenceInv'
    BY DEF At, Goto, TypeOK, AbsenceInv
  <1> QED
    BY <1>1, <1>2, <1>3, <1>4, <1>5, <1>6

LEMMA FailsStep ==
  ASSUME IInv, NEW j \in Jobs, Fails(j)
  PROVE  IInv'
  <1> USE NoJobAssumption, LimitAssumption, BoundAssumption, NamesAssumption DEF
     IInv, Fails
  <1>1. TypeOK'
    BY DEF At, Goto, TypeOK, Job, Steps, Replacing, Row, Contents
  <1>2. LockInv'
    BY DEF At, Goto, TypeOK, LockInv, Replacing
  <1>3. RowInv'
    BY DEF At, Goto, TypeOK, RowInv
  <1>4. OwnInv'
    BY DEF At, Goto, TypeOK, OwnInv
  <1>5. PlaceInv'
    BY DEF At, Goto, TypeOK, PlaceInv, LockInv, Replacing
  <1>6. AbsenceInv'
    BY DEF At, Goto, TypeOK, AbsenceInv
  <1> QED
    BY <1>1, <1>2, <1>3, <1>4, <1>5, <1>6

LEMMA CommitStep ==
  ASSUME IInv, NEW j \in Jobs, Commit(j)
  PROVE  IInv'
  <1> USE NoJobAssumption, LimitAssumption, BoundAssumption, NamesAssumption DEF
     IInv, Commit
  <1>1. TypeOK'
    <2>1. job[j].own \in RowIds
      BY OwnRow DEF At
    <2>2. rows' \in [RowIds -> Row]
      BY <2>1, ProtectedWritten DEF TypeOK
    <2>3. operation' \in [Jobs -> {"none", "running", "completed", "failed"}]
      BY DEF TypeOK
    <2> QED
      BY <2>2, <2>3, EndEffect DEF TypeOK
  <1>2. LockInv'
    BY DEF At, End, TypeOK, LockInv, Replacing, Idle
  <1>3. RowInv'
    BY DEF At, End, TypeOK, RowInv, OwnInv, Row
  <1>4. OwnInv'
    <2>1. job[j].own \in RowIds
      BY OwnRow DEF At
    <2>2. \A r \in RowIds : /\ rows'[r].archive = rows[r].archive
                            /\ rows'[r].kind = rows[r].kind
                            /\ rows'[r].status = rows[r].status
                            /\ r # job[j].own => rows'[r].protected = rows[r].protected
      BY <2>1, ProtectedWritten
    <2>3. job'[j] = Idle /\ \A k \in Jobs \ {j} : job'[k] = job[k]
      BY EndEffect
    <2>4. \A k \in Jobs \ {j} :
            /\ IF job[k].pc = "idle" THEN job[k].own = 0 ELSE job[k].own \in 1 .. last'
            /\ job[k].op = "edit" \/ job[k].pc = "prepare" => job[k].target # 0
            /\ job[k].op = "create" => job[k].whole
      BY DEF OwnInv
    <2>5. \A k \in Jobs \ {j} :
            /\ \A i \in Jobs : job'[i].own = job[k].own /\ i # k => job[k].own = 0
            /\ \A r \in job[k].doomed :
                 r <= last' /\ rows'[r].kind = "manual" /\ rows'[r].status # "pending"
      <3>1. \A k \in Jobs \ {j} :
              \A i \in Jobs : job'[i].own = job[k].own /\ i # k => job[k].own = 0
        BY <2>3 DEF OwnInv, Idle
      <3>2. \A k \in Jobs : job[k].doomed \subseteq RowIds
        BY DEF TypeOK, Job
      <3>3. \A k \in Jobs : \A r \in job[k].doomed :
              r <= last' /\ rows'[r].kind = "manual" /\ rows'[r].status # "pending"
        BY <2>2, <3>2 DEF OwnInv
      <3> QED
        BY <3>1, <3>3
    <2>6. \A k \in Jobs \ {j} : job[k].pc # "idle" =>
            job[k].own \in RowIds /\ job[k].own # job[j].own
      BY OwnRow DEF OwnInv, RowIds, At
    <2>7. \A k \in Jobs \ {j} :
            /\ job[k].pc \notin {"idle", "copy"} /\ job[k].op # "create" =>
                 /\ rows'[job[k].own].kind # "manual"
                 /\ rows'[job[k].own].protected
                 /\ rows'[job[k].own].archive # Absent
            /\ job[k].pc = "copy" => rows'[job[k].own].status = "pending"
            /\ job[k].pc = "copy" /\ job[k].op # "create" =>
                 /\ rows'[job[k].own].kind # "manual"
                 /\ rows'[job[k].own].protected
      BY <2>2, <2>6 DEF OwnInv, TypeOK, Row
    <2> QED
      BY <2>3, <2>4, <2>5, <2>7 DEF OwnInv, Idle
  <1>5. PlaceInv'
    BY DEF At, End, TypeOK, PlaceInv, LockInv, Replacing, Idle, Job
  <1>6. AbsenceInv'
    BY DEF At, End, TypeOK, AbsenceInv, OwnInv, LockInv, PlaceInv, Replacing
  <1> QED
    BY <1>1, <1>2, <1>3, <1>4, <1>5, <1>6

LEMMA UndoStep ==
  ASSUME IInv, NEW j \in Jobs, Undo(j)
  PROVE  IInv'
  <1> USE NoJobAssumption, LimitAssumption, BoundAssumption, NamesAssumption DEF
     IInv, Undo
  <1>1. TypeOK'
    BY DEF At, Goto, TypeOK, Job, Steps, Replacing
  <1>2. LockInv'
    BY DEF At, Goto, TypeOK, LockInv, Replacing
  <1>3. RowInv'
    BY DEF At, Goto, TypeOK, RowInv
  <1>4. OwnInv'
    BY DEF At, Goto, TypeOK, OwnInv
  <1>5. PlaceInv'
    BY DEF At, Goto, TypeOK, PlaceInv, LockInv, Replacing
  <1>6. AbsenceInv'
    <2>1. job[j].pc \in Replacing
      BY DEF At, Replacing
    <2>2. ~job[j].whole
      BY <2>1 DEF PlaceInv
    <2>3. \A k \in Jobs : job'[k].own = job[k].own /\ job'[k].whole = job[k].whole
      BY DEF TypeOK, Job, Goto
    <2> QED
      BY <2>1, <2>2, <2>3, SafetyBackup DEF AbsenceInv
  <1> QED
    BY <1>1, <1>2, <1>3, <1>4, <1>5, <1>6

LEMMA PutBackStep ==
  ASSUME IInv, NEW j \in Jobs, PutBack(j)
  PROVE  IInv'
  <1> USE NoJobAssumption, LimitAssumption, BoundAssumption, NamesAssumption DEF
     IInv, PutBack
  <1>1. TypeOK'
    <2>1. job' \in [Jobs -> Job]
      BY StepNames, JobWritten DEF TypeOK
    <2> QED
      BY <2>1 DEF TypeOK
  <1>2. LockInv'
    BY DEF At, TypeOK, LockInv, Replacing
  <1>3. RowInv'
    BY DEF At, TypeOK, RowInv
  <1>4. OwnInv'
    BY DEF At, TypeOK, OwnInv
  <1>5. PlaceInv'
    BY DEF At, TypeOK, PlaceInv, LockInv, Replacing
  <1>6. AbsenceInv'
    BY DEF At, TypeOK, AbsenceInv
  <1> QED
    BY <1>1, <1>2, <1>3, <1>4, <1>5, <1>6

LEMMA UndoFailsStep ==
  ASSUME IInv, NEW j \in Jobs, UndoFails(j)
  PROVE  IInv'
  <1> USE NoJobAssumption, LimitAssumption, BoundAssumption, NamesAssumption DEF
     IInv, UndoFails
  <1>1. TypeOK'
    <2>1. job' \in [Jobs -> Job]
      BY StepNames, JobWritten DEF Goto
    <2> QED
      BY <2>1 DEF TypeOK
  <1>2. LockInv'
    BY DEF Goto, TypeOK, LockInv, Replacing
  <1>3. RowInv'
    BY DEF Goto, TypeOK, RowInv
  <1>4. OwnInv'
    BY DEF Goto, TypeOK, OwnInv
  <1>5. PlaceInv'
    BY DEF Goto, TypeOK, PlaceInv, LockInv, Replacing
  <1>6. AbsenceInv'
    BY DEF Goto, TypeOK, AbsenceInv
  <1> QED
    BY <1>1, <1>2, <1>3, <1>4, <1>5, <1>6

LEMMA ReportStep ==
  ASSUME IInv, NEW j \in Jobs, Report(j)
  PROVE  IInv'
  <1> USE NoJobAssumption, LimitAssumption, BoundAssumption, NamesAssumption DEF
     IInv, Report
  <1>1. TypeOK'
    <2>1. job[j].own \in RowIds
      BY OwnRow DEF At
    <2>2. rows' \in [RowIds -> Row]
      <3>1. (~job[j].whole) \in BOOLEAN
        BY Zenon
      <3> QED
        BY <2>1, <3>1, ProtectedWritten DEF TypeOK
    <2>3. operation' \in [Jobs -> {"none", "running", "completed", "failed"}]
      BY DEF TypeOK
    <2> QED
      BY <2>2, <2>3, EndEffect DEF TypeOK
  <1>2. LockInv'
    BY DEF At, End, TypeOK, LockInv, Replacing, Idle
  <1>3. RowInv'
    BY DEF At, End, TypeOK, RowInv, OwnInv, Row
  <1>4. OwnInv'
    <2>1. job[j].own \in RowIds
      BY OwnRow DEF At
    <2>2. \A r \in RowIds : /\ rows'[r].archive = rows[r].archive
                            /\ rows'[r].kind = rows[r].kind
                            /\ rows'[r].status = rows[r].status
                            /\ r # job[j].own => rows'[r].protected = rows[r].protected
      <3>1. (~job[j].whole) \in BOOLEAN
        BY Zenon
      <3> QED
        BY <2>1, <3>1, ProtectedWritten
    <2>3. job'[j] = Idle /\ \A k \in Jobs \ {j} : job'[k] = job[k]
      BY EndEffect
    <2>4. \A k \in Jobs \ {j} :
            /\ IF job[k].pc = "idle" THEN job[k].own = 0 ELSE job[k].own \in 1 .. last'
            /\ job[k].op = "edit" \/ job[k].pc = "prepare" => job[k].target # 0
            /\ job[k].op = "create" => job[k].whole
      BY DEF OwnInv
    <2>5. \A k \in Jobs \ {j} :
            /\ \A i \in Jobs : job'[i].own = job[k].own /\ i # k => job[k].own = 0
            /\ \A r \in job[k].doomed :
                 r <= last' /\ rows'[r].kind = "manual" /\ rows'[r].status # "pending"
      <3>1. \A k \in Jobs \ {j} :
              \A i \in Jobs : job'[i].own = job[k].own /\ i # k => job[k].own = 0
        BY <2>3 DEF OwnInv, Idle
      <3>2. \A k \in Jobs : job[k].doomed \subseteq RowIds
        BY DEF TypeOK, Job
      <3>3. \A k \in Jobs : \A r \in job[k].doomed :
              r <= last' /\ rows'[r].kind = "manual" /\ rows'[r].status # "pending"
        BY <2>2, <3>2 DEF OwnInv
      <3> QED
        BY <3>1, <3>3
    <2>6. \A k \in Jobs \ {j} : job[k].pc # "idle" =>
            job[k].own \in RowIds /\ job[k].own # job[j].own
      BY OwnRow DEF OwnInv, RowIds, At
    <2>7. \A k \in Jobs \ {j} :
            /\ job[k].pc \notin {"idle", "copy"} /\ job[k].op # "create" =>
                 /\ rows'[job[k].own].kind # "manual"
                 /\ rows'[job[k].own].protected
                 /\ rows'[job[k].own].archive # Absent
            /\ job[k].pc = "copy" => rows'[job[k].own].status = "pending"
            /\ job[k].pc = "copy" /\ job[k].op # "create" =>
                 /\ rows'[job[k].own].kind # "manual"
                 /\ rows'[job[k].own].protected
      BY <2>2, <2>6 DEF OwnInv, TypeOK, Row
    <2> QED
      BY <2>3, <2>4, <2>5, <2>7 DEF OwnInv, Idle
  <1>5. PlaceInv'
    BY DEF At, End, TypeOK, PlaceInv, LockInv, Replacing, Idle, Job
  <1>6. AbsenceInv'
    <2> SUFFICES ASSUME live' = Absent PROVE AbsenceInv'
      BY DEF AbsenceInv
    <2>1. PICK r \in RowIds :
            /\ rows[r].kind # "manual" /\ rows[r].protected /\ rows[r].archive # Absent
            /\ \A k \in Jobs : job[k].own = r => ~job[k].whole
      BY DEF AbsenceInv
    <2>2. \A k \in Jobs : job'[k].own = r => ~job'[k].whole
      BY <2>1, EndEffect DEF Idle, RowIds
    <2>3. rows'[r].kind # "manual" /\ rows'[r].protected /\ rows'[r].archive # Absent
      <3>1. \/ rows'[r] = rows[r]
            \/ /\ r = job[j].own
               /\ rows' = [rows EXCEPT ![r].protected = ~job[j].whole]
        <4>1. CASE UNCHANGED rows
          BY <4>1
        <4>2. CASE rows' = [rows EXCEPT ![job[j].own].protected = ~job[j].whole]
          BY <4>2 DEF TypeOK
        <4> QED
          BY <4>1, <4>2
      <3>2. (~job[j].whole) \in BOOLEAN
        BY Zenon
      <3>3. CASE rows'[r] = rows[r]
        BY <2>1, <3>3
      <3>4. CASE r = job[j].own /\ rows' = [rows EXCEPT ![r].protected = ~job[j].whole]
        BY <2>1, <3>2, <3>4, ProtectedWritten
      <3> QED
        BY <3>1, <3>3, <3>4
    <2> QED
      BY <2>1, <2>2, <2>3 DEF AbsenceInv
  <1> QED
    BY <1>1, <1>2, <1>3, <1>4, <1>5, <1>6

LEMMA BackupEditWritesStep ==
  ASSUME IInv, NEW j \in Jobs, EditWrites(j)
  PROVE  IInv'
  <1> USE NoJobAssumption, LimitAssumption, BoundAssumption, NamesAssumption DEF
     IInv, EditWrites
  <1>1. TypeOK'
    BY DEF At, Goto, TypeOK, Job, Steps, Replacing, Row, Contents
  <1>2. LockInv'
    BY DEF At, Goto, TypeOK, LockInv
  <1>3. RowInv'
    BY DEF At, Goto, TypeOK, RowInv
  <1>4. OwnInv'
    BY DEF At, Goto, TypeOK, OwnInv
  <1>5. PlaceInv'
    BY DEF At, Goto, TypeOK, PlaceInv, LockInv, Replacing
  <1>6. AbsenceInv'
    BY DEF At, Goto, TypeOK, AbsenceInv
  <1> QED
    BY <1>1, <1>2, <1>3, <1>4, <1>5, <1>6

LEMMA BackupEditFailsStep ==
  ASSUME IInv, NEW j \in Jobs, EditFails(j)
  PROVE  IInv'
  <1> USE NoJobAssumption, LimitAssumption, BoundAssumption, NamesAssumption DEF
     IInv, EditFails
  <1>1. TypeOK'
    BY DEF At, End, TypeOK, Job, Steps, Replacing, Idle
  <1>2. LockInv'
    BY DEF At, End, TypeOK, LockInv, Replacing, Idle
  <1>3. RowInv'
    BY DEF At, End, TypeOK, RowInv
  <1>4. OwnInv'
    BY DEF At, End, TypeOK, OwnInv, Idle, Job
  <1>5. PlaceInv'
    BY DEF At, End, TypeOK, PlaceInv, LockInv, Replacing, Idle, Job
  <1>6. AbsenceInv'
    BY DEF At, End, TypeOK, AbsenceInv, OwnInv, LockInv, PlaceInv, RowInv,
       Replacing, Row, RowIds, Idle, Job, NoRow, Contents
  <1> QED
    BY <1>1, <1>2, <1>3, <1>4, <1>5, <1>6

LEMMA EditStandsStep ==
  ASSUME IInv, NEW j \in Jobs, EditStands(j)
  PROVE  IInv'
  <1> USE NoJobAssumption, LimitAssumption, BoundAssumption, NamesAssumption DEF
     IInv, EditStands
  <1>1. TypeOK'
    <2>1. job[j].own \in RowIds
      BY OwnRow DEF At
    <2> QED
      BY <2>1, EndEffect, ProtectedWritten DEF TypeOK
  <1>2. LockInv'
    BY DEF At, End, TypeOK, LockInv, Replacing, Idle
  <1>3. RowInv'
    BY DEF At, End, TypeOK, RowInv, OwnInv, Row
  <1>4. OwnInv'
    BY DEF At, End, TypeOK, OwnInv, Idle, Job
  <1>5. PlaceInv'
    BY DEF At, End, TypeOK, PlaceInv, LockInv, Replacing, Idle, Job
  <1>6. AbsenceInv'
    <2> SUFFICES ASSUME live' = Absent PROVE AbsenceInv'
      BY DEF AbsenceInv
    <2>1. PICK r \in RowIds :
            /\ rows[r].kind # "manual" /\ rows[r].protected /\ rows[r].archive # Absent
            /\ \A k \in Jobs : job[k].own = r => ~job[k].whole
      BY DEF AbsenceInv
    <2>2. \A k \in Jobs : job'[k].own = r => ~job'[k].whole
      BY <2>1, EndEffect DEF Idle, RowIds
    <2>3. rows'[r].kind # "manual" /\ rows'[r].protected /\ rows'[r].archive # Absent
      <3>1. job[j].whole
        BY DEF At, PlaceInv, Replacing
      <3>2. r # job[j].own
        BY <2>1, <3>1
      <3> QED
        BY <2>1, <3>2 DEF TypeOK
    <2> QED
      BY <2>1, <2>2, <2>3 DEF AbsenceInv
  <1> QED
    BY <1>1, <1>2, <1>3, <1>4, <1>5, <1>6

LEMMA EditRecoversStep ==
  ASSUME IInv, NEW j \in Jobs, EditRecovers(j)
  PROVE  IInv'
  <1> USE NoJobAssumption, LimitAssumption, BoundAssumption, NamesAssumption DEF
     IInv, EditRecovers
  <1>1. TypeOK'
    BY DEF At, Goto, TypeOK, Job, Steps, Replacing
  <1>2. LockInv'
    BY DEF At, Goto, TypeOK, LockInv
  <1>3. RowInv'
    BY DEF At, Goto, TypeOK, RowInv
  <1>4. OwnInv'
    BY DEF At, Goto, TypeOK, OwnInv, LockInv, Replacing
  <1>5. PlaceInv'
    BY DEF At, Goto, TypeOK, PlaceInv, LockInv, Replacing
  <1>6. AbsenceInv'
    BY DEF At, Goto, TypeOK, AbsenceInv
  <1> QED
    BY <1>1, <1>2, <1>3, <1>4, <1>5, <1>6

LEMMA BackupBotWritesStep ==
  ASSUME IInv, BotWrites
  PROVE  IInv'
  <1> USE NoJobAssumption, LimitAssumption, BoundAssumption, NamesAssumption DEF
     IInv, BotWrites
  <1>1. TypeOK'
    BY DEF TypeOK, Job, Steps, Replacing, Row, Contents
  <1>2. LockInv'
    BY DEF TypeOK, LockInv
  <1>3. RowInv'
    BY DEF TypeOK, RowInv
  <1>4. OwnInv'
    BY DEF TypeOK, OwnInv
  <1>5. PlaceInv'
    BY DEF TypeOK, PlaceInv
  <1>6. AbsenceInv'
    BY DEF TypeOK, AbsenceInv
  <1> QED
    BY <1>1, <1>2, <1>3, <1>4, <1>5, <1>6

LEMMA BackupCrashStep ==
  ASSUME IInv, Crash
  PROVE  IInv'
  <1> USE NoJobAssumption, LimitAssumption, BoundAssumption, NamesAssumption DEF
     IInv, Crash
  <1>1. TypeOK'
    BY DEF At, TypeOK, Job, Steps, Replacing, Row, Contents, RowIds, Idle,
       NoRow, Kind, LockInv, OwnInv
  <1>2. LockInv'
    BY DEF At, TypeOK, LockInv, Replacing, Idle
  <1>3. RowInv'
    <2>1. \A r \in RowIds : rows'[r] = rows[r] \/ rows'[r] = NoRow
      OBVIOUS
    <2>2. NoRow.archive = Absent
      BY DEF NoRow
    <2> QED
      BY <2>1, <2>2 DEF RowInv
  <1>4. OwnInv'
    BY DEF At, TypeOK, OwnInv, Idle, Job
  <1>5. PlaceInv'
    BY DEF At, TypeOK, PlaceInv, LockInv, Replacing, Idle, Job
  <1>6. AbsenceInv'
    <2> SUFFICES ASSUME live' = Absent PROVE AbsenceInv'
      BY DEF AbsenceInv
    <2>1. PICK r \in RowIds :
            /\ rows[r].kind # "manual" /\ rows[r].protected /\ rows[r].archive # Absent
            /\ \A k \in Jobs : job[k].own = r => ~job[k].whole
      BY DEF AbsenceInv
    <2>2. \A k \in Jobs : job'[k].own = r => ~job'[k].whole
      BY DEF Idle, RowIds
    <2>3. rows'[r].kind # "manual" /\ rows'[r].protected /\ rows'[r].archive # Absent
      <3>1. rows[r].status # "pending"
        BY <2>1 DEF RowInv
      <3> QED
        BY <2>1, <3>1
    <2> QED
      BY <2>1, <2>2, <2>3 DEF AbsenceInv
  <1> QED
    BY <1>1, <1>2, <1>3, <1>4, <1>5, <1>6

\* Every step keeps the inductive invariant.
LEMMA BackupNextInv ==
  ASSUME IInv, [Next]_vars
  PROVE  IInv'
  <1>1. CASE UNCHANGED vars
    BY <1>1 DEF vars, IInv, TypeOK, LockInv, RowInv, OwnInv, PlaceInv, AbsenceInv
  <1>2. ASSUME NEW j \in Jobs, Request(j) PROVE IInv'
    BY <1>2, RequestBackupStep, RequestRestoreStep, RequestEditStep DEF Request
  <1>3. ASSUME NEW j \in Jobs, JobStep(j) PROVE IInv'
    BY <1>3, FinishCopyStep, FailCopyStep, RetainStep, CleanStep, AcceptStep,
       RefuseStep, PrepareRaisesStep, ExtractStep, NothingMovedStep,
       MoveAsideStep, MoveInStep, ValidateStep, RemoveAsideStep, FailsStep,
       CommitStep, UndoStep, PutBackStep, UndoFailsStep, ReportStep,
       BackupEditWritesStep, BackupEditFailsStep, EditStandsStep, EditRecoversStep DEF
       JobStep
  <1> QED
    BY <1>1, <1>2, <1>3, PinStep, BackupBotWritesStep, BackupCrashStep DEF Next

\* The inductive invariant: types, and the lock, row, ownership and directory
\* discipline of BackupService.
THEOREM BackupInvariance == Spec => []IInv
  <1>1. Init => IInv
    BY BackupInitInv
  <1>2. IInv /\ [Next]_vars => IInv'
    BY BackupNextInv
  <1> QED
    BY <1>1, <1>2, PTL DEF Spec

\* Every variable keeps its type.
THEOREM BackupTypeCorrect == Spec => []TypeOK
  <1>1. IInv => TypeOK
    BY DEF IInv
  <1> QED
    BY <1>1, BackupInvariance, PTL

\* Whenever the data directory is missing, a protected safety backup with its
\* archive exists, for any limit of retention and any number of requests
\* (backups.py 246-313).
THEOREM Recoverable == Spec => []AbsenceIsRecoverable
  <1>1. IInv => AbsenceIsRecoverable
    BY DEF IInv, AbsenceInv, AbsenceIsRecoverable
  <1> QED
    BY <1>1, BackupInvariance, PTL

-------------------------------------------------------------------------------
\* Sets of rows are finite, and some row of each is its newest.
LEMMA FiniteRows ==
  ASSUME NEW S \in SUBSET RowIds
  PROVE  IsFiniteSet(S) /\ Cardinality(S) \in Nat
  <1>1. IsFiniteSet(RowIds)
    BY FS_Interval, BoundAssumption DEF RowIds
  <1> QED
    BY <1>1, FS_Subset, FS_CardinalityType

LEMMA Newest ==
  ASSUME NEW S \in SUBSET RowIds, S # {}
  PROVE  \E m \in S : \A r \in S : r <= m
  <1> DEFINE less == OpToRel(<, Nat)
             T == {n \in Nat : \E r \in S : n = MaxRows - r}
  <1>1. PICK r0 \in S : TRUE
    OBVIOUS
  <1>2. MaxRows - r0 \in T
    BY <1>1, BoundAssumption DEF RowIds
  <1>3. PICK n \in T : \A y \in T : ~(<<y, n>> \in less)
    <2>1. T \subseteq Nat /\ T # {}
      BY <1>2
    <2> HIDE DEF T, less
    <2>2. IsWellFoundedOn(less, Nat)
      BY NatLessThanWellFounded DEF less
    <2> QED
      BY <2>1, <2>2, WFMin
  <1>4. \A y \in T : ~(y < n)
    BY <1>3 DEF OpToRel
  <1>5. PICK m \in S : n = MaxRows - m
    BY <1>3
  <1>6. ASSUME NEW r \in S PROVE r <= m
    <2>1. MaxRows - r \in T
      BY BoundAssumption DEF RowIds
    <2>2. ~(MaxRows - r < MaxRows - m)
      BY <2>1, <1>4, <1>5
    <2>3. r \in Int /\ m \in Int /\ MaxRows \in Int
      BY BoundAssumption DEF RowIds
    <2> QED
      BY <2>2, <2>3
  <1> QED
    BY <1>6

\* Of a larger set of rows, at least as many are newer than a row.
LEMMA MoreRows ==
  ASSUME NEW M \in SUBSET RowIds, NEW L \in SUBSET RowIds, M \subseteq L, NEW r \in RowIds,
         NEW k \in Nat, Cardinality({s \in M : s > r}) >= k
  PROVE  Cardinality({s \in L : s > r}) >= k
  <1> DEFINE T == {s \in M : s > r}
             U == {s \in L : s > r}
  <1>1. T \subseteq U /\ U \in SUBSET RowIds /\ T \in SUBSET RowIds
    OBVIOUS
  <1> HIDE DEF T, U
  <1>2. Cardinality(T) <= Cardinality(U)
    BY <1>1, FiniteRows, FS_Subset
  <1>3. Cardinality(U) >= k
    <2>1. Cardinality(T) >= k
      BY DEF T
    <2> QED
      BY <2>1, <1>1, <1>2, FiniteRows
  <1> QED
    BY <1>3 DEF U

\* If rows are removed each of which has k newer ones, what had k newer ones still
\* has: the newest k were not removed.
LEMMA Removing ==
  ASSUME NEW M \in SUBSET RowIds, NEW R \in SUBSET RowIds, NEW k \in Nat,
         \A r \in R : Cardinality({s \in M : s > r}) >= k,
         NEW r \in RowIds, Cardinality({s \in M : s > r}) >= k
  PROVE  Cardinality({s \in M \ R : s > r}) >= k
  <1> DEFINE T == {s \in M : s > r}
             U == {s \in M \ R : s > r}
  <1>1. CASE T \cap R = {}
    <2>1. U = T
      BY <1>1
    <2> QED
      BY <2>1
  <1>2. CASE T \cap R # {}
    <2>1. PICK m \in T \cap R : \A x \in T \cap R : x <= m
      BY <1>2, Newest
    <2> DEFINE V == {s \in M : s > m}
    <2>2. V \subseteq U
      <3> SUFFICES ASSUME NEW s \in M, s > m PROVE s \notin R /\ s > r
        OBVIOUS
      <3>1. s > r
        BY BoundAssumption DEF RowIds
      <3>2. s \notin R
        BY <2>1, <3>1, BoundAssumption DEF RowIds
      <3> QED
        BY <3>1, <3>2
    <2>3. Cardinality(V) >= k
      BY <2>1
    <2>4. U \in SUBSET RowIds
      OBVIOUS
    <2> HIDE DEF U, V
    <2>5. Cardinality(V) <= Cardinality(U)
      BY <2>2, <2>4, FiniteRows, FS_Subset
    <2>6. Cardinality(V) \in Nat /\ Cardinality(U) \in Nat
      BY <2>2, <2>4, FiniteRows
    <2>7. Cardinality(U) >= k
      BY <2>3, <2>5, <2>6
    <2> QED
      BY <2>7 DEF U
  <1> QED
    BY <1>1, <1>2

\* What every step but a cleanup keeps: the manual backups, the archives, and what a
\* cleanup is about to remove, which only the loading of it extends.
RowsKept ==
  /\ Manual \subseteq Manual'
  /\ \A r \in RowIds : rows[r].archive # Absent => rows'[r].archive # Absent
DoomedKept ==
  \A k \in Jobs : job'[k].doomed \subseteq job[k].doomed \cup Doomed

LEMMA SameRows ==
  ASSUME UNCHANGED rows
  PROVE  RowsKept
  BY DEF RowsKept, Manual, Visible

LEMMA SimilarRows ==
  ASSUME \A r \in RowIds :
           /\ rows'[r].kind = rows[r].kind
           /\ rows[r].archive # Absent => rows'[r].archive # Absent
           /\ rows[r].status \in {"verified", "failed"} => rows'[r].status \in {"verified", "failed"}
  PROVE  RowsKept
  BY DEF RowsKept, Manual, Visible

\* One lemma for each action but the cleanup.
LEMMA RequestBackupKeeps ==
  ASSUME IInv, NEW j \in Jobs, RequestBackup(j)
  PROVE  RowsKept /\ DoomedKept
  <1> USE DEF IInv, RequestBackup
  <1>1. RowsKept
    <2>1. PICK target \in 0 .. MaxRows : Begin(j, "create", target)
      BY BoundAssumption DEF Visible, RowIds
    <2>2. rows[last + 1] = NoRow
      BY <2>1, BeginEffect DEF RowInv, TypeOK, RowIds
    <2>3. \A r \in RowIds : rows'[r] # rows[r] => rows[r] = NoRow
      BY <2>1, <2>2, BeginEffect
    <2> QED
      BY <2>3 DEF RowsKept, Manual, Visible, NoRow
  <1>2. DoomedKept
    <2>1. PICK target \in 0 .. MaxRows : Begin(j, "create", target)
      BY BoundAssumption DEF Visible, RowIds
    <2>2. \A k \in Jobs : k # j => job'[k] = job[k]
      BY <2>1 DEF Begin, TypeOK
    <2>3. job'[j].doomed = {}
      BY <2>1 DEF Begin, TypeOK, Idle
    <2> QED
      BY <2>2, <2>3 DEF DoomedKept
  <1> QED
    BY <1>1, <1>2

LEMMA RequestRestoreKeeps ==
  ASSUME IInv, NEW j \in Jobs, RequestRestore(j)
  PROVE  RowsKept /\ DoomedKept
  <1> USE DEF IInv, RequestRestore
  <1>1. RowsKept
    <2>1. PICK target \in 0 .. MaxRows : Begin(j, "restore", target)
      BY BoundAssumption DEF Visible, RowIds
    <2>2. rows[last + 1] = NoRow
      BY <2>1, BeginEffect DEF RowInv, TypeOK, RowIds
    <2>3. \A r \in RowIds : rows'[r] # rows[r] => rows[r] = NoRow
      BY <2>1, <2>2, BeginEffect
    <2> QED
      BY <2>3 DEF RowsKept, Manual, Visible, NoRow
  <1>2. DoomedKept
    <2>1. PICK target \in 0 .. MaxRows : Begin(j, "restore", target)
      BY BoundAssumption DEF Visible, RowIds
    <2>2. \A k \in Jobs : k # j => job'[k] = job[k]
      BY <2>1 DEF Begin, TypeOK
    <2>3. job'[j].doomed = {}
      BY <2>1 DEF Begin, TypeOK, Idle
    <2> QED
      BY <2>2, <2>3 DEF DoomedKept
  <1> QED
    BY <1>1, <1>2

LEMMA RequestEditKeeps ==
  ASSUME IInv, NEW j \in Jobs, RequestEdit(j)
  PROVE  RowsKept /\ DoomedKept
  <1> USE DEF IInv, RequestEdit
  <1>1. RowsKept
    <2>1. PICK target \in 0 .. MaxRows : Begin(j, "edit", target)
      BY BoundAssumption DEF Visible, RowIds
    <2>2. rows[last + 1] = NoRow
      BY <2>1, BeginEffect DEF RowInv, TypeOK, RowIds
    <2>3. \A r \in RowIds : rows'[r] # rows[r] => rows[r] = NoRow
      BY <2>1, <2>2, BeginEffect
    <2> QED
      BY <2>3 DEF RowsKept, Manual, Visible, NoRow
  <1>2. DoomedKept
    <2>1. PICK target \in 0 .. MaxRows : Begin(j, "edit", target)
      BY BoundAssumption DEF Visible, RowIds
    <2>2. \A k \in Jobs : k # j => job'[k] = job[k]
      BY <2>1 DEF Begin, TypeOK
    <2>3. job'[j].doomed = {}
      BY <2>1 DEF Begin, TypeOK, Idle
    <2> QED
      BY <2>2, <2>3 DEF DoomedKept
  <1> QED
    BY <1>1, <1>2

LEMMA FinishCopyKeeps ==
  ASSUME IInv, NEW j \in Jobs, FinishCopy(j)
  PROVE  RowsKept /\ DoomedKept
  <1> USE DEF IInv, FinishCopy
  <1>1. RowsKept
    <2>1. job[j].own \in RowIds
      BY OwnRow DEF At
    <2>2. PICK copy \in Contents : rows' = [rows EXCEPT ![job[j].own].status = "verified",
                                                        ![job[j].own].archive = copy]
      BY DEF TypeOK, Contents, Rooted
    <2>3. copy # Absent
      BY NamesAssumption DEF Contents
    <2> QED
      BY <2>1, <2>2, <2>3, SimilarRows DEF TypeOK, Row
  <1>2. DoomedKept
    BY DEF DoomedKept, TypeOK, Job, Goto
  <1> QED
    BY <1>1, <1>2

LEMMA FailCopyKeeps ==
  ASSUME IInv, NEW j \in Jobs, FailCopy(j)
  PROVE  RowsKept /\ DoomedKept
  <1> USE DEF IInv, FailCopy
  <1>1. RowsKept
    <2>1. job[j].own \in RowIds
      BY OwnRow DEF At
    <2> QED
      BY <2>1, StatusWritten, SimilarRows DEF TypeOK
  <1>2. DoomedKept
    BY EndEffect DEF DoomedKept, Idle
  <1> QED
    BY <1>1, <1>2

LEMMA RetainKeeps ==
  ASSUME IInv, NEW j \in Jobs, Retain(j)
  PROVE  RowsKept /\ DoomedKept
  <1> USE DEF IInv, Retain
  <1>1. RowsKept
    BY SameRows
  <1>2. DoomedKept
    BY DEF DoomedKept, AfterBackup, End, TypeOK, Job, Idle
  <1> QED
    BY <1>1, <1>2

LEMMA AcceptKeeps ==
  ASSUME IInv, NEW j \in Jobs, Accept(j)
  PROVE  RowsKept /\ DoomedKept
  <1> USE DEF IInv, Accept
  <1>1. RowsKept
    BY SameRows
  <1>2. DoomedKept
    BY DEF DoomedKept, TypeOK, Job, Goto
  <1> QED
    BY <1>1, <1>2

LEMMA RefuseKeeps ==
  ASSUME IInv, NEW j \in Jobs, Refuse(j)
  PROVE  RowsKept /\ DoomedKept
  <1> USE DEF IInv, Refuse
  <1>1. RowsKept
    <2>1. job[j].target # 0 => job[j].target \in RowIds
      BY BoundAssumption DEF TypeOK, Job, RowIds
    <2>2. CASE UNCHANGED rows
      BY <2>2, SameRows
    <2>3. CASE job[j].target # 0 /\ rows' = [rows EXCEPT ![job[j].target].status = "failed"]
      BY <2>1, <2>3, StatusWritten, SimilarRows
    <2> QED
      BY <2>2, <2>3
  <1>2. DoomedKept
    BY EndEffect DEF DoomedKept, Idle
  <1> QED
    BY <1>1, <1>2

LEMMA PrepareRaisesKeeps ==
  ASSUME IInv, NEW j \in Jobs, PrepareRaises(j)
  PROVE  RowsKept /\ DoomedKept
  <1> USE DEF IInv, PrepareRaises
  <1>1. RowsKept
    BY SameRows
  <1>2. DoomedKept
    BY EndEffect DEF DoomedKept, Idle
  <1> QED
    BY <1>1, <1>2

LEMMA ExtractKeeps ==
  ASSUME IInv, NEW j \in Jobs, Extract(j)
  PROVE  RowsKept /\ DoomedKept
  <1> USE DEF IInv, Extract
  <1>1. RowsKept
    BY SameRows
  <1>2. DoomedKept
    BY DEF DoomedKept, TypeOK, Job, Goto
  <1> QED
    BY <1>1, <1>2

LEMMA NothingMovedKeeps ==
  ASSUME IInv, NEW j \in Jobs, NothingMoved(j)
  PROVE  RowsKept /\ DoomedKept
  <1> USE DEF IInv, NothingMoved
  <1>1. RowsKept
    BY SameRows
  <1>2. DoomedKept
    BY DEF DoomedKept, TypeOK, Job, Goto
  <1> QED
    BY <1>1, <1>2

LEMMA MoveAsideKeeps ==
  ASSUME IInv, NEW j \in Jobs, MoveAside(j)
  PROVE  RowsKept /\ DoomedKept
  <1> USE DEF IInv, MoveAside
  <1>1. RowsKept
    BY SameRows
  <1>2. DoomedKept
    BY DEF DoomedKept, TypeOK, Job, Goto
  <1> QED
    BY <1>1, <1>2

LEMMA MoveInKeeps ==
  ASSUME IInv, NEW j \in Jobs, MoveIn(j)
  PROVE  RowsKept /\ DoomedKept
  <1> USE DEF IInv, MoveIn
  <1>1. RowsKept
    BY SameRows
  <1>2. DoomedKept
    BY DEF DoomedKept, TypeOK, Job, Goto
  <1> QED
    BY <1>1, <1>2

LEMMA ValidateKeeps ==
  ASSUME IInv, NEW j \in Jobs, Validate(j)
  PROVE  RowsKept /\ DoomedKept
  <1> USE DEF IInv, Validate
  <1>1. RowsKept
    BY SameRows
  <1>2. DoomedKept
    BY DEF DoomedKept, TypeOK, Job, Goto
  <1> QED
    BY <1>1, <1>2

LEMMA RemoveAsideKeeps ==
  ASSUME IInv, NEW j \in Jobs, RemoveAside(j)
  PROVE  RowsKept /\ DoomedKept
  <1> USE DEF IInv, RemoveAside
  <1>1. RowsKept
    BY SameRows
  <1>2. DoomedKept
    BY DEF DoomedKept, TypeOK, Job, Goto
  <1> QED
    BY <1>1, <1>2

LEMMA FailsKeeps ==
  ASSUME IInv, NEW j \in Jobs, Fails(j)
  PROVE  RowsKept /\ DoomedKept
  <1> USE DEF IInv, Fails
  <1>1. RowsKept
    BY SameRows
  <1>2. DoomedKept
    BY DEF DoomedKept, TypeOK, Job, Goto
  <1> QED
    BY <1>1, <1>2

LEMMA CommitKeeps ==
  ASSUME IInv, NEW j \in Jobs, Commit(j)
  PROVE  RowsKept /\ DoomedKept
  <1> USE DEF IInv, Commit
  <1>1. RowsKept
    <2>1. job[j].own \in RowIds
      BY OwnRow DEF At
    <2>2. CASE UNCHANGED rows
      BY <2>2, SameRows
    <2>3. CASE rows' = [rows EXCEPT ![job[j].own].protected = FALSE]
      BY <2>1, <2>3, ProtectedWritten, SimilarRows
    <2> QED
      BY <2>2, <2>3
  <1>2. DoomedKept
    BY EndEffect DEF DoomedKept, Idle
  <1> QED
    BY <1>1, <1>2

LEMMA UndoKeeps ==
  ASSUME IInv, NEW j \in Jobs, Undo(j)
  PROVE  RowsKept /\ DoomedKept
  <1> USE DEF IInv, Undo
  <1>1. RowsKept
    BY SameRows
  <1>2. DoomedKept
    BY DEF DoomedKept, TypeOK, Job, Goto
  <1> QED
    BY <1>1, <1>2

LEMMA PutBackKeeps ==
  ASSUME IInv, NEW j \in Jobs, PutBack(j)
  PROVE  RowsKept /\ DoomedKept
  <1> USE DEF IInv, PutBack
  <1>1. RowsKept
    BY SameRows
  <1>2. DoomedKept
    BY DEF DoomedKept, TypeOK, Job, Goto
  <1> QED
    BY <1>1, <1>2

LEMMA UndoFailsKeeps ==
  ASSUME IInv, NEW j \in Jobs, UndoFails(j)
  PROVE  RowsKept /\ DoomedKept
  <1> USE DEF IInv, UndoFails
  <1>1. RowsKept
    BY SameRows
  <1>2. DoomedKept
    BY DEF DoomedKept, TypeOK, Job, Goto
  <1> QED
    BY <1>1, <1>2

LEMMA ReportKeeps ==
  ASSUME IInv, NEW j \in Jobs, Report(j)
  PROVE  RowsKept /\ DoomedKept
  <1> USE DEF IInv, Report
  <1>1. RowsKept
    <2>1. job[j].own \in RowIds
      BY OwnRow DEF At
    <2>2. CASE UNCHANGED rows
      BY <2>2, SameRows
    <2>3. CASE rows' = [rows EXCEPT ![job[j].own].protected = ~job[j].whole]
      <3>1. (~job[j].whole) \in BOOLEAN
        BY Zenon
      <3> QED
        BY <2>1, <2>3, <3>1, ProtectedWritten, SimilarRows
    <2> QED
      BY <2>2, <2>3
  <1>2. DoomedKept
    BY EndEffect DEF DoomedKept, Idle
  <1> QED
    BY <1>1, <1>2

LEMMA EditWritesKeeps ==
  ASSUME IInv, NEW j \in Jobs, EditWrites(j)
  PROVE  RowsKept /\ DoomedKept
  <1> USE DEF IInv, EditWrites
  <1>1. RowsKept
    BY SameRows
  <1>2. DoomedKept
    BY DEF DoomedKept, TypeOK, Job, Goto
  <1> QED
    BY <1>1, <1>2

LEMMA EditFailsKeeps ==
  ASSUME IInv, NEW j \in Jobs, EditFails(j)
  PROVE  RowsKept /\ DoomedKept
  <1> USE DEF IInv, EditFails
  <1>1. RowsKept
    BY SameRows
  <1>2. DoomedKept
    BY EndEffect DEF DoomedKept, Idle
  <1> QED
    BY <1>1, <1>2

LEMMA EditStandsKeeps ==
  ASSUME IInv, NEW j \in Jobs, EditStands(j)
  PROVE  RowsKept /\ DoomedKept
  <1> USE DEF IInv, EditStands
  <1>1. RowsKept
    <2>1. job[j].own \in RowIds
      BY OwnRow DEF At
    <2> QED
      BY <2>1, ProtectedWritten, SimilarRows
  <1>2. DoomedKept
    BY EndEffect DEF DoomedKept, Idle
  <1> QED
    BY <1>1, <1>2

LEMMA EditRecoversKeeps ==
  ASSUME IInv, NEW j \in Jobs, EditRecovers(j)
  PROVE  RowsKept /\ DoomedKept
  <1> USE DEF IInv, EditRecovers
  <1>1. RowsKept
    BY SameRows
  <1>2. DoomedKept
    BY DEF DoomedKept, TypeOK, Job, Goto
  <1> QED
    BY <1>1, <1>2

LEMMA PinKeeps ==
  ASSUME IInv, NEW r \in RowIds, Pin(r)
  PROVE  RowsKept /\ DoomedKept
  <1> USE DEF IInv, Pin
  <1>1. RowsKept
    BY SimilarRows DEF TypeOK, Row
  <1>2. DoomedKept
    BY DEF DoomedKept
  <1> QED
    BY <1>1, <1>2

LEMMA BotWritesKeeps ==
  ASSUME IInv, BotWrites
  PROVE  RowsKept /\ DoomedKept
  <1> USE DEF IInv, BotWrites
  <1>1. RowsKept
    BY SameRows
  <1>2. DoomedKept
    BY DEF DoomedKept
  <1> QED
    BY <1>1, <1>2

LEMMA CrashKeeps ==
  ASSUME IInv, Crash
  PROVE  RowsKept /\ DoomedKept
  <1> USE DEF IInv, Crash
  <1>1. RowsKept
    <2>1. \A r \in RowIds : rows[r].status # "pending" => rows'[r] = rows[r]
      OBVIOUS
    <2>2. \A r \in RowIds : rows[r].archive # Absent => rows[r].status # "pending"
      BY DEF RowInv
    <2> QED
      BY <2>1, <2>2 DEF RowsKept, Manual, Visible
  <1>2. DoomedKept
    BY DEF DoomedKept, Idle
  <1> QED
    BY <1>1, <1>2

\* A cleanup removes only what it has loaded.
LEMMA CleanRemoves ==
  ASSUME IInv, NEW j \in Jobs, Clean(j)
  PROVE  \E removed \in SUBSET job[j].doomed :
           /\ \A r \in RowIds \ removed : rows'[r] = rows[r]
           /\ DoomedKept
  <1>1. PICK removed \in SUBSET job[j].doomed :
          \A r \in RowIds \ removed : rows'[r] = rows[r]
    BY DEF Clean
  <1>2. DoomedKept
    BY DEF IInv, Clean, AfterBackup, End, DoomedKept, TypeOK, Job, Idle
  <1> QED
    BY <1>1, <1>2

\* A step is a cleanup, or keeps the rows and their archives.
LEMMA StepKeeps ==
  ASSUME IInv, [Next]_vars
  PROVE  (RowsKept /\ DoomedKept) \/ \E j \in Jobs : Clean(j)
  <1>1. CASE UNCHANGED vars
    BY <1>1, SameRows DEF vars, DoomedKept
  <1>2. ASSUME NEW j \in Jobs, Request(j) PROVE RowsKept /\ DoomedKept
    BY <1>2, RequestBackupKeeps, RequestRestoreKeeps, RequestEditKeeps DEF Request
  <1>3. ASSUME NEW j \in Jobs, JobStep(j) PROVE (RowsKept /\ DoomedKept) \/ Clean(j)
    BY <1>3, FinishCopyKeeps, FailCopyKeeps, RetainKeeps, AcceptKeeps, RefuseKeeps,
       PrepareRaisesKeeps, ExtractKeeps, NothingMovedKeeps, MoveAsideKeeps,
       MoveInKeeps, ValidateKeeps, RemoveAsideKeeps, FailsKeeps, CommitKeeps,
       UndoKeeps, PutBackKeeps, UndoFailsKeeps, ReportKeeps, EditWritesKeeps,
       EditFailsKeeps, EditStandsKeeps, EditRecoversKeeps DEF JobStep
  <1> QED
    BY <1>1, <1>2, <1>3, PinKeeps, BotWritesKeeps, CrashKeeps DEF Next

\* Every step keeps the invariant of retention.
LEMMA RetentionKept ==
  ASSUME IInv, RetentionInv, [Next]_vars
  PROVE  RetentionInv'
  <1> SUFFICES ASSUME NEW k \in Jobs, NEW r \in job'[k].doomed
               PROVE  Cardinality(Newer(r)') >= Limit
    BY DEF RetentionInv
  <1>1. Manual \in SUBSET RowIds /\ Manual' \in SUBSET RowIds
    BY DEF Manual, Visible
  <1>2. \A i \in Jobs : job[i].doomed \subseteq RowIds
    BY DEF IInv, TypeOK, Job
  <1>3. \A d \in Doomed : d \in RowIds /\ Cardinality(Newer(d)) >= Limit
    BY DEF Doomed, Manual, Visible
  <1>4. \A i \in Jobs : \A d \in job[i].doomed : Cardinality(Newer(d)) >= Limit
    BY DEF RetentionInv
  <1>5. DoomedKept
    BY StepKeeps, CleanRemoves
  <1>6. r \in RowIds /\ Cardinality(Newer(r)) >= Limit
    BY <1>2, <1>3, <1>4, <1>5 DEF DoomedKept
  <1>7. Limit \in Nat
    BY LimitAssumption
  <1>8. CASE RowsKept
    <2>1. Manual \subseteq Manual'
      BY <1>8 DEF RowsKept
    <2>2. Cardinality({s \in Manual : s > r}) >= Limit
      BY <1>6 DEF Newer
    <2>3. Cardinality({s \in Manual' : s > r}) >= Limit
      BY <1>1, <1>6, <1>7, <2>1, <2>2, MoreRows
    <2> QED
      BY <2>3 DEF Newer
  <1>9. CASE \E j \in Jobs : Clean(j)
    <2>1. PICK j \in Jobs : Clean(j)
      BY <1>9
    <2>2. PICK removed \in SUBSET job[j].doomed : \A s \in RowIds \ removed : rows'[s] = rows[s]
      BY <2>1, CleanRemoves
    <2>3. Manual \ removed \subseteq Manual'
      BY <2>2 DEF Manual, Visible
    <2>4. removed \in SUBSET RowIds
      BY <1>2
    <2>5. \A d \in removed : Cardinality({s \in Manual : s > d}) >= Limit
      BY <1>4 DEF Newer
    <2>6. Cardinality({s \in Manual : s > r}) >= Limit
      BY <1>6 DEF Newer
    <2>7. Cardinality({s \in Manual \ removed : s > r}) >= Limit
      BY <1>1, <1>6, <1>7, <2>4, <2>5, <2>6, Removing
    <2>8. Cardinality({s \in Manual' : s > r}) >= Limit
      BY <1>1, <1>6, <1>7, <2>3, <2>7, MoreRows
    <2> QED
      BY <2>8 DEF Newer
  <1> QED
    BY <1>8, <1>9, StepKeeps

\* However many requests clean up with sets of rows loaded long ago, an archive is
\* removed only from a manual backup that Limit newer ones follow: retention
\* preserves the newest backup_retention_manual (backups.py 303-313).
THEOREM NewestPreserved == Spec => PreservesNewest
  <1>1. Init => RetentionInv
    BY DEF Init, RetentionInv, Idle
  <1>2. IInv /\ RetentionInv /\ [Next]_vars => RetentionInv'
    BY RetentionKept
  <1>3. IInv /\ RetentionInv /\ [Next]_vars
        => [\A r \in RowIds :
              /\ rows[r].kind = "manual"
              /\ rows[r].archive # Absent
              /\ rows'[r].archive = Absent
              => Cardinality(Newer(r)) >= Limit]_vars
    <2> SUFFICES ASSUME IInv, RetentionInv, [Next]_vars, NEW r \in RowIds,
                        rows[r].archive # Absent, rows'[r].archive = Absent
                 PROVE  Cardinality(Newer(r)) >= Limit
      OBVIOUS
    <2>1. PICK j \in Jobs : Clean(j)
      BY StepKeeps DEF RowsKept
    <2>2. r \in job[j].doomed
      BY <2>1, CleanRemoves
    <2> QED
      BY <2>2 DEF RetentionInv
  <1> QED
    BY <1>1, <1>2, <1>3, BackupInvariance, PTL DEF Spec, PreservesNewest

-------------------------------------------------------------------------------
\* The refinement.  A request that is not in the middle of a replacement leaves the
\* phase as it is, whatever its next step and whether it takes or gives back the lock.
LEMMA SamePhase ==
  ASSUME IInv, NEW j \in Jobs,
         live = Absent <=> live' = Absent, UNCHANGED aside,
         \A k \in Jobs \ {j} : job'[k] = job[k],
         job[j].pc \notin {"validate", "remove", "commit", "undo", "report"},
         job'[j].pc \notin {"commit", "undo"},
         \/ lock' = lock
         \/ lock = NoJob /\ lock' = j
         \/ lock = j /\ lock' = NoJob
  PROVE  Phase' = Phase
  <1>1. CASE live = Absent
    BY <1>1 DEF Phase
  <1>2. CASE live # Absent /\ aside # Absent
    BY <1>2 DEF Phase
  <1>3. CASE live # Absent /\ aside = Absent
    <2>1. lock' # NoJob /\ job'[lock'].pc \in {"commit", "undo"}
            <=> lock # NoJob /\ job[lock].pc \in {"commit", "undo"}
      BY NoJobAssumption DEF IInv, TypeOK
    <2> QED
      BY <1>3, <2>1 DEF Phase
  <1> QED
    BY <1>1, <1>2, <1>3

\* What such a step does to the data's place: it stays, or is written.
LEMMA SamePlace ==
  ASSUME UNCHANGED <<live, aside, archived>>, Phase' = Phase
  PROVE  UNCHANGED Replaced!replaceVars
  BY DEF Replaced!replaceVars, Data, Kept

\* The request whose replacement is under way holds the lock.
LEMMA Replacer ==
  ASSUME IInv, NEW j \in Jobs, job[j].pc \in Replacing \cup {"prepare", "aside", "report"}
  PROVE  lock = j /\ lock # NoJob
  BY NoJobAssumption DEF IInv, LockInv

\* One lemma for each kind of step.
LEMMA QuietRefines ==
  ASSUME IInv, NEW j \in Jobs,
         \/ RequestBackup(j) \/ RequestRestore(j) \/ RequestEdit(j)
         \/ FailCopy(j) \/ Retain(j) \/ Clean(j) \/ Accept(j) \/ Refuse(j)
         \/ PrepareRaises(j) \/ Extract(j) \/ NothingMoved(j)
         \/ EditFails(j) \/ EditStands(j) \/ EditRecovers(j)
  PROVE  UNCHANGED Replaced!replaceVars
  <1>1. UNCHANGED <<live, aside, archived>>
    BY DEF RequestBackup, RequestRestore, RequestEdit, Begin, FailCopy, Retain, Clean, Accept,
           Refuse, PrepareRaises, Extract, NothingMoved, EditFails, EditStands, EditRecovers
  <1>2. job[j].pc \in {"idle", "copy", "retain", "clean", "check", "prepare", "aside",
                       "write", "judge"}
    BY DEF RequestBackup, RequestRestore, RequestEdit, Begin, FailCopy, Retain, Clean, Accept,
           Refuse, PrepareRaises, Extract, NothingMoved, EditFails, EditStands, EditRecovers, At
  <1>3. job'[j].pc \notin {"commit", "undo"} /\ \A k \in Jobs \ {j} : job'[k] = job[k]
    <2>1. CASE RequestBackup(j) \/ RequestRestore(j) \/ RequestEdit(j)
      <3>1. \E op \in {"create", "restore", "edit"}, target \in Nat : Begin(j, op, target)
        BY <2>1 DEF RequestBackup, RequestRestore, RequestEdit, Visible, RowIds
      <3>2. PICK op \in {"create", "restore", "edit"}, target \in Nat : Begin(j, op, target)
        BY <3>1
      <3>3. job'[j].pc = "copy"
        BY <3>2 DEF Begin, IInv, TypeOK, Idle
      <3>4. \A k \in Jobs \ {j} : job'[k] = job[k]
        BY <3>2 DEF Begin, IInv, TypeOK
      <3> QED
        BY <3>3, <3>4
    <2>2. CASE FailCopy(j) \/ Refuse(j) \/ PrepareRaises(j) \/ EditFails(j) \/ EditStands(j)
      BY <2>2 DEF FailCopy, Refuse, PrepareRaises, EditFails, EditStands, End, IInv, TypeOK, Idle
    <2>3. CASE Retain(j) \/ Clean(j)
      <3>1. \/ AfterBackup(j)
            \/ job' = [job EXCEPT ![j].pc = "clean", ![j].doomed = Doomed]
        BY <2>3 DEF Retain, Clean
      <3>2. CASE AfterBackup(j)
        BY <3>2 DEF AfterBackup, End, IInv, TypeOK, Job, Idle
      <3>3. CASE job' = [job EXCEPT ![j].pc = "clean", ![j].doomed = Doomed]
        BY <3>3 DEF IInv, TypeOK, Job
      <3> QED
        BY <3>1, <3>2, <3>3
    <2>4. CASE Accept(j) \/ Extract(j) \/ NothingMoved(j) \/ EditRecovers(j)
      <3>1. \/ job' = [job EXCEPT ![j].pc = "prepare"]
            \/ job' = [job EXCEPT ![j].pc = "report"]
            \/ job' = [job EXCEPT ![j].pc = "aside",
                                  ![j].staged = rows[job[j].target].archive]
        BY <2>4 DEF Accept, Extract, NothingMoved, EditRecovers, Goto
      <3> QED
        BY <3>1 DEF IInv, TypeOK, Job
    <2> QED
      BY <2>1, <2>2, <2>3, <2>4
  <1>4. \/ lock' = lock
        \/ lock = NoJob /\ lock' = j
        \/ lock = j /\ lock' = NoJob
    BY DEF RequestBackup, RequestRestore, RequestEdit, Begin, FailCopy, Retain, Clean, Accept,
           Refuse, PrepareRaises, Extract, NothingMoved, EditFails, EditStands, EditRecovers,
           AfterBackup, End
  <1>5. Phase' = Phase
    BY <1>1, <1>2, <1>3, <1>4, SamePhase
  <1> QED
    BY <1>1, <1>5, SamePlace

LEMMA CopyRefines ==
  ASSUME IInv, NEW j \in Jobs, FinishCopy(j)
  PROVE  Replaced!Archive
  <1>1. \E c \in Contents : archived' = archived \cup {c}
    BY DEF FinishCopy, IInv, TypeOK, Contents, Rooted
  <1>2. Phase' = Phase
    <2>1. job'[j].pc = "retain" /\ \A k \in Jobs \ {j} : job'[k] = job[k]
      BY DEF FinishCopy, Goto, IInv, TypeOK
    <2> QED
      BY <2>1, SamePhase DEF FinishCopy, At
  <1> QED
    BY <1>1, <1>2 DEF Replaced!Archive, FinishCopy, Data, Kept

\* The write of an edit, and of the bot itself.
LEMMA WriteRefines ==
  ASSUME IInv, (\E j \in Jobs : EditWrites(j)) \/ BotWrites
  PROVE  Replaced!Write
  <1>1. live # Absent /\ live' \in Contents /\ live' # Absent /\ UNCHANGED <<aside, archived>>
    BY NamesAssumption, WriteIsContents DEF EditWrites, BotWrites, IInv, TypeOK, Contents
  <1>2. Phase' = Phase
    <2>1. CASE BotWrites
      BY <1>1, <2>1 DEF BotWrites, Phase
    <2>2. ASSUME NEW j \in Jobs, EditWrites(j) PROVE Phase' = Phase
      <3>1. job'[j].pc = "judge" /\ \A k \in Jobs \ {j} : job'[k] = job[k]
        BY <2>2 DEF EditWrites, Goto, IInv, TypeOK
      <3> QED
        BY <1>1, <2>2, <3>1, SamePhase DEF EditWrites, At
    <2> QED
      BY <2>1, <2>2
  <1> QED
    BY <1>1, <1>2 DEF Replaced!Write, Data, Kept

LEMMA MoveAsideRefines ==
  ASSUME IInv, NEW j \in Jobs, MoveAside(j)
  PROVE  UNCHANGED Replaced!replaceVars
  <1>1. lock = j /\ job[j].pc = "aside"
    BY Replacer DEF MoveAside, At
  <1>2. aside = Absent
    BY <1>1 DEF MoveAside, IInv, PlaceInv
  <1>3. Phase = "whole"
    BY <1>1, <1>2 DEF Phase
  <1>4. Phase' = "whole"
    BY DEF MoveAside, Phase
  <1> QED
    BY <1>2, <1>3, <1>4 DEF MoveAside, Replaced!replaceVars, Data, Kept

LEMMA MoveInRefines ==
  ASSUME IInv, NEW j \in Jobs, MoveIn(j)
  PROVE  Replaced!Replace
  <1>1. live = Absent /\ aside # Absent /\ job[j].staged \in archived
    BY DEF MoveIn, At, IInv, PlaceInv
  <1>2. live' = job[j].staged /\ live' # Absent /\ UNCHANGED <<aside, archived>>
    BY <1>1, NamesAssumption DEF MoveIn, IInv, TypeOK, Contents
  <1> QED
    BY <1>1, <1>2 DEF Replaced!Replace, Data, Kept, Phase

LEMMA ValidateRefines ==
  ASSUME IInv, NEW j \in Jobs, Validate(j)
  PROVE  UNCHANGED Replaced!replaceVars
  <1>1. live # Absent /\ aside # Absent
    BY DEF Validate, At, IInv, PlaceInv
  <1> QED
    BY <1>1 DEF Validate, Replaced!replaceVars, Data, Kept, Phase

LEMMA RemoveRefines ==
  ASSUME IInv, NEW j \in Jobs, RemoveAside(j)
  PROVE  Replaced!Settle
  <1>1. live # Absent /\ aside # Absent /\ lock = j /\ lock # NoJob
    BY Replacer DEF RemoveAside, At, IInv, PlaceInv, Replacing
  <1>2. job'[j].pc = "commit"
    BY DEF RemoveAside, Goto, IInv, TypeOK, Job
  <1> QED
    BY <1>1, <1>2 DEF RemoveAside, Replaced!Settle, Data, Kept, Phase

LEMMA FailsRefines ==
  ASSUME IInv, NEW j \in Jobs, Fails(j)
  PROVE  Replaced!Spoil \/ UNCHANGED Replaced!replaceVars
  <1>1. lock = j /\ lock # NoJob
    BY Replacer DEF Fails, Replacing
  <1>2. job'[j].pc = "undo" /\ UNCHANGED <<live, lock, archived>>
    BY DEF Fails, Goto, IInv, TypeOK, Job
  <1>3. CASE job[j].pc = "in"
    <2>1. live = Absent /\ UNCHANGED aside
      BY <1>3 DEF Fails, At, IInv, PlaceInv
    <2> QED
      BY <1>2, <2>1 DEF Replaced!replaceVars, Data, Kept, Phase
  <1>4. CASE job[j].pc = "validate"
    <2>1. live # Absent /\ aside # Absent /\ UNCHANGED aside
      BY <1>4 DEF Fails, At, IInv, PlaceInv
    <2> QED
      BY <1>2, <2>1 DEF Replaced!replaceVars, Data, Kept, Phase
  <1>5. CASE job[j].pc = "remove"
    <2>1. live # Absent /\ aside # Absent /\ aside' \in {aside, Damaged} /\ Damaged # Absent
      BY <1>5, NamesAssumption DEF Fails, At, IInv, PlaceInv
    <2> QED
      BY <1>2, <2>1 DEF Replaced!replaceVars, Replaced!Spoil, Data, Kept, Phase
  <1>6. CASE job[j].pc = "commit"
    <2>1. live # Absent /\ aside = Absent /\ UNCHANGED aside
      BY <1>6 DEF Fails, At, IInv, PlaceInv
    <2> QED
      BY <1>1, <1>2, <1>6, <2>1 DEF Replaced!replaceVars, Data, Kept, Phase
  <1> QED
    BY <1>3, <1>4, <1>5, <1>6 DEF Fails

LEMMA CommitRefines ==
  ASSUME IInv, NEW j \in Jobs, Commit(j)
  PROVE  Replaced!Stand
  <1>1. lock = j /\ lock # NoJob /\ live # Absent /\ aside = Absent /\ job[j].pc = "commit"
    BY Replacer DEF Commit, At, IInv, PlaceInv, Replacing
  <1>2. lock' = NoJob /\ UNCHANGED <<live, aside, archived>>
    BY <1>1 DEF Commit, End
  <1> QED
    BY <1>1, <1>2 DEF Replaced!Stand, Data, Kept, Phase

\* Moving what is in place away undoes the replacement while what it replaced is
\* there, and loses the data otherwise.
LEMMA UndoRefines ==
  ASSUME IInv, NEW j \in Jobs, Undo(j)
  PROVE  Replaced!Undo \/ Replaced!Lose \/ UNCHANGED Replaced!replaceVars
  <1>1. lock = j /\ lock # NoJob /\ job[j].pc = "undo"
    BY Replacer DEF Undo, At, Replacing
  <1>2. live' = Absent /\ UNCHANGED <<aside, archived>>
    BY DEF Undo
  <1>3. CASE live = Absent
    BY <1>2, <1>3 DEF Replaced!replaceVars, Data, Kept, Phase
  <1>4. CASE live # Absent /\ aside # Absent
    BY <1>2, <1>4 DEF Replaced!Undo, Data, Kept, Phase
  <1>5. CASE live # Absent /\ aside = Absent
    BY <1>1, <1>2, <1>5 DEF Replaced!Lose, Data, Kept, Phase
  <1> QED
    BY <1>3, <1>4, <1>5

LEMMA PutBackRefines ==
  ASSUME IInv, NEW j \in Jobs, PutBack(j)
  PROVE  UNCHANGED Replaced!replaceVars
  <1>1. lock = j /\ live = Absent
    BY Replacer DEF PutBack, At, IInv, PlaceInv, Replacing
  <1>2. /\ aside # Absent /\ live' = aside /\ aside' = Absent
        /\ job'[j].pc = "report" /\ UNCHANGED <<lock, archived>>
    BY DEF PutBack, IInv, TypeOK, Job
  <1> QED
    BY <1>1, <1>2 DEF Replaced!replaceVars, Data, Kept, Phase

LEMMA UndoFailsRefines ==
  ASSUME IInv, NEW j \in Jobs, UndoFails(j)
  PROVE  Replaced!Stand \/ UNCHANGED Replaced!replaceVars
  <1>1. lock = j /\ lock # NoJob
    BY Replacer DEF UndoFails, Replacing
  <1>2. job'[j].pc = "report" /\ UNCHANGED <<live, aside, lock, archived>>
    BY DEF UndoFails, Goto, IInv, TypeOK, Job
  <1>3. CASE live # Absent /\ aside = Absent
    <2>1. job[j].pc = "undo"
      BY <1>3 DEF UndoFails, IInv, PlaceInv
    <2> QED
      BY <1>1, <1>2, <1>3, <2>1 DEF Replaced!Stand, Data, Kept, Phase
  <1>4. CASE live = Absent \/ aside # Absent
    BY <1>2, <1>4 DEF Replaced!replaceVars, Data, Kept, Phase
  <1> QED
    BY <1>3, <1>4

LEMMA ReportRefines ==
  ASSUME IInv, NEW j \in Jobs, Report(j)
  PROVE  Replaced!Stand \/ UNCHANGED Replaced!replaceVars
  <1>1. lock = j /\ lock # NoJob /\ job[j].pc = "report"
    BY Replacer DEF Report, At
  <1>2. /\ lock' = NoJob /\ UNCHANGED <<live, archived>>
        /\ aside' = IF live = Absent THEN aside ELSE Absent
    BY <1>1 DEF Report, End
  <1>3. CASE live # Absent /\ aside # Absent
    BY <1>2, <1>3 DEF Replaced!Stand, Data, Kept, Phase
  <1>4. CASE live = Absent \/ aside = Absent
    BY <1>1, <1>2, <1>4 DEF Replaced!replaceVars, Data, Kept, Phase
  <1> QED
    BY <1>3, <1>4

\* The dashboard dies: a replacement that had begun stands, or was undone.
LEMMA CrashRefines ==
  ASSUME IInv, Crash
  PROVE  Replaced!Stand \/ UNCHANGED Replaced!replaceVars
  <1>1. /\ lock' = NoJob /\ UNCHANGED <<live, archived>>
        /\ aside' = IF live = Absent THEN aside ELSE Absent
    BY DEF Crash
  <1>2. CASE Phase = "whole"
    BY <1>1, <1>2 DEF Replaced!replaceVars, Data, Kept, Phase
  <1>3. CASE Phase # "whole"
    <2>1. live # Absent
      BY <1>3 DEF Phase
    <2> QED
      BY <1>1, <1>3, <2>1 DEF Replaced!Stand, Data, Kept, Phase
  <1> QED
    BY <1>2, <1>3

\* Every step is one of AtomicReplace, or one that it does not see.
LEMMA StepRefines ==
  ASSUME IInv, [Next]_vars
  PROVE  [Replaced!Next]_(Replaced!replaceVars)
  <1> USE DEF Replaced!Next
  <1>1. CASE UNCHANGED vars
    BY <1>1 DEF vars, Replaced!replaceVars, Data, Kept, Phase
  <1>2. ASSUME NEW j \in Jobs, Request(j) PROVE [Replaced!Next]_(Replaced!replaceVars)
    BY <1>2, QuietRefines DEF Request
  <1>3. ASSUME NEW j \in Jobs, JobStep(j) PROVE [Replaced!Next]_(Replaced!replaceVars)
    <2>1. CASE \/ FailCopy(j) \/ Retain(j) \/ Clean(j) \/ Accept(j) \/ Refuse(j)
               \/ PrepareRaises(j) \/ Extract(j) \/ NothingMoved(j)
               \/ EditFails(j) \/ EditStands(j) \/ EditRecovers(j)
      BY <2>1, QuietRefines
    <2>2. CASE FinishCopy(j) \/ EditWrites(j)
      BY <2>2, CopyRefines, WriteRefines
    <2>3. CASE MoveAside(j) \/ MoveIn(j) \/ Validate(j) \/ RemoveAside(j) \/ Fails(j)
      BY <2>3, MoveAsideRefines, MoveInRefines, ValidateRefines, RemoveRefines, FailsRefines
    <2>4. CASE Commit(j) \/ Undo(j) \/ PutBack(j) \/ UndoFails(j) \/ Report(j)
      BY <2>4, CommitRefines, UndoRefines, PutBackRefines, UndoFailsRefines, ReportRefines
    <2> QED
      BY <1>3, <2>1, <2>2, <2>3, <2>4 DEF JobStep
  <1>4. ASSUME NEW r \in RowIds, Pin(r) PROVE [Replaced!Next]_(Replaced!replaceVars)
    BY <1>4 DEF Pin, Replaced!replaceVars, Data, Kept, Phase
  <1> QED
    BY <1>1, <1>2, <1>3, <1>4, WriteRefines, CrashRefines DEF Next

\* The data directory is replaced as a whole by a verified archive, or put back, and
\* lost only after the replacement was validated: every interleaving of requests,
\* every failure of a rename and every crash is a behaviour of AtomicReplace
\* (backups.py 255-297).
THEOREM Implements == Spec => ImplementsReplace
  <1>1. Init => Replaced!Init
    <2> SUFFICES ASSUME Init PROVE Replaced!Init
      OBVIOUS
    <2>1. 0 \in Contents /\ 0 # Absent
      BY NamesAssumption, BoundAssumption DEF Contents
    <2> QED
      BY <2>1 DEF Init, Replaced!Init, Data, Kept, Phase
  <1>2. IInv /\ [Next]_vars => [Replaced!Next]_(Replaced!replaceVars)
    BY StepRefines
  <1> QED
    BY BackupInvariance, <1>1, <1>2, PTL DEF Spec, ImplementsReplace, Replaced!Spec

-------------------------------------------------------------------------------
\* What a request forgets, and the first contents, are well formed.
LEMMA WorkflowTypes == NoRequest \in WorkflowRequest /\ Origin \in DataState
  BY BoundAssumption DEF NoRequest, WorkflowRequest, Origin, DataState, WorkflowSteps

\* A request that begins is well formed.
LEMMA BeginType ==
  ASSUME WorkflowTypeOK, NEW j \in Jobs, NEW op \in Orders \cup {"offline", "row", "file", "restore"},
         NEW step \in WorkflowSteps, NEW token \in 0 .. MaxWrites, OpenWith(j, op, step, token)
  PROVE  request' \in [Jobs -> WorkflowRequest]
  <1>1. [NoRequest EXCEPT !.op = op, !.pc = step, !.token = token] \in WorkflowRequest
    BY WorkflowTypes DEF NoRequest, WorkflowRequest
  <1> QED
    BY <1>1 DEF OpenWith, WorkflowTypeOK

\* A write numbers the data anew and keeps its type.
LEMMA PutType ==
  ASSUME WorkflowTypeOK, NEW author \in Jobs \cup {NoJob}, NEW validity \in SUBSET BOOLEAN,
         Put(author, validity)
  PROVE  /\ data' \in DataState /\ writes' \in 0 .. MaxWrites
         /\ data'.write = writes + 1 /\ writes' = writes + 1
         /\ data'.by = author
  BY BoundAssumption DEF Put, WorkflowTypeOK, DataState

\* The initial state satisfies the inductive invariant.
LEMMA WorkflowInitInv == WorkflowInit => WorkflowIInv
  <1> SUFFICES ASSUME WorkflowInit PROVE WorkflowIInv
    OBVIOUS
  <1>1. WorkflowTypeOK
    BY WorkflowTypes, BoundAssumption DEF WorkflowInit, WorkflowTypeOK
  <1>2. WorkflowLockInv /\ StepInv /\ ChangeInv /\ LiveInv
    BY NoJobAssumption, LeakedAssumption DEF WorkflowInit, WorkflowLockInv, StepInv, ChangeInv, LiveInv,
       NeedsWorkflow, NeedsData, OfflineSteps, Orders, NoRequest
  <1>3. NumberInv
    BY DEF WorkflowInit, NumberInv, Origin, NoRequest
  <1> QED
    BY <1>1, <1>2, <1>3 DEF WorkflowIInv

\* One lemma for each action: it keeps the inductive invariant.
LEMMA AskActionStep ==
  ASSUME WorkflowIInv, NEW j \in Jobs, NEW order \in Orders, AskAction(j, order)
  PROVE  WorkflowIInv'
  <1> USE NoJobAssumption, LeakedAssumption, BoundAssumption DEF WorkflowIInv,
     AskAction, OpenWith, Settle
  <1>1. WorkflowTypeOK'
    <2>1. 0 \in 0 .. MaxWrites /\ "asked" \in WorkflowSteps
      BY DEF WorkflowSteps
    <2>2. request' \in [Jobs -> WorkflowRequest]
      BY <2>1, BeginType
    <2> QED
      BY <2>2 DEF WorkflowTypeOK
  <1>2. WorkflowLockInv'
    BY DEF WorkflowTypeOK, WorkflowLockInv, NeedsWorkflow, NeedsData, OfflineSteps
  <1>3. StepInv'
    BY DEF WorkflowTypeOK, StepInv, NoRequest, Orders
  <1>4. ChangeInv'
    BY DEF WorkflowTypeOK, ChangeInv
  <1>5. LiveInv'
    BY DEF WorkflowTypeOK, LiveInv
  <1>6. NumberInv'
    BY DEF WorkflowTypeOK, NumberInv, NoRequest, Origin
  <1> QED
    BY <1>1, <1>2, <1>3, <1>4, <1>5, <1>6

LEMMA OpenActionStep ==
  ASSUME WorkflowIInv, NEW j \in Jobs, OpenAction(j)
  PROVE  WorkflowIInv'
  <1> USE NoJobAssumption, LeakedAssumption, BoundAssumption DEF WorkflowIInv,
     OpenAction, Settle, GoOn
  <1>1. WorkflowTypeOK'
    BY DEF WorkflowTypeOK, WorkflowRequest, WorkflowSteps
  <1>2. WorkflowLockInv'
    BY DEF WorkflowTypeOK, WorkflowLockInv, NeedsWorkflow, NeedsData, OfflineSteps
  <1>3. StepInv'
    BY DEF WorkflowTypeOK, StepInv, OfflineSteps
  <1>4. ChangeInv'
    BY DEF WorkflowTypeOK, ChangeInv
  <1>5. LiveInv'
    BY DEF WorkflowTypeOK, LiveInv
  <1>6. NumberInv'
    BY DEF WorkflowTypeOK, NumberInv
  <1> QED
    BY <1>1, <1>2, <1>3, <1>4, <1>5, <1>6

LEMMA ActionLeaksStep ==
  ASSUME WorkflowIInv, NEW j \in Jobs, ActionLeaks(j)
  PROVE  WorkflowIInv'
  <1> USE NoJobAssumption, LeakedAssumption, BoundAssumption DEF WorkflowIInv,
     ActionLeaks
  <1>1. WorkflowTypeOK'
    BY DEF WorkflowTypeOK, WorkflowRequest, WorkflowSteps, OfflineSteps, NoRequest, Orders, Origin, DataState
  <1>2. WorkflowLockInv'
    BY DEF WorkflowTypeOK, WorkflowLockInv, NeedsWorkflow, NeedsData, OfflineSteps, NoRequest
  <1>3. StepInv'
    BY DEF WorkflowTypeOK, StepInv, NoRequest, Orders
  <1>4. ChangeInv'
    BY DEF WorkflowTypeOK, ChangeInv, NoRequest
  <1>5. LiveInv'
    BY DEF WorkflowTypeOK, LiveInv, NoRequest
  <1>6. NumberInv'
    BY DEF WorkflowTypeOK, NumberInv, NoRequest, Origin
  <1> QED
    BY <1>1, <1>2, <1>3, <1>4, <1>5, <1>6

LEMMA OrderObeyedStep ==
  ASSUME WorkflowIInv, NEW j \in Jobs, OrderObeyed(j)
  PROVE  WorkflowIInv'
  <1> USE NoJobAssumption, LeakedAssumption, BoundAssumption DEF WorkflowIInv,
     OrderObeyed, Obeys, GoOn
  <1>1. WorkflowTypeOK'
    BY DEF WorkflowTypeOK, WorkflowRequest, WorkflowSteps
  <1>2. WorkflowLockInv'
    BY DEF WorkflowTypeOK, WorkflowLockInv, NeedsWorkflow, NeedsData, OfflineSteps
  <1>3. StepInv'
    BY DEF WorkflowTypeOK, StepInv, OfflineSteps
  <1>4. ChangeInv'
    BY DEF WorkflowTypeOK, ChangeInv
  <1>5. LiveInv'
    BY DEF WorkflowTypeOK, LiveInv
  <1>6. NumberInv'
    BY DEF WorkflowTypeOK, NumberInv
  <1> QED
    BY <1>1, <1>2, <1>3, <1>4, <1>5, <1>6

LEMMA OrderFailsStep ==
  ASSUME WorkflowIInv, NEW j \in Jobs, OrderFails(j)
  PROVE  WorkflowIInv'
  <1> USE NoJobAssumption, LeakedAssumption, BoundAssumption DEF WorkflowIInv,
     OrderFails, Unheard, Settle, Leave, Release, Without
  <1>1. WorkflowTypeOK'
    BY DEF WorkflowTypeOK, WorkflowRequest, DataState, Orders, WorkflowSteps, OfflineSteps, NoRequest, Origin,
       StepInv, WorkflowLockInv, NeedsData
  <1>2. WorkflowLockInv'
    BY DEF WorkflowTypeOK, WorkflowLockInv, NeedsWorkflow, NeedsData, OfflineSteps, NoRequest
  <1>3. StepInv'
    BY DEF WorkflowTypeOK, StepInv, NoRequest, Orders
  <1>4. ChangeInv'
    BY DEF WorkflowTypeOK, ChangeInv, NoRequest
  <1>5. LiveInv'
    BY DEF WorkflowTypeOK, LiveInv, NoRequest
  <1>6. NumberInv'
    BY DEF WorkflowTypeOK, NumberInv, NoRequest, Origin
  <1> QED
    BY <1>1, <1>2, <1>3, <1>4, <1>5, <1>6

LEMMA ActionDoneStep ==
  ASSUME WorkflowIInv, NEW j \in Jobs, ActionDone(j)
  PROVE  WorkflowIInv'
  <1> USE NoJobAssumption, LeakedAssumption, BoundAssumption DEF WorkflowIInv,
     ActionDone, Settle, Leave, Release, Without
  <1>1. WorkflowTypeOK'
    BY DEF WorkflowTypeOK, WorkflowRequest, WorkflowSteps, OfflineSteps, NoRequest, Orders, Origin, DataState
  <1>2. WorkflowLockInv'
    BY DEF WorkflowTypeOK, WorkflowLockInv, NeedsWorkflow, NeedsData, OfflineSteps, NoRequest
  <1>3. StepInv'
    BY DEF WorkflowTypeOK, StepInv, NoRequest, Orders
  <1>4. ChangeInv'
    BY DEF WorkflowTypeOK, ChangeInv, NoRequest
  <1>5. LiveInv'
    BY DEF WorkflowTypeOK, LiveInv, NoRequest
  <1>6. NumberInv'
    BY DEF WorkflowTypeOK, NumberInv, NoRequest, Origin
  <1> QED
    BY <1>1, <1>2, <1>3, <1>4, <1>5, <1>6

LEMMA OpenOfflineStep ==
  ASSUME WorkflowIInv, NEW j \in Jobs, OpenOffline(j)
  PROVE  WorkflowIInv'
  <1> USE NoJobAssumption, LeakedAssumption, BoundAssumption DEF WorkflowIInv,
     OpenOffline, OpenWith, Settle
  <1>1. WorkflowTypeOK'
    BY BeginType DEF WorkflowTypeOK, WorkflowSteps, DataState, OfflineSteps
  <1>2. WorkflowLockInv'
    BY DEF WorkflowTypeOK, WorkflowLockInv, NeedsWorkflow, NeedsData, OfflineSteps
  <1>3. StepInv'
    BY DEF WorkflowTypeOK, StepInv, NoRequest, Orders
  <1>4. ChangeInv'
    BY DEF WorkflowTypeOK, ChangeInv, NoRequest
  <1>5. LiveInv'
    BY DEF WorkflowTypeOK, LiveInv
  <1>6. NumberInv'
    BY DEF WorkflowTypeOK, NumberInv, NoRequest, Origin
  <1> QED
    BY <1>1, <1>2, <1>3, <1>4, <1>5, <1>6

LEMMA OfflineLocksStep ==
  ASSUME WorkflowIInv, NEW j \in Jobs, OfflineLocks(j)
  PROVE  WorkflowIInv'
  <1> USE NoJobAssumption, LeakedAssumption, BoundAssumption DEF WorkflowIInv,
     OfflineLocks, Stands, GoOn
  <1>1. WorkflowTypeOK'
    BY DEF WorkflowTypeOK, WorkflowRequest, WorkflowSteps, OfflineSteps
  <1>2. WorkflowLockInv'
    BY DEF WorkflowTypeOK, WorkflowLockInv, NeedsWorkflow, NeedsData, OfflineSteps
  <1>3. StepInv'
    BY DEF WorkflowTypeOK, StepInv, OfflineSteps
  <1>4. ChangeInv'
    BY DEF WorkflowTypeOK, ChangeInv
  <1>5. LiveInv'
    BY DEF WorkflowTypeOK, LiveInv
  <1>6. NumberInv'
    BY DEF WorkflowTypeOK, NumberInv
  <1> QED
    BY <1>1, <1>2, <1>3, <1>4, <1>5, <1>6

LEMMA OfflineBacksUpStep ==
  ASSUME WorkflowIInv, NEW j \in Jobs, OfflineBacksUp(j)
  PROVE  WorkflowIInv'
  <1> USE NoJobAssumption, LeakedAssumption, BoundAssumption DEF WorkflowIInv,
     OfflineBacksUp, Stands
  <1>1. WorkflowTypeOK'
    <2>0. "look" \in WorkflowSteps
      BY DEF WorkflowSteps, OfflineSteps
    <2>1. [request[j] EXCEPT !.pc = "look", !.saved = data] \in WorkflowRequest
      BY <2>0 DEF WorkflowTypeOK, WorkflowRequest
    <2> QED
      BY <2>1 DEF WorkflowTypeOK
  <1>2. WorkflowLockInv'
    BY DEF WorkflowTypeOK, WorkflowLockInv, NeedsWorkflow, NeedsData, OfflineSteps
  <1>3. StepInv'
    BY DEF WorkflowTypeOK, StepInv, OfflineSteps
  <1>4. ChangeInv'
    BY DEF WorkflowTypeOK, ChangeInv
  <1>5. LiveInv'
    BY DEF WorkflowTypeOK, LiveInv
  <1>6. NumberInv'
    BY DEF WorkflowTypeOK, NumberInv
  <1> QED
    BY <1>1, <1>2, <1>3, <1>4, <1>5, <1>6

LEMMA OfflineLooksStep ==
  ASSUME WorkflowIInv, NEW j \in Jobs, OfflineLooks(j)
  PROVE  WorkflowIInv'
  <1> USE NoJobAssumption, LeakedAssumption, BoundAssumption DEF WorkflowIInv,
     OfflineLooks, Stands, Seen
  <1>1. WorkflowTypeOK'
    BY DEF WorkflowTypeOK, WorkflowRequest, WorkflowSteps
  <1>2. WorkflowLockInv'
    BY DEF WorkflowTypeOK, WorkflowLockInv, NeedsWorkflow, NeedsData, OfflineSteps
  <1>3. StepInv'
    BY DEF WorkflowTypeOK, StepInv, OfflineSteps
  <1>4. ChangeInv'
    BY DEF WorkflowTypeOK, ChangeInv
  <1>5. LiveInv'
    BY DEF WorkflowTypeOK, LiveInv
  <1>6. NumberInv'
    BY DEF WorkflowTypeOK, NumberInv
  <1> QED
    BY <1>1, <1>2, <1>3, <1>4, <1>5, <1>6

LEMMA OfflineStopsStep ==
  ASSUME WorkflowIInv, NEW j \in Jobs, OfflineStops(j)
  PROVE  WorkflowIInv'
  <1> USE NoJobAssumption, LeakedAssumption, BoundAssumption DEF WorkflowIInv,
     OfflineStops, Stands, Obeys, GoOn
  <1>1. WorkflowTypeOK'
    BY DEF WorkflowTypeOK, WorkflowRequest, WorkflowSteps, OfflineSteps
  <1>2. WorkflowLockInv'
    BY DEF WorkflowTypeOK, WorkflowLockInv, NeedsWorkflow, NeedsData, OfflineSteps
  <1>3. StepInv'
    BY DEF WorkflowTypeOK, StepInv, OfflineSteps
  <1>4. ChangeInv'
    BY DEF WorkflowTypeOK, ChangeInv
  <1>5. LiveInv'
    BY DEF WorkflowTypeOK, LiveInv
  <1>6. NumberInv'
    BY DEF WorkflowTypeOK, NumberInv
  <1> QED
    BY <1>1, <1>2, <1>3, <1>4, <1>5, <1>6

LEMMA OfflineConfirmsStep ==
  ASSUME WorkflowIInv, NEW j \in Jobs, OfflineConfirms(j)
  PROVE  WorkflowIInv'
  <1> USE NoJobAssumption, LeakedAssumption, BoundAssumption DEF WorkflowIInv,
     OfflineConfirms, Stands
  <1>1. WorkflowTypeOK'
    <2>0. "write" \in WorkflowSteps
      BY DEF WorkflowSteps, OfflineSteps
    <2>1. [request[j] EXCEPT !.pc = "write", !.stopped = TRUE] \in WorkflowRequest
      BY <2>0 DEF WorkflowTypeOK, WorkflowRequest
    <2> QED
      BY <2>1 DEF WorkflowTypeOK
  <1>2. WorkflowLockInv'
    BY DEF WorkflowTypeOK, WorkflowLockInv, NeedsWorkflow, NeedsData, OfflineSteps
  <1>3. StepInv'
    BY DEF WorkflowTypeOK, StepInv, OfflineSteps
  <1>4. ChangeInv'
    BY DEF WorkflowTypeOK, ChangeInv
  <1>5. LiveInv'
    BY DEF WorkflowTypeOK, LiveInv
  <1>6. NumberInv'
    BY DEF WorkflowTypeOK, NumberInv
  <1> QED
    BY <1>1, <1>2, <1>3, <1>4, <1>5, <1>6

LEMMA OfflineWritesStep ==
  ASSUME WorkflowIInv, NEW j \in Jobs, OfflineWrites(j)
  PROVE  WorkflowIInv'
  <1> USE NoJobAssumption, LeakedAssumption, BoundAssumption DEF WorkflowIInv,
     OfflineWrites, Stands, Put
  <1>1. WorkflowTypeOK'
    <2>0. "validate" \in WorkflowSteps
      BY DEF WorkflowSteps, OfflineSteps
    <2>1. [request[j] EXCEPT !.pc = "validate", !.committed = TRUE] \in WorkflowRequest
      BY <2>0 DEF WorkflowTypeOK, WorkflowRequest
    <2> QED
      BY <2>1, PutType DEF WorkflowTypeOK
  <1>2. WorkflowLockInv'
    BY DEF WorkflowTypeOK, WorkflowLockInv, NeedsWorkflow, NeedsData, OfflineSteps
  <1>3. StepInv'
    BY DEF WorkflowTypeOK, StepInv, OfflineSteps
  <1>4. ChangeInv'
    BY DEF WorkflowTypeOK, ChangeInv, WorkflowLockInv, StepInv, NumberInv, NeedsData,
       OfflineSteps, DataState
  <1>5. LiveInv'
    BY DEF WorkflowTypeOK, LiveInv, WorkflowLockInv, NeedsData, OfflineSteps, StepInv
  <1>6. NumberInv'
    BY DEF WorkflowTypeOK, NumberInv, NoRequest, DataState, Origin, WorkflowRequest
  <1> QED
    BY <1>1, <1>2, <1>3, <1>4, <1>5, <1>6

LEMMA OfflineValidatesStep ==
  ASSUME WorkflowIInv, NEW j \in Jobs, OfflineValidates(j)
  PROVE  WorkflowIInv'
  <1> USE NoJobAssumption, LeakedAssumption, BoundAssumption DEF WorkflowIInv,
     OfflineValidates, Stands, AfterWrite
  <1>1. WorkflowTypeOK'
    BY DEF WorkflowTypeOK, WorkflowRequest, WorkflowSteps
  <1>2. WorkflowLockInv'
    BY DEF WorkflowTypeOK, WorkflowLockInv, NeedsWorkflow, NeedsData, OfflineSteps
  <1>3. StepInv'
    BY DEF WorkflowTypeOK, StepInv, OfflineSteps
  <1>4. ChangeInv'
    BY DEF WorkflowTypeOK, ChangeInv
  <1>5. LiveInv'
    BY DEF WorkflowTypeOK, LiveInv
  <1>6. NumberInv'
    BY DEF WorkflowTypeOK, NumberInv
  <1> QED
    BY <1>1, <1>2, <1>3, <1>4, <1>5, <1>6

LEMMA OfflineRecoversStep ==
  ASSUME WorkflowIInv, NEW j \in Jobs, OfflineRecovers(j)
  PROVE  WorkflowIInv'
  <1> USE NoJobAssumption, LeakedAssumption, BoundAssumption DEF WorkflowIInv,
     OfflineRecovers, Stands, GoOn, AfterWrite
  <1>1. WorkflowTypeOK'
    BY DEF WorkflowTypeOK, WorkflowRequest, WorkflowSteps, OfflineSteps
  <1>2. WorkflowLockInv'
    BY DEF WorkflowTypeOK, WorkflowLockInv, NeedsWorkflow, NeedsData, OfflineSteps
  <1>3. StepInv'
    BY DEF WorkflowTypeOK, StepInv, OfflineSteps
  <1>4. ChangeInv'
    BY DEF WorkflowTypeOK, ChangeInv, WorkflowLockInv, NeedsData, OfflineSteps, StepInv
  <1>5. LiveInv'
    BY DEF WorkflowTypeOK, LiveInv, WorkflowLockInv, NeedsData, OfflineSteps, StepInv
  <1>6. NumberInv'
    BY DEF WorkflowTypeOK, NumberInv
  <1> QED
    BY <1>1, <1>2, <1>3, <1>4, <1>5, <1>6

LEMMA OfflineRestartsStep ==
  ASSUME WorkflowIInv, NEW j \in Jobs, OfflineRestarts(j)
  PROVE  WorkflowIInv'
  <1> USE NoJobAssumption, LeakedAssumption, BoundAssumption DEF WorkflowIInv,
     OfflineRestarts, Stands, Obeys, GoOn
  <1>1. WorkflowTypeOK'
    BY DEF WorkflowTypeOK, WorkflowRequest, WorkflowSteps, OfflineSteps
  <1>2. WorkflowLockInv'
    BY DEF WorkflowTypeOK, WorkflowLockInv, NeedsWorkflow, NeedsData, OfflineSteps
  <1>3. StepInv'
    BY DEF WorkflowTypeOK, StepInv, OfflineSteps
  <1>4. ChangeInv'
    BY DEF WorkflowTypeOK, ChangeInv
  <1>5. LiveInv'
    BY DEF WorkflowTypeOK, LiveInv
  <1>6. NumberInv'
    BY DEF WorkflowTypeOK, NumberInv
  <1> QED
    BY <1>1, <1>2, <1>3, <1>4, <1>5, <1>6

LEMMA OfflineReadyStep ==
  ASSUME WorkflowIInv, NEW j \in Jobs, OfflineReady(j)
  PROVE  WorkflowIInv'
  <1> USE NoJobAssumption, LeakedAssumption, BoundAssumption DEF WorkflowIInv,
     OfflineReady, Stands, GoOn
  <1>1. WorkflowTypeOK'
    BY DEF WorkflowTypeOK, WorkflowRequest, WorkflowSteps, OfflineSteps
  <1>2. WorkflowLockInv'
    BY DEF WorkflowTypeOK, WorkflowLockInv, NeedsWorkflow, NeedsData, OfflineSteps
  <1>3. StepInv'
    BY DEF WorkflowTypeOK, StepInv, OfflineSteps
  <1>4. ChangeInv'
    BY DEF WorkflowTypeOK, ChangeInv
  <1>5. LiveInv'
    BY DEF WorkflowTypeOK, LiveInv
  <1>6. NumberInv'
    BY DEF WorkflowTypeOK, NumberInv
  <1> QED
    BY <1>1, <1>2, <1>3, <1>4, <1>5, <1>6

LEMMA OfflineCompletesStep ==
  ASSUME WorkflowIInv, NEW j \in Jobs, OfflineCompletes(j)
  PROVE  WorkflowIInv'
  <1> USE NoJobAssumption, LeakedAssumption, BoundAssumption DEF WorkflowIInv,
     OfflineCompletes, Stands, Settle, Leave, Release, Without
  <1>1. WorkflowTypeOK'
    BY DEF WorkflowTypeOK, WorkflowRequest, WorkflowSteps, OfflineSteps, NoRequest, Orders, Origin, DataState
  <1>2. WorkflowLockInv'
    BY DEF WorkflowTypeOK, WorkflowLockInv, NeedsWorkflow, NeedsData, OfflineSteps, NoRequest
  <1>3. StepInv'
    BY DEF WorkflowTypeOK, StepInv, NoRequest, Orders
  <1>4. ChangeInv'
    BY DEF WorkflowTypeOK, ChangeInv, NoRequest
  <1>5. LiveInv'
    BY DEF WorkflowTypeOK, LiveInv, NoRequest
  <1>6. NumberInv'
    BY DEF WorkflowTypeOK, NumberInv, NoRequest, Origin
  <1> QED
    BY <1>1, <1>2, <1>3, <1>4, <1>5, <1>6

LEMMA OfflineRaisesStep ==
  ASSUME WorkflowIInv, NEW j \in Jobs, OfflineRaises(j)
  PROVE  WorkflowIInv'
  <1> USE NoJobAssumption, LeakedAssumption, BoundAssumption DEF WorkflowIInv,
     OfflineRaises, GoOn, Unheard, Release, Without
  <1>1. WorkflowTypeOK'
    BY DEF WorkflowTypeOK, WorkflowRequest, WorkflowSteps, OfflineSteps, NoRequest, Orders, Origin, DataState
  <1>2. WorkflowLockInv'
    BY DEF WorkflowTypeOK, WorkflowLockInv, NeedsWorkflow, NeedsData, OfflineSteps
  <1>3. StepInv'
    BY DEF WorkflowTypeOK, StepInv, OfflineSteps
  <1>4. ChangeInv'
    BY DEF WorkflowTypeOK, ChangeInv, WorkflowLockInv, NeedsData, OfflineSteps, StepInv
  <1>5. LiveInv'
    BY DEF WorkflowTypeOK, LiveInv, WorkflowLockInv, NeedsData, OfflineSteps, StepInv
  <1>6. NumberInv'
    BY DEF WorkflowTypeOK, NumberInv
  <1> QED
    BY <1>1, <1>2, <1>3, <1>4, <1>5, <1>6

LEMMA OfflineGivesUpStep ==
  ASSUME WorkflowIInv, NEW j \in Jobs, OfflineGivesUp(j)
  PROVE  WorkflowIInv'
  <1> USE NoJobAssumption, LeakedAssumption, BoundAssumption DEF WorkflowIInv,
     OfflineGivesUp, Stands, Obeys, Unheard, Settle, Leave, Release, Without
  <1>1. WorkflowTypeOK'
    BY DEF WorkflowTypeOK, WorkflowRequest, WorkflowSteps, OfflineSteps, NoRequest, Orders, Origin, DataState
  <1>2. WorkflowLockInv'
    BY DEF WorkflowTypeOK, WorkflowLockInv, NeedsWorkflow, NeedsData, OfflineSteps, NoRequest
  <1>3. StepInv'
    BY DEF WorkflowTypeOK, StepInv, NoRequest, Orders
  <1>4. ChangeInv'
    BY DEF WorkflowTypeOK, ChangeInv, NoRequest
  <1>5. LiveInv'
    BY DEF WorkflowTypeOK, LiveInv, NoRequest
  <1>6. NumberInv'
    BY DEF WorkflowTypeOK, NumberInv, NoRequest, Origin
  <1> QED
    BY <1>1, <1>2, <1>3, <1>4, <1>5, <1>6

LEMMA OpenEditStep ==
  ASSUME WorkflowIInv, NEW j \in Jobs, OpenEdit(j)
  PROVE  WorkflowIInv'
  <1> USE NoJobAssumption, LeakedAssumption, BoundAssumption DEF WorkflowIInv,
     OpenEdit, OpenWith, Settle
  <1>1. WorkflowTypeOK'
    BY BeginType DEF WorkflowTypeOK, WorkflowSteps, DataState
  <1>2. WorkflowLockInv'
    BY DEF WorkflowTypeOK, WorkflowLockInv, NeedsWorkflow, NeedsData, OfflineSteps
  <1>3. StepInv'
    BY DEF WorkflowTypeOK, StepInv, NoRequest, Orders
  <1>4. ChangeInv'
    BY DEF WorkflowTypeOK, ChangeInv
  <1>5. LiveInv'
    BY DEF WorkflowTypeOK, LiveInv
  <1>6. NumberInv'
    BY DEF WorkflowTypeOK, NumberInv, NoRequest, Origin
  <1> QED
    BY <1>1, <1>2, <1>3, <1>4, <1>5, <1>6

LEMMA EditLocksStep ==
  ASSUME WorkflowIInv, NEW j \in Jobs, EditLocks(j)
  PROVE  WorkflowIInv'
  <1> USE NoJobAssumption, LeakedAssumption, BoundAssumption DEF WorkflowIInv,
     EditLocks, GoOn
  <1>1. WorkflowTypeOK'
    BY DEF WorkflowTypeOK, WorkflowRequest, WorkflowSteps
  <1>2. WorkflowLockInv'
    BY DEF WorkflowTypeOK, WorkflowLockInv, NeedsWorkflow, NeedsData
  <1>3. StepInv'
    BY DEF WorkflowTypeOK, StepInv
  <1>4. ChangeInv'
    BY DEF WorkflowTypeOK, ChangeInv
  <1>5. LiveInv'
    BY DEF WorkflowTypeOK, LiveInv
  <1>6. NumberInv'
    BY DEF WorkflowTypeOK, NumberInv
  <1> QED
    BY <1>1, <1>2, <1>3, <1>4, <1>5, <1>6

LEMMA EditBacksUpStep ==
  ASSUME WorkflowIInv, NEW j \in Jobs, EditBacksUp(j)
  PROVE  WorkflowIInv'
  <1> USE NoJobAssumption, LeakedAssumption, BoundAssumption DEF WorkflowIInv,
     EditBacksUp, Settle, GoOn
  <1>1. WorkflowTypeOK'
    BY DEF WorkflowTypeOK, WorkflowRequest, WorkflowSteps
  <1>2. WorkflowLockInv'
    BY DEF WorkflowTypeOK, WorkflowLockInv, NeedsWorkflow, NeedsData, OfflineSteps
  <1>3. StepInv'
    BY DEF WorkflowTypeOK, StepInv, OfflineSteps
  <1>4. ChangeInv'
    BY DEF WorkflowTypeOK, ChangeInv
  <1>5. LiveInv'
    BY DEF WorkflowTypeOK, LiveInv
  <1>6. NumberInv'
    BY DEF WorkflowTypeOK, NumberInv
  <1> QED
    BY <1>1, <1>2, <1>3, <1>4, <1>5, <1>6

LEMMA WorkflowEditWritesStep ==
  ASSUME WorkflowIInv, NEW j \in Jobs, LiveEditWrites(j)
  PROVE  WorkflowIInv'
  <1> USE NoJobAssumption, LeakedAssumption, BoundAssumption DEF WorkflowIInv,
     LiveEditWrites, Put, GoOn
  <1>1. WorkflowTypeOK'
    <2>1. [request[j] EXCEPT !.pc = "judge"] \in WorkflowRequest
      BY DEF WorkflowTypeOK, WorkflowRequest, WorkflowSteps
    <2> QED
      BY <2>1, PutType DEF WorkflowTypeOK
  <1>2. WorkflowLockInv'
    BY DEF WorkflowTypeOK, WorkflowLockInv, NeedsWorkflow, NeedsData, OfflineSteps
  <1>3. StepInv'
    BY DEF WorkflowTypeOK, StepInv, OfflineSteps
  <1>4. ChangeInv'
    BY DEF WorkflowTypeOK, ChangeInv, WorkflowLockInv, NeedsData, OfflineSteps, StepInv
  <1>5. LiveInv'
    BY DEF WorkflowTypeOK, LiveInv, WorkflowLockInv, StepInv, NumberInv, NeedsData,
       OfflineSteps, NoRequest, DataState, Origin, Orders, WorkflowRequest
  <1>6. NumberInv'
    BY DEF WorkflowTypeOK, NumberInv, NoRequest, DataState, Origin, WorkflowRequest
  <1> QED
    BY <1>1, <1>2, <1>3, <1>4, <1>5, <1>6

LEMMA EditAcceptedStep ==
  ASSUME WorkflowIInv, NEW j \in Jobs, EditAccepted(j)
  PROVE  WorkflowIInv'
  <1> USE NoJobAssumption, LeakedAssumption, BoundAssumption DEF WorkflowIInv,
     EditAccepted, Settle, Leave, Release, Without
  <1>1. WorkflowTypeOK'
    BY DEF WorkflowTypeOK, WorkflowRequest, WorkflowSteps, OfflineSteps, NoRequest, Orders, Origin, DataState
  <1>2. WorkflowLockInv'
    BY DEF WorkflowTypeOK, WorkflowLockInv, NeedsWorkflow, NeedsData, OfflineSteps, NoRequest
  <1>3. StepInv'
    BY DEF WorkflowTypeOK, StepInv, NoRequest, Orders
  <1>4. ChangeInv'
    BY DEF WorkflowTypeOK, ChangeInv, NoRequest
  <1>5. LiveInv'
    BY DEF WorkflowTypeOK, LiveInv, NoRequest
  <1>6. NumberInv'
    BY DEF WorkflowTypeOK, NumberInv, NoRequest, Origin
  <1> QED
    BY <1>1, <1>2, <1>3, <1>4, <1>5, <1>6

LEMMA WorkflowEditFailsStep ==
  ASSUME WorkflowIInv, NEW j \in Jobs, LiveEditFails(j)
  PROVE  WorkflowIInv'
  <1> USE NoJobAssumption, LeakedAssumption, BoundAssumption DEF WorkflowIInv,
     LiveEditFails, Settle, Leave, Release, Without
  <1>1. WorkflowTypeOK'
    BY DEF WorkflowTypeOK, WorkflowRequest, WorkflowSteps, OfflineSteps, NoRequest, Orders, Origin, DataState
  <1>2. WorkflowLockInv'
    BY DEF WorkflowTypeOK, WorkflowLockInv, NeedsWorkflow, NeedsData, OfflineSteps, NoRequest
  <1>3. StepInv'
    BY DEF WorkflowTypeOK, StepInv, NoRequest, Orders
  <1>4. ChangeInv'
    BY DEF WorkflowTypeOK, ChangeInv, NoRequest
  <1>5. LiveInv'
    BY DEF WorkflowTypeOK, LiveInv, NoRequest
  <1>6. NumberInv'
    BY DEF WorkflowTypeOK, NumberInv, NoRequest, Origin
  <1> QED
    BY <1>1, <1>2, <1>3, <1>4, <1>5, <1>6

LEMMA OpenRestoreStep ==
  ASSUME WorkflowIInv, NEW j \in Jobs, OpenRestore(j)
  PROVE  WorkflowIInv'
  <1> USE NoJobAssumption, LeakedAssumption, BoundAssumption DEF WorkflowIInv,
     OpenRestore, OpenWith, Settle
  <1>1. WorkflowTypeOK'
    <2>1. 0 \in 0 .. MaxWrites /\ "policy" \in WorkflowSteps
      BY DEF WorkflowSteps
    <2>2. request' \in [Jobs -> WorkflowRequest]
      BY <2>1, BeginType
    <2> QED
      BY <2>2 DEF WorkflowTypeOK
  <1>2. WorkflowLockInv'
    BY DEF WorkflowTypeOK, WorkflowLockInv, NeedsWorkflow, NeedsData, OfflineSteps
  <1>3. StepInv'
    BY DEF WorkflowTypeOK, StepInv, NoRequest, Orders
  <1>4. ChangeInv'
    BY DEF WorkflowTypeOK, ChangeInv
  <1>5. LiveInv'
    BY DEF WorkflowTypeOK, LiveInv
  <1>6. NumberInv'
    BY DEF WorkflowTypeOK, NumberInv, NoRequest, Origin
  <1> QED
    BY <1>1, <1>2, <1>3, <1>4, <1>5, <1>6

LEMMA RestoreLooksStep ==
  ASSUME WorkflowIInv, NEW j \in Jobs, RestoreLooks(j)
  PROVE  WorkflowIInv'
  <1> USE NoJobAssumption, LeakedAssumption, BoundAssumption DEF WorkflowIInv,
     RestoreLooks, Seen, GoOn
  <1>1. WorkflowTypeOK'
    BY DEF WorkflowTypeOK, WorkflowRequest, WorkflowSteps
  <1>2. WorkflowLockInv'
    BY DEF WorkflowTypeOK, WorkflowLockInv, NeedsWorkflow, NeedsData, OfflineSteps
  <1>3. StepInv'
    BY DEF WorkflowTypeOK, StepInv, OfflineSteps
  <1>4. ChangeInv'
    BY DEF WorkflowTypeOK, ChangeInv
  <1>5. LiveInv'
    BY DEF WorkflowTypeOK, LiveInv
  <1>6. NumberInv'
    BY DEF WorkflowTypeOK, NumberInv
  <1> QED
    BY <1>1, <1>2, <1>3, <1>4, <1>5, <1>6

LEMMA RestoreStopsStep ==
  ASSUME WorkflowIInv, NEW j \in Jobs, RestoreStops(j)
  PROVE  WorkflowIInv'
  <1> USE NoJobAssumption, LeakedAssumption, BoundAssumption DEF WorkflowIInv,
     RestoreStops, Obeys
  <1>1. WorkflowTypeOK'
    <2>1. "take" \in WorkflowSteps
      BY DEF WorkflowSteps
    <2>2. \A r \in WorkflowRequest :
            [r EXCEPT !.pc = "take", !.stopped = TRUE] \in WorkflowRequest
      BY <2>1 DEF WorkflowRequest
    <2>3. [request[j] EXCEPT !.pc = "take", !.stopped = TRUE] \in WorkflowRequest
      BY <2>2 DEF WorkflowTypeOK
    <2> QED
      BY <2>3 DEF WorkflowTypeOK
  <1>2. WorkflowLockInv'
    BY DEF WorkflowTypeOK, WorkflowLockInv, NeedsWorkflow, NeedsData, OfflineSteps
  <1>3. StepInv'
    BY DEF WorkflowTypeOK, StepInv, OfflineSteps
  <1>4. ChangeInv'
    BY DEF WorkflowTypeOK, ChangeInv
  <1>5. LiveInv'
    BY DEF WorkflowTypeOK, LiveInv
  <1>6. NumberInv'
    BY DEF WorkflowTypeOK, NumberInv
  <1> QED
    BY <1>1, <1>2, <1>3, <1>4, <1>5, <1>6

LEMMA RestoreLocksStep ==
  ASSUME WorkflowIInv, NEW j \in Jobs, RestoreLocks(j)
  PROVE  WorkflowIInv'
  <1> USE NoJobAssumption, LeakedAssumption, BoundAssumption DEF WorkflowIInv,
     RestoreLocks, GoOn
  <1>1. WorkflowTypeOK'
    BY DEF WorkflowTypeOK, WorkflowRequest, WorkflowSteps
  <1>2. WorkflowLockInv'
    BY DEF WorkflowTypeOK, WorkflowLockInv, NeedsWorkflow, NeedsData, OfflineSteps
  <1>3. StepInv'
    BY DEF WorkflowTypeOK, StepInv, OfflineSteps
  <1>4. ChangeInv'
    BY DEF WorkflowTypeOK, ChangeInv
  <1>5. LiveInv'
    BY DEF WorkflowTypeOK, LiveInv
  <1>6. NumberInv'
    BY DEF WorkflowTypeOK, NumberInv
  <1> QED
    BY <1>1, <1>2, <1>3, <1>4, <1>5, <1>6

LEMMA RestoreSwapsStep ==
  ASSUME WorkflowIInv, NEW j \in Jobs, RestoreSwaps(j)
  PROVE  WorkflowIInv'
  <1> USE NoJobAssumption, LeakedAssumption, BoundAssumption DEF WorkflowIInv,
     RestoreSwaps, GoOn, Settle
  <1>1. \A k \in Jobs \ {j} : request'[k] = request[k]
    BY DEF WorkflowTypeOK
  <1>2. request'[j] \in {NoRequest, [request[j] EXCEPT !.pc = "revive"]}
    BY DEF WorkflowTypeOK
  <1>3. request[j].op = "restore" /\ dlock = j /\ wlock # j
    BY DEF WorkflowTypeOK, WorkflowRequest, Orders, StepInv, WorkflowLockInv, NeedsData, NeedsWorkflow, OfflineSteps
  <1>4. /\ request'[j].op \in {"none", "restore"} /\ request'[j].pc \in {"idle", "revive"}
        /\ request'[j].op = "none" <=> request'[j].pc = "idle"
        /\ request'[j].token <= writes /\ request'[j].saved.write <= writes
    BY <1>2, <1>3 DEF WorkflowTypeOK, NoRequest, WorkflowRequest, Origin, NumberInv
  <1>5. WorkflowTypeOK'
    <2>1. request' \in [Jobs -> WorkflowRequest]
      BY WorkflowTypes DEF WorkflowTypeOK, WorkflowRequest, WorkflowSteps
    <2> QED
      BY <2>1, WorkflowTypes DEF WorkflowTypeOK
  <1>6. WorkflowLockInv'
    BY <1>1, <1>3, <1>4 DEF WorkflowTypeOK, WorkflowLockInv, NeedsWorkflow, NeedsData, OfflineSteps
  <1>7. StepInv'
    BY <1>1, <1>3, <1>4 DEF WorkflowTypeOK, StepInv, OfflineSteps, Orders
  <1>8. ChangeInv'
    BY <1>1, <1>3, <1>4 DEF WorkflowTypeOK, ChangeInv, WorkflowLockInv, NeedsData, OfflineSteps
  <1>9. LiveInv'
    BY <1>1, <1>3, <1>4 DEF WorkflowTypeOK, LiveInv, WorkflowLockInv, NeedsData
  <1>10. NumberInv'
    BY <1>1, <1>4 DEF WorkflowTypeOK, NumberInv, Origin
  <1> QED
    BY <1>5, <1>6, <1>7, <1>8, <1>9, <1>10

LEMMA RestoreRevivesStep ==
  ASSUME WorkflowIInv, NEW j \in Jobs, RestoreRevives(j)
  PROVE  WorkflowIInv'
  <1> USE NoJobAssumption, LeakedAssumption, BoundAssumption DEF WorkflowIInv,
     RestoreRevives, Obeys, Leave, Release, Without
  <1>1. WorkflowTypeOK'
    BY DEF WorkflowTypeOK, WorkflowRequest, WorkflowSteps, OfflineSteps, NoRequest, Orders, Origin, DataState
  <1>2. WorkflowLockInv'
    BY DEF WorkflowTypeOK, WorkflowLockInv, NeedsWorkflow, NeedsData, OfflineSteps, NoRequest
  <1>3. StepInv'
    BY DEF WorkflowTypeOK, StepInv, NoRequest, Orders
  <1>4. ChangeInv'
    BY DEF WorkflowTypeOK, ChangeInv, NoRequest
  <1>5. LiveInv'
    BY DEF WorkflowTypeOK, LiveInv, NoRequest
  <1>6. NumberInv'
    BY DEF WorkflowTypeOK, NumberInv, NoRequest, Origin
  <1> QED
    BY <1>1, <1>2, <1>3, <1>4, <1>5, <1>6

LEMMA RestoreFailsStep ==
  ASSUME WorkflowIInv, NEW j \in Jobs, RestoreFails(j)
  PROVE  WorkflowIInv'
  <1> USE NoJobAssumption, LeakedAssumption, BoundAssumption DEF WorkflowIInv,
     RestoreFails, Unheard, Put, Settle, GoOn, Release, Without
  <1>1. WorkflowTypeOK'
    <2>1. [request[j] EXCEPT !.pc = "amend"] \in WorkflowRequest
      BY DEF WorkflowTypeOK, WorkflowRequest, WorkflowSteps
    <2>2. data' \in DataState /\ writes' \in 0 .. MaxWrites
      BY PutType DEF WorkflowTypeOK
    <2>3. wlock' \in Jobs \cup {NoJob, Leaked} /\ dlock' \in Jobs \cup {NoJob}
      BY DEF WorkflowTypeOK
    <2>4. late' \in Orders \cup {"none"} /\ running' \in BOOLEAN
      BY DEF WorkflowTypeOK, Orders
    <2>5. outcome' \in [Jobs -> {"none", "running", "completed", "failed"}]
      BY DEF WorkflowTypeOK
    <2> QED
      BY <2>1, <2>2, <2>3, <2>4, <2>5 DEF WorkflowTypeOK
  <1>2. WorkflowLockInv'
    BY DEF WorkflowTypeOK, WorkflowLockInv, NeedsWorkflow, NeedsData, OfflineSteps
  <1>3. StepInv'
    BY DEF WorkflowTypeOK, StepInv, OfflineSteps
  <1>4. ChangeInv'
    BY DEF WorkflowTypeOK, ChangeInv, WorkflowLockInv, NeedsData, OfflineSteps, StepInv
  <1>5. LiveInv'
    BY DEF WorkflowTypeOK, LiveInv, WorkflowLockInv, NeedsData, OfflineSteps, StepInv
  <1>6. NumberInv'
    BY DEF WorkflowTypeOK, NumberInv, NoRequest, DataState, Origin, WorkflowRequest
  <1> QED
    BY <1>1, <1>2, <1>3, <1>4, <1>5, <1>6

LEMMA RestoreAmendsStep ==
  ASSUME WorkflowIInv, NEW j \in Jobs, RestoreAmends(j)
  PROVE  WorkflowIInv'
  <1> USE NoJobAssumption, LeakedAssumption, BoundAssumption DEF WorkflowIInv,
     RestoreAmends, Obeys, Unheard, Leave, Release, Without
  <1>1. WorkflowTypeOK'
    BY DEF WorkflowTypeOK, WorkflowRequest, WorkflowSteps, OfflineSteps, NoRequest, Orders, Origin, DataState
  <1>2. WorkflowLockInv'
    BY DEF WorkflowTypeOK, WorkflowLockInv, NeedsWorkflow, NeedsData, OfflineSteps, NoRequest
  <1>3. StepInv'
    BY DEF WorkflowTypeOK, StepInv, NoRequest, Orders
  <1>4. ChangeInv'
    BY DEF WorkflowTypeOK, ChangeInv, NoRequest
  <1>5. LiveInv'
    BY DEF WorkflowTypeOK, LiveInv, NoRequest
  <1>6. NumberInv'
    BY DEF WorkflowTypeOK, NumberInv, NoRequest, Origin
  <1> QED
    BY <1>1, <1>2, <1>3, <1>4, <1>5, <1>6

\* The supervisor and the process change nothing that the invariant is about.
LEMMA SupervisorStep ==
  ASSUME WorkflowIInv, LateOrder \/ BotDies
  PROVE  WorkflowIInv'
  <1>1. WorkflowTypeOK'
    BY DEF WorkflowIInv, WorkflowTypeOK, LateOrder, BotDies
  <1>2. UNCHANGED <<kind, data, writes, wlock, dlock, request, outcome>>
    BY DEF LateOrder, BotDies
  <1> QED
    BY <1>1, <1>2 DEF WorkflowIInv, WorkflowLockInv, StepInv, ChangeInv, LiveInv, NumberInv, NeedsWorkflow, NeedsData

LEMMA WorkflowBotWritesStep ==
  ASSUME WorkflowIInv, BotChangesData
  PROVE  WorkflowIInv'
  <1> USE NoJobAssumption DEF WorkflowIInv, BotChangesData
  <1>1. /\ data' \in DataState /\ writes' \in 0 .. MaxWrites
        /\ data'.write = writes + 1 /\ writes' = writes + 1 /\ data'.by = NoJob
    BY PutType DEF WorkflowTypeOK, DataState
  <1>2. data'.valid = data.valid
    BY DEF Put
  <1>3. WorkflowTypeOK'
    BY <1>1 DEF WorkflowTypeOK
  <1>4. WorkflowLockInv' /\ StepInv'
    BY DEF WorkflowLockInv, StepInv, NeedsWorkflow, NeedsData
  <1>5. ChangeInv' /\ LiveInv' /\ NumberInv'
    BY <1>1, <1>2 DEF WorkflowTypeOK, ChangeInv, LiveInv, NumberInv, WorkflowRequest, DataState
  <1> QED
    BY <1>3, <1>4, <1>5

LEMMA WorkflowCrashStep ==
  ASSUME WorkflowIInv, DashboardCrash
  PROVE  WorkflowIInv'
  <1> USE NoJobAssumption, LeakedAssumption DEF WorkflowIInv, DashboardCrash
  <1>1. WorkflowTypeOK'
    BY WorkflowTypes DEF WorkflowTypeOK
  <1>2. WorkflowLockInv' /\ StepInv'
    BY DEF WorkflowLockInv, StepInv, NeedsWorkflow, NeedsData, NoRequest, OfflineSteps, Orders
  <1>3. ChangeInv' /\ LiveInv' /\ NumberInv'
    BY DEF WorkflowTypeOK, ChangeInv, LiveInv, NumberInv, NoRequest, Origin, DataState
  <1> QED
    BY <1>1, <1>2, <1>3

\* Every step keeps the inductive invariant.
LEMMA WorkflowNextInv ==
  ASSUME WorkflowIInv, [WorkflowNext]_workflowVars
  PROVE  WorkflowIInv'
  <1>1. CASE UNCHANGED workflowVars
    BY <1>1 DEF workflowVars, WorkflowIInv, WorkflowTypeOK, WorkflowLockInv, StepInv, ChangeInv, LiveInv, NumberInv,
       NeedsWorkflow, NeedsData
  <1>2. ASSUME NEW j \in Jobs, Process(j) PROVE WorkflowIInv'
    BY <1>2, AskActionStep, OpenActionStep, ActionLeaksStep,
       OrderObeyedStep, OrderFailsStep, ActionDoneStep DEF Process
  <1>3. ASSUME NEW j \in Jobs, Offline(j) PROVE WorkflowIInv'
    BY <1>3, OpenOfflineStep, OfflineLocksStep, OfflineBacksUpStep,
       OfflineLooksStep, OfflineStopsStep, OfflineConfirmsStep,
       OfflineWritesStep, OfflineValidatesStep, OfflineRecoversStep,
       OfflineRestartsStep, OfflineReadyStep, OfflineCompletesStep,
       OfflineRaisesStep, OfflineGivesUpStep DEF Offline
  <1>4. ASSUME NEW j \in Jobs, Edit(j) PROVE WorkflowIInv'
    BY <1>4, OpenEditStep, EditLocksStep, EditBacksUpStep, WorkflowEditWritesStep,
       EditAcceptedStep, WorkflowEditFailsStep DEF Edit
  <1>5. ASSUME NEW j \in Jobs, Restore(j) PROVE WorkflowIInv'
    BY <1>5, OpenRestoreStep, RestoreLooksStep, RestoreStopsStep,
       RestoreLocksStep, RestoreSwapsStep, RestoreRevivesStep,
       RestoreFailsStep, RestoreAmendsStep DEF Restore
  <1> QED
    BY <1>1, <1>2, <1>3, <1>4, <1>5, SupervisorStep, WorkflowBotWritesStep, WorkflowCrashStep DEF WorkflowNext

\* The inductive invariant: types, and the lock, step, change and number
\* discipline of process_action, sqlite_data.py, data.py and the restore route.
THEOREM WorkflowInvariance == WorkflowSpec => []WorkflowIInv
  <1>1. WorkflowInit => WorkflowIInv
    BY WorkflowInitInv
  <1>2. WorkflowIInv /\ [WorkflowNext]_workflowVars => WorkflowIInv'
    BY WorkflowNextInv
  <1> QED
    BY <1>1, <1>2, PTL DEF WorkflowSpec

\* Every variable keeps its type.
THEOREM WorkflowTypeCorrect == WorkflowSpec => []WorkflowTypeOK
  <1>1. WorkflowIInv => WorkflowTypeOK
    BY DEF WorkflowIInv
  <1> QED
    BY <1>1, WorkflowInvariance, PTL

\* The workflow lock and the data lock are held by a request exactly while its
\* control flow is inside their with blocks; only a leak keeps one longer.
THEOREM LocksHeld == WorkflowSpec => []WorkflowLockInv
  <1>1. WorkflowIInv => WorkflowLockInv
    BY DEF WorkflowIInv
  <1> QED
    BY <1>1, WorkflowInvariance, PTL

\* A request moves, and its operation is settled, by its own steps alone; or the
\* dashboard crashes, and the operations stay.
LEMMA OwnStep ==
  ASSUME WorkflowIInv, [WorkflowNext]_workflowVars, NEW j \in Jobs,
         request'[j] # request[j] \/ outcome'[j] # outcome[j]
  PROVE  Process(j) \/ Offline(j) \/ Edit(j) \/ Restore(j) \/ DashboardCrash

  <1>1. ASSUME NEW k \in Jobs, Process(k), k # j PROVE FALSE
    BY <1>1 DEF WorkflowIInv, WorkflowTypeOK, Process, AskAction, OpenWith, Settle, OpenAction,
       GoOn, ActionLeaks, OrderObeyed, Obeys, OrderFails, Unheard, Leave,
       Release, Without, ActionDone
  <1>2. ASSUME NEW k \in Jobs, Offline(k), k # j PROVE FALSE
    BY <1>2 DEF WorkflowIInv, WorkflowTypeOK, Offline, OpenOffline, OpenWith, Settle,
       OfflineLocks, Stands, GoOn, OfflineBacksUp, OfflineLooks, Seen,
       OfflineStops, Obeys, OfflineConfirms, OfflineWrites, Put,
       OfflineValidates, AfterWrite, OfflineRecovers, OfflineRestarts,
       OfflineReady, OfflineCompletes, Leave, Release, Without, OfflineRaises,
       Unheard, OfflineGivesUp
  <1>3. ASSUME NEW k \in Jobs, Edit(k), k # j PROVE FALSE
    BY <1>3 DEF WorkflowIInv, WorkflowTypeOK, Edit, OpenEdit, OpenWith, Settle, EditLocks,
       GoOn, EditBacksUp, LiveEditWrites, Put, EditAccepted, Leave, Release,
       Without, LiveEditFails
  <1>4. ASSUME NEW k \in Jobs, Restore(k), k # j PROVE FALSE
    BY <1>4 DEF WorkflowIInv, WorkflowTypeOK, Restore, OpenRestore, OpenWith, Settle,
       RestoreLooks, Seen, GoOn, RestoreStops, Obeys, RestoreLocks,
       RestoreSwaps, RestoreRevives, Leave, Release, Without, RestoreFails,
       Unheard, Put, RestoreAmends
  <1>5. ~UNCHANGED workflowVars
    BY DEF workflowVars
  <1>6. ~(LateOrder \/ BotDies \/ BotChangesData)
    BY DEF LateOrder, BotDies, BotChangesData
  <1> QED
    BY <1>1, <1>2, <1>3, <1>4, <1>5, <1>6 DEF WorkflowNext

\* The steps that write a change, and the one that takes a change back.
LEMMA WriteStep ==
  ASSUME WorkflowIInv, [WorkflowNext]_workflowVars, NEW j \in Jobs,
         request[j].pc \in {"put", "write"}, request'[j].pc \in {"judge", "validate"}
  PROVE  OfflineWrites(j) \/ LiveEditWrites(j)
  <1>1. Process(j) \/ Offline(j) \/ Edit(j) \/ Restore(j) \/ DashboardCrash
    BY OwnStep
  <1>2. ~Process(j)
    BY DEF Process, AskAction, OpenWith, Settle, OpenAction, GoOn, ActionLeaks,
       OrderObeyed, Obeys, OrderFails, Unheard, Leave, Release, Without,
       ActionDone
  <1>3. ~Restore(j)
    BY DEF Restore, OpenRestore, OpenWith, Settle, RestoreLooks, Seen, GoOn,
       RestoreStops, Obeys, RestoreLocks, RestoreSwaps, RestoreRevives, Leave,
       Release, Without, RestoreFails, Unheard, Put, RestoreAmends
  <1>4. ~DashboardCrash
    BY DEF DashboardCrash, NoRequest
  <1>5. Offline(j) => OfflineWrites(j)
    <2>1. ~OfflineRaises(j)
      BY DEF WorkflowIInv, WorkflowTypeOK, WorkflowRequest, OfflineRaises, GoOn
    <2>2. ~(OpenOffline(j) \/ OfflineLocks(j) \/ OfflineBacksUp(j) \/ OfflineLooks(j))
      BY DEF OpenOffline, OfflineLocks, OfflineBacksUp, OfflineLooks, Stands
    <2>3. ~(OfflineStops(j) \/ OfflineConfirms(j) \/ OfflineValidates(j) \/ OfflineRecovers(j))
      BY DEF OfflineStops, OfflineConfirms, OfflineValidates, OfflineRecovers, Stands
    <2>4. ~(OfflineRestarts(j) \/ OfflineReady(j) \/ OfflineCompletes(j) \/ OfflineGivesUp(j))
      BY DEF OfflineRestarts, OfflineReady, OfflineCompletes, OfflineGivesUp, Stands
    <2> QED
      BY <2>1, <2>2, <2>3, <2>4 DEF Offline
  <1>6. Edit(j) => LiveEditWrites(j)
    BY DEF WorkflowIInv, WorkflowTypeOK, NoRequest, Edit, OpenEdit, OpenWith, Settle, EditLocks,
       GoOn, EditBacksUp, EditAccepted, Leave, Release, Without, LiveEditFails
  <1> QED
    BY <1>1, <1>2, <1>3, <1>4, <1>5, <1>6

\* An edit changes what its user saw, and a recovery takes back no one else's
\* change, for any number of requests and writes (sqlite_data.py 275, data.py
\* 133-141).
THEOREM NoneLost == WorkflowSpec => NoLostUpdate
  <1> DEFINE Unlost(j) ==
        data' # data =>
          /\ request[j].pc \in {"put", "write"} /\ request'[j].pc \in {"judge", "validate"} =>
               \/ data.write = request[j].token
               \/ kind = "file" /\ data.by = NoJob
          /\ Stands(j, "offline", "recover") /\ request'[j].pc # "recover" =>
               data.by \in {j, NoJob}
  <1>1. ASSUME WorkflowIInv, [WorkflowNext]_workflowVars, NEW j \in Jobs PROVE Unlost(j)
    <2>1. ASSUME request[j].pc \in {"put", "write"}, request'[j].pc \in {"judge", "validate"}
          PROVE  \/ data.write = request[j].token
                 \/ kind = "file" /\ data.by = NoJob
      <3>1. OfflineWrites(j) \/ LiveEditWrites(j)
        BY <1>1, <2>1, WriteStep
      <3>2. CASE OfflineWrites(j)
        BY <3>2 DEF OfflineWrites
      <3>3. CASE LiveEditWrites(j)
        <4>1. request[j].op \in {"row", "file"}
          BY <1>1, <3>3 DEF LiveEditWrites, WorkflowIInv, WorkflowTypeOK, StepInv, WorkflowRequest, OfflineSteps, Orders
        <4> QED
          BY <1>1, <3>3, <4>1 DEF LiveEditWrites, WorkflowIInv, StepInv, LiveInv
      <3> QED
        BY <3>1, <3>2, <3>3
    <2>2. Stands(j, "offline", "recover") => data.by \in {j, NoJob}
      BY <1>1 DEF Stands, WorkflowIInv, ChangeInv
    <2> QED
      BY <2>1, <2>2
  <1>2. WorkflowIInv /\ [WorkflowNext]_workflowVars => [\A j \in Jobs : Unlost(j)]_workflowVars
    BY <1>1
  <1> QED
    BY <1>2, WorkflowInvariance, PTL DEF WorkflowSpec, NoLostUpdate

\* An offline edit starts the bot again only over valid data, for any number of
\* requests and writes (sqlite_data.py 298-318).
THEOREM RestartedValid == WorkflowSpec => RestartsOnlyValid
  <1>1. WorkflowIInv => \A j \in Jobs :
          Stands(j, "offline", "restart") /\ request'[j].pc = "ready" => data.valid
    BY DEF Stands, WorkflowIInv, ChangeInv
  <1> QED
    BY <1>1, WorkflowInvariance, PTL DEF WorkflowSpec, RestartsOnlyValid

\* What is reported completed is in the data, for any number of requests and
\* writes.
THEOREM Truthful == WorkflowSpec => OperationTruthful
  <1> DEFINE True(j) ==
        /\ outcome[j] # "completed" /\ outcome'[j] = "completed"
        /\ request[j].op \in {"offline", "row", "file"}
        => /\ request[j].op = "file" \/ data.valid
           /\ data.by \in {j, NoJob}
           /\ data.write > request[j].token
  <1>1. ASSUME WorkflowIInv, [WorkflowNext]_workflowVars, NEW j \in Jobs PROVE True(j)
    <2> SUFFICES ASSUME outcome[j] # "completed", outcome'[j] = "completed",
                        request[j].op \in {"offline", "row", "file"}
                 PROVE  /\ request[j].op = "file" \/ data.valid
                        /\ data.by \in {j, NoJob}
                        /\ data.write > request[j].token
      OBVIOUS
    <2>1. Process(j) \/ Offline(j) \/ Edit(j) \/ Restore(j) \/ DashboardCrash
      BY <1>1, OwnStep
    <2>2. ~DashboardCrash
      BY DEF DashboardCrash
    <2>3. ~Process(j)
      BY <1>1 DEF WorkflowIInv, WorkflowTypeOK, StepInv, Orders, Process, AskAction,
         OpenWith, Settle, OpenAction, GoOn, ActionLeaks, OrderObeyed, Obeys,
         OrderFails, Unheard, Leave, Release, Without, ActionDone
    <2>4. ~Restore(j)
      BY <1>1 DEF WorkflowIInv, WorkflowTypeOK, StepInv, OfflineSteps, Restore,
         OpenRestore, OpenWith, Settle, RestoreLooks, Seen, GoOn,
         RestoreStops, Obeys, RestoreLocks, RestoreSwaps, RestoreRevives,
         Leave, Release, Without, RestoreFails, Unheard, Put, RestoreAmends
    <2>5. CASE Offline(j)
      <3>1. OfflineCompletes(j) /\ request[j].good
        BY <1>1, <2>5 DEF WorkflowIInv, WorkflowTypeOK, Offline, OpenOffline, OpenWith,
           Settle, OfflineLocks, Stands, GoOn, OfflineBacksUp, OfflineLooks,
           Seen, OfflineStops, Obeys, OfflineConfirms, OfflineWrites,
           Put, OfflineValidates, AfterWrite, OfflineRecovers,
           OfflineRestarts, OfflineReady, OfflineCompletes, Leave,
           Release, Without, OfflineRaises, Unheard, OfflineGivesUp
      <3> QED
        BY <1>1, <3>1 DEF OfflineCompletes, Stands, WorkflowIInv, ChangeInv
    <2>6. CASE Edit(j)
      <3>1. EditAccepted(j)
        BY <1>1, <2>6 DEF WorkflowIInv, WorkflowTypeOK, Edit, OpenEdit, OpenWith, Settle,
           EditLocks, GoOn, EditBacksUp, LiveEditWrites, Put, EditAccepted,
           Leave, Release, Without, LiveEditFails
      <3> QED
        BY <1>1, <3>1 DEF EditAccepted, WorkflowIInv, LiveInv, StepInv, OfflineSteps
    <2> QED
      BY <2>1, <2>2, <2>3, <2>4, <2>5, <2>6
  <1>2. WorkflowIInv /\ [WorkflowNext]_workflowVars => [\A j \in Jobs : True(j)]_workflowVars
    BY <1>1
  <1> QED
    BY <1>2, WorkflowInvariance, PTL DEF WorkflowSpec, OperationTruthful
===============================================================================

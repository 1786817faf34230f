# ACTA in TLA+

A verification project for ACTA: a local tool that runs prompts (*skills*)
against language models (*models*) and keeps every run (*execution*), with its
log, in one SQLite file. Four programs share that file: the library `acta_db`,
`acta_cli`, `acta_runner` and `acta_gui`. There is no server; what keeps the data right is
the SQL of `acta_db` and the order in which the programs call it. That is what is modelled here.

Sources are named relative to the repository's root (`src/` in `PROJECT.json`).

Run everything from this directory:

    tlc -workers 2 -config ActaSafe.cfg MCActa.tla        # likewise Acta*.cfg, DocCancelIgnored.cfg
    tlc -workers 2 -config SkillFolders.cfg MCFolders.tla # likewise ModelFolders, DocFolderCycle
    tlc -workers 2 -config Catalog.cfg MCCatalog.tla      # likewise Database, Listing, Front
    tlc -workers 2 -config SweepClock.cfg SweepClock.tla
    tlapm ActaProofs.tla                                  # likewise the other *Proofs.tla

## 1. The system

| Part | State | Operations | Who calls it |
|---|---|---|---|
| Execution store: `acta_db/src/execution.c`, `execution_log.c`, `acta_db/migrations/0.1.sql` | table `executions` (status, deleted_at, raw_response, result, error, timestamps), table `execution_logs` | create, start, cancel, complete, fail, reset, set_raw_response, delete, restore, log | everybody |
| Runner pipeline: `acta_runner/src/run.c`, `backend.c`, `main.c` | in memory: the row being run, a batch's list of rows, the cancel flag | `run <id>`, `run --pending`; per row: fetch, claim, resolve, validate, preflight, call, record, close | a shell, cron, the GUI's thread |
| Death marker: `acta_runner/src/deathmark.c` | `dm_exec_id`, the row to fail if the process exits | claim, release, atexit hook, signal handler | the runner |
| Sweep: `acta_runner/src/sweep.c` | none | list `running` rows, judge each by its last activity, fail, log | a shell, cron |
| GUI run worker: `acta_gui/src/runnerWorker.cpp`, `widgets/executionPanel.cpp` | a worker thread, the process-wide cancel flag | Run (with a reset of a failed row), Cancel, end of the worker | a user |
| Execution commands: `acta_cli/src/commands/execution.c` | none | every transition of the store, by hand | a user |
| Folders: `acta_db/src/model_folder.c`, `skill_folder.c` | `parent_id`, `deleted_at` | create, rename, soft_delete, restore, move_to | acta_cli, acta_gui |
| Models and skills: `acta_db/src/model.c`, `skill.c` | content, `folder_id`, `deleted_at` | create, update, soft_delete, restore, move_to_folder | acta_cli, acta_gui |
| Revisions: triggers in `0.1.sql`, `model_revision.c`, `skill_revision.c` | an append-only history per model and skill, tombstones included | triggers on insert, update and soft delete; get, list, latest, count | SQLite, and everybody who reads |
| Contexts: `acta_db/src/context.c` | the text an execution runs with; only `deleted_at` changes | create, delete, restore, read | acta_cli, acta_gui |
| Database file: `acta_db/src/db.c`, `acta_cli/src/commands/db.c`, `acta_gui/src/mainwindow.cpp` | the file a path names, its schema, user_version, who holds the write lock | open (must exist, or create), init, migrate, backup, the GUI's bootstrap | everybody |
| Readers: the listers, counters and getters of `acta_db`, `acta_cli/src/commands`, the GUI's panels | a page's offset, a panel's rows and selection | list, stream, count, get; reload, select, delete with a question | acta_cli, acta_gui |
| Command line of acta_cli: `cli_main.c`, `argparse.c`, `tools.c`, `commands.c` | how far an invocation has come | two passes, the option vocabulary, the published schema, dispatch | a shell, an agent |
| Backend check, dialects: `acta_runner/src/check.c`, `dialect.c` | none | health, model list, catalogue, request shape per server kind | runner |
| Configuration: `acta_db/src/conf.c` | none | which file, which API key | runner, GUI, CLI |
| Command line of acta_runner; text helpers; GUI viewers | none | text to options, JSON, tables | |

How they interact. Processes share only the SQLite file; SQLite makes each
*statement* atomic, and hardly anything is done in a transaction, so a call made of
several statements can be interleaved with anybody's. Inside `acta_gui` a worker
thread runs the same `run_execution` as the command line, on a connection of
its own; the panel talks to it by a global flag (Cancel) and the thread's signals.

What is hard:

* **Interleaving.** Two runners fetch the same pending row; a user cancels,
  deletes or resets it meanwhile; a sweep fails it. Only the `WHERE status = ...`
  of the UPDATEs decides, and not every UPDATE has the guard its SELECT had.
* **Crashes.** A runner dies after its claim; its row is `running` with nobody
  behind it. The atexit hook handles exits, `sweep` the rest.
* **Late work.** A runner that lost its row does not know and writes on.
* **Order.** Log rows are written before the transition they announce; the raw
  response before the row is closed; the cancel flag is looked at in four places only.
* **Failing statements.** Any of them may meet SQLITE_BUSY; what is logged, failed or
  recorded then depends on which return code is looked at.
* **Long sequences** of deletes, restores and moves in the folder tree, and of what the
  revision triggers make of them.
* **Stale reads.** An update writes back a whole row it read before; a dialog offers what was live
  when it was opened; a stream's offset counts rows that may have gone.
* **Silence.** Sweep calls dead what has not written for N seconds; a live runner waits longer than
  that for a server if N is small.
* **Half-made files.** schema.sql runs in autocommit, user_version is written after the commit,
  and the GUI removes a file it could not open.
* **Tables that must agree.** Schema, vocabulary and 76 handlers each know the options of a command.

What makes each part right: the lifecycle drawn in `execution.h` and the rule that
start() is a lock; no attempt writes into another one's; the trail does not
contradict the table; everything claimed ends; folders form a tree and deleting one
hides nothing live; revisions describe what ran; a database that was interrupted
can be opened.

## 2. The modules

    ExecLifecycle          abstract: what the executions table promises
        ^  refined by (ImplementsLifecycle)
    ExecStore  <-  Runner  <-  Acta  <-  MCActa (instances), ActaProofs <- ActaTrailProofs (theorems)

    FolderCalls            abstract: what one folder call promises
        ^  refined by (CallsAreAtomic)
    FolderTree  <-  MCFolders (instances), FolderTreeProofs (theorems)
    Catalog     <-  MCCatalog, CatalogProofs (theorems)
    Database    <-  MCDatabase, DatabaseProofs (theorems)
    Listing     <-  MCListing, ListingProofs (theorems)
    Front       <-  MCFront, FrontProofs (theorems)
    SweepClock  <-  SweepClockProofs (theorems)

(`<-`: is extended by.) Names are those of the source where TLA+ allows.

### ExecLifecycle

The state machine of `acta_db/include/execution.h` as an abstract specification,
with two things made explicit. `claims[i]` numbers the claims of a row, because
start() is "the atomic lock" (docs/runner_contract.md, decision 6), and `result[i]` names the
claim whose output the row stores. Only the current claim completes a row.

### ExecStore

The table and one pair of operators per function of `execution.c`: `Can...(i)`, true
when its UPDATE changes a row, and its effect on the columns. The SELECT that most functions
begin with only chooses an error message, so the function is one step; reset(), and the
runner's fetch followed by start(), are split because their SELECT checks `deleted_at` and
their UPDATE does not. Columns are reduced to what properties can tell apart:
timestamps and error to set or NULL, `raw` and `result` to the claim whose call
produced the text (`ByOperator` for text from the command line). `claims` is a ghost;
`trail` holds the terminal events of `execution_logs` with the claim they speak of.

### Runner

`pc[p]` is the next *statement on shared state* of process p, whether an
`acta_runner` (`Cli`) or a GUI worker (`Gui`), which share the pipeline:

| Step | Code |
|---|---|
| `RunId`, `RunPending`, `NextInBatch`, `ReturnCli` | `cmd_run` |
| `Fetch`, `Claim`, `DeathmarkClaim`, `Prepare` | fetch, start(), `deathmark_claim`, resolving and validating |
| `CallFails`, `Answer`, `AnswerNotStored`, `Reject` | preflight and POST, set_raw_response, output_schema |
| `Finish`, `FinishRefused`, `LogDone` | complete() and its log row |
| `LogFail`, `FailRow`, `LogCancel`, `CancelRow` | `fail_execution`, `cancel_execution`: log, then transition |
| `ClickRun`, `GuiReset`, `Boot`, `ClickCancel`, `ReturnGui`, `WorkerFinished` | the panel and the worker thread |
| `Signal`, `DeathmarkLog`, `DeathmarkNothing`, `DeathmarkFail` | exit() from the handler and the atexit hook |
| `Kill` | SIGKILL, power loss: memory is gone, the table stays |

What a server answers, and whether validation accepts it, is a free choice. `att[p]` is a
ghost: the claim p obtained.

### Acta

Adds users (`acta_cli` and the panel's buttons) and `acta_runner sweep`, and states the
properties. `resetting` remembers the rows some reset() has checked; `sweep[s]`
is what a sweep is about to write. Time is reduced to what the judgement
is for: with a long enough `--stale-seconds`, a row is stale only if no process works
on it (`Tended`; `SweepClock` says how long that is); the fault `live_sweep` drops that assumption.

`Faults` chooses the environment: `busy` (any statement may fail), `signal`,
`live_sweep`, `manual` (an operator drives running rows with `acta_cli`). Users
who create, cancel, delete, restore and reset at any time, and processes killed
at any point, are always there.

### FolderTree

Folders of models or skills and what is filed in them. delete and move are
several statements; `call[c]` is where client c is in one. The files
`model_folder.c` and `skill_folder.c` are twins but for one WHERE clause: the walk that keeps
move_to from closing a cycle reads live rows only in the former, all rows in
the latter: `WalkLiveOnly`. `MaxDepth` is the walk's limit (10000 and 4096).
Names are left out: a duplicate name is one more reason for a statement to fail.

With `ReadsFail` a SELECT may fail, and the code does not always notice: a COUNT that fails counts 0
(`FoldersUncounted`, `ItemsUncounted`), a walk whose SELECT fails is at its end (`WalkCut`). Such a call is
marked `blind`, which is a ghost. A statement that cannot be prepared, and a target that cannot be read, end
the call (`ReadRefused`).

### FolderCalls

The same calls as the headers describe them, each one step on the rows: `Delete` of a folder
that is `Empty`, `Move` to a live folder that is not `Within` the one that moves. `Within` is stated without a walk, as
membership of every set closed under visible parents, so it has a meaning in cycles too.

### Catalog

Models or skills (`kind`), their revisions, contexts and what executions refer to. The
unique indexes and the three triggers of `0.1.sql` are operators (`Taken`, `CreateRevision`,
`UpdateRevision`, `DeleteRevision`) that every statement on the table goes through; a call is one
or more of those statements, with `call[c]` in between: `model update` and `skill update` read the row, lay the
given fields over it (`Over`) and write all of it back; the edit dialog reads its fields when it opens and the folder
when Save is clicked; creating an execution checks the context in one statement and inserts in another.
`said` is how the call that ended last ended, which the two files do not always agree about.
In SQLite the statement and its triggers are one transaction, so they are one step here.

| Steps | Code |
|---|---|
| `ModelCreate` ... `SkillMove` | `acta_cli/src/commands/model.c`, `skill.c` over `acta_db/src/model.c`, `skill.c` |
| `SkillPatch`, `UpdateRow` | reading the patch after the row, writing the row |
| `ModelDialogOpen`, `SkillDialogSave` ... | `widgets/modelDialog.cpp`, `skillDialog.cpp` |
| `ContextCreate` ... | `context.c` of both |
| `ExecCreate`, `ExecInsert`, `NewExecution`, `PickSave` | `acta_db_execution_create` from the command line and from `executionCreateDialog.cpp` |

### Database

Files are inodes and paths name them, since the GUI unlinks a file others may have open. A schema is a *level*: how
many statements of schema.sql, then migrations, have been applied. `db init` applies
them one by one in autocommit, `db migrate` one version per transaction, and either writes `user_version` in a statement
of its own. `db backup` looks at the target, opens it, copies, looks again and checks. Faults: a
statement fails (`busy`), a process is killed between two of them (`crash`).
A failing statement is not always noticed: the list of tables that init and migrate decide by ends at the first step that is not
a row and then is empty, or cut short, without an error (`Listed`, `ListFails`), and init goes on when it cannot read the
recorded version (`InitVersion`). A process whose list came back empty of a file with another program's tables is `blind`, which is a ghost.
`Versions` is 1 as shipped; the run uses 2, so that a migration exists.

### Listing

Nine tables read in nearly the same way. For each its lister, counter, getter and the handlers' use of them are
operators of their own (`SkillList`, `ExecRows`, `ModelRevisionGet` ...), because what they
differ in is what goes wrong: folder 0, `--include_deleted`, `--all`, the page cap, who checks how a SELECT ended.
`Ask`, `Page` and `StepFails` are `list` and `--stream`: a stream is one SELECT per page, between two of
which anybody writes (`Insert`, `Trash`, `Regroup`). A panel of the GUI is `Reload`, `Select`, `Click`, `Answer`, `RestoreClick`.

### Front

How acta_cli makes a call of its arguments. A token is a word or an option, with or without `=value`; which word it is
is its place. The published schema (`SchemaModel` ...), the handlers' reads (`ModelReads` ...) and the vocabulary
(`Vocabulary`, `TakesValue`) are translated table by table, each from its own file, and compared by the properties.
`Scan` ... `Leave` are the stages of `cli_main.c`, with their exit codes and what has been written by then.

### SweepClock

`Acta` takes for granted that sweep spares rows somebody works on; this module, in seconds, asks when that is so. A runner writes a log row
between some of its steps and waits up to `Timeout` in each call; sweep's query, clock and per-row query take up to `Lag`. While the
database is `busy` any statement of either may fail: a row of the log is missing, a claim or a verdict is not written, and
sweep's read of the log gives an older row or none (`LogRead`: the count, the page or a step of it failed, and `have_log` stays 0),
so that `started_at` alone counts. Such a judgement is marked `blind`, which is a ghost.

`Silence` is the longest time without a row: 2 calls in the openai dialect, 3 in llamacpp's, one more if the log cannot be
written, plus `Pause` for all that is not a call. `Attempt` is the longest time from a claim to its verdict: 3 or 4 calls and 7
pauses. `Needed` is what N has to be: `Silence` when the log was read, `Attempt` when it was not.

## 3. What TLC checks

Runs that pass:

| Run | Instance | Properties |
|---|---|---|
| `ActaSafe` | 2 rows, 2 claims each, 2 runners, 1 sweep, no faults | `ColumnsMatchStatus`, `OneHolder`, `NoZombie`, `ResultIsLastRaw`, `OneVerdict`, `FailureIsLogged`, `RetryStartsClean`, `ImplementsLifecycle` |
| `ActaHostile` | 1 row, 1 runner, 1 GUI, 1 sweep, every fault | `TypeOK`, `CompletedLogIsTrue`, `TerminalIsFinal` |
| `ActaLive` | 1 row, 1 runner, 1 GUI, 1 sweep, fairness | `LiveRunningEnds`, `InvocationEnds` |
| `SkillFolders` | 4 folders, 1 skill, 1 client, the walk of `skill_folder.c`, reads succeed | `Acyclic`, `DeleteLeavesNothingBehind`, `CallsAreAtomic` |
| `ModelFolders` | 4 folders, 1 client, the walk of `model_folder.c`, reads may fail, fairness | `OnlyRestoreClosesLiveCycle`, `CallsReturn` |
| `Catalog` | 2 items, 1 context, 2 clients, 2 columns, 3 revisions, 1 execution | `TypeOK`, `HistoryTellsRow`, `RevisionsNumbered`, `RestoreIsPossible`, `PickedCanRun`, `OkMeansWritten`, `PinsHold` |
| `Database` | 2 processes that init or migrate, 1 backup, 1 GUI, 2 versions, busy and crash | `TypeOK`, `VersionTellsSchema`, `ForeignUntouched`, `ReportedBackupIsWhole`, `FailedBackupLeavesNothing` |
| `Listing` | each of the nine tables, 3 rows in pages of 2, limits 0 to 3 | `ExportIsComplete`, `CountIsList`, `ListedIsGettable`, `SelectionFollowsItsRow` |
| `Front` | every command, up to 3 tokens after it, 1 before | `RefusedDoesNothing`, `SchemaIsObeyed`, `NoWordIsSwallowed`, `ShowTouchesNothing` |
| `SweepClock` | Timeout 2, Pause 1, Lag 1, N from 4 to 9 and from 12 to 15, statements fail or not, fairness | `LiveRunnerSpared`, `DeadRowIsSwept` |

What they show. Attempts do not get mixed up (`OneHolder`, `NoZombie`,
`ResultIsLastRaw`, `ImplementsLifecycle`) although a row is fetched, claimed and closed by
statements far apart: while its runner is alive nothing makes the row claimable again, because
only `failed` rows are reset and only the holder and a sweep of an abandoned row fail it. The
trail agrees with the table (`OneVerdict`, `FailureIsLogged`) in the absence of faults, and
`CompletedLogIsTrue`, `TerminalIsFinal` in spite of all of them. Retries start clean
(`RetryStartsClean`), although reset() leaves `result` as it is: no failed row ever has one
(`ColumnsMatchStatus`).

Which property needs which environment matters. `FailureIsLogged` fails when statements may fail (log_phase
ignores a failed insert), under `live_sweep` and under `manual`; `OneVerdict` under `signal` and `live_sweep`; `NoZombie` under all but
`busy`, and what rests on it under `live_sweep`, `manual` and, with a third claim, `signal` (section 4). So they are in `ActaSafe`
only, and `ActaHostile` keeps what is true in spite of everything. That failing statements and GUI workers do not break
`NoZombie`, `OneVerdict` and `ImplementsLifecycle` is proved rather than run (section 5, `Undisturbed`).

A client who is alone may take each folder call for one step (`CallsAreAtomic`): what it
found empty is empty when it is deleted, and whatever cycles restores have closed, the walk finds the folder that moves
if the target is below it. A failed read is the exception; that it is the only one is `OnlyRestoreClosesLiveCycle`.

The history of a model tells its row (`HistoryTellsRow`, `RevisionsNumbered`) although no code but the triggers writes it
and a restore writes nothing; a deleted row can always come back (`RestoreIsPossible`), since the unique indexes count deleted rows;
what an execution refers to stays what it was (`PinsHold`), and what the dialog offered stays runnable while it is open (`PickedCanRun`).
The recorded version never promises a table that is not there (`VersionTellsSchema`), with two processes at it and one killed at any point.
A file of another program is left alone, whatever the path comes to name between the check and the writes (`ForeignUntouched`),
by all but the one process whose own list of its tables failed unnoticed: that one does apply the schema (section 4).
A list that succeeds is complete if nobody wrote meanwhile, or if what is listed keeps its place
(`ExportIsComplete`): deleted rows of a table are such a case, live ones are not. A command line that the
schema allows reaches the handler as it was meant (`SchemaIsObeyed`); one that is refused has done nothing (`RefusedDoesNothing`).
With N at least `Silence` sweep fails no row a runner works on if it could read the log, and with N at least `Attempt` none even
if it could not (`LiveRunnerSpared`).

Bounds, and why they are enough:

* `MaxClaims = 2`: a row is reset at most once; what goes wrong between attempts
  goes wrong between one and the next. `CanReset` and `UserManual` are the only guards with the bound.
* Two rows in `ActaSafe`, so that a batch has a next row and `--max` a choice; one elsewhere:
  rows only interact through a process's batch and its death marker.
* Two runners compete for a claim; a third has no step of its own that the two do not have. GUI
  workers are in `ActaHostile` and `ActaLive`.
* `Cli` is a symmetry set of `Spec` (no action and no safety property tells runners apart); no
  symmetry under fairness.
* Four folders: the shortest cycle through a deleted folder needs three, and a walk that goes
  round a cycle without meeting what it looks for needs one more. `MaxDepth` exceeds their number, as in the code.
* One client: the folder properties hold only then (see 4), and docs/DBDesign.md calls one
  writer at a time "the expected pattern".

* `Catalog`: two items, the least for which one takes another's name; two columns, folder and name, of which the dialog shows one,
  so that a read column and a written one differ; three revisions: create, delete, and one after a restore.
* `Database`: the last table is in statement 2 of 3 and the last version is 2: a crash falls before, between and after
  tables, and before and after the version is written. Three inodes: the first file, its replacement and the backup, for
  which `GuiRemove` always leaves one. One backup (see 4 for two).
* `Listing`: pages of two rows and limits 0 (none), 1, 2 (the cap) and 3: below, at and above a page. Three rows make two pages and a rest.
* `Front`: two words or two options interact through being next to each other, and a third token
  is enough to stand behind; of the foreign tokens there is one per class the walkers tell apart (global with and without a value,
  another command's, unknown, the alias `--deleted`). In front of the command stands one global option or none, among them `--tools` and `--verbose=N`.
* `SweepClock`: N from below the shortest silence (5 with Pause) to the longest one (9), and from below the shortest attempt (13)
  to the longest one (15). Both are tight: with one second less in `Silence` or in `Attempt`, TLC fails a live runner. Cap is past
  N + Lag, beyond which an age makes no difference.
* `ActaLive`: one row, so a batch is of one row: `InvocationEnds` shows that the stages of a row end, and that a batch does with
  its last row. Batches that go on to a next row are in the safety runs only.
* `TypeOK` is checked in one run of `Acta`, `Catalog` and `Database` each; those of `FolderTree` and `SweepClock` are proved instead.

Fairness. `FairSpec` of `SweepClock`: time passes (a call does not take more than CURLOPT_TIMEOUT, so the runner must step when it is due), sweep is run again and again, and its UPDATE, tried for ever, does not fail for
ever (strong fairness of the step of `SweepFail` that writes); nothing is assumed of runners, which may die. `FairSpec` of `Acta`: weak fairness of each process's own steps (an HTTP call is
bounded by CURLOPT_TIMEOUT, a database call by the busy timeout, nothing waits for another
process) and of each sweep (it is assumed to be run again and again; without it an abandoned row stays
`running`). Nothing is assumed of users, clicks, signals or kills. `FairSpec` of
`FolderTree`: a call that has begun goes on.

## 4. Where code and documentation disagree

Two of these are runs that TLC ends with a counterexample.

| Run | Statement | What happens |
|---|---|---|
| `DocCancelIgnored` | runnerWorker.h:25 a cancel "aborts the in-flight HTTP call" | the progress callback is installed, but CURLOPT_NOPROGRESS keeps its default, so libcurl never calls it; a call that then fails makes the row failed, not cancelled |
| `DocFolderCycle` | model_folder.h:96 a descendant as new parent is refused | the walk of `model_folder.c` stops at a deleted folder; a folder can be moved below itself, and once the deleted one is restored the GUI's tree shows none of the folders of the cycle |

The others are stated in the modules, at the end, and no run has them: put the name in a cfg of the module in place of its properties and TLC refutes it in a few steps.

| Statement | Says | What happens |
|---|---|---|
| Acta `DeletedNotReset` | execution.h:114 "reset() refuses it" (a deleted row) | deleted between reset()'s SELECT and its UPDATE, the row is reset: the UPDATE has no `deleted_at` guard |
| Acta `SweepSparesLiveRunner` | sweep.c:18 "a row claimed within the last N seconds is never swept" | two sweeps judge one abandoned row; one fails it, it is reset and claimed again, the other fails the fresh claim |
| Acta `RunningEnds` | sweep.c:5 sweep fails the rows of dead runners | a soft-deleted row can be claimed (start() does not look at `deleted_at`); when the runner dies, sweep's query does not see it |
| Acta `TerminalUntouched` | execution.h:90 "no function will modify a row in those states" | set_raw_response writes a late response into a cancelled row |
| SweepClock `SilenceIsEnough` | sweep.c:12 the last activity is "the MAX of the latest execution_log.created_at ... and the execution's started_at" | a log that cannot be read (SQLITE_BUSY in the count, the page or a step of it, sweep.c:86) counts for nothing: a live runner with a fresh row in it, claimed more than N seconds ago, is failed |
| SweepClock `LiveRunnerIsFresh` | sweep.c:14 "A live runner can never have both stale" | it can, with an N below `Silence`; nothing asks for more than a positive N |
| Catalog `ReadRowIsCurrent` | commands/model.c:122 fields that are not given are "left unchanged" | they are written back as they were read: of two updates of one row the later undoes the earlier (skill.c:694; `skill update` reads the row before its input) |
| Catalog `NewExecutionHasLiveContext` | execution.c:392 "a soft-deleted context cannot receive a new execution" | it can, when deleted between the check and the INSERT (execution.c:396) |
| Database `ForeignFailsClosed` | commands/db.c:383 "fail closed, no schema applied" to a file with tables of another program | the list of tables ends at any step that is not a row and reports no error (acta_db/src/db.c:379): when its first step fails the foreign file counts as fresh, and `db init` (db.c:365) and `db migrate` (db.c:441) write Acta's schema into it |
| Database `NoDatabaseDropped` | mainwindow.cpp:118 "or we would silently shadow an existing DB" | while the modal waits, another process creates and fills the file; "Create database here" removes it (mainwindow.cpp:261) |
| Database `ReportedBackupIsSound` (with `"corrupt"` in `Faults`) | db.c:513 "A backup that does not check is deleted and reported as failed" | the rows of `PRAGMA quick_check` are not read (db.c:524), and SQLITE_OK is what it returns of a damaged file |
| Listing `StreamLimitIsMet` | cli_spec.md:98 "--limit caps the total emitted" | above a page, a stream stops after the first: a full page has fewer rows than are still wanted (commands/model.c:1027) |
| Listing `ListsAreWhole` | cli_spec.md:96 "until the filter is exhausted" | most listers take any end of sqlite3_step for the end of the rows (acta_db model.c:99) |
| Listing `CountIsACount` | what `count` prints is a count | a COUNT of contexts that fails prints -1, with exit code 0 |
| Front `OutIsWhole` | exit code 0 of a command with `--out` | the file is closed without looking at the result (cli_main.c:223): a full disk cuts it |

Also seen while modelling:

* A cancel requested before the worker's first statement is erased by its `resetCancel()` (`ClickCancel`, then `Boot`). Run and Cancel are one
  button: a late Cancel is a Run, which resets a failed row.
* A sweep with an N too short lets a late response reach a row that has been reset, so `RetryStartsClean` fails under `live_sweep` (run.c:663, execution.c:692, sweep.c:175).
* The death marker keeps naming a row until cmd_run is back (run.c:349). If the row has failed by then, and another process has reset and claimed
  it, a signal to the first one fails the other's attempt: `NoZombie` under `signal`.
* If fail() itself fails, the row stays `running` and the death marker is released: as after a crash, it is left to sweep.
* A folder or model can be created in, or restored under, a deleted folder: the foreign key asks for a row, where model_folder.h:40 and skill_folder.h:29 say a live folder.
* With two clients, content added between the COUNTs of a delete and its UPDATE stays in a deleted folder, and two moves can close a cycle in both files.
* A SELECT that fails is not noticed in places: the walk ends as if there were no row (model_folder.c:288, skill_folder.c:298), a COUNT counts 0
  (model_folder.c:175, 201). The folder is then moved below itself, or deleted with what is in it. With `ReadsFail` TLC refutes `Acyclic` and `CallsAreAtomic`.
* skill_folder_restore returns NOT_FOUND for a live folder; skill_folder.h says it is a no-op that succeeds.
* model.c:142 says of the revisions that "a separate trigger rejects updates/deletes": there is none. Nothing updates or deletes them either.
* A name that is taken is DUPLICATE to `skill update` and an SQL error to `model update`. Lists, counts and getters of skill revisions show tombstones, those of model revisions do not.
* "Saved as revision N" in the GUI reads the number after the write and may name another client's revision. Save of a row deleted meanwhile does nothing and says nothing.
* A process killed between the COMMIT of a migration and the write of its version leaves a file whose migrate fails for good (commands/db.c:244): the DDL is there already. One killed while
  `db init` runs leaves a part of the schema that init refuses and the GUI takes for a database (mainwindow.cpp:269).
* DBDesign.md:11 and commands/db.c:215 call `PRAGMA user_version` a no-op in a transaction; it is transactional, and could be inside the one of the migration.
* `db init` does not look at the result of reading the recorded version (commands/db.c:362): when that fails on a complete
  database it records 1, over a later version if there is one, after which `db migrate` fails on a migration that is there already.
* Getters whose step fails answer "not found", as if the row were not there, and the command ends with that.
* Two backups to one target at once: the one that fails removes the file of the other; `FailedBackupLeavesNothing` and `ReportedBackupIsWhole` are about one.
* `--count=1` is taken for no option at all, options another command knows are ignored, the first of two equal options wins and the second one's value is dropped; a
  value option takes the token behind it even if that is an option; the file of `--out` is emptied before the database is opened.
* The schema of `skill_revision list` has `stream`; the handler never looks (tools.c:717).

## 5. What is proved

TLAPS proves the following for every set of rows, processes, sweeps, folders, items and clients, and
every bound.

| Theorem | States | Assumes |
|---|---|---|
| `TypeCorrect` | `TypeOK` | |
| `TerminalStays` | `TerminalIsFinal` | |
| `CompletedLogAlwaysTrue` | `CompletedLogIsTrue` | |
| `HoldersAreCurrent` | `NoZombie` | `Undisturbed` |
| `StartIsALock` | `OneHolder` | `Undisturbed` |
| `TableImplementsLifecycle` | `ImplementsLifecycle` | `Undisturbed` |
| `ColumnsAlwaysMatch` | `ColumnsMatchStatus` | |
| `ResultIsOneAttempts` | `ResultIsLastRaw` | `Undisturbed` |
| `RetriesStartClean` | `RetryStartsClean` | `Undisturbed` |
| `VerdictsAreOne` | `OneVerdict` | `Undisturbed` |
| `FailuresAreLogged` | `FailureIsLogged` | `Calm`: `Undisturbed` and no failing statements |
| `FolderTypes` | FolderTree's `TypeOK` | |
| `DeletesAreSafe` | `DeleteLeavesNothingBehind` | `Alone` |
| `SkillsAreATree` | `Acyclic` | `Alone`, reads succeed, the walk of `skill_folder.c`, finitely many folders, fewer than `MaxDepth` |
| `LiveMovesAreSafe` | `OnlyRestoreClosesLiveCycle` | `Alone`, fewer folders than `MaxDepth` |
| `FoldersAreAtomic` | `CallsAreAtomic` | `Alone`, reads succeed, fewer folders than `MaxDepth` |
| `RefusalsAreRight` | a move refused as a cycle (`WalkFound`) has a target `Within` its folder | `Alone` |
| `ClockTypes` | SweepClock's `TypeOK` | |
| `SweepSparesTheLiving` | `LiveRunnerSpared` | |
| `CatalogTypes` | Catalog's `TypeOK` | |
| `HistoryAlwaysTellsRow` | `HistoryTellsRow` | |
| `NumbersHaveNoGap` | `RevisionsNumbered` | |
| `DeletedCanBeRestored` | `RestoreIsPossible` | |
| `PicksAreFetchable` | `PickedCanRun` | |
| `PinsAlwaysHold` | `PinsHold` | |
| `ReportedIsWritten` | `OkMeansWritten` | |
| `DatabaseTypes` | Database's `TypeOK` | |
| `VersionAlwaysTells` | `VersionTellsSchema` | |
| `ForeignLeftAlone` | `ForeignUntouched` | `OneSaver` |
| `ReportedBackupsAreWhole` | `ReportedBackupIsWhole` | `OneSaver` |
| `FailedBackupsAreGone` | `FailedBackupLeavesNothing` | `OneSaver` |
| `RefusalsDoNothing` | `RefusedDoesNothing` | |
| `ShowingTouchesNothing` | `ShowTouchesNothing` | |
| `NoWordIsLost` | `NoWordIsSwallowed` | |
| `SchemaIsKept` | `SchemaIsObeyed` | |
| `ExportsAreComplete` | `ExportIsComplete` | |
| `CountsAreLists` | `CountIsList` | |
| `ListedCanBeGot` | `ListedIsGettable` | |
| `SelectionsFollow` | `SelectionFollowsItsRow` | |

`Undisturbed`: no faults but failing statements, at most one sweep. Two sweeps (`SweepSparesLiveRunner` in section 4) are
why the second half is needed, `ActaHostile`'s shorter list why the first is. `Alone`: one client.
`OneSaver`: at most one `db backup` to the target runs; a second one that found no target either would write into the first one's.
All rest on the constants' assumptions named in the modules.

**ActaProofs.** Steps on the table are reduced first to what a single statement may do
to a row (`TableStep`, `RowsMove`). Then the inductive invariants, each on top of the
last:

1. `BasicInv`: types, and what is local to a process or a sweep: where it has no row, where it has no claim.
2. `ClaimGiven`, `ClaimsExclusive`: a held claim was given by start(), and to one process only.
   They hold under every fault and carry the rest.
3. `LogInv`, `DoneInv`: between complete() and its log row the row stores this very claim. With
   `TerminalIsFinal` this gives `CompletedLogIsTrue`.
4. `CalmInv` (undisturbed only): a held claim is the current one and its row is neither pending nor failed; a
   row a sweep has judged has no holder. `NoZombie` alone is not inductive: it
   breaks at a sweep's UPDATE unless one knows nobody has claimed the victim since it was judged.

The refinement follows: each step is a step of `ExecLifecycle` or a stutter, where `Complete` needs
`CalmInv`, since the code writes the text it holds and the specification asks for the current claim's.

**ActaTrailProofs.** Built on `CalmInv`: it has one holder per row; what is added is where that holder is
(`PlaceKept`) and what is written by then. `OutputInv`: from `answered` on the row stores the holder's own
response, and a holder of a completed row has only its log row to write. `VerdictInv`: a claim logged as
failed is an old one, or is not completed and its holder, if alive, is at the transition to `failed`
(`GivenUp`); a claim a sweep has failed stays so until the next `start()` (`Swept`). `OneVerdict` alone is not
inductive: it says nothing of a runner killed between its log row and the transition, whose row runs on
with a failure in its log.

**FolderTreeProofs.** `WalkInv`: the rows a walk has passed form a chain from the target to
where it is, without the folder that moves. Either it has as many rows as the walk has counted, so that the depth
limit is not met, or it has closed on itself. At its end the chain is closed under visible parents (`Sealed`); a
cycle through the moved folder would enter the chain at the target and could not leave it. Cycles, and `Within` of
`FolderCalls`, are stated by sets closed under `parent`, which needs no induction. The chain is also what refutes
`Within` when a move goes through, so the refinement of `FolderCalls` needs only one thing more: `DeleteInv`, what the COUNTs
found empty stays so until the UPDATE. For `RefusalsAreRight` the walk is followed the other way (`ReachInv`): where it is lies in every
closed set the target lies in.

**SweepClockProofs.** `Quota` is what the calls since the newest row (or since the claim, when rows may be missing) may have taken; `InTime`: the
newer of claim and newest row is no older than Quota, the call under way and the pauses. So at sweep's
query the row is younger than `Silence`. `WithinAttempt`: the claim alone is no older than all calls and pauses since, so it is
younger than `Attempt`, and that is all a sweep has that cannot read the log. From there on (`ReadingIsFair`) what sweep
compares ages no faster than the clock it compares with; so only a row without a runner is judged, and it
stays without one (`JudgedIsDead`), because a running row cannot be claimed. `LiveRunnerSpared` alone is not inductive: it says nothing of how a row came to be judged.

**CatalogProofs.** Every step is one of five moves of a row with its history (nothing, INSERT, UPDATE of a
live row, soft delete, restore), leaves contexts and executions in place, and gives a client nothing that
could not be fetched (`Moves`). `CatInv` adds to the properties what they need: the numbers of a history are
exactly `1..n` and there are at least as many rows (so the next number is within `MaxRevs`), a row that is
not there has no history, no two rows have one key (deleted ones included), and an execution about to be
inserted has its context. `HistoryTellsRow` alone is not inductive: without the numbers, a new revision need
not be the newest. An UPDATE that changes no column fires no trigger; then the row equals what it was
(extensionality). `OkMeansWritten` needs besides that only its client can end a call (`StepIsOwn`).

**DatabaseProofs.** A step is one operation on the files and one move of its process (`Moves`). `FileInv`: in
every file the recorded version fits the level, files not created yet are empty,
and databases and targets of backups are different inodes (`Apart`). `Knows` is what each process may rely
on between its check and its write, though the file is not locked: levels only grow, a foreign file stays
foreign and no other becomes one, and a level whose lock it holds stands still. `Trusted`: the file a process will write to is not
another program's, or has all of Acta's tables, or the process could not tell (`blind`). Every step that writes is one of a process
that is `Trusted` (`WritersStep`), which is `ForeignUntouched`. `VersionTellsSchema` alone
is not inductive: it says nothing of a process that has found all tables, or has committed a migration,
and is about to record it. `SaveInv` adds that the target named by the path is the saver's own, empty until copied.

**FrontProofs.** `FrontInv` says what each stage of an invocation has established of its line: up to dispatch
nothing is opened, emptied or run; a handler that runs has passed the checks before it. `TablesAgree` compares
the two tables once, for all commands: the schema counts as many positionals as a handler takes, and
`VocabularyIsRead`: an option that is accepted is one some handler reads. A succeeded command has then taken
every word, because the positionals in order leave no place out (`InOrderOf`). Lines may have any length.

`SchemaIsKept` is about what pass 1 leaves of the line. What it has eaten by place n is a recursive function in the
model; `EatenIs` replaces it by a condition on n and its neighbour, for lines in which a value option has a word
behind it. Words then keep their order behind pass 1 (`InOrderUp`, `OneOrder`) and neighbours stay neighbours
(`Neighbours`, `ValueFollows`), so the n-th positional the handler takes is the n-th the schema means, and the value an option finds
is the token after it. That vocabulary and schema agree on which options take one is a comparison of finite tables (`OptionTables`, `Grammar`).

**ListingProofs.** `ListedIsMeant` first: the nine listers and the nine counters select one set, `Meant`. An
element of a set in order stands at its rank (`Places`), and what is inserted behind moves nothing
(`PlacesStay`). `OutInv`: what a reader has are the rows of `Meant` from `--offset` on, without a gap, which a
page extends (`PageIs`) and a write to rows that keep their places leaves true. `EndInv` says why it ended: as
many as asked for, or nothing left of what there was. `ExportIsComplete` alone is not inductive: it says nothing
of a reader between two pages.

Only model-checked: the liveness properties (`LiveRunningEnds`, `InvocationEnds`, `CallsReturn`, `DeadRowIsSwept`), which are out of
the prover's reach. Every other property of a passing run is also a theorem, with the assumptions of the table.

## 6. Not modelled, and why

* Text: JSON, tables, messages, the content of prompts and answers. No property here is about it.
* Configuration (`conf.c`): one pass from files and the environment to a record. (A timeout beyond an int wraps at conf.c:417.)
* The command line of acta_runner: one command, five options, read in one pass; acta_cli's, which has the tables that must agree, is modelled.
* A signal handler that calls exit() inside a library call of the same thread (deathmark.c:87): undefined below the level of statements.
* The GUI's viewers, menus and layout. Its panels and dialogs are modelled as far as they read and write rows.
* Real time outside SweepClock: everywhere else a step takes as long as it takes.
* PRAGMA settings (WAL, foreign keys, busy timeout): they are what makes a statement one step, and the models start from there.
  Setting `journal_mode=WAL` rewrites the header of whatever file is opened, another program's included; `ForeignUntouched` is
  about tables, rows and the recorded version.
* In a panel: the text filter, and folders that are hidden with what is in them (folderTreePanel.cpp:296). `SelectionFollowsItsRow` is about rows that are shown.
* A getter whose statement fails (section 4): `Listing` has failing steps in lists and counts only.

## 7. Plan

Done: the execution lifecycle, folders, catalog, database file, readers, command line and the sweep's clock. Left, the most important first:

1. Composing Catalog's executions with Acta: what the runner's `Prepare` finds when rows are deleted between create and run.
2. Two backups and two GUIs in Database, with a smaller instance of the rest.
3. The operators of `conf.c` against a reference: which file and which API key win.

# Convertarr, verified

TLA+ models of convertarr (a library converter that sits beside Sonarr and
Radarr: one host keeps the queue, the host itself and any number of paired
workers run ffmpeg), checked with TLC, with theorems proved by TLAPS. Paths
below are relative to `src/src/convertarr/` unless they start with `src/`.

## 1. Inventory

The host is one asyncio event loop over one SQLite database. A `session_scope()`
section that does not await is atomic with respect to every other handler and
loop of the process. Workers are other processes, on other machines, often over
the same media share; they talk to the host by HTTP, without retries
(`worker/client.py`).

| component | state it keeps | operations | interacts with | what is hard |
|---|---|---|---|---|
| job table and queue: `workers/execution.py`, `web/node_routes.py`, queue handlers of `web/routes.py`, `workers/heartbeat.py`, tail of `workers/ingest.py` | `Job` (state, node_id, started_at), `Node` (last_heartbeat) | ingest, claim, start, progress, finish, cancel, cancel all, force-delete, register, heartbeat, watchdog sweep, delete and unpair node, reconcile at startup | everything | late results, revived jobs, restarts, reused primary keys |
| local worker: `workers/local_node.py` | `running` (tasks by job id) | reconcile, claim, run, reap, drain | queue in-process, `Runner` | cancel before spawn, restart |
| remote worker: `worker/loop.py`, `encode/runner.py` | `_running`, `_procs`, `_cancel_requested`, mirror rows | register, heartbeat, claim, encode, report, drain | host over HTTP, ffmpeg | lost requests and answers, three books keyed by job id, a cancel at any point |
| file replacement: `finalize_swap`, `workers/cleanup.py`, `encode/plan.py:output_path_for` | the media folder | encode to `name.CONVERTARR.ext`, set the original aside, rename, clean up at startup | other machines on the share | partial failure and crash between two renames |
| mode supervisor and pairing: `workers/supervisor.py`, `web/pairing_routes.py`, `web/runtime_settings.py` | `paired_host_url` and its kin, the inner loop | switch mode, drain for 120 s, pair, unpair, disconnect | both worker loops, the other host | a mode switch with encodes in flight, a pairing that changes host |
| ingest and entity index: `workers/ingest.py`, `workers/indexer.py`, probe refresh in `record_finish` | `MediaFile.probe_json`, `needs_conversion`, `EntityIndex` | rescan, re-index every 30 min, refresh after a swap | *arr servers, ffprobe, the grids | answers that are stale when stored |
| workflows and policy: `workflows.py`, `probe/policy.py`, `arr/paths.py`, `/workflows` pages | `Workflow` rows; the rules themselves are pure | match rules, choose a workflow, plan streams, translate paths; edit, import, export | ingest, claim | the plan is computed again at claim time |
| instances and backup: `/settings` pages, `web/system_routes.py` | `ArrInstance` rows | add, edit, delete, export and import | everything that names an instance by id | ids that are given out again |
| ffmpeg arguments, hardware detection: `encode/plan.py`, `encode/hwdetect.py` | none (pure) | choose encoder and decode path, build argv | runner | stream indices, where frames live |
| filters, sorting, statistics: `web/filters.py`, `web/sort.py`, `probe/codec_labels.py` | saved filters | find, sort and count entities | index, rescans | codecs with many names |
| database: `db.py:init_db`, `main.py:lifespan` | the file and its schema | eight migrations at every boot | everything | a boot cut short between two statements |
| pages, authentication, settings forms, logs | sessions, cookies | forms and views | — | not modelled, see section 8 |

What makes each correct, in a line: *queue*: a job is held by one node at a
time, is settled once, and never gets stuck; *workers*: slots are respected, a
cancel hits its job and no other; *file replacement*: the film is never lost,
and never replaced by half a film; *supervisor*: one mode at a time, nothing
abandoned at a switch; *ingest/index*: the grid is not older than the last
conversion; *workflows*: the plan that is executed is the plan that was queued,
and saving a rule does not change its meaning; *arguments*: the output needs no
second conversion; *filters*: every codec is one thing under all its names;
*database*: whatever release the file is of, it boots, loses nothing, and is
complete once served.

## 2. Plan

In order of importance; the first seven are done.

1. `JobLedger`, `HostQueue`, `HostQueueProofs` — the job table.
2. `RemoteWorkers`, `RemoteWorkersProofs` — the worker loop, composed with
   `HostQueue`.
3. `MediaSwap`, `MediaSwapProofs` — the file on disk.
4. `LocalMode`, `LocalModeProofs` — local loop, supervisor, pairing: cancels,
   the drain, what it leaves behind, mirror rows, a change of host, a loop that died.
5. `Workflows`, `EncodePlan`, `Filters` — the pure rules, as operators;
   `Rules`, `RulesProofs` — what they promise of any input.
6. `Library`, `LibraryProofs` — ingest, the job's plan and refresh, the index,
   the pages that edit what they read.
7. `Migrations`, `MigrationsProofs` — the database file at boot; `Lifespan`
   composes it with `Library`.
8. Left: `MediaSwap` with overlapping tasks on one file; `RemoteWorkers` with a
   slot count that a heartbeat changes.

The theorem still to be had is the step simulation of `MediaSwap` by the tasks
of `RemoteWorkers`.

## 3. Modules

| module | models | state |
|---|---|---|
| `JobLedger` | what the job table promises: post, grant, settle, give back, withdraw, discard | `status`, `holder` |
| `HostQueue` | every change to the state, owner or existence of `Job` rows | `jobs` (rows by primary key), `nodes`, `silent`, `loopStarted`; `faults`; history: `dispatches` (claims whose result has not come), `attempts` |
| `MCHostQueue` | TLC instances, symmetry | |
| `HostQueueProofs` | theorems about `HostQueue` | |
| `RemoteWorkers` | workers and network around `HostQueue` (`Host == INSTANCE HostQueue`) | the above, and `mode`, `answer`, `tasks`, `running`, `procs`, `cancelReq`, `notices`, `posted`; history: `swapped`, `past` |
| `MCRemoteWorkers` | TLC instances | |
| `RemoteWorkersProofs` | theorems about `RemoteWorkers`, citing an instance of `HostQueueProofs` | |
| `LocalMode` | one process between its own queue (`Host == INSTANCE HostQueue` without remote nodes) and the hosts it may be paired with | `jobs`, `attempts`, `faults`, `pairing`, `supervisor`, `loop`, `orphans`, `tasks`, `running`, `procs`, `hostTasks` |
| `MCLocalMode` | TLC instance | |
| `LocalModeProofs` | theorems about `LocalMode` | |
| `MediaSwap` | one library file on disk | `link` (name to inode), `content`, `phase`, `exitOk`, `target`, `deletes`, `faults` |
| `MediaSwapProofs` | theorems about `MediaSwap` | |
| `Workflows` | conditions, choice of a workflow, plan of a file's streams, saving and importing rows, path translation | none |
| `EncodePlan` | encoder choice, hardware decoding, arguments per stream, what ffmpeg makes of them (extends `Workflows`) | none |
| `Filters` | codec names, saved filters, sorting, the codec chart (extends `Workflows`) | none |
| `Rules` | what the three modules above promise, asked of one input at a time | `input` |
| `RulesProofs` | theorems about `Rules`; lemmas about the operators | |
| `Library` | one entity with one file from *arr to grid and queue (extends `EncodePlan` and `Filters`) | `file`, `media`, `job`, `scan`, `workflows`, `instances`, `index`, `pass`, `arr`, `notices`; history: `recorded`, `deletions`; bound: `events` |
| `LibraryProofs` | theorems about `Library` and `Lifespan` | |
| `Migrations` | `init_db`, statement by statement, over the files of every release | `disk`, `view`, `open`, `stage`, `todo`, `crashes`; history: `torn` |
| `MigrationsProofs` | theorems about `Migrations` | |
| `Lifespan` | a process: boot, then the library (extends `Library` and `Migrations`) | both |
| `MCLifespan` | TLC instance of `Lifespan` and of `Rules` | |

### HostQueue

One action per database section. `Ingest` is the end of `_ingest_path` (the
duplicate check and the insert); `LocalClaim` and `RemoteClaim` are
`claim_for_node` reached from the local loop and from `POST /claim`; `Finish` is
`record_finish` up to its commit; `Cancel`, `CancelAll`, `ForceDelete` are the
queue page; `Register`, `Heartbeat`, `DeleteNode` the node endpoints and pages
(unpairing ends in the same section as deleting); `Sweep` is one `sweep_once`;
`StartLocalLoop` is `reconcile_stuck_jobs`; `Restart` is the death of the host
process; `StopLocalLoop` and `DrainGivenUp` are what the supervisor does to the
local loop, as the table sees it. `FallSilent` and `Age` are the passing of 90
seconds and of 30 minutes.

The host keeps no record of the claims it handed out. `dispatches` is that
record, and is what lets a result be *late*: `Finish` takes any dispatch out, in
any order, and applies it exactly as the code does, by looking at the state of
the row alone. `ResultsLost` is every way in which a result never comes.

`faults` says which environment events may happen (silence, loss, restart, halt
of the local loop, unpair, purge). It is chosen from `Environments` at the start
and never changes, so that a property can say under which it holds: its proviso
is a condition on `faults`, and the theorem about it covers every choice.
`RemoteWorkers` and `LocalMode` use the same variable.

### RemoteWorkers

A worker's step ends where the code awaits. Requests are handled in the step
that sends them, except results, which travel (`posted`), because the worker may
give up on one that the host still handles. Answers are steps of their own
(`TakeClaim`, `CancelHeard`) and may be lost. The three books keyed by job id,
`_running`, `_procs` and `_cancel_requested`, are modelled as such, with the
overwriting and the popping by id that the code does; a task is identified by
the claim it came from, which the code cannot tell apart when a job is claimed
twice. A row's `done` is compared with `swapped`, the claims whose output is
really in place, and a claim is one of the row only if it is later than what
`past` recorded when the row was inserted under its key. The exception are the
claims of a deleted row that were still out at that moment: `record_finish` knows
a job by its key alone and lets such a result settle the new row.

### LocalMode

The supervisor's `current_mode` is `supervisor.mode`, its inner task is `loop`,
and `loop.kind` is what that task really runs: `_run_remote` falls back to the
local loop if the pairing it reads is incomplete. The phases of `loop` are the
awaits: created and not yet run, registering (which retries for ever and does
not look at the stop event), running, failing (an exception, and the `finally`
that waits for the tasks), returned, raised. `DrainTimesOut` is the 120 seconds
of `wait_for`: it cancels the loop with the tasks it knows. Which it knows is
`running`, keyed by job id: a task displaced there by a claim of a reused
primary key is neither awaited nor cancelled (`Known`, here and in `HostQueue`).
What ends is the task. Its ffmpeg goes on, with no entry in `procs`
(`encode/runner.py:170-175`), as may those of a process that dies: both are in
`orphans` until they end.

A task for another host has a *mirror row* in the process's own `Job` table:
`ClaimFromHost` inserts it as running (or fails to, which stops nothing), and
`FinalizeMirror` writes the result under its primary key, whatever is there by
then. The pages, the sweep at the start of the local loop and the count of keys
do not tell mirror rows from others, so their actions are those of `HostQueue`
over all rows (`Host`), while what is said to implement `HostQueue` are the rows
with a file (`Own`, over `OwnRows`). One step of the mirror rows reaches them:
after a force-delete and an ingest under the same key the result of the remote
job is written to the new row. `ImplementsHost` names that step (`Misfiled`) as
its exception.

The slot limit is not a variable: `max_concurrent_jobs` is read anew at each
pass, so each claim takes any value of `SlotChoices`.

`AcceptPairing` is the whole handler, which does not await; each `rs.set` is a
transaction of its own, so `RestartWhilePairing` leaves the first one or two of
them behind. A host's API key is represented by the host it opens. The tasks of
a local loop go through `starting` (before the spawn), `encoding`, `killed`
(signalled) and `probing` (the file is replaced, the result not recorded); the
check for a cancel, the swap and, unless a probe follows, the record are one
step with the end of ffmpeg, as in the code.

### MediaSwap

Directory operations are single steps on a map from names to inodes, so that
ffmpeg goes on writing to the inode it opened after a rename or unlink. An
output that was half written when its process died is found and truncated by the
next attempt (`-y`). `faults` is a variable chosen at the start and never
changed: one run covers all 16 environments.

### Workflows, EncodePlan, Filters

Operators without state, one for each function of the code, over records in
place of ffprobe's JSON and of rows. Names of codecs are strings that are
compared and looked up but never taken apart: the substring tests of `contains`
and of `codecs_from_arr` ask the relation `Within`, which the instance gives. A
path is the sequence of its names. The value of a workflow's clause is a
sequence of texts, and a text is the sequence of names that commas join in it.
`list` tells the lists of today from the single text that older releases stored:
`NormalizeTargets` splits the latter and not the former, and `CleanClause` wraps
the latter, unsplit, as the one item of a list.

`EncodePlan` keeps of the argument list what decides the outcome: the codec said
for each *output stream of a type*, where decoded frames live, and which output
is uploaded to the GPU. The indices in them are the code's, which counts streams
of the *input*, cover art included (`plan.py:type_index`). `Output` is what
ffmpeg does with such a list, as the code relies on it: it maps the real videos,
the audio, the rest, and gives a stream that no argument speaks of the muxer's
default. It is external to `src/`, as is `Within`.

What orders, numbers or sorts (`type_index`, `load_active_workflows`, the keys
SQLite gives, Python's `sorted`) is defined by counting: an element's place is
how many come before it. Nothing recurs, so that it can be reasoned about.

### Rules

The sets of inputs are constants: TLC has small ones (`MCLifespan`), the proofs
any that meet the assumptions. `Ask` takes one input, and an invariant says what
the code promises of it. The assumptions are what the code's own checks leave:
streams have the fields that `probe/policy.py` reads, a workflow's target is one
of `VideoTargets` (`web/routes.py:1702-1705`, and `:1943-1946` for imports), keys
are positive. `CodecsAssumption` keeps the names of encoders and the labels of
the grid out of the names that ffprobe gives to codecs.

### Library

Two things are versions here: what is at the file's path (`file.ver`), and what
everybody last saw of it: a `MediaFile` row, the owner's own view (`arr`), a
rescan in flight, an index row. A step is a transaction, or what lies between
two awaits, so a rescan is four (`Rescan`, `ScanProbes`, `ScanStores` or
`ScanFails`), and an index pass goes through one instance in three
(`PassBuckets` reads the rows, `PassHears` is the server's second answer,
`PassStores` the upsert), the last two in one order for Radarr and another for
Sonarr, as in the code. The job is the file's one job: `Claim` chooses the
workflow again and builds the arguments, `Swap` applies them, `RecordFinish`
refreshes row and index, `Notify` tells the server. `GridCodecs` is the merge that the
grids show: the index row, the fresh probes (attributed to an entity by its id,
or, for series, by comparing translated paths), and, for movies, what Radarr
says.

Keys of workflows and instances are those SQLite gives: one more than the
largest in use. `ImportBackup` renumbers both tables from 1.

The notification is a step of its own. `RecordFinish` commits, and what it
resolved before that, the server to call, is in `notices` until `Notify` makes
the call, which may fail (nobody repeats it), or until the process dies with it
(`Restart`). A notice is `sure` if no key of an instance has changed hands
since the file was found.

A death leaves the job's row running. Where it was young, the sweep of the next
start skips it (`workers/execution.py:690-701`): it is `orphaned`, nobody works
on it, and it keeps the file from being queued, until a later sweep fails it.
Otherwise it is failed at once (`NoJob`), and a rescan may queue the file again.

A job is `late` if the probe that queued it is older than the record of the last
conversion: a rescan took it before the swap was recorded and stores it after
(`workers/ingest.py:108`). `EncodeNeeded` excepts such jobs, which the code runs
though there is nothing left to convert, and says that they are, with edits, the
only ones.

`deletions` is history, and the clock of instance ids: what named the right
instance when it was written down still does while the clock has not advanced.
A row and a rescan note the time they were made.

`NamesAssumption` says that the name Sonarr and Radarr report for a codec is
read as what ffprobe calls it, for the targets of workflows and the videos that
occur. The code has it for them, but not for every codec: `mpeg2video` is read
as `mpeg2`, which has no alias. A grid of such files shows both names, and
`GridTruthful` does not speak of them.

### Migrations

`Program` is `init_db`'s statements in their order. A migration reads
`table_info` first and decides then which of its statements to run (`Plan`);
`Effect` is what a statement does and `Fails` when it raises, as `CREATE INDEX`
does on a name that a renamed table still holds. Python's `sqlite3` opens a
transaction before an INSERT or UPDATE only: a DDL statement is on disk at once
(`disk' = view'`), unless such a transaction is open, and is then on disk with
the commit. `Die` may come between any two statements and throws the open
transaction away.

`create_all` is a statement for each table and each index that migrations
concern, and it looks for tables only: one that exists is passed over, with or
without its indexes. So the unique index of `media_file.path`
(`models.py:269`) is never made again if a first boot died before it.

`url` is what `urlparse` makes of an instance's `base_url`: an address, no host
(the backfill stores an empty one, and the column is dropped all the same), or a
port that is no number, on which the backfill raises at every boot.

`torn` is history: a process died while the file was in a state that no later
boot completes (`HalfDone`): the one column a migration asks for is there and
the others that come with it are not, a table is there without its indexes, or
the job table has its old name. `CompleteOnceUp` and `BootsInTheEnd` except such
files, and the latter those with a bad port; `NothingLost` excepts neither.

### Lifespan

`lifespan` (`main.py`) runs `init_db` first and starts handlers and loops when
it has returned. `Booting`, `Dying` and `Living` are that order. `Serving`
bounds the composition: the library lives in a database that one uninterrupted
boot made, and dies there by its own `Restart`, since a boot of a complete file
changes nothing.

## 4. Runs

All bounds are constants of the configurations.

| run | instance | shows |
|---|---|---|
| `host_queue` | 2 remote nodes, the local one, 1 file, 2 rows, 2 claims per primary key, all faults but halt (which `host_faults` has), symmetry | `Owned`, `SettledForGood`, implements `JobLedger` (`LedgerSpec`) |
| `host_faults` | 1 remote node, 2 files, 2 rows, 2 claims, a fair watchdog; two environments: silence, unpair, purge, or loss, restart, halt | in the first environment `ActiveHasDispatch`, `SilentNodeReleases`; in the second `OneDispatchPerJob`, `OneBusyRowPerFile` |
| `late_result` | 1 row, 2 claims, silence | **violated**: `LateResultLeftAlone` |
| `double_queue` | 2 rows, no fault | **violated**: `NoDoubleQueue` |
| `orphan_sweep` | 1 row, 1 claim, no remote node, restart; fair local loop | **violated**: `OrphansSweptUp` |
| `worker_faults` | 1 worker with 2 slots, 1 row, 2 claims, all faults but halt | `DoneMeansSwapped`, implements `HostQueue` (`ImplementsHost`) |
| `worker_cancel` | 1 worker with 1 slot, 2 files, 2 rows, no fault but lost heartbeat answers; fair | `SwapNotDenied`, `SlotsHold`, `NoCollateralCancel`, `CancelGetsThrough` |
| `local_mode` | 2 hosts, 1 job of theirs, 1 file, 2 rows, 1 or 2 slots, halt, restart, purge; a second claim of the first primary key, and the second host, while the other row is unused (`Bound`); fair | `OneMode`, `EncodesReachable`, `EncodesApart`, `DisconnectTakesEffect`, implements `HostQueue` (`ImplementsHost`) |
| `repairing` | 2 hosts, 1 row, no fault; fair | **violated**: `PairingTakesEffect` |
| `media_swap` | 3 conversions in a row, every set of faults | `OriginalKept`, `NeverWithoutFilm`, `OnlyFullFilesInPlace` |
| `lifespan` | boot: no file or any of 8 releases, every kind of `base_url`, 3 deaths. Library: 1 file, 6 setups, 1 to 3 events each. Pure rules: the inputs of `MCLifespan`. Fair boot and index passes | `CompleteOnceUp`, `NothingLost`, `BootsInTheEnd`; `EncodeNeeded`, `PlanKept`, `NotifyReachesOwner`, `GridTruthful`, `IndexCatchesUp`; `PlanConverges`, `FramesMatch`, `RoundTripsKeepMeaning`, `AliasTablesAgree`, `EmptiesLast` |
| `failed_swap` | 1 conversion | **violated**: `FailureLeavesOriginal` |

Why the bounds are enough: two claims of one primary key are what a late result
needs (the revoked claim and the next one); two rows of one file are what double
queueing needs, and a second file shows that rows of different files do not
interfere; a second remote node lets a job move from one remote node to another;
a second slot lets a worker claim a job it still encodes; the second host makes
a key that does not fit the URL, and a change of host; the third conversion
meets a backup left by the first and an inode left by the second.

`lifespan` asks different things of parts that do not interact, in one state
space (234 thousand states):

* Three deaths: one in a boot that migrates, one in the boot that takes it up,
  and one more. `CompleteOnceUp` and `NothingLost` are proved for any number.
* `MCSetups` pairs the kinds of event that can disturb one another and leaves
  the others out: edits and pins of workflows, one of them disabled at the
  start; two servers and three changes of instances (delete, add under the freed
  key, import); deaths and replacements for a series; index passes with changes
  of instances, with replacements, and with failures under path mappings. Index
  passes happen only in the setups that ask for them and are not counted.
  Rescans go by an instance of the owner; an instance's address is not edited; a
  backup is the one just taken; nobody replaces a file while ffmpeg reads it.
* The inputs of the pure rules are states of their own (`Ask` sets `input`,
  after which nothing runs): files of up to four streams with cover art before
  and after the video, two audio streams and two videos, on every combination of
  GPUs, encoders and overrides; conditions of up to two clauses, which has every
  joint, on lists and on texts of old, with and without commas; tables of up to three rows, with equal priorities and keys out of
  order; grids of up to four items with empty and equal values.

Runs whose system stops because it ran out of attempts (`MediaSwap`), or of
events, deaths and inputs (`lifespan`), do not check for deadlock; in the others
the sweep, the heartbeat or a repeated cancel is always possible.

### What the violated runs say

* `late_result`: `record_finish` promises to leave a job alone that "the
  watchdog reset" (`workers/execution.py:551-554`). It asks only whether the row
  is active *now*. After the job was claimed again, the late result of the first
  claim settles the second.
* `double_queue`: the duplicate check of ingest (`workers/ingest.py:146`)
  overlooks `cancelling`.
* `orphan_sweep`: the startup sweep (`workers/execution.py:680-682`) skips rows
  younger than 30 minutes and runs once per start of the local loop; the
  watchdog exempts the local node. Such a row stays `running`.
* `repairing`: the supervisor "switches modes when the target changes"
  (`workers/supervisor.py:12-13`), and a stored pairing is acted on "within a
  few seconds" (`web/pairing_routes.py:10-12`). It compares only the words local
  and remote (line 90), so it does not notice a pairing with another host, nor
  that a remote mode fell back to the local loop because the pairing was gone,
  or half stored, at that moment, and is complete now.
* `failed_swap`: "Original file is intact" (`workers/execution.py:599-600`) and
  "failed/cancelled encodes never touch the original" (`src/README.md:162`) do
  not hold if the rename of the output fails: the original was unlinked or moved
  before, contrary also to the docstring at lines 369-370 ("after the new file
  is in place").

## 5. Fairness

* `HostQueue!FairSpec`: weak fairness of `Sweep`; `watchdog_loop` ticks every 30
  seconds and catches every exception.
* `HostQueue!LocalFairSpec` (used only by `orphan_sweep`): the supervisor starts
  the local loop, which polls the queue; a local ffmpeg ends; half an hour
  passes.
* `RemoteWorkers!FairSpec`: weak fairness of `Beat` (every 15 s) and of a task's
  own steps, of the delivery of a posted result and of a claim's answer; strong
  fairness of `CancelHeard`, since answers may be lost any number of times but a
  network that works again now and then delivers one. There is none for the end
  of an encode that was not signalled: `CancelGetsThrough` says the cancel does
  not wait for the film to end.
* `LocalMode!FairSpec`: weak fairness of the supervisor's steps (it ticks every
  5 seconds, and `wait_for` ends after 120); strong fairness of the first step
  of a created loop, since the process may be restarted any number of times
  before it, and of `Registered`, since a host may be out of reach now and then.
  None for encodes or for a loop that returns: `DisconnectTakesEffect` rests on
  the timeout alone. It excepts a local loop that failed, which nothing starts
  again.
* `MCLifespan!MCSpec`, as `Lifespan!FairSpec`: weak fairness of `Booting \/
  Indexing`. A supervisor (docker, systemd) starts a process that ended, and the
  statements of its boot run through; `indexer_loop` goes round every half hour
  and catches every exception. None for servers that fail, rescans, encodes or
  the operator.

## 6. Proofs

Thirty-nine results, checked by TLAPS, for all values of the constants: any number of workers, slots,
files, rows, claims, hosts, conversions, deaths, servers, workflows, streams and
events. Assumptions are the named ones in the modules: `Local` is not a remote
node, `NoNode` no node, `NoFile` no file, `NoHost` no host, `NoDispatch` no
dispatch, the bounds are natural numbers, a worker has at most 16 slots (to
which `worker/loop.py:149` and `workers/local_node.py:105` clamp), each of
`Environments` is a subset of the six (in `LocalMode` of restart, halt and
purge); in `MediaSwap`, `None` is not an inode; in `Rules` and `Library`, inputs
are of the kinds of section 3, each server has one instance at first, and
`NamesAssumption`.

| theorem | states | argument |
|---|---|---|
| `HostQueueProofs!TypeCorrect` | `TypeOK` | inductive as it stands |
| `OwnershipKept` | `Owned` | inductive with `TypeOK`: claims need a node row, deleting one revives its rows in the same section |
| `SettledStaysSettled` | `SettledForGood` | each action, from `TypeOK`: claims, revivals, results, reconciliation and cancels all look for unsettled rows |
| `NoRowStranded` | `ActiveHasDispatch` | inductive: a claim raises `attempts` with the dispatch it hands out; a dispatch leaves with the result that settles the row, or is not the latest |
| `DispatchedOnce`, `FileBusyOnce` | `OneDispatchPerJob`, `OneBusyRowPerFile` | strengthened to `CalmInv`: no node is silent, a dispatched row is no longer queued, dispatches of a job are unique, busy rows of a file are unique. Without the second part a queued row could be claimed again |
| `ImplementsLedger` | `LedgerSpec` | refinement mapping: `queued` waits, `running` and `cancelling` are held by `node_id`; each action maps to an action of `JobLedger` or a stutter |
| `MediaSwapProofs!TypeCorrect` | `TypeOK` | with `Born`: an attempt's inode has no name before the attempt |
| `OriginalIsKept` | `OriginalKept` | `KeepInv`: once there is a backup it *is* the original, and a swap gets past its first half only with a backup |
| `NoPartialInPlace` | `OnlyFullFilesInPlace` | `TaskInv`: the inode a task writes has no other name, and holds what the exit code says |
| `FilmAlwaysThere` | `NeverWithoutFilm` | `CalmInv`: the output stays where the task put it, and the film's name is free only between the halves of a swap |
| `RemoteWorkersProofs!TypeCorrect`, `OnlySwapsAreDone` | `TypeOK`, `DoneMeansSwapped` | `Inv`, inductive with `DoneMeansSwapped`: claims are dated by what `past` has of their key (`Dating`); every claim is in one place (an answer under way, a task that has not posted, a post) and none is dated later than the table says (`Placed`); a result that says swapped is the result of a swap (`Truthful`). Under every fault |
| `ImplementsQueue` | `ImplementsHost` | from `Inv`: the dispatch a post names is one the host lacks the result of, and what is dropped was the last trace of its claim, so each step is one of `HostQueue` or a stutter on its variables |
| `QueueHolds` | the five safety properties of `HostQueue`, and `LedgerSpec`, of the composition | `ImplementsQueue`, and the theorems of `HostQueueProofs` for an instance of it |
| `SwapsCount`, `SlotsRespected`, `OnlyTheCancelledStop` | `SwapNotDenied`, `SlotsHold`, `NoCollateralCancel` | `CalmInv`, for `faults = {}`: a row is claimed once and keeps its node, so a job id names one claim (`Once`); a swapped claim is done or on its way to tell (`Told`); every task is entered in `_running` (`Entered`), so that slots counted by job id (`Fitting`) are slots counted by task; a cancellation that a worker knows of, acted on or reports is one the row shows (`Cancels`) |
| `LocalModeProofs!TypeCorrect`, `ModesApart`, `CancelsFindEncodes` | `TypeOK`, `OneMode` (of tasks), `EncodesReachable` (of encodes with a task) | `Inv`: the loop's phase fits its kind and the supervisor's (`LoopSane`); a claim names one task, and the task of a row's latest claim is entered in `running` and lives under a local loop (`TasksSane`); tasks for a host live under its loop. Tasks of earlier claims of a reused key escape, which is why the properties ask for `FreshKeys` |
| `LeftEncodesApart` | `EncodesApart` | from `Inv`: busy rows with a file are of different files (`BusyApart`), and orphans are claims that were handed out (`OrphansDated`), so with fresh keys two encodes of one running row are one claim |
| `ImplementsQueue` | `ImplementsHost` | each step maps to one of `HostQueue` without remote nodes over `OwnRows`, a stutter, or `Misfiled`. Steps on mirror rows vanish: such a row is never queued (`RowsSane`) and has no file that ingest could meet. Its hypothesis is that every environment admits `halt`: `LocalMode` lets its loop fail whenever it runs |
| `QueueHolds` | `Owned`, `SettledForGood`, `OneDispatchPerJob`, `OneBusyRowPerFile` and `LedgerSpec`, of a process's own rows | as for `RemoteWorkers`, under the hypotheses that every environment admits `halt` and none has force-deletes (`purge`): then the mirror row of a task stays its own (`MirrorsStand`), and there is no `Misfiled` step; `ActiveHasDispatch` asks for no halt |
| `MigrationsProofs!BootTypeCorrect` | `BootTypeOK` | each statement by its number (1 to 38) and by the fields it changes (`Outcome`) |
| `NothingLostHolds` | `NothingLost` | `SavedInv`: the process never sees less than the disk holds, and what is left of the program finds what it relies on (`Prepared`): the URL goes when the columns for it are filled in, the old job table when its rows are in the new one |
| `CompleteOnceUpHolds` | `CompleteOnceUp` | `BootInv`: what was begun is planned to end (`Grounded`), and every statement up to the present migration is planned or has nothing left to do, unless a file was torn (`Whole`); a table is made by `create_all` with its indexes still planned, or was there with them |
| `RulesProofs!EmptiesLastHolds` | `EmptiesLast` | `GoesBefore` is a strict total order of the items (`SortOrderIsOrder`), and an item stands where its rank is (the Standing lemmas, below) |
| `AliasTablesAgreeHolds` | `AliasTablesAgree` | by family, and for the names that no table has |
| `FramesMatchHolds` | `FramesMatch` | with one video, the decoder is chosen for the very stream that is encoded |
| `PlanConvergesHolds` | `PlanConverges` | with cover art last, the index a video has among the videos of the input is its index among those of the output (`ArgIndexOfVideo`), so each stream gets the codec that was said for it, and the workflow that asked for it leaves that codec alone (`ConversionConverges`) |
| `RoundTripsKeepMeaningHolds` | `RoundTripsKeepMeaning` | an import numbers rows in the order of the export, which is the order they are tried in, so the first that fits is the same row (`ImportPicks`); wrapping a text as an item of a list asks the same if no comma is in it; dropped clauses of a filter ask nothing |
| `LibraryProofs!LibInvHolds` | `LibInv` | inductive: whoever saw the file (row, rescan, server, job, pass, index row) saw one of its versions, and if it is the present one, what the file holds; ids name the owner while `deletions` stands; a queued job that is neither edited nor late is needed if the file is still what was recorded; an index row is late or not older than `recorded` |
| `LibraryTypeCorrect` | `LibraryTypeOK` | from `LibInv` |
| `GridIsTruthful` | `GridTruthful` | from `LibInv` and `NamesAssumption`: what is merged is of the present version, under one set of names (`GridOfOwner`) |
| `OnlyNeededEncodes` | `EncodeNeeded` | from `LibInv`: a queued job that is neither edited nor late, for the version last recorded, was planned from a probe of it; a rescan under way notes what was recorded when it probed |
| `PlansAreKept` | `PlanKept` | `LibInv` says the stored plan is what the workflows decide; `ImportPicks` that a backup read in again decides the same |
| `OwnerIsTold` | `NotifyReachesOwner` | `LibInv`: a server has one instance at most, and the one that found the file is the owner's while the clock stands, so that a notice is sure only of the owner |
| `LifespanComposes` | `Spec => BootSpec /\ LibSpec` | each step of a process is one of the boot or of the library; what is proved of either holds of the process |

Two arguments carry the last twelve. *Standing*: in a finite total order, the
number of elements before an element is a bijection onto 0, 1, …; it replaces
the induction over sequences that the prover cannot do, and gives where a stream
is addressed, which row gets which key, and where an item is sorted to.
*Versions*: a replaced or converted file is a new version, of which nobody
claims to know anything; every other step hands on what somebody knows. What
goes wrong in such code, an answer that is stored after what it describes has
changed, shows as a view of an old version, and the properties say where that
may matter.

Only model-checked is liveness, which is out of the prover's reach:
`SilentNodeReleases`, `CancelGetsThrough`, `DisconnectTakesEffect`,
`BootsInTheEnd`, `IndexCatchesUp`.

## 7. Abstractions

* Display columns (progress, codecs, encoder, paths, error texts) do not
  influence the state of a row and are left out, as are logs.
* Primary keys stand for creation times: SQLite gives out one more than the
  largest key present, so keys of the rows present are in creation order, and
  the key of a deleted last row is given out again.
* `recent` is "in progress and started less than 30 minutes ago"; `silent` is
  "no heartbeat for 90 seconds". Both may come true at any moment.
* `MediaFile` rows are never deleted by any code, so the branch of the claim for
  a missing one is left out.
* `LocalMode` keeps of the work for another host one task per job of that host,
  with its mirror row; the books of the `WorkerLoop`, and what becomes of its
  ffmpegs, are in `RemoteWorkers`. `OneMode` and `EncodesReachable` speak of
  tasks: an ffmpeg that outlives its task belongs to no mode, and no button finds
  it. Nor does any limit on slots hold of such encodes, and none is stated. The
  shutdown of the supervisor is `Restart`: what it still waits for then makes no
  difference to a process that ends.
* The one job of `Library` is encoded by the process itself; jobs on other
  machines, and results that come late or under a reused key, are in `HostQueue`
  and `RemoteWorkers`. That the server is told of a conversion in the end is not
  stated: a call that fails is not repeated.
* `MediaSwap` lets one task work on the file at a time. `OneDispatchPerJob` and
  `OneBusyRowPerFile` give that while no node falls silent, is unpaired or
  purged, and while no second row is queued during a cancel (`double_queue`).
* ffmpeg either exits well, having written the whole film, or not.
* `Library` has one entity with one file. The semaphore that limits parallel
  probes, the 30 second page cache and the container formats of an index row are
  left out. A season's and an episode's rescan do to one file what the series'
  does.
* Argument lists: quality, colour, channel and metadata settings have no
  decision that another part relies on. `PlanConverges` and `FramesMatch` ask
  that cover art comes after the video (`plan.py:224-229` takes the other order
  for exotic), `FramesMatch` that there is one video: decoding is decided by the
  first.
* Sort keys are numbers, 0 the empty one; tuple keys compare as the code's do
  component by component and are left out.
* Saving a workflow drops clauses it does not know, which can widen what it
  matches, and it stores a text of old with commas in it as one item, which the
  matcher no longer splits: `RoundTripsKeepMeaning` speaks of the clauses that
  saving keeps as they are meant (`Storable`). `web/routes.py:1688-1689` ("old
  data round-trips identically") and `workflows.py:125-126` say more than that:
  after a save in the editor, a clause that asked for "h264,hevc" fits neither.
  For saved filters, where an unknown clause asks nothing, the property speaks of
  all.
* `CleanWorkflow` is what the server does with the clauses it is sent. The editor
  drops clauses without a value before that (`static/workflow_editor.js:484-492`).
* The docstring of `Workflow` (`models.py:108-119`) still tells of an allow-list
  for files that no workflow matches, and of clauses that are all ANDed;
  modelled is what `workflows.py` and `policy.py` do.
* `Migrations` has the columns that migrations read, add or remove, and takes
  the rows of the job table for one token; the seeding of settings after
  `init_db` is left out.

## 8. Not modelled

* Pages, search, posters, log view, cookie choices and the time and resolution
  charts: views and forms that keep no state anything else reads.
* Authentication (`web/auth.py`): a check of each request for itself.
* HTTP clients and subprocess wrappers: their failures appear as lost requests,
  failed probes and failed encodes.
* Command line and configuration parsing.
* The seeding of settings and the shutdown path of the supervisor.

Four hazards are in the models and have no property:

* A cancel of a local row before its ffmpeg is spawned has no effect until the
  encode ends. `web/routes.py:1308-1310` says that running jobs are flagged and
  SIGTERM'd, and promoted to `cancelled` on exit: the flag and the promotion are
  there, the signal may find nobody (`web/routes.py:1327`). `EncodesReachable`
  speaks of encodes that were spawned.
* A worker whose Node row was deleted never registers again. The host expects it
  to (`web/node_routes.py:160-161` and `186`: "re-register"), but
  `worker/loop.py` registers when it starts and at no other time (line 297 is
  where its heartbeat takes the 404 for one failure among others). `RemoteWorkers`
  has the deletion and what follows, and no property that it recovers.
* Two nodes may write one output name after a job was revived
  (`workers/execution.py:380`); `MediaSwap` takes one task at a time.
* The slot limit may change while encodes run, and encodes that were left behind
  count against none (`workers/local_node.py:154`): no bound on the encodes of a
  machine holds, and none is promised.

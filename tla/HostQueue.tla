----------------------------- MODULE HostQueue -----------------------------
(***************************************************************************)
(* The job table of a convertarr host (models.Job) and everything that     *)
(* changes the state, owner or existence of a row: ingest, the claims of   *)
(* the local and of the remote nodes, their results, the operator's queue  *)
(* and node pages, the heartbeat watchdog, and a restart of the host.      *)
(*                                                                         *)
(* The host is one asyncio event loop over one SQLite file, and every      *)
(* database section modelled here runs from its first read to its commit   *)
(* without an await, so each is one action.  What the nodes do between a   *)
(* claim and its result is left to `dispatches`: the claims handed out     *)
(* whose result the host has not yet received.                             *)
(*                                                                         *)
(* Abstractions.  Job ids stand for creation times: SQLite hands out       *)
(* 1 + the largest id in the table, so among the rows present the ids are  *)
(* in the order of `created_at`.  `recent` stands for "in progress, and     *)
(* started_at is less than 30 minutes old": nothing reads the age of a     *)
(* settled row.  MediaFile rows are never deleted by any code, so the      *)
(* claim's "media_file missing" branch cannot be taken and is left out.    *)
(* Encoder names, paths, codecs, progress and error texts have no          *)
(* influence on the state of a row and are left out.                       *)
(***************************************************************************)
EXTENDS Naturals

CONSTANTS
  Remotes,      (* Ids of nodes that may be enlisted as remote workers.    *)
  Local,        (* The built-in node "local".                              *)
  NoNode,       (* Job.node_id IS NULL.                                    *)
  Files,        (* MediaFile rows.                                         *)
  NoFile,
  MaxJobs,      (* Bounds the primary keys in use.                         *)
  MaxAttempts,  (* Bounds how often one primary key is claimed.            *)
  Environments  (* The sets of environment events an instance admits.      *)

ASSUME NodesAssumption ==
  /\ Local \notin Remotes
  /\ NoNode \notin Remotes \cup {Local}
ASSUME FilesAssumption == NoFile \notin Files
ASSUME BoundsAssumption == MaxJobs \in Nat /\ MaxAttempts \in Nat
ASSUME EnvironmentsAssumption ==
  \A F \in Environments :
    F \subseteq {"silence",  (* a node's heartbeats stop arriving          *)
                 "loss",     (* a claim's answer, a node or a result is
                                lost, so no result ever arrives            *)
                 "restart",  (* the host process dies and comes back       *)
                 "halt",     (* the local loop stops, the host does not    *)
                 "unpair",   (* the operator deletes or unpairs a node     *)
                 "purge"}    (* the operator force-deletes a row           *)

VARIABLES
  jobs,        (* jobs[id]: the row with that primary key.                 *)
  nodes,       (* The remote nodes that have a Node row.                   *)
  silent,      (* Of those, the ones whose last_heartbeat is 90 s old.     *)
  loopStarted, (* local_worker_loop has passed reconcile_stuck_jobs.       *)
  (* History variables: the host keeps no such record.                     *)
  dispatches,  (* Claims handed out whose result has not arrived.          *)
  attempts,    (* attempts[id]: how often that primary key was claimed.    *)
  faults       (* The environment events that may happen, chosen at first. *)

vars == <<jobs, nodes, silent, loopStarted, dispatches, attempts, faults>>

-----------------------------------------------------------------------------
(* Types. *)

JobIds   == 1 .. MaxJobs
AllNodes == Remotes \cup {Local}

Active   == {"running", "cancelling"}
Terminal == {"done", "failed", "cancelled"}
States   == {"absent", "queued"} \cup Active \cup Terminal

Row == [state: States, node: AllNodes \cup {NoNode},
        file: Files \cup {NoFile}, recent: BOOLEAN]

NoRow == [state |-> "absent", node |-> NoNode, file |-> NoFile, recent |-> FALSE]

Dispatch == [node: AllNodes, job: JobIds, attempt: Nat]

(* What a JobResult says: was_cancelled; success and swap_ok; success but
   not swap_ok; neither. *)
Results == {"cancelled", "swapped", "swap_failed", "encode_failed"}

InState(S) == {j \in JobIds : jobs[j].state \in S}
Present    == InState(States \ {"absent"})
ActiveOn(n) == {j \in InState(Active) : jobs[j].node = n}

(* The primary key SQLite gives the next row: one past the largest in use.
   The key of a deleted last row is given out again.  The keys skipped here
   are those of rows that are not of this queue: the mirror rows that a host
   keeps of its work for another one (see LocalMode). *)
IsNextId(j) ==
  /\ j \in JobIds \ Present
  /\ \A k \in Present : k < j

-----------------------------------------------------------------------------
(* Mutants of the definitions below: the slips the properties must notice. *)

(* The duplicate check of ingest forgets the rows that run. *)
BusyStates_QueuedOnly == {"queued"}

(* The claim's WHERE excludes finished rows instead of asking for queued. *)
OldestQueued_Unfinished(j) ==
  /\ jobs[j].state \in {"queued", "cancelled"}
  /\ \A k \in InState({"queued"}) : j <= k

(* Cancelled results get the enumeration's unused value `skipped`. *)
OutcomeOf_Skipped(result) ==
  CASE result = "cancelled" -> "skipped"
    [] result = "swapped"   -> "done"
    [] OTHER                -> "failed"

(* record_finish asks for success alone, not for swap_ok. *)
OutcomeOf_EncodedIsDone(result) ==
  CASE result = "cancelled"     -> "cancelled"
    [] result = "encode_failed" -> "failed"
    [] OTHER                    -> "done"

(* record_finish looks for `running` alone, or only for the row. *)
ResultApplies_RunningOnly(d) == jobs[d.job].state = "running"
ResultApplies_AnyRow(d) == jobs[d.job].state # "absent"

(* The watchdog forgets the rows being cancelled, or to clear node_id. *)
Revived_RunningOnly(N) == {j \in InState({"running"}) : jobs[j].node \in N}
RevivedRow_KeepsNode(row) == [row EXCEPT !.state = "queued", !.recent = FALSE]

(* The startup sweep queues stuck rows again, as the watchdog does. *)
ReconciledRow_Requeue(row) ==
  IF row.state \in Active /\ ~row.recent
  THEN [row EXCEPT !.state = "queued", !.node = NoNode]
  ELSE row

-----------------------------------------------------------------------------
(* Ingest: the tail of _ingest_path, once ffprobe and the workflows said
   that file f needs a conversion.  An active row for f ends it without a
   change to the table; `cancelling` is not among the states looked for. *)

BusyStates == {"queued", "running"}

Ingest(f) ==
  /\ \A j \in InState(BusyStates) : jobs[j].file # f
  /\ \E j \in JobIds :
       /\ IsNextId(j)
       /\ jobs' = [jobs EXCEPT ![j] = [NoRow EXCEPT !.state = "queued", !.file = f]]
  /\ UNCHANGED <<nodes, silent, loopStarted, dispatches, attempts, faults>>

-----------------------------------------------------------------------------
(* claim_for_node: the oldest queued row starts running for node n, and the
   dispatch goes out to n. *)

OldestQueued(j) ==
  /\ jobs[j].state = "queued"
  /\ \A k \in InState({"queued"}) : j <= k

ClaimFor(n) ==
  \E j \in JobIds :
    /\ OldestQueued(j)
    /\ attempts[j] < MaxAttempts
    /\ jobs' = [jobs EXCEPT ![j].state = "running", ![j].node = n,
                            ![j].recent = TRUE]
    /\ attempts' = [attempts EXCEPT ![j] = @ + 1]
    /\ dispatches' = dispatches \cup
         {[node |-> n, job |-> j, attempt |-> attempts[j] + 1]}
    /\ UNCHANGED <<nodes, silent, loopStarted, faults>>

(* local_worker_loop claims in-process. *)
LocalClaim == loopStarted /\ ClaimFor(Local)

(* POST /nodes/{n}/claim: 404 without a Node row.  last_heartbeat is not
   stamped by a claim. *)
RemoteClaim(n) == n \in nodes /\ ClaimFor(n)

-----------------------------------------------------------------------------
(* record_finish: the result of dispatch d reaches the host.  The row takes
   it if it is `running` or `cancelling`; which node sent it, and for which
   of the row's claims, is not looked at. *)

OutcomeOf(result) ==
  CASE result = "cancelled" -> "cancelled"
    [] result = "swapped"   -> "done"
    [] OTHER                -> "failed"

ResultApplies(d) == jobs[d.job].state \in Active

(* The in-process execute_dispatch reports a cancel only if it sees the row
   `cancelling`, with no await between that look and record_finish. *)
Reportable(d, result) ==
  d.node = Local /\ result = "cancelled" => jobs[d.job].state = "cancelling"

Finish(d, result) ==
  /\ Reportable(d, result)
  /\ dispatches' = dispatches \ {d}
  /\ jobs' = IF ResultApplies(d)
             THEN [jobs EXCEPT ![d.job].state = OutcomeOf(result), ![d.job].recent = FALSE]
             ELSE jobs
  /\ UNCHANGED <<nodes, silent, loopStarted, attempts, faults>>

(* The results of D never come: the answer to the claim was lost, the node
   died, or the single attempt to post the result failed. *)
ResultsLost(D) ==
  /\ "loss" \in faults
  /\ dispatches' = dispatches \ D
  /\ UNCHANGED <<jobs, nodes, silent, loopStarted, attempts, faults>>

-----------------------------------------------------------------------------
(* The operator's queue page. *)

CancelledRow(row) ==
  CASE row.state = "queued"  -> [row EXCEPT !.state = "cancelled"]
    [] row.state = "running" -> [row EXCEPT !.state = "cancelling"]
    [] OTHER                 -> row

(* POST /queue/{j}/cancel *)
Cancel(j) ==
  /\ jobs' = [jobs EXCEPT ![j] = CancelledRow(@)]
  /\ UNCHANGED <<nodes, silent, loopStarted, dispatches, attempts, faults>>

(* POST /queue/cancel-all *)
CancelAll ==
  /\ jobs' = [j \in JobIds |-> CancelledRow(jobs[j])]
  /\ UNCHANGED <<nodes, silent, loopStarted, dispatches, attempts, faults>>

(* POST /queue/{j}/force-delete: the row goes, its dispatch stays out. *)
ForceDelete(j) ==
  /\ "purge" \in faults
  /\ j \in Present
  /\ jobs' = [jobs EXCEPT ![j] = NoRow]
  /\ UNCHANGED <<nodes, silent, loopStarted, dispatches, attempts, faults>>

-----------------------------------------------------------------------------
(* Node rows, heartbeats and the watchdog. *)

(* POST /nodes/register, and the row pair_node creates in advance. *)
Register(n) ==
  /\ nodes' = nodes \cup {n}
  /\ silent' = silent \ {n}
  /\ UNCHANGED <<jobs, loopStarted, dispatches, attempts, faults>>

(* POST /nodes/{n}/heartbeat: 404 without a Node row. *)
Heartbeat(n) ==
  /\ n \in nodes
  /\ silent' = silent \ {n}
  /\ UNCHANGED <<jobs, nodes, loopStarted, dispatches, attempts, faults>>

(* 90 seconds pass without a heartbeat of n. *)
FallSilent(n) ==
  /\ "silence" \in faults
  /\ n \in nodes
  /\ silent' = silent \cup {n}
  /\ UNCHANGED <<jobs, nodes, loopStarted, dispatches, attempts, faults>>

(* _revive_jobs_for_node, and the same loop in delete_node and unpair_node:
   running and cancelling rows of the nodes N are queued again, unowned. *)
Revived(N) == {j \in InState(Active) : jobs[j].node \in N}

RevivedRow(row) ==
  [row EXCEPT !.state = "queued", !.node = NoNode, !.recent = FALSE]

ReviveJobsOf(N) ==
  jobs' = [j \in JobIds |-> IF j \in Revived(N) THEN RevivedRow(jobs[j]) ELSE jobs[j]]

(* sweep_once, over every silent remote node. *)
Sweep ==
  /\ ReviveJobsOf(silent)
  /\ UNCHANGED <<nodes, silent, loopStarted, dispatches, attempts, faults>>

(* delete_node, and the second database section of unpair_node.  The node
   itself may know nothing of it. *)
DeleteNode(n) ==
  /\ "unpair" \in faults
  /\ n \in nodes
  /\ ReviveJobsOf({n})
  /\ nodes' = nodes \ {n}
  /\ silent' = silent \ {n}
  /\ UNCHANGED <<loopStarted, dispatches, attempts, faults>>

-----------------------------------------------------------------------------
(* Restart of the host, and time. *)

(* Half an hour passes since row j was started. *)
Age(j) ==
  /\ jobs[j].state \in Active
  /\ jobs' = [jobs EXCEPT ![j].recent = FALSE]
  /\ UNCHANGED <<nodes, silent, loopStarted, dispatches, attempts, faults>>

(* The host process dies with its in-process encodes and is started again. *)
Restart ==
  /\ "restart" \in faults
  /\ loopStarted' = FALSE
  /\ dispatches' = {d \in dispatches : d.node # Local}
  /\ UNCHANGED <<jobs, nodes, silent, attempts, faults>>

(* The local loop stops claiming while the host goes on: the host was paired
   as a worker of another one, or the loop failed.  Its encodes drain ... *)
StopLocalLoop ==
  /\ "halt" \in faults
  /\ loopStarted
  /\ loopStarted' = FALSE
  /\ UNCHANGED <<jobs, nodes, silent, dispatches, attempts, faults>>

(* ... and those that outlast the supervisor's patience are cancelled, which
   ends their tasks before anything is recorded.  The loop knows its tasks by
   job id: a claim of a reused primary key may have displaced an older one. *)
Known(d) == d.node = Local /\ d.attempt = attempts[d.job]

DrainGivenUp ==
  /\ "halt" \in faults
  /\ ~loopStarted
  /\ \E D \in SUBSET {d \in dispatches : d.node = Local} :
       /\ {d \in dispatches : Known(d)} \subseteq D
       /\ dispatches' = dispatches \ D
  /\ UNCHANGED <<jobs, nodes, silent, loopStarted, attempts, faults>>

(* reconcile_stuck_jobs, on entry to local_worker_loop, which no task that an
   earlier loop knows of outlives: the rows of every node, but none that was
   started in the last 30 minutes. *)
ReconciledRow(row) ==
  CASE row.state = "cancelling" /\ ~row.recent -> [row EXCEPT !.state = "cancelled"]
    [] row.state = "running" /\ ~row.recent    -> [row EXCEPT !.state = "failed"]
    [] OTHER                                   -> row

StartLocalLoop ==
  /\ ~loopStarted
  /\ \A d \in dispatches : ~Known(d)
  /\ loopStarted' = TRUE
  /\ jobs' = [j \in JobIds |-> ReconciledRow(jobs[j])]
  /\ UNCHANGED <<nodes, silent, dispatches, attempts, faults>>

-----------------------------------------------------------------------------
(* A new installation: the first start of the local loop finds no rows. *)
Init ==
  /\ jobs = [j \in JobIds |-> NoRow]
  /\ nodes = {}
  /\ silent = {}
  /\ loopStarted = TRUE
  /\ dispatches = {}
  /\ attempts = [j \in JobIds |-> 0]
  /\ faults \in Environments

Next ==
  \/ \E f \in Files : Ingest(f)
  \/ LocalClaim
  \/ \E n \in Remotes : RemoteClaim(n) \/ Register(n) \/ Heartbeat(n)
                          \/ FallSilent(n) \/ DeleteNode(n)
  \/ \E d \in dispatches, result \in Results : Finish(d, result)
  \/ \E D \in SUBSET dispatches : ResultsLost(D)
  \/ \E j \in JobIds : Cancel(j) \/ ForceDelete(j) \/ Age(j)
  \/ CancelAll
  \/ Sweep
  \/ Restart
  \/ StopLocalLoop
  \/ DrainGivenUp
  \/ StartLocalLoop

Spec == Init /\ [][Next]_vars

-----------------------------------------------------------------------------
(* Fairness: the watchdog ticks every 30 seconds for as long as the host
   runs, and never gives up (watchdog_loop). *)
FairSpec == Spec /\ WF_vars(Sweep)

(* Also: supervisor_loop starts the local loop, which polls the queue for as
   long as it has a free slot; ffmpeg ends some day, and its result is
   recorded in-process; half an hour ends too. *)
LocalFairSpec ==
  /\ FairSpec
  /\ WF_vars(StartLocalLoop)
  /\ WF_vars(LocalClaim)
  /\ \A j \in JobIds :
       /\ WF_vars(Age(j))
       /\ WF_vars(\E d \in dispatches, result \in Results :
                    d.node = Local /\ d.job = j /\ Finish(d, result))

-----------------------------------------------------------------------------
(* Properties. *)

(* The variables hold what the table's columns may hold. *)
TypeOK ==
  /\ jobs \in [JobIds -> Row]
  /\ nodes \subseteq Remotes
  /\ silent \subseteq nodes
  /\ loopStarted \in BOOLEAN
  /\ dispatches \subseteq Dispatch
  /\ attempts \in [JobIds -> Nat]

(* A row in progress names a node the host still has a row for, and a queued
   row names none.  The watchdog walks the Node rows and the node pages
   revive by Job.node_id, so a running row that names a vanished node would
   be out of everybody's reach for ever. *)
Owned ==
  \A j \in JobIds :
    /\ jobs[j].state \in Active => jobs[j].node \in nodes \cup {Local}
    /\ jobs[j].state = "queued" => jobs[j].node = NoNode

(* No late result, sweep, restart or repeated cancel moves a row that is
   done, failed or cancelled; only a force-delete removes it. *)
SettledForGood ==
  [][\A j \in JobIds :
       jobs[j].state \in Terminal => jobs'[j].state \in {jobs[j].state, "absent"}]_vars

(* The table keeps the promise of JobLedger: each row waits, is held by one
   node, and is settled once, whatever the nodes and the network do. *)
StatusOf(row) ==
  CASE row.state = "queued"   -> "waiting"
    [] row.state \in Active   -> "held"
    [] OTHER                  -> row.state

HolderOf(row) == IF row.state \in Active THEN row.node ELSE NoNode

Ledger == INSTANCE JobLedger WITH
  Jobs    <- JobIds,
  Holders <- AllNodes,
  Nobody  <- NoNode,
  status  <- [j \in JobIds |-> StatusOf(jobs[j])],
  holder  <- [j \in JobIds |-> HolderOf(jobs[j])]

LedgerSpec == Ledger!Spec

(* As long as no claim, result or process is lost, every row in progress has
   the dispatch of its latest claim out with its node, so a result that will
   settle it is still to come: revivals, cancels, force-deletes, the reuse
   of primary keys and late results of earlier claims strand no row. *)
ActiveHasDispatch ==
  faults \cap {"loss", "restart", "halt"} = {} =>
    \A j \in InState(Active) :
      [node |-> jobs[j].node, job |-> j, attempt |-> attempts[j]] \in dispatches

(* While no node falls silent or is unpaired and no row is force-deleted, a
   job is never out with two nodes, nor twice with one: a lost result or a
   restart alone makes nobody encode a job again. *)
OneDispatchPerJob ==
  faults \cap {"silence", "unpair", "purge"} = {} =>
    \A d, e \in dispatches : d.job = e.job => d = e

(* Under the same proviso no file has two rows that wait or run. *)
OneBusyRowPerFile ==
  faults \cap {"silence", "unpair", "purge"} = {} =>
    \A j, k \in InState({"queued", "running"}) : jobs[j].file = jobs[k].file => j = k

(* No row stays with a node that stays silent: the watchdog frees it, be it
   running or already cancelling. *)
SilentNodeReleases ==
  \A n \in Remotes, j \in JobIds :
    (n \in silent /\ j \in ActiveOn(n)) ~> ~(n \in silent /\ j \in ActiveOn(n))

(* heartbeat.py:5-8 and execution.py:551-554: once the watchdog took a job
   from a node, the result that node still posts is left alone.  A row
   changes state on a result only if the result is of the row's latest
   claim. *)
LateResultLeftAlone ==
  [][\A d \in dispatches \ dispatches' :
       d.attempt # attempts[d.job] => jobs'[d.job].state = jobs[d.job].state]_vars

(* ingest.py:146: "Avoid double-queueing if there's already an active job
   for this file".  A file whose encode has not been settled yet gets no
   second row. *)
NoDoubleQueue ==
  \A j, k \in InState({"queued"} \cup Active) : jobs[j].file = jobs[k].file => j = k

(* execution.py:680-683: rows orphaned by a killed host are swept up on
   startup, so a local row whose encode died with the process does not stay
   in progress. *)
Orphaned(j) ==
  /\ j \in ActiveOn(Local)
  /\ \A d \in dispatches : ~(d.node = Local /\ d.job = j)

OrphansSweptUp == \A j \in JobIds : Orphaned(j) ~> ~Orphaned(j)
=============================================================================

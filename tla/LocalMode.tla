----------------------------- MODULE LocalMode -----------------------------
(***************************************************************************)
(* One convertarr process and its two ways of working: on its own queue    *)
(* (local_worker_loop) or, when paired, as a worker of another host        *)
(* (WorkerLoop).  The pairing settings say which, supervisor_loop switches *)
(* between them, and the encodes of the loop it leaves must drain first.   *)
(*                                                                         *)
(* Each step of a coroutine ends at an await.  The process's own job table *)
(* holds two kinds of rows: those of its own queue, which is HostQueue     *)
(* without remote nodes, a claim being out as long as its task lives; and  *)
(* a mirror row for each job it runs for another host, kept for the        *)
(* dashboard.  A mirror row is one without a media file.  Of the work for  *)
(* another host only the tasks are kept, one per job, with their mirror    *)
(* rows: RemoteWorkers has the rest, and that loop's runner and ids are    *)
(* apart from the local ones.                                              *)
(***************************************************************************)
EXTENDS Naturals, FiniteSets

CONSTANTS
  Local, NoNode, Files, NoFile, MaxJobs, MaxAttempts,
  Environments, (* As in HostQueue.                                        *)
  Hosts,        (* Instances that may enlist this one as their worker.     *)
  NoHost,
  RemoteJobs,   (* Jobs they hand out.                                     *)
  SlotChoices   (* What max_concurrent_jobs of the local node may be: the
                   operator may change it between any two reads.           *)

ASSUME QueueAssumption ==
  NoNode # Local /\ NoFile \notin Files /\ MaxJobs \in Nat /\ MaxAttempts \in Nat
ASSUME EnvironmentsAssumption ==
  \A F \in Environments : F \subseteq {"restart", "halt", "purge"}
ASSUME HostsAssumption == NoHost \notin Hosts
ASSUME SlotsAssumption == SlotChoices # {} /\ SlotChoices \subseteq 0 .. 16

VARIABLES
  jobs, attempts, faults,  (* As in HostQueue.                             *)
  pairing,     (* paired_host_url, paired_host_api_key (by the host it
                  opens), and whether paired_node_id is set.               *)
  supervisor,  (* phase; mode: `current_mode`; target: what it drains for. *)
  loop,        (* The inner loop and its stop event; host and key are those
                  the client of a WorkerLoop was made with.                *)
  orphans,     (* Claims whose ffmpeg lives on without its task.           *)
  tasks,       (* The _run_one_dispatch tasks that are not done.           *)
  running,     (* `running` of the local loop: job ids to attempts.        *)
  procs,       (* `_procs` of the local runner: job ids to attempts.       *)
  hostTasks    (* The _run_one tasks of the WorkerLoop.                    *)

queueVars == <<jobs, attempts, faults, tasks>>
bookVars  == <<running, procs>>
modeVars  == <<pairing, supervisor, loop>>
vars == <<queueVars, bookVars, modeVars, orphans, hostTasks>>

(* A task is `starting` until ffmpeg is spawned, `killed` once ffmpeg has
   its SIGTERM, `probing` while the swapped file is read again. *)
Claims == [job: 1 .. MaxJobs, attempt: 1 .. MaxAttempts]
Stages == {"starting", "encoding", "killed", "probing"}
ClaimOf(t) == [job |-> t.job, attempt |-> t.attempt]
DispatchOf(t) == [node |-> Local, job |-> t.job, attempt |-> t.attempt]

LocalLoopRuns == loop.kind = "local" /\ loop.phase = "running" /\ ~loop.stop

Host == INSTANCE HostQueue WITH
  Remotes     <- {},
  nodes       <- {},
  silent      <- {},
  loopStarted <- LocalLoopRuns,
  dispatches  <- {DispatchOf(t) : t \in tasks}

JobIds == Host!JobIds

(* The rows of the process's own queue, and the queue they make up. *)
IsOwn(j) == jobs[j].file # NoFile
OwnRows == [j \in JobIds |-> IF IsOwn(j) THEN jobs[j] ELSE Host!NoRow]

Own == INSTANCE HostQueue WITH
  jobs        <- OwnRows,
  Remotes     <- {},
  nodes       <- {},
  silent      <- {},
  loopStarted <- LocalLoopRuns,
  dispatches  <- {DispatchOf(t) : t \in tasks}

Encoding == {t \in tasks : t.stage \in {"encoding", "killed"}}

(* The ffmpegs of the own queue: with a task, or left behind by one. *)
Ffmpegs == {ClaimOf(t) : t \in Encoding} \cup orphans

NoLoop == [kind |-> "none", phase |-> "returned", stop |-> FALSE,
           host |-> NoHost, key |-> NoHost]
Created(mode) == [NoLoop EXCEPT !.kind = mode, !.phase = "created"]

-----------------------------------------------------------------------------
(* Mutants of the definitions below: the slips the properties must notice. *)

(* The tasks of a loop whose drain is given up are left to themselves. *)
CancelTasks_Detached == UNCHANGED <<tasks, hostTasks>>

(* The loop does not wait for its tasks. *)
Drained_AtOnce == loop.phase # "returned"

(* An entry is added beside an old one; or all are dropped with one. *)
Put_Beside(book, c) == book \cup {c}
Pop_All(book, j) == {}

(* The supervisor asks for the node id, which outlives a pairing. *)
CurrentTarget_ById == IF pairing.id THEN "remote" ELSE "local"

-----------------------------------------------------------------------------
(* Writing one entry of a dictionary keyed by job id, and popping one. *)
Put(book, c) == {e \in book : e.job # c.job} \cup {c}
Pop(book, j) == {e \in book : e.job # j}

-----------------------------------------------------------------------------
(* web/pairing_routes.py.  The settings are written one transaction each. *)

AcceptWrites(h, n) ==
  CASE n = 1 -> [pairing EXCEPT !.url = h]
    [] n = 2 -> [pairing EXCEPT !.url = h, !.key = h]
    [] n = 3 -> [url |-> h, key |-> h, id |-> TRUE]

AcceptPairing(h) ==
  /\ pairing' = AcceptWrites(h, 3)
  /\ UNCHANGED <<queueVars, bookVars, supervisor, loop, orphans, hostTasks>>

Disconnected == [pairing EXCEPT !.url = NoHost, !.key = NoHost]

DisconnectPairing ==
  /\ pairing' = Disconnected
  /\ UNCHANGED <<queueVars, bookVars, supervisor, loop, orphans, hostTasks>>

-----------------------------------------------------------------------------
(* supervisor_loop. *)

CurrentTarget == IF pairing.url # NoHost THEN "remote" ELSE "local"

Start(mode) ==
  /\ supervisor' = [phase |-> "watching", mode |-> mode, target |-> mode]
  /\ loop' = Created(mode)

(* The first tick after the process started. *)
FirstMode ==
  /\ supervisor.phase = "watching" /\ supervisor.mode = "none"
  /\ Start(CurrentTarget)
  /\ UNCHANGED <<queueVars, bookVars, pairing, orphans, hostTasks>>

(* A tick that finds another target stops the loop.  Ticks are 5 seconds
   apart, so the loop has had its first step. *)
BeginDrain ==
  /\ supervisor.phase = "watching" /\ supervisor.mode # "none"
  /\ CurrentTarget # supervisor.mode
  /\ loop.phase # "created"
  /\ supervisor' = [supervisor EXCEPT !.phase = "draining", !.target = CurrentTarget]
  /\ loop' = [loop EXCEPT !.stop = TRUE]
  /\ UNCHANGED <<queueVars, bookVars, pairing, orphans, hostTasks>>

(* The loop returned in time: the new mode starts, for the target seen when
   the drain began. *)
SwitchMode ==
  /\ supervisor.phase = "draining" /\ loop.phase = "returned"
  /\ Start(supervisor.target)
  /\ UNCHANGED <<queueVars, bookVars, pairing, orphans, hostTasks>>

(* The local loop knows the tasks that are entered in `running`: one that a
   claim of the same primary key displaced there is on its own. *)
Known(t) == ClaimOf(t) \in running

(* After 120 seconds the loop is cancelled, and with the gather it waits in
   every task it knows; none of them records or posts a result, nor settles
   its mirror row.  Runner.run drops its entry on the way out, and leaves
   ffmpeg running. *)
CancelTasks == tasks' = {t \in tasks : ~Known(t)} /\ hostTasks' = {}

DrainTimesOut ==
  /\ supervisor.phase = "draining"
  /\ loop.phase \in {"registering", "running", "failing"}
  /\ CancelTasks
  /\ LET gone == {t \in Encoding : Known(t)} IN
       /\ procs' = {e \in procs : \A t \in gone : e.job # t.job}
       /\ orphans' = orphans \cup {ClaimOf(t) : t \in gone}
  /\ Start(supervisor.target)
  /\ UNCHANGED <<jobs, attempts, faults, running, pairing>>

(* A loop that failed has its exception raised again in the supervisor,
   which catches timeouts only and ends. *)
SupervisorFails ==
  /\ supervisor.phase = "draining" /\ loop.phase = "raised"
  /\ supervisor' = [supervisor EXCEPT !.phase = "gone"]
  /\ UNCHANGED <<queueVars, bookVars, pairing, loop, orphans, hostTasks>>

-----------------------------------------------------------------------------
(* The inner loops. *)

(* The first step of the inner task.  _run_remote reads the settings afresh
   and falls back to the local loop if they are incomplete. *)
Complete == pairing.url # NoHost /\ pairing.key # NoHost /\ pairing.id

BeginLocal ==
  /\ loop.phase = "created"
  /\ loop.kind = "local" \/ ~Complete
  /\ loop' = [loop EXCEPT !.kind = "local", !.phase = "running"]
  /\ jobs' = [j \in JobIds |-> Host!ReconciledRow(jobs[j])]
  /\ running' = {}
  /\ UNCHANGED <<attempts, faults, tasks, procs, pairing, supervisor, orphans, hostTasks>>

BeginRemote ==
  /\ loop.phase = "created" /\ loop.kind = "remote" /\ Complete
  /\ loop' = [loop EXCEPT !.phase = "registering", !.host = pairing.url, !.key = pairing.key]
  /\ UNCHANGED <<queueVars, bookVars, pairing, supervisor, orphans, hostTasks>>

(* _register retries for ever, whatever the stop event says, and succeeds
   only with the key of the host it calls. *)
Registered ==
  /\ loop.phase = "registering" /\ loop.key = loop.host
  /\ loop' = [loop EXCEPT !.phase = "running"]
  /\ UNCHANGED <<queueVars, bookVars, pairing, supervisor, orphans, hostTasks>>

(* Either loop returns once it was told to stop and its tasks are done. *)
Drained == (\A t \in tasks : ~Known(t)) /\ hostTasks = {}

LoopReturns ==
  /\ loop.phase = "running" /\ loop.stop
  /\ Drained
  /\ loop' = [loop EXCEPT !.phase = "returned"]
  /\ UNCHANGED <<queueVars, bookVars, pairing, supervisor, orphans, hostTasks>>

(* A pass of the local loop raises, say from the database; its `finally`
   waits for the tasks. *)
LocalLoopFails ==
  /\ "halt" \in faults
  /\ LocalLoopRuns
  /\ loop' = [loop EXCEPT !.phase = "failing"]
  /\ UNCHANGED <<queueVars, bookVars, pairing, supervisor, orphans, hostTasks>>

LocalLoopRaises ==
  /\ loop.phase = "failing"
  /\ Drained
  /\ loop' = [loop EXCEPT !.phase = "raised"]
  /\ UNCHANGED <<queueVars, bookVars, pairing, supervisor, orphans, hostTasks>>

-----------------------------------------------------------------------------
(* local_worker_loop and the WorkerLoop: slots and tasks. *)

(* Reaping, at the head of every pass. *)
Reap ==
  /\ LocalLoopRuns
  /\ running' = running \cap {ClaimOf(t) : t \in tasks}
  /\ UNCHANGED <<queueVars, procs, modeVars, orphans, hostTasks>>

WithinLimit(n) == \E limit \in SlotChoices : n < limit

FreeSlot == WithinLimit(Cardinality(running))

ClaimLocally ==
  /\ FreeSlot
  /\ UNCHANGED <<procs, modeVars, orphans, hostTasks>>
  /\ \E j \in JobIds :
       LET c == [job |-> j, attempt |-> attempts[j] + 1] IN
       /\ tasks' = tasks \cup {[job |-> c.job, attempt |-> c.attempt, stage |-> "starting"]}
       /\ running' = Put(running, c)
  /\ Host!LocalClaim

(* _create_mirror_job: a running row of the local node, or none if the insert
   fails, which does not keep the task from running. *)
NoMirror == 0
MirrorRow == [Host!NoRow EXCEPT !.state = "running", !.node = Local, !.recent = TRUE]

CreatesMirror(row) ==
  \/ row = NoMirror /\ UNCHANGED jobs
  \/ row # NoMirror /\ Host!IsNextId(row) /\ jobs' = [jobs EXCEPT ![row] = MirrorRow]

(* The WorkerLoop reads the same limit, but before it asks the host, once for
   all the claims of a pass: the answer may find another one.  Its own books
   are in RemoteWorkers; here a task that ended takes no slot. *)
ClaimFromHost(r) ==
  /\ loop.kind = "remote" /\ loop.phase = "running" /\ ~loop.stop
  /\ WithinLimit(Cardinality(hostTasks))
  /\ \A t \in hostTasks : t.job # r
  /\ \E row \in JobIds \cup {NoMirror} :
       /\ CreatesMirror(row)
       /\ hostTasks' = hostTasks \cup
            {[host |-> loop.host, job |-> r, row |-> row, phase |-> "works"]}
  /\ UNCHANGED <<attempts, faults, tasks, bookVars, modeVars, orphans>>

(* _finalize_mirror: the task's result is written under the primary key that
   its mirror row was given, whatever is there now, or is not.  Then the
   result is posted. *)
Settled(row, result) == [row EXCEPT !.state = Host!OutcomeOf(result), !.recent = FALSE]

FinalizeMirror(t, result) ==
  /\ t.phase = "works"
  /\ hostTasks' = (hostTasks \ {t}) \cup {[t EXCEPT !.phase = "reports"]}
  /\ \/ t.row \in Host!Present /\ jobs' = [jobs EXCEPT ![t.row] = Settled(@, result)]
     \/ UNCHANGED jobs    (* no row, or the write failed, which is logged *)
  /\ UNCHANGED <<attempts, faults, tasks, bookVars, modeVars, orphans>>

(* The post is answered, or not; or the task has crashed before it. *)
HostTaskEnds(t) ==
  /\ hostTasks' = hostTasks \ {t}
  /\ UNCHANGED <<queueVars, bookVars, modeVars, orphans>>

-----------------------------------------------------------------------------
(* execute_dispatch, Runner.run and _run_one_dispatch. *)

Launch(t) ==
  /\ t.stage = "starting"
  /\ tasks' = (tasks \ {t}) \cup {[t EXCEPT !.stage = "encoding"]}
  /\ procs' = Put(procs, ClaimOf(t))
  /\ UNCHANGED <<jobs, attempts, faults, running, modeVars, orphans, hostTasks>>

(* The result is recorded with the task's last step. *)
Record(t, result) ==
  /\ UNCHANGED modeVars
  /\ tasks' = tasks \ {t}
  /\ Host!Finish(DispatchOf(t), result)

LaunchFails(t) ==
  /\ t.stage = "starting"
  /\ Record(t, "encode_failed")
  /\ UNCHANGED <<bookVars, orphans, hostTasks>>

(* ffmpeg is gone: its entry is popped by job id, and the row is looked up
   for a cancel before the swap.  Only a swapped file is probed again. *)
CancelSeen(t) == jobs[t.job].state = "cancelling"

EncodeEnds(t, encoded) ==
  /\ t \in Encoding
  /\ procs' = Pop(procs, t.job)
  /\ LET result == IF CancelSeen(t) THEN "cancelled" ELSE encoded IN
       IF result = "swapped"
       THEN /\ tasks' = (tasks \ {t}) \cup {[t EXCEPT !.stage = "probing"]}
            /\ UNCHANGED <<jobs, attempts, faults, modeVars>>
       ELSE Record(t, result)
  /\ UNCHANGED <<running, orphans, hostTasks>>

ProbeEnds(t) ==
  /\ t.stage = "probing"
  /\ Record(t, "swapped")
  /\ UNCHANGED <<bookVars, orphans, hostTasks>>

(* An ffmpeg that nothing waits for ends, or is made to, some day. *)
OrphanEnds(c) ==
  /\ orphans' = orphans \ {c}
  /\ UNCHANGED <<queueVars, bookVars, modeVars, hostTasks>>

-----------------------------------------------------------------------------
(* The queue page: the row is changed, then the process that the runner has
   under its id, if any, gets a SIGTERM. *)

Signal(J) ==
  /\ tasks' = {IF t.stage = "encoding" /\ t.job \in J /\ ClaimOf(t) \in procs
               THEN [t EXCEPT !.stage = "killed"] ELSE t : t \in tasks}
  /\ UNCHANGED <<bookVars, modeVars, orphans, hostTasks>>

IsRunning(j) == jobs[j].state = "running"

Cancel(j) ==
  /\ Signal({k \in {j} : IsRunning(k)})
  /\ Host!Cancel(j)

CancelAll ==
  /\ Signal({k \in JobIds : IsRunning(k)})
  /\ Host!CancelAll

(* The signal goes out whatever the state of the row. *)
ForceDelete(j) ==
  /\ Signal({j})
  /\ Host!ForceDelete(j)

Ingest(f) ==
  /\ UNCHANGED <<tasks, bookVars, modeVars, orphans, hostTasks>>
  /\ Host!Ingest(f)

Age(j) ==
  /\ UNCHANGED <<tasks, bookVars, modeVars, orphans, hostTasks>>
  /\ Host!Age(j)

-----------------------------------------------------------------------------
(* The process dies, between any two transactions of accept_pairing too.  Its
   ffmpegs may die with it, or go on. *)

Die ==
  /\ "restart" \in faults
  /\ tasks' = {} /\ hostTasks' = {}
  /\ running' = {} /\ procs' = {}
  /\ orphans' \in SUBSET Ffmpegs
  /\ supervisor' = [phase |-> "watching", mode |-> "none", target |-> "none"]
  /\ loop' = NoLoop
  /\ UNCHANGED <<jobs, attempts, faults>>

Restart == Die /\ UNCHANGED pairing

RestartWhilePairing(h) == Die /\ \E n \in {1, 2} : pairing' = AcceptWrites(h, n)

-----------------------------------------------------------------------------
(* A new installation in host mode, its local loop started. *)
Init ==
  /\ jobs = [j \in JobIds |-> Host!NoRow]
  /\ attempts = [j \in JobIds |-> 0]
  /\ faults \in Environments
  /\ pairing = [url |-> NoHost, key |-> NoHost, id |-> FALSE]
  /\ supervisor = [phase |-> "watching", mode |-> "local", target |-> "local"]
  /\ loop = [Created("local") EXCEPT !.phase = "running"]
  /\ tasks = {} /\ running = {} /\ procs = {} /\ hostTasks = {} /\ orphans = {}

SupervisorStep ==
  FirstMode \/ BeginDrain \/ SwitchMode \/ DrainTimesOut \/ SupervisorFails

LoopStep ==
  \/ BeginLocal \/ BeginRemote \/ Registered \/ LoopReturns
  \/ LocalLoopFails \/ LocalLoopRaises
  \/ Reap \/ ClaimLocally
  \/ \E r \in RemoteJobs : ClaimFromHost(r)

TaskStep(t) ==
  \/ Launch(t) \/ LaunchFails(t) \/ ProbeEnds(t)
  \/ \E encoded \in Host!Results \ {"cancelled"} : EncodeEnds(t, encoded)

Next ==
  \/ SupervisorStep
  \/ LoopStep
  \/ \E t \in tasks : TaskStep(t)
  \/ \E t \in hostTasks : HostTaskEnds(t) \/ \E result \in Host!Results : FinalizeMirror(t, result)
  \/ \E c \in orphans : OrphanEnds(c)
  \/ \E h \in Hosts : AcceptPairing(h) \/ RestartWhilePairing(h)
  \/ DisconnectPairing
  \/ \E f \in Files : Ingest(f)
  \/ \E j \in JobIds : Cancel(j) \/ ForceDelete(j) \/ Age(j)
  \/ CancelAll
  \/ Restart

Spec == Init /\ [][Next]_vars

-----------------------------------------------------------------------------
(* Fairness.  The supervisor ticks every 5 seconds and gives a drain up after
   120; a created task takes its first step, in one of the lives of a process
   that dies again and again; a registration goes through some time. *)
Fairness ==
  /\ WF_vars(FirstMode) /\ WF_vars(BeginDrain)
  /\ WF_vars(SwitchMode) /\ WF_vars(DrainTimesOut)
  /\ SF_vars(BeginLocal \/ BeginRemote)
  /\ SF_vars(Registered)

FairSpec == Spec /\ Fairness

-----------------------------------------------------------------------------
(* Properties. *)

Modes  == {"none", "local", "remote"}
Phases == {"created", "registering", "running", "failing", "returned", "raised"}

OneEntryPerJob(book) == \A c, e \in book : c.job = e.job => c = e

(* The dictionaries have one entry per job id, claims of the queue. *)
TypeOK ==
  /\ jobs \in [JobIds -> Host!Row] /\ attempts \in [JobIds -> Nat]
  /\ pairing \in [url: Hosts \cup {NoHost}, key: Hosts \cup {NoHost}, id: BOOLEAN]
  /\ supervisor \in [phase: {"watching", "draining", "gone"}, mode: Modes, target: Modes]
  /\ loop \in [kind: Modes, phase: Phases, stop: BOOLEAN,
               host: Hosts \cup {NoHost}, key: Hosts \cup {NoHost}]
  /\ tasks \subseteq [job: JobIds, attempt: 1 .. MaxAttempts, stage: Stages]
  /\ running \subseteq Claims /\ OneEntryPerJob(running)
  /\ procs \subseteq Claims /\ OneEntryPerJob(procs)
  /\ orphans \subseteq Claims
  /\ hostTasks \subseteq [host: Hosts, job: RemoteJobs, row: JobIds \cup {NoMirror},
                          phase: {"works", "reports"}]

(* However modes switch, loops fail and drains are given up, the rows of the
   process's own queue see only the steps of HostQueue: in particular no local
   loop starts, and fails rows, while the latest local claim of a row is out.
   Mirror rows share the table and the handlers that change it, but not the
   queue.  The one exception: the mirror row of a task was force-deleted, its
   key was given to a row of the queue, and the task's result goes there. *)
Misfiled ==
  \E t \in hostTasks, result \in Host!Results :
    /\ t.row # NoMirror /\ IsOwn(t.row)
    /\ OwnRows' = [OwnRows EXCEPT ![t.row] = Settled(@, result)]
    /\ UNCHANGED <<tasks, attempts, faults, LocalLoopRuns>>

ImplementsHost ==
  Own!Init /\ [][UNCHANGED Own!vars \/ Own!Next \/ Misfiled]_(Own!vars)

(* The two modes never overlap, as long as no primary key was handed out
   twice: a task of the own queue lives only under a local loop, and a task
   of another host only under the WorkerLoop of that host.  Tasks, not
   ffmpegs: what a given-up drain leaves running is in `orphans`. *)
FreshKeys == \A j \in JobIds : attempts[j] <= 1

OneMode ==
  /\ FreshKeys /\ tasks # {} => loop.kind = "local" /\ loop.phase \in {"running", "failing"}
  /\ \A t \in hostTasks : /\ loop.kind = "remote" /\ loop.phase = "running"
                           /\ loop.host = t.host

(* The encodes that drains and deaths leave behind are not joined by a second
   one of the same file while both rows run, in whatever mode and after
   however many restarts: only a sweep that settled the row, a cancel or a
   force-delete lets the file be queued again.  The exception are primary
   keys that were handed out twice. *)
EncodesApart ==
  FreshKeys =>
    \A c, e \in Ffmpegs :
      /\ IsOwn(c.job) /\ jobs[c.job].state = "running" /\ jobs[e.job].state = "running"
      /\ jobs[c.job].file = jobs[e.job].file
      => c = e

(* Every local encode whose task lives can be found by the cancel button, but
   for reused primary keys: `_procs` is popped by job id.  An encode whose
   task a drain or a death took away is found by none. *)
EncodesReachable ==
  FreshKeys => \A t \in Encoding : ClaimOf(t) \in procs

(* pairing_routes.py:15-16: once disconnected, the process works on its own
   queue again, whatever it was in the middle of, if no local loop failed. *)
DisconnectTakesEffect ==
  pairing.url = NoHost ~>
    \/ pairing.url # NoHost
    \/ loop.kind = "local" /\ loop.phase = "running"
    \/ loop.phase \in {"failing", "raised"}

(* supervisor.py:12-13, pairing_routes.py:11-12: the supervisor "switches
   modes when the target changes", so that a pairing accepted, with key and
   node id in place, has the process work for that host in the end, unless
   the pairing changes again. *)
PairedWith(h) == pairing = [url |-> h, key |-> h, id |-> TRUE]

PairingTakesEffect ==
  \A h \in Hosts :
    PairedWith(h) ~>
      \/ ~PairedWith(h)
      \/ loop.kind = "remote" /\ loop.phase = "running" /\ loop.host = h
=============================================================================

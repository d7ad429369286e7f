--------------------------- MODULE RemoteWorkers ---------------------------
(***************************************************************************)
(* Remote workers (worker/loop.py) composed with the host's job table:     *)
(* claims and results that cross the network, cancellations that travel    *)
(* back in heartbeat and progress answers, and the worker's own books, the *)
(* dictionaries `_running` and `_procs` keyed by job id and the set        *)
(* `_cancel_requested`.                                                    *)
(*                                                                         *)
(* Each step of a worker ends at an await.  A request is handled by the    *)
(* host in the step that sends it (its delay shows in when that step       *)
(* happens) except a result, which may be handled long after the worker    *)
(* gave up waiting; an answer is a step of its own, and may be lost.       *)
(*                                                                         *)
(* The local worker is here only as the other client of the queue.  The    *)
(* /start post, the progress samples and the worker's own mirror rows do   *)
(* not influence what is modelled and are left out.                        *)
(***************************************************************************)
EXTENDS Naturals, FiniteSets

CONSTANTS Remotes, Local, NoNode, Files, NoFile, MaxJobs, MaxAttempts,
  Environments,
  Cap,         (* Each worker's own max_concurrent_jobs.                    *)
  NoDispatch   (* No entry in a dictionary; no answer under way.            *)

ASSUME QueueAssumption ==
  /\ Local \notin Remotes /\ NoNode \notin Remotes \cup {Local}
  /\ NoFile \notin Files /\ MaxJobs \in Nat /\ MaxAttempts \in Nat
  /\ \A F \in Environments :
       F \subseteq {"silence", "loss", "restart", "halt", "unpair", "purge"}
ASSUME CapAssumption == Cap \in 0 .. 16

VARIABLES
  jobs, nodes, silent, loopStarted, dispatches, attempts, faults,
             (* The variables of HostQueue.                               *)
  mode,      (* mode[w]: "off"; "run": both loops run; "drain": stopping.  *)
  answer,    (* answer[w]: the dispatch in the claim answer under way.     *)
  tasks,     (* The _run_one tasks of all workers.                         *)
  running,   (* running[w][j]: WorkerLoop._running.                        *)
  procs,     (* procs[w][j]: Runner._procs, by the dispatch it encodes.    *)
  cancelReq, (* cancelReq[w]: WorkerLoop._cancel_requested.                *)
  notices,   (* notices[w]: job ids in answers that tell w to cancel.      *)
  posted,    (* Results on their way to the host.                          *)
  swapped,   (* History: dispatches whose output replaced the original.    *)
  past       (* past[j], history: what came of key j before its present row:
                how often it had been claimed, and the claims still out.   *)

hostVars   == <<jobs, nodes, silent, loopStarted, dispatches, attempts, faults>>
workerVars == <<mode, answer, tasks, running, procs, cancelReq, notices, posted, swapped>>
vars       == <<hostVars, workerVars, past>>

Host == INSTANCE HostQueue

JobIds   == Host!JobIds
Dispatch == [node: Remotes \cup {Local}, job: JobIds, attempt: 1 .. MaxAttempts]

ASSUME NoDispatchAssumption == NoDispatch \notin Dispatch

(* A _run_one task: `start` until ffmpeg is spawned, `encode` while it runs,
   `report` with its result, `posted` while it waits for the host's answer. *)
Task == [of: Dispatch, phase: {"start", "encode", "report", "posted"},
         result: Host!Results \cup {"none"}, killed: BOOLEAN]

NewTask(d) == [of |-> d, phase |-> "start", result |-> "none", killed |-> FALSE]

TasksOf(w) == {t \in tasks : t.of.node = w}
Entries(book, w) == {j \in JobIds : book[w][j] # NoDispatch}
Replace(t, u) == tasks' = (tasks \ {t}) \cup {u}

(* The rows of w that the operator has flagged. *)
Flagged(w) == {j \in JobIds : jobs[j].state = "cancelling" /\ jobs[j].node = w}

-----------------------------------------------------------------------------
(* Mutants of the definitions below: the slips the properties must notice. *)

(* A retry without a check posts a result that the host already has. *)
FinishArrives_Again(m) ==
  /\ Host!Finish(m.of, m.result)
  /\ UNCHANGED <<workerVars, past>>

(* A slot too many. *)
HasFreeSlot_OneMore(w) == Cardinality(Entries(running, w)) <= Cap

(* The signal is sent only when the id is new in _cancel_requested. *)
Signalled_FirstOnly(w, j) == procs[w][j] # NoDispatch /\ j \notin cancelReq[w]

(* Every job the worker reports is told to stop. *)
CancellationsFor_Reported(w, ids) == ids

(* The output is moved into place before the cancellation is looked at. *)
SwapsOutput_BeforeCancel(w, j, encoded) == encoded = "swapped"

-----------------------------------------------------------------------------
(* Life of a worker: run_forever. *)

(* The loop and its runner are gone, and their books with them. *)
Forget(w) ==
  /\ mode' = [mode EXCEPT ![w] = "off"]
  /\ answer' = [answer EXCEPT ![w] = NoDispatch]
  /\ tasks' = tasks \ TasksOf(w)
  /\ notices' = [notices EXCEPT ![w] = {}]
  /\ Host!ResultsLost({d \in dispatches : d.node = w} \ {m.of : m \in posted})
  /\ running' = [running EXCEPT ![w] = [j \in JobIds |-> NoDispatch]]
  /\ procs' = [procs EXCEPT ![w] = [j \in JobIds |-> NoDispatch]]
  /\ cancelReq' = [cancelReq EXCEPT ![w] = {}]
  /\ UNCHANGED <<posted, swapped, past>>

(* A worker starts with empty books and registers, retrying until it can.
   It never registers again. *)
StartWorker(w) ==
  /\ mode[w] = "off"
  /\ Host!Register(w)
  /\ mode' = [mode EXCEPT ![w] = "run"]
  /\ UNCHANGED <<answer, tasks, running, procs, cancelReq, notices, posted, swapped, past>>

(* Stopping cancels the heartbeat and dispatch loops first, an unanswered
   claim with it, and then waits for the encodes. *)
StopWorker(w) ==
  /\ "loss" \in faults
  /\ mode[w] = "run"
  /\ mode' = [mode EXCEPT ![w] = "drain"]
  /\ answer' = [answer EXCEPT ![w] = NoDispatch]
  /\ IF answer[w] = NoDispatch THEN UNCHANGED hostVars ELSE Host!ResultsLost({answer[w]})
  /\ UNCHANGED <<tasks, running, procs, cancelReq, notices, posted, swapped, past>>

(* The loop waits for the tasks in _running only: a task whose entry was
   overwritten loses its client, and so its result. *)
Drained(w) ==
  /\ mode[w] = "drain"
  /\ \A t \in tasks : running[w][t.of.job] # t.of
  /\ Forget(w)

(* The worker process dies, or its drain is given up after 120 seconds;
   results already under way may still arrive. *)
WorkerDies(w) ==
  /\ mode[w] # "off"
  /\ Forget(w)

-----------------------------------------------------------------------------
(* _dispatch_loop. *)

(* Reap: drop the entries whose task is done. *)
Reap(w) ==
  /\ mode[w] = "run"
  /\ answer[w] = NoDispatch
  /\ running' = [running EXCEPT ![w] =
       [j \in JobIds |-> IF \E t \in tasks : t.of = running[w][j] THEN running[w][j]
                                                                 ELSE NoDispatch]]
  /\ UNCHANGED <<hostVars, mode, answer, tasks, procs, cancelReq, notices, posted, swapped, past>>

HasFreeSlot(w) == Cardinality(Entries(running, w)) < Cap

(* One claim at a time; the host hands out the oldest queued job. *)
AskClaim(w) ==
  /\ mode[w] = "run"
  /\ answer[w] = NoDispatch
  /\ HasFreeSlot(w)
  /\ Host!RemoteClaim(w)
  /\ \E d \in dispatches' \ dispatches : answer' = [answer EXCEPT ![w] = d]
  /\ UNCHANGED <<mode, tasks, running, procs, cancelReq, notices, posted, swapped, past>>

(* The answer: a task is created and entered under its job id, in place of
   the entry an earlier claim of that job may have left there. *)
TakeClaim(w) ==
  /\ answer[w] # NoDispatch
  /\ tasks' = tasks \cup {NewTask(answer[w])}
  /\ running' = [running EXCEPT ![w][answer[w].job] = answer[w]]
  /\ answer' = [answer EXCEPT ![w] = NoDispatch]
  /\ UNCHANGED <<hostVars, mode, procs, cancelReq, notices, posted, swapped, past>>

ClaimAnswerLost(w) ==
  /\ answer[w] # NoDispatch
  /\ Host!ResultsLost({answer[w]})
  /\ answer' = [answer EXCEPT ![w] = NoDispatch]
  /\ UNCHANGED <<mode, tasks, running, procs, cancelReq, notices, posted, swapped, past>>

-----------------------------------------------------------------------------
(* _run_one, _encode_and_finalize and Runner.run. *)

(* ffmpeg is spawned; until then a cancel finds no process to signal. *)
Launch(t) ==
  /\ t.phase = "start"
  /\ Replace(t, [t EXCEPT !.phase = "encode"])
  /\ procs' = [procs EXCEPT ![t.of.node][t.of.job] = t.of]
  /\ UNCHANGED <<hostVars, mode, answer, running, cancelReq, notices, posted, swapped, past>>

(* ... or cannot be: the task fails, and keeps its cancel request if any. *)
LaunchFails(t) ==
  /\ t.phase = "start"
  /\ Replace(t, [t EXCEPT !.phase = "report", !.result = "encode_failed"])
  /\ UNCHANGED <<hostVars, mode, answer, running, procs, cancelReq, notices, posted, swapped, past>>

(* The cancel request is looked up, and forgotten, before the return code;
   only a task not cancelled swaps its output into place. *)
ResultOf(w, j, encoded) == IF j \in cancelReq[w] THEN "cancelled" ELSE encoded

SwapsOutput(w, j, encoded) == ResultOf(w, j, encoded) = "swapped"

(* ffmpeg is gone.  From there to the result nothing is awaited but the
   ffprobe of a swapped file.  The entry of _procs is popped by job id. *)
EncodeEnds(t, encoded) ==
  LET w == t.of.node
      j == t.of.job
      result == ResultOf(w, j, encoded)
  IN
  /\ t.phase = "encode"
  /\ Replace(t, [t EXCEPT !.phase = "report", !.result = result])
  /\ procs' = [procs EXCEPT ![w][j] = NoDispatch]
  /\ cancelReq' = [cancelReq EXCEPT ![w] = @ \ {j}]
  /\ swapped' = IF SwapsOutput(w, j, encoded) THEN swapped \cup {t.of} ELSE swapped
  /\ UNCHANGED <<hostVars, mode, answer, running, notices, posted, past>>

(* The result is posted, once. *)
PostResult(t) ==
  /\ t.phase = "report"
  /\ Replace(t, [t EXCEPT !.phase = "posted"])
  /\ posted' = posted \cup {[of |-> t.of, result |-> t.result]}
  /\ UNCHANGED <<hostVars, mode, answer, running, procs, cancelReq, notices, swapped, past>>

(* Answered, refused or timed out: either way the task ends. *)
TaskReturns(t) ==
  /\ t.phase = "posted"
  /\ tasks' = tasks \ {t}
  /\ UNCHANGED <<hostVars, mode, answer, running, procs, cancelReq, notices, posted, swapped, past>>

FinishArrives(m) ==
  /\ Host!Finish(m.of, m.result)
  /\ posted' = posted \ {m}
  /\ UNCHANGED <<mode, answer, tasks, running, procs, cancelReq, notices, swapped, past>>

FinishLost(m) ==
  /\ Host!ResultsLost({m.of})
  /\ posted' = posted \ {m}
  /\ UNCHANGED <<mode, answer, tasks, running, procs, cancelReq, notices, swapped, past>>

-----------------------------------------------------------------------------
(* Heartbeats and cancellations. *)

CancellationsFor(w, ids) == ids \cap Flagged(w)

(* _heartbeat_loop posts the keys of _running; cancellations_for answers. *)
Beat(w) ==
  /\ mode[w] = "run"
  /\ Host!Heartbeat(w)
  /\ notices' = [notices EXCEPT ![w] =
       @ \cup CancellationsFor(w, Entries(running, w))]
  /\ UNCHANGED <<mode, answer, tasks, running, procs, cancelReq, posted, swapped, past>>

(* report_progress answers `cancel` to the owner of a row being cancelled. *)
ProgressAnswered(t) ==
  /\ t.phase = "encode"
  /\ t.of.job \in Flagged(t.of.node)
  /\ notices' = [notices EXCEPT ![t.of.node] = @ \cup {t.of.job}]
  /\ UNCHANGED <<hostVars, mode, answer, tasks, running, procs, cancelReq, posted, swapped, past>>

(* The answer reaches the worker: the id is noted, and the process found
   under it, if any, gets a SIGTERM. *)
Signalled(w, j) == procs[w][j] # NoDispatch

CancelHeard(w, j) ==
  /\ j \in notices[w]
  /\ notices' = [notices EXCEPT ![w] = @ \ {j}]
  /\ cancelReq' = [cancelReq EXCEPT ![w] = @ \cup {j}]
  /\ tasks' = {IF Signalled(w, j) /\ t.phase = "encode" /\ t.of = procs[w][j]
               THEN [t EXCEPT !.killed = TRUE] ELSE t : t \in tasks}
  /\ UNCHANGED <<hostVars, mode, answer, running, procs, posted, swapped, past>>

(* The answer is lost, whatever else is not. *)
NoticeLost(w, j) ==
  /\ j \in notices[w]
  /\ notices' = [notices EXCEPT ![w] = @ \ {j}]
  /\ UNCHANGED <<hostVars, mode, answer, tasks, running, procs, cancelReq, posted, swapped, past>>

-----------------------------------------------------------------------------
(* The host's other steps. *)

(* A new row under key j leaves to the past what was claimed under the key. *)
OutUnder(j) == {d \in dispatches : d.job = j}

KeysPassOn ==
  past' = [j \in JobIds |->
    IF jobs[j].state = "absent" /\ jobs'[j].state # "absent"
    THEN [claims |-> attempts[j], out |-> OutUnder(j)]
    ELSE past[j]]

HostStep ==
  /\ \/ \E f \in Files : Host!Ingest(f)
     \/ Host!LocalClaim
     \/ \E j \in JobIds : Host!Cancel(j) \/ Host!ForceDelete(j) \/ Host!Age(j)
     \/ \E n \in Remotes : Host!FallSilent(n) \/ Host!DeleteNode(n)
     \/ Host!Sweep
     \/ Host!Restart
     \/ Host!StartLocalLoop
  /\ KeysPassOn
  /\ UNCHANGED workerVars

LocalFinish(d, result) ==
  /\ d.node = Local
  /\ Host!Finish(d, result)
  /\ swapped' = IF result = "swapped" THEN swapped \cup {d} ELSE swapped
  /\ UNCHANGED <<mode, answer, tasks, running, procs, cancelReq, notices, posted, past>>

Init ==
  /\ Host!Init
  /\ mode = [w \in Remotes |-> "off"]
  /\ answer = [w \in Remotes |-> NoDispatch]
  /\ tasks = {}
  /\ running = [w \in Remotes |-> [j \in JobIds |-> NoDispatch]]
  /\ procs = running
  /\ cancelReq = [w \in Remotes |-> {}]
  /\ notices = [w \in Remotes |-> {}]
  /\ posted = {}
  /\ swapped = {}
  /\ past = [j \in JobIds |-> [claims |-> 0, out |-> {}]]

WorkerStep(w) ==
  \/ StartWorker(w) \/ StopWorker(w) \/ Drained(w) \/ WorkerDies(w)
  \/ Reap(w) \/ AskClaim(w) \/ TakeClaim(w) \/ ClaimAnswerLost(w)
  \/ Beat(w)
  \/ \E j \in JobIds : CancelHeard(w, j) \/ NoticeLost(w, j)

TaskStep(t) ==
  \/ Launch(t) \/ LaunchFails(t) \/ PostResult(t) \/ TaskReturns(t)
  \/ ProgressAnswered(t)
  \/ \E encoded \in Host!Results \ {"cancelled"} : EncodeEnds(t, encoded)

Next ==
  \/ HostStep
  \/ \E d \in dispatches, result \in Host!Results : LocalFinish(d, result)
  \/ \E w \in Remotes : WorkerStep(w)
  \/ \E t \in tasks : TaskStep(t)
  \/ \E m \in posted : FinishArrives(m) \/ FinishLost(m)

Spec == Init /\ [][Next]_vars

-----------------------------------------------------------------------------
(* Fairness for a cancel to take effect.  A worker that runs heartbeats every
   15 seconds; an answer that is sent again and again is heard in the end;
   tasks move on, and a signalled ffmpeg exits.  An encode nobody signalled
   may take for ever. *)
MovesOn(j) ==
  \E t \in tasks :
    /\ t.of.job = j
    /\ \/ Launch(t)
       \/ PostResult(t)
       \/ t.killed /\ \E encoded \in Host!Results \ {"cancelled"} : EncodeEnds(t, encoded)

Arrives(j) == \E m \in posted : m.of.job = j /\ FinishArrives(m)

FairSpec ==
  /\ Spec
  /\ \A w \in Remotes :
       /\ WF_vars(Beat(w)) /\ WF_vars(TakeClaim(w))
       /\ \A j \in JobIds : SF_vars(CancelHeard(w, j))
  /\ \A j \in JobIds : WF_vars(MovesOn(j)) /\ WF_vars(Arrives(j))

-----------------------------------------------------------------------------
(* Properties. *)

(* The dictionaries map job ids to what was claimed under them, and a result
   is under way only for a claim whose result the host still lacks. *)
TypeOK ==
  /\ mode \in [Remotes -> {"off", "run", "drain"}]
  /\ answer \in [Remotes -> Dispatch \cup {NoDispatch}]
  /\ tasks \subseteq Task
  /\ running \in [Remotes -> [JobIds -> Dispatch \cup {NoDispatch}]]
  /\ procs \in [Remotes -> [JobIds -> Dispatch \cup {NoDispatch}]]
  /\ cancelReq \in [Remotes -> SUBSET JobIds]
  /\ notices \in [Remotes -> SUBSET JobIds]
  /\ {m.of : m \in posted} \subseteq dispatches
  /\ swapped \subseteq Dispatch
  /\ past \in [JobIds -> [claims: Nat, out: SUBSET Dispatch]]

(* Whatever the workers and the network do, the host's table sees only the
   steps of HostQueue, so what is shown of HostQueue holds here. *)
ImplementsHost == Host!Spec

(* A row is done only if the output of a claim of it is in place: no
   cancelled, failed or half-swapped encode is taken for a conversion, nor an
   encode that was over before the row was there.  What remains: a claim of a
   deleted row, still out when its key was given to a new row, speaks for the
   new row too. *)
ClaimOf(d, j) == d.job = j /\ (d.attempt > past[j].claims \/ d \in past[j].out)

DoneMeansSwapped ==
  \A j \in JobIds : jobs[j].state = "done" => \E d \in swapped : ClaimOf(d, j)

Lossless == faults = {}

(* Without faults the table never denies a swap: once the output of a claim
   replaced the original, its row is done or about to be, and no cancel
   that comes too late turns it into a cancelled or failed one. *)
SwapNotDenied ==
  Lossless => \A d \in swapped : jobs[d.job].state \in Host!Active \cup {"done"}

(* Without faults a worker never encodes more jobs at once than it has
   slots for; the claim answer under way counts. *)
SlotsHold ==
  Lossless =>
    \A w \in Remotes :
      Cardinality(TasksOf(w)) + (IF answer[w] = NoDispatch THEN 0 ELSE 1) <= Cap

(* Without faults nothing but the operator's cancel of that very row stops
   an encode or has its result reported as cancelled. *)
NoCollateralCancel ==
  Lossless =>
    \A t \in tasks :
      t.killed \/ t.result = "cancelled" =>
        jobs[t.of.job].state \in {"cancelling", "cancelled"}

(* The cancel of a remote row takes effect while ffmpeg still runs, although
   the worker may hear of it before there is a process to signal, and
   although answers to its heartbeats are lost. *)
CancelGetsThrough ==
  \A w \in Remotes, j \in JobIds :
    (mode[w] = "run" /\ j \in Flagged(w)) ~> ~(mode[w] = "run" /\ j \in Flagged(w))
=============================================================================

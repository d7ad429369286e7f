-------------------------- MODULE LocalModeProofs --------------------------
(***************************************************************************)
(* Proofs about LocalMode, for any number of hosts, files, rows and claims *)
(* and any limits on the encodes at a time.                                *)
(***************************************************************************)
EXTENDS LocalMode, FunctionTheorems, FiniteSetTheorems, TLAPS

USE DEF JobIds, Host!JobIds

(* Rewriting a row the way a handler does keeps it a row. *)
LEMMA RowRewrites ==
  ASSUME NEW row \in Host!Row
  PROVE  /\ Host!CancelledRow(row) \in Host!Row
         /\ Host!ReconciledRow(row) \in Host!Row
         /\ [row EXCEPT !.recent = FALSE] \in Host!Row
BY DEF Host!CancelledRow, Host!ReconciledRow, Host!Row, Host!States, Host!Active,
   Host!Terminal

LEMMA EmptyRow == Host!NoRow \in Host!Row
BY DEF Host!NoRow, Host!Row, Host!States

LEMMA OutcomeIsTerminal == \A result \in Host!Results : Host!OutcomeOf(result) \in Host!Terminal
BY DEF Host!Results, Host!OutcomeOf, Host!Terminal

(* The steps of the job table keep its type. *)
LEMMA RowsTyped ==
  ASSUME TypeOK,
         \/ \E f \in Files : Host!Ingest(f)
         \/ \E j \in JobIds : Host!Cancel(j) \/ Host!ForceDelete(j) \/ Host!Age(j)
         \/ Host!CancelAll
         \/ \E t \in tasks, result \in Host!Results : Host!Finish(DispatchOf(t), result)
  PROVE  jobs' \in [JobIds -> Host!Row] /\ attempts' = attempts
<1>1. ASSUME NEW f \in Files, Host!Ingest(f) PROVE jobs' \in [JobIds -> Host!Row]
  <2>1. [Host!NoRow EXCEPT !.state = "queued", !.file = f] \in Host!Row
    BY DEF Host!NoRow, Host!Row, Host!States
  <2> QED
    BY <1>1, <2>1 DEF Host!Ingest, TypeOK
<1>2. ASSUME NEW j \in JobIds, Host!Cancel(j) PROVE  jobs' \in [JobIds -> Host!Row]
  <2>1. jobs[j] \in Host!Row
    BY DEF TypeOK
  <2> QED
    BY <1>2, <2>1, RowRewrites DEF Host!Cancel, TypeOK
<1>3. ASSUME Host!CancelAll PROVE  jobs' \in [JobIds -> Host!Row]
  <2>1. \A j \in JobIds : jobs[j] \in Host!Row
    BY DEF TypeOK
  <2> QED
    BY <1>3, <2>1, RowRewrites DEF Host!CancelAll
<1>4. ASSUME NEW j \in JobIds, Host!ForceDelete(j) PROVE jobs' \in [JobIds -> Host!Row]
  BY <1>4, EmptyRow DEF Host!ForceDelete, TypeOK
<1>6. ASSUME NEW j \in JobIds, Host!Age(j) PROVE jobs' \in [JobIds -> Host!Row]
  <2>1. [jobs[j] EXCEPT !.recent = FALSE] \in Host!Row
    BY RowRewrites DEF TypeOK
  <2> QED
    BY <1>6, <2>1 DEF Host!Age, TypeOK
<1>5. ASSUME NEW t \in tasks, NEW result \in Host!Results, Host!Finish(DispatchOf(t), result)
      PROVE  jobs' \in [JobIds -> Host!Row]
  <2>1. Host!OutcomeOf(result) \in Host!States
    BY OutcomeIsTerminal DEF Host!States
  <2>2. DispatchOf(t).job \in JobIds
    BY DEF TypeOK, DispatchOf
  <2> QED
    BY <1>5, <2>1, <2>2 DEF Host!Finish, TypeOK, Host!Row
<1> QED
  BY <1>1, <1>2, <1>3, <1>4, <1>5, <1>6 DEF Host!Ingest, Host!Cancel, Host!ForceDelete, Host!Age,
     Host!CancelAll, Host!Finish

(* No task is of a claim that the queue has not handed out yet. *)
TasksDated == \A t \in tasks : t.attempt <= attempts[t.job]

(* A claim of the local loop: the row that starts and the task that is
   created belong together. *)
Claimed(j) ==
  /\ attempts[j] + 1 \in 1 .. MaxAttempts
  /\ jobs' = [jobs EXCEPT ![j].state = "running", ![j].node = Local, ![j].recent = TRUE]
  /\ attempts' = [attempts EXCEPT ![j] = @ + 1]
  /\ tasks' = tasks \cup {[job |-> j, attempt |-> attempts[j] + 1, stage |-> "starting"]}
  /\ running' = Put(running, [job |-> j, attempt |-> attempts[j] + 1])

LEMMA ClaimStep ==
  ASSUME TypeOK, TasksDated, ClaimLocally
  PROVE  \E j \in JobIds : Claimed(j)
<1> DEFINE New(j) == [job |-> j, attempt |-> attempts[j] + 1, stage |-> "starting"]
<1>1. PICK j \in JobIds : /\ tasks' = tasks \cup {New(j)}
                          /\ running' = Put(running, [job |-> j, attempt |-> attempts[j] + 1])
  BY DEF ClaimLocally
<1>2. PICK k \in JobIds :
        /\ attempts[k] < MaxAttempts
        /\ jobs' = [jobs EXCEPT ![k].state = "running", ![k].node = Local, ![k].recent = TRUE]
        /\ attempts' = [attempts EXCEPT ![k] = @ + 1]
        /\ {DispatchOf(t) : t \in tasks}' = {DispatchOf(t) : t \in tasks} \cup
             {[node |-> Local, job |-> k, attempt |-> attempts[k] + 1]}
  BY DEF ClaimLocally, Host!LocalClaim, Host!ClaimFor
<1>3. k = j
  <2>1. DispatchOf(New(j)) \in {DispatchOf(t) : t \in tasks'}
    BY <1>1
  <2>2. \/ \E t \in tasks : DispatchOf(New(j)) = DispatchOf(t)
        \/ DispatchOf(New(j)) = [node |-> Local, job |-> k, attempt |-> attempts[k] + 1]
    BY <1>2, <2>1
  <2>3. \A t \in tasks : attempts[t.job] \in Nat /\ t.attempt \in Nat
    BY DEF TypeOK
  <2>4. \A t \in tasks : DispatchOf(New(j)) # DispatchOf(t)
    BY <2>3 DEF DispatchOf, TasksDated
  <2> QED
    BY <2>2, <2>4 DEF DispatchOf
<1>4. attempts[j] + 1 \in 1 .. MaxAttempts
  BY <1>2, <1>3, QueueAssumption DEF TypeOK
<1> QED
  BY <1>1, <1>2, <1>3, <1>4 DEF Claimed

-----------------------------------------------------------------------------
(* Type correctness. *)

(* One entry per job survives the writing and the popping of one. *)
LEMMA BookSteps ==
  ASSUME NEW book, book \subseteq Claims, OneEntryPerJob(book), NEW c \in Claims, NEW j
  PROVE  /\ Put(book, c) \subseteq Claims /\ OneEntryPerJob(Put(book, c))
         /\ Pop(book, j) \subseteq Claims /\ OneEntryPerJob(Pop(book, j))
BY DEF OneEntryPerJob, Put, Pop

LEMMA SubBook ==
  ASSUME NEW book, book \subseteq Claims, OneEntryPerJob(book), NEW part, part \subseteq book
  PROVE  part \subseteq Claims /\ OneEntryPerJob(part)
BY DEF OneEntryPerJob

(* Moving a task to another stage. *)
LEMMA TaskMoves ==
  ASSUME TypeOK, NEW t \in tasks, NEW stage \in Stages
  PROVE  /\ [t EXCEPT !.stage = stage] \in [job: JobIds, attempt: 1 .. MaxAttempts, stage: Stages]
         /\ [t EXCEPT !.stage = stage].stage = stage
         /\ ClaimOf([t EXCEPT !.stage = stage]) = ClaimOf(t)
         /\ DispatchOf([t EXCEPT !.stage = stage]) = DispatchOf(t)
         /\ ClaimOf(t) \in Claims
BY DEF TypeOK, ClaimOf, DispatchOf, Claims

(* What is said of the process's modes, apart from the table and its tasks. *)
ModesTyped ==
  /\ pairing \in [url: Hosts \cup {NoHost}, key: Hosts \cup {NoHost}, id: BOOLEAN]
  /\ supervisor \in [phase: {"watching", "draining", "gone"}, mode: Modes, target: Modes]
  /\ loop \in [kind: Modes, phase: Phases, stop: BOOLEAN,
               host: Hosts \cup {NoHost}, key: Hosts \cup {NoHost}]

TasksTyped ==
  /\ tasks \subseteq [job: JobIds, attempt: 1 .. MaxAttempts, stage: Stages]
  /\ running \subseteq Claims /\ OneEntryPerJob(running)
  /\ procs \subseteq Claims /\ OneEntryPerJob(procs)

(* Where the modes and their loops stand with one another. *)
LoopSane ==
  /\ loop.phase = "created" => ~loop.stop
  /\ loop.phase = "registering" => loop.kind = "remote"
  /\ loop.phase = "failing" => loop.kind = "local"
  /\ loop.kind = "remote" /\ loop.phase \in {"registering", "running"} => loop.host # NoHost
  /\ supervisor.mode = "none" => supervisor.phase = "watching" /\ loop.phase = "returned"
  /\ supervisor.phase = "draining" => loop.stop /\ supervisor.target # "none"

ModeAction ==
  \/ SupervisorStep
  \/ BeginLocal \/ BeginRemote \/ Registered \/ LoopReturns \/ LocalLoopFails \/ LocalLoopRaises
  \/ \E h \in Hosts : AcceptPairing(h) \/ RestartWhilePairing(h)
  \/ DisconnectPairing \/ Restart

LEMMA ModeStep ==
  ASSUME TypeOK, LoopSane, ModeAction
  PROVE  ModesTyped' /\ LoopSane'
<1> USE DEF TypeOK, LoopSane, ModesTyped, Modes, Phases
<1>1. ASSUME NEW mode \in {"local", "remote"}, Start(mode), UNCHANGED pairing
      PROVE  ModesTyped' /\ LoopSane'
  BY <1>1 DEF Start, Created, NoLoop
<1>2. CurrentTarget \in {"local", "remote"}
  BY DEF CurrentTarget
<1>3. CASE FirstMode
  BY <1>1, <1>2, <1>3 DEF FirstMode
<1>4. CASE BeginDrain
  BY <1>2, <1>4 DEF BeginDrain
<1>5. CASE SwitchMode \/ DrainTimesOut
  BY <1>1, <1>5 DEF SwitchMode, DrainTimesOut
<1>6. CASE SupervisorFails
  BY <1>6 DEF SupervisorFails
<1>7. CASE BeginLocal
  BY <1>7 DEF BeginLocal
<1>8. CASE BeginRemote
  BY <1>8 DEF BeginRemote, Complete
<1>9. CASE Registered \/ LoopReturns \/ LocalLoopFails \/ LocalLoopRaises
  BY <1>9 DEF Registered, LoopReturns, LocalLoopFails, LocalLoopRaises, LocalLoopRuns
<1>10. ASSUME Die, pairing' \in [url: Hosts \cup {NoHost}, key: Hosts \cup {NoHost}, id: BOOLEAN]
       PROVE  ModesTyped' /\ LoopSane'
  BY <1>10 DEF Die, NoLoop
<1>11. CASE Restart
  BY <1>10, <1>11 DEF Restart
<1>12. ASSUME NEW h \in Hosts, NEW n \in {1, 2, 3}
       PROVE  AcceptWrites(h, n) \in [url: Hosts \cup {NoHost}, key: Hosts \cup {NoHost}, id: BOOLEAN]
  BY DEF AcceptWrites
<1>13. ASSUME NEW h \in Hosts, AcceptPairing(h) \/ RestartWhilePairing(h)
       PROVE  ModesTyped' /\ LoopSane'
  BY <1>10, <1>12, <1>13 DEF AcceptPairing, RestartWhilePairing
<1>14. CASE DisconnectPairing
  BY <1>14 DEF DisconnectPairing, Disconnected
<1> QED
  BY <1>3, <1>4, <1>5, <1>6, <1>7, <1>8, <1>9, <1>11, <1>13, <1>14
  DEF ModeAction, SupervisorStep

(* A task put in the place of another one of the same claim. *)
LEMMA SameDispatches ==
  ASSUME NEW t \in tasks, NEW u, DispatchOf(u) = DispatchOf(t), tasks' = (tasks \ {t}) \cup {u}
  PROVE  {DispatchOf(v) : v \in tasks'} = {DispatchOf(v) : v \in tasks}
OBVIOUS

(* What a task's step does to the tasks and to the runner's book. *)
LEMMA TaskEffect ==
  ASSUME TypeOK, NEW t \in tasks, TaskStep(t)
  PROVE  /\ \/ tasks' = tasks \ {t}
            \/ /\ t.stage = "starting"
               /\ tasks' = (tasks \ {t}) \cup {[t EXCEPT !.stage = "encoding"]}
               /\ procs' = Put(procs, ClaimOf(t))
            \/ tasks' = (tasks \ {t}) \cup {[t EXCEPT !.stage = "probing"]}
         /\ \/ t.stage = "starting" /\ procs' = procs
            \/ t.stage = "starting" /\ procs' = Put(procs, ClaimOf(t))
            \/ t \in Encoding /\ procs' = Pop(procs, t.job)
            \/ t.stage = "probing" /\ procs' = procs
         /\ jobs' \in [JobIds -> Host!Row]
         /\ UNCHANGED <<attempts, faults, running, modeVars, orphans, hostTasks>>
         /\ \/ UNCHANGED jobs /\ {DispatchOf(u) : u \in tasks'} = {DispatchOf(u) : u \in tasks}
            \/ \E result \in Host!Results : Host!Finish(DispatchOf(t), result)
<1> DEFINE Same == {DispatchOf(u) : u \in tasks'} = {DispatchOf(u) : u \in tasks}
<1>1. CASE Launch(t)
  <2>1. "encoding" \in Stages
    BY DEF Stages
  <2>2. Same
    BY <1>1, <2>1, TaskMoves, SameDispatches DEF Launch
  <2> QED
    BY <1>1, <2>2 DEF Launch, TypeOK
<1>2. ASSUME NEW result \in Host!Results, Record(t, result)
      PROVE  /\ tasks' = tasks \ {t}
             /\ jobs' \in [JobIds -> Host!Row]
             /\ Host!Finish(DispatchOf(t), result)
             /\ UNCHANGED <<attempts, faults, modeVars>>
  BY <1>2, RowsTyped DEF Record, Host!Finish
<1>3. {"encode_failed", "swapped", "cancelled"} \subseteq Host!Results
  BY DEF Host!Results
<1>4. CASE LaunchFails(t)
  BY <1>2, <1>3, <1>4 DEF LaunchFails, bookVars
<1>5. CASE ProbeEnds(t)
  BY <1>2, <1>3, <1>5 DEF ProbeEnds, bookVars
<1>6. ASSUME NEW encoded \in Host!Results \ {"cancelled"}, EncodeEnds(t, encoded)
      PROVE  /\ t \in Encoding /\ procs' = Pop(procs, t.job)
             /\ UNCHANGED <<attempts, faults, running, modeVars, orphans, hostTasks>>
             /\ \/ /\ tasks' = (tasks \ {t}) \cup {[t EXCEPT !.stage = "probing"]}
                   /\ jobs' = jobs /\ Same
                \/ /\ tasks' = tasks \ {t}
                   /\ jobs' \in [JobIds -> Host!Row]
                   /\ \E result \in Host!Results : Host!Finish(DispatchOf(t), result)
  <2> DEFINE result == IF CancelSeen(t) THEN "cancelled" ELSE encoded
  <2>1. result \in Host!Results
    BY <1>3
  <2>2. CASE result = "swapped"
    <3>1. tasks' = (tasks \ {t}) \cup {[t EXCEPT !.stage = "probing"]}
      BY <1>6, <2>2 DEF EncodeEnds
    <3>2. "probing" \in Stages
      BY DEF Stages
    <3>3. Same
      BY <3>1, <3>2, TaskMoves, SameDispatches
    <3> QED
      BY <1>6, <2>2, <3>1, <3>3 DEF EncodeEnds
  <2>3. CASE result # "swapped"
    <3>1. Record(t, result)
      BY <1>6, <2>3 DEF EncodeEnds
    <3> HIDE DEF result
    <3> QED
      BY <1>2, <1>6, <2>1, <3>1 DEF EncodeEnds
  <2> QED
    BY <2>2, <2>3
<1> QED
  BY <1>1, <1>2, <1>3, <1>4, <1>5, <1>6 DEF TaskStep, TypeOK

-----------------------------------------------------------------------------
(* Which tasks there are, and who knows them: the task of a row's latest
   claim is entered in `running`, and lives under a local loop. *)

Latest(t) == t.attempt = attempts[t.job]

TasksSane ==
  /\ TasksDated
  /\ \A t, u \in tasks : ClaimOf(t) = ClaimOf(u) => t = u
  /\ \A t \in tasks : Latest(t) =>
       Known(t) /\ loop.kind = "local" /\ loop.phase \in {"running", "failing"}

HostTasksSane ==
  \A t \in hostTasks : loop.kind = "remote" /\ loop.phase = "running" /\ loop.host = t.host

(* Steps after which each task is one that there was, at some stage. *)
NoNewTask ==
  /\ tasks' \subseteq [job: JobIds, attempt: 1 .. MaxAttempts, stage: Stages]
  /\ \A u \in tasks' : \E t \in tasks : ClaimOf(t) = ClaimOf(u)
  /\ \A t, u \in tasks' : ClaimOf(t) = ClaimOf(u) => t = u

LEMMA TasksFrame ==
  ASSUME TypeOK, TasksSane, NoNewTask, attempts' = attempts,
         \A t \in tasks : Latest(t) /\ (\E u \in tasks' : ClaimOf(t) = ClaimOf(u)) =>
           ClaimOf(t) \in running' /\ loop'.kind = "local" /\ loop'.phase \in {"running", "failing"}
  PROVE  TasksSane'
<1> SUFFICES ASSUME NEW u \in tasks'
             PROVE  /\ u.attempt <= attempts[u.job]
                    /\ u.attempt = attempts[u.job] =>
                         /\ ClaimOf(u) \in running'
                         /\ loop'.kind = "local" /\ loop'.phase \in {"running", "failing"}
  BY DEF TasksSane, TasksDated, Latest, Known, ClaimOf, NoNewTask
<1>1. PICK t \in tasks : ClaimOf(t) = ClaimOf(u)
  BY DEF NoNewTask
<1>2. t.job = u.job /\ t.attempt = u.attempt
  BY <1>1 DEF ClaimOf
<1> QED
  BY <1>1, <1>2 DEF TasksSane, TasksDated, Latest

LEMMA ClaimKeepsTasks ==
  ASSUME TypeOK, TasksSane, HostTasksSane, ClaimLocally
  PROVE  TasksTyped' /\ TasksSane' /\ HostTasksSane'
<1>1. PICK j \in JobIds : Claimed(j)
  BY ClaimStep DEF TasksSane
<1> DEFINE new == [job |-> j, attempt |-> attempts[j] + 1, stage |-> "starting"]
           c   == [job |-> j, attempt |-> attempts[j] + 1]
<1>2. c \in Claims /\ ClaimOf(new) = c
  BY <1>1 DEF Claimed, Claims, ClaimOf
<1>3. new \in [job: JobIds, attempt: 1 .. MaxAttempts, stage: Stages]
  BY <1>1 DEF Claimed, Stages
<1>4. UNCHANGED <<procs, loop, hostTasks>> /\ LocalLoopRuns
  BY DEF ClaimLocally, modeVars, Host!LocalClaim
<1>5. TasksTyped'
  <2>1. tasks' \subseteq [job: JobIds, attempt: 1 .. MaxAttempts, stage: Stages]
    BY <1>1, <1>3 DEF Claimed, TypeOK
  <2>2. running' \subseteq Claims /\ OneEntryPerJob(running')
    BY <1>1, <1>2, BookSteps DEF Claimed, TypeOK
  <2> QED
    BY <1>4, <2>1, <2>2 DEF TasksTyped, TypeOK
<1>6. \A t \in tasks : t.job \in JobIds /\ t.attempt \in Nat /\ attempts[t.job] \in Nat
  BY DEF TypeOK
<1>7. \A t \in tasks : t.job = j => t.attempt < attempts[j] + 1
  BY <1>6 DEF TasksSane, TasksDated
<1>8. attempts' = [attempts EXCEPT ![j] = @ + 1] /\ tasks' = tasks \cup {new}
  BY <1>1 DEF Claimed
<1>9. \A k \in JobIds : attempts'[k] = IF k = j THEN attempts[j] + 1 ELSE attempts[k]
  BY <1>8 DEF TypeOK
<1>10. TasksSane'
  <2>1. \A t \in tasks' : t.attempt <= attempts'[t.job]
    <3>1. new.attempt <= attempts'[new.job]
      BY <1>9 DEF TypeOK
    <3>2. \A t \in tasks : t.attempt <= attempts'[t.job]
      BY <1>6, <1>7, <1>9 DEF TasksSane, TasksDated
    <3> HIDE DEF new
    <3> QED
      BY <1>8, <3>1, <3>2
  <2>2. \A t \in tasks : ClaimOf(t) # ClaimOf(new)
    BY <1>6, <1>7 DEF ClaimOf
  <2>3. \A t, u \in tasks' : ClaimOf(t) = ClaimOf(u) => t = u
    <3> HIDE DEF new
    <3> QED
      BY <1>8, <2>2 DEF TasksSane
  <2>4. ASSUME NEW t \in tasks', t.attempt = attempts'[t.job]
        PROVE  ClaimOf(t) \in running'
    <3>1. CASE t = new
      BY <1>1, <1>2, <3>1 DEF Claimed, Put
    <3>2. CASE t \in tasks
      <4>1. t.job # j
        BY <1>6, <1>7, <1>9, <2>4, <3>2
      <4>2. Latest(t)
        BY <1>6, <1>9, <2>4, <3>2, <4>1 DEF Latest
      <4>3. ClaimOf(t) \in running
        BY <3>2, <4>2 DEF TasksSane, Known
      <4> QED
        BY <1>1, <4>1, <4>3 DEF Claimed, Put, ClaimOf
    <3> QED
      BY <1>8, <3>1, <3>2
  <2>5. loop'.kind = "local" /\ loop'.phase = "running"
    BY <1>4 DEF LocalLoopRuns
  <2> QED
    BY <2>1, <2>3, <2>4, <2>5 DEF TasksSane, TasksDated, Latest, Known
<1>11. HostTasksSane'
  BY <1>4 DEF HostTasksSane
<1> QED
  BY <1>5, <1>10, <1>11

LEMMA TaskKeepsTasks ==
  ASSUME TypeOK, TasksSane, HostTasksSane, NEW t \in tasks, TaskStep(t)
  PROVE  TasksTyped' /\ TasksSane' /\ HostTasksSane' /\ NoNewTask
<1>1. UNCHANGED <<attempts, running, loop, hostTasks>>
  BY TaskEffect DEF modeVars
<1>2. ClaimOf(t) \in Claims
  BY DEF TypeOK, ClaimOf, Claims
<1>3. procs' \subseteq Claims /\ OneEntryPerJob(procs')
  BY <1>2, TaskEffect, BookSteps DEF TypeOK
<1>4. \/ tasks' = tasks \ {t}
      \/ \E stage \in Stages : tasks' = (tasks \ {t}) \cup {[t EXCEPT !.stage = stage]}
  BY TaskEffect DEF Stages
<1>5. NoNewTask
  <2>1. CASE tasks' = tasks \ {t}
    BY <2>1 DEF TasksSane, TypeOK, NoNewTask
  <2>2. ASSUME NEW stage \in Stages, tasks' = (tasks \ {t}) \cup {[t EXCEPT !.stage = stage]}
        PROVE  NoNewTask
    <3> DEFINE m == [t EXCEPT !.stage = stage]
    <3>1. m \in [job: JobIds, attempt: 1 .. MaxAttempts, stage: Stages] /\ ClaimOf(m) = ClaimOf(t)
      BY TaskMoves
    <3>2. tasks' = (tasks \ {t}) \cup {m}
      BY <2>2
    <3> HIDE DEF m
    <3> QED
      BY <3>1, <3>2 DEF TasksSane, TypeOK, NoNewTask
  <2> QED
    BY <1>4, <2>1, <2>2
<1>6. TasksSane'
  BY <1>1, <1>5, TasksFrame DEF TasksSane, Known
<1> QED
  BY <1>1, <1>3, <1>5, <1>6 DEF TasksTyped, TypeOK, HostTasksSane, NoNewTask

(* Tasks that get a signal, or whose loop is told something. *)
LEMMA SignalKeepsTasks ==
  ASSUME TypeOK, TasksSane, HostTasksSane, attempts' = attempts, NEW J, Signal(J)
  PROVE  TasksTyped' /\ TasksSane' /\ HostTasksSane' /\ NoNewTask
<1> DEFINE hit(t)    == t.stage = "encoding" /\ t.job \in J /\ ClaimOf(t) \in procs
           after(t)  == IF hit(t) THEN [t EXCEPT !.stage = "killed"] ELSE t
<1>1. tasks' = {after(t) : t \in tasks}
  BY DEF Signal
<1>2. UNCHANGED <<running, procs, loop, hostTasks>>
  BY DEF Signal, bookVars, modeVars
<1>3. \A t \in tasks : /\ after(t) \in [job: JobIds, attempt: 1 .. MaxAttempts, stage: Stages]
                       /\ ClaimOf(after(t)) = ClaimOf(t)
  <2> SUFFICES ASSUME NEW t \in tasks
               PROVE  /\ after(t) \in [job: JobIds, attempt: 1 .. MaxAttempts, stage: Stages]
                      /\ ClaimOf(after(t)) = ClaimOf(t)
    OBVIOUS
  <2>1. "killed" \in Stages /\ t \in [job: JobIds, attempt: 1 .. MaxAttempts, stage: Stages]
    BY DEF Stages, TypeOK
  <2> QED
    BY <2>1, TaskMoves
<1> HIDE DEF after
<1>4. NoNewTask
  BY <1>1, <1>3 DEF NoNewTask, TasksSane
<1>5. TasksSane'
  BY <1>2, <1>4, TasksFrame DEF TasksSane, Known
<1> QED
  BY <1>2, <1>4, <1>5 DEF TasksTyped, TypeOK, HostTasksSane, NoNewTask

(* The supervisor, the loops, the operator and the death of the process. *)
LEMMA ModeKeepsTasks ==
  ASSUME TypeOK, LoopSane, TasksSane, HostTasksSane, ModeAction
  PROVE  TasksTyped' /\ TasksSane' /\ HostTasksSane'
<1>1. ASSUME UNCHANGED <<tasks, hostTasks, attempts, running, procs>>,
             \/ UNCHANGED loop
             \/ (\A t \in tasks : ~Known(t)) /\ hostTasks = {}
             \/ loop.phase \in {"created", "registering", "returned"}
             \/ /\ loop'.kind = loop.kind /\ loop'.host = loop.host
                /\ loop'.phase = loop.phase
             \/ LocalLoopFails
      PROVE  TasksTyped' /\ TasksSane' /\ HostTasksSane'
  BY <1>1 DEF TasksTyped, TypeOK, TasksSane, TasksDated, HostTasksSane, Known, Latest,
     LocalLoopFails, LocalLoopRuns
<1>2. CASE FirstMode
  BY <1>1, <1>2 DEF FirstMode, LoopSane, queueVars, bookVars
<1>3. CASE BeginDrain
  <2>1. loop' = [loop EXCEPT !.stop = TRUE]
    BY <1>3 DEF BeginDrain
  <2>2. loop'.kind = loop.kind /\ loop'.host = loop.host /\ loop'.phase = loop.phase
    BY <2>1 DEF TypeOK
  <2>3. UNCHANGED <<tasks, hostTasks, attempts, running, procs>>
    BY <1>3 DEF BeginDrain, queueVars, bookVars
  <2> QED
    BY <1>1, <2>2, <2>3
<1>4. CASE SwitchMode
  BY <1>1, <1>4 DEF SwitchMode, queueVars, bookVars
<1>5. CASE DrainTimesOut
  <2>1. tasks' = {t \in tasks : ~Known(t)} /\ hostTasks' = {}
    BY <1>5 DEF DrainTimesOut, CancelTasks
  <2>2. UNCHANGED <<attempts, running>> /\ procs' \subseteq procs
    BY <1>5 DEF DrainTimesOut
  <2>3. NoNewTask
    BY <2>1 DEF NoNewTask, TasksSane, TypeOK
  <2>4. \A t \in tasks : Latest(t) => Known(t)
    BY DEF TasksSane
  <2>5. TasksSane'
    BY <2>1, <2>2, <2>3, <2>4, TasksFrame DEF Known
  <2>6. procs' \subseteq Claims /\ OneEntryPerJob(procs')
    BY <2>2, SubBook DEF TypeOK
  <2> QED
    BY <2>1, <2>2, <2>3, <2>5, <2>6 DEF TasksTyped, TypeOK, HostTasksSane, NoNewTask
<1>6. CASE SupervisorFails
  BY <1>1, <1>6 DEF SupervisorFails, queueVars, bookVars
<1>7. CASE BeginLocal
  <2>1. UNCHANGED <<tasks, hostTasks, attempts, procs>> /\ running' = {} /\ loop.phase = "created"
    BY <1>7 DEF BeginLocal
  <2>2. \A t \in tasks : ~Latest(t)
    BY <2>1 DEF TasksSane
  <2>3. NoNewTask
    BY <2>1 DEF NoNewTask, TasksSane, TypeOK
  <2>4. TasksSane'
    BY <2>1, <2>2, <2>3, TasksFrame
  <2>5. hostTasks = {}
    BY <2>1 DEF HostTasksSane
  <2> QED
    BY <2>1, <2>4, <2>5 DEF TasksTyped, TypeOK, HostTasksSane, OneEntryPerJob
<1>8. CASE BeginRemote \/ Registered
  BY <1>1, <1>8 DEF BeginRemote, Registered, queueVars, bookVars
<1>9. CASE LoopReturns \/ LocalLoopRaises
  BY <1>1, <1>9 DEF LoopReturns, LocalLoopRaises, Drained, queueVars, bookVars
<1>10. CASE LocalLoopFails
  BY <1>1, <1>10 DEF LocalLoopFails, queueVars, bookVars
<1>11. CASE Die
  BY <1>11 DEF Die, TasksTyped, TasksSane, TasksDated, HostTasksSane, OneEntryPerJob
<1>12. ASSUME NEW h \in Hosts, AcceptPairing(h) \/ RestartWhilePairing(h)
       PROVE  TasksTyped' /\ TasksSane' /\ HostTasksSane'
  BY <1>1, <1>11, <1>12 DEF AcceptPairing, RestartWhilePairing, queueVars, bookVars
<1>13. CASE DisconnectPairing \/ Restart
  BY <1>1, <1>11, <1>13 DEF DisconnectPairing, Restart, queueVars, bookVars
<1> QED
  BY <1>2, <1>3, <1>4, <1>5, <1>6, <1>7, <1>8, <1>9, <1>10, <1>12, <1>13
  DEF ModeAction, SupervisorStep

-----------------------------------------------------------------------------
(* What the rows of the own queue and the mirror rows have to do with one
   another, with the encodes left behind, and with the tasks of other hosts. *)

OrphansDated == \A c \in orphans : c.attempt <= attempts[c.job]

Busy == {"queued", "running"}

(* Only rows with a media file wait, no two rows of one file wait or run, and
   where no row is force-deleted the mirror rows of tasks stay what they are. *)
RowsSane ==
  \A j \in JobIds : /\ jobs[j].state = "absent" => ~IsOwn(j)
                    /\ jobs[j].state = "queued" => IsOwn(j)

BusyApart ==
  \A j, k \in JobIds :
    /\ IsOwn(j) /\ jobs[j].file = jobs[k].file
    /\ jobs[j].state \in Busy /\ jobs[k].state \in Busy
    => j = k

MirrorsStand ==
  "purge" \notin faults =>
    \A t \in hostTasks :
      t.row # NoMirror => (jobs[t.row].state # "absent" /\ ~IsOwn(t.row))

Inv == /\ TypeOK /\ LoopSane /\ TasksSane /\ HostTasksSane
       /\ OrphansDated /\ RowsSane /\ BusyApart /\ MirrorsStand

(* The queue's own steps, which leave modes and books alone. *)
QueueAction ==
  \/ \E f \in Files : Ingest(f)
  \/ \E j \in JobIds : Cancel(j) \/ ForceDelete(j) \/ Age(j)
  \/ CancelAll

LEMMA QueueKeeps ==
  ASSUME Inv, QueueAction
  PROVE  /\ UNCHANGED <<attempts, faults, bookVars, modeVars, orphans, hostTasks>>
         /\ UNCHANGED tasks \/ \E J : Signal(J)
         /\ \/ \E f \in Files : Host!Ingest(f)
            \/ \E j \in JobIds : Host!Cancel(j) \/ Host!ForceDelete(j) \/ Host!Age(j)
            \/ Host!CancelAll
         /\ jobs' \in [JobIds -> Host!Row]
<1>1. ASSUME NEW f \in Files, Ingest(f)
      PROVE  /\ Host!Ingest(f)
             /\ UNCHANGED <<attempts, faults, tasks, bookVars, modeVars, orphans, hostTasks>>
  BY <1>1 DEF Ingest, Host!Ingest
<1>2. ASSUME NEW J, Signal(J) PROVE UNCHANGED <<bookVars, modeVars, orphans, hostTasks>>
  BY <1>2 DEF Signal
<1>3. ASSUME NEW j \in JobIds, Cancel(j)
      PROVE  /\ Host!Cancel(j) /\ (\E J : Signal(J))
             /\ UNCHANGED <<attempts, faults, bookVars, modeVars, orphans, hostTasks>>
  BY <1>2, <1>3 DEF Cancel, Host!Cancel
<1>4. ASSUME NEW j \in JobIds, ForceDelete(j)
      PROVE  /\ Host!ForceDelete(j) /\ (\E J : Signal(J))
             /\ UNCHANGED <<attempts, faults, bookVars, modeVars, orphans, hostTasks>>
  BY <1>2, <1>4 DEF ForceDelete, Host!ForceDelete
<1>5. ASSUME NEW j \in JobIds, Age(j)
      PROVE  /\ Host!Age(j)
             /\ UNCHANGED <<attempts, faults, tasks, bookVars, modeVars, orphans, hostTasks>>
  BY <1>5 DEF Age, Host!Age
<1>6. ASSUME CancelAll
      PROVE  /\ Host!CancelAll /\ (\E J : Signal(J))
             /\ UNCHANGED <<attempts, faults, bookVars, modeVars, orphans, hostTasks>>
  BY <1>2, <1>6 DEF CancelAll, Host!CancelAll
<1>7. \/ \E f \in Files : Host!Ingest(f)
      \/ \E j \in JobIds : Host!Cancel(j) \/ Host!ForceDelete(j) \/ Host!Age(j)
      \/ Host!CancelAll
  BY <1>1, <1>3, <1>4, <1>5, <1>6 DEF QueueAction
<1>8. jobs' \in [JobIds -> Host!Row]
  BY <1>7, RowsTyped DEF Inv
<1>9. UNCHANGED <<attempts, faults, bookVars, modeVars, orphans, hostTasks>>
  BY <1>1, <1>3, <1>4, <1>5, <1>6 DEF QueueAction
<1>10. UNCHANGED tasks \/ \E J : Signal(J)
  BY <1>1, <1>3, <1>4, <1>5, <1>6 DEF QueueAction
<1> QED
  BY <1>7, <1>8, <1>9, <1>10

HostTask == [host: Hosts, job: RemoteJobs, row: JobIds \cup {NoMirror},
             phase: {"works", "reports"}]

(* What the work for other hosts, and the end of an ffmpeg left behind, may
   touch. *)
HostWork ==
  \/ \E r \in RemoteJobs : ClaimFromHost(r)
  \/ \E t \in hostTasks : HostTaskEnds(t) \/ \E result \in Host!Results : FinalizeMirror(t, result)
  \/ \E c \in orphans : OrphanEnds(c)

LEMMA MirrorTyped == MirrorRow \in Host!Row
BY DEF MirrorRow, Host!NoRow, Host!Row, Host!States, Host!Active, Host!AllNodes

LEMMA HostWorkKeeps ==
  ASSUME Inv, HostWork
  PROVE  /\ UNCHANGED <<attempts, faults, tasks, bookVars, modeVars>>
         /\ orphans' \subseteq orphans
         /\ jobs' \in [JobIds -> Host!Row]
         /\ hostTasks' \subseteq HostTask
         /\ HostTasksSane'
<1> USE DEF Inv
<1>types. jobs \in [JobIds -> Host!Row] /\ hostTasks \subseteq HostTask
  BY DEF TypeOK, HostTask
<1>1. ASSUME NEW r \in RemoteJobs, ClaimFromHost(r)
      PROVE  /\ UNCHANGED <<attempts, faults, tasks, bookVars, modeVars, orphans>>
             /\ jobs' \in [JobIds -> Host!Row] /\ hostTasks' \subseteq HostTask /\ HostTasksSane'
  <2>1. PICK row \in JobIds \cup {NoMirror} :
          /\ CreatesMirror(row)
          /\ hostTasks' = hostTasks \cup
               {[host |-> loop.host, job |-> r, row |-> row, phase |-> "works"]}
    BY <1>1 DEF ClaimFromHost
  <2>2. loop.kind = "remote" /\ loop.phase = "running"
    BY <1>1 DEF ClaimFromHost
  <2>3. loop.host \in Hosts
    BY <2>2 DEF LoopSane, TypeOK
  <2>4. UNCHANGED <<attempts, faults, tasks, bookVars, modeVars, orphans>>
    BY <1>1 DEF ClaimFromHost
  <2>5. jobs' \in [JobIds -> Host!Row]
    BY <1>types, <2>1, MirrorTyped DEF CreatesMirror
  <2>6. hostTasks' \subseteq HostTask
    BY <1>types, <2>1, <2>3 DEF HostTask
  <2>7. HostTasksSane'
    BY <2>1, <2>2, <2>4 DEF HostTasksSane, modeVars
  <2> QED
    BY <2>4, <2>5, <2>6, <2>7
<1>2. ASSUME NEW t \in hostTasks, HostTaskEnds(t)
      PROVE  /\ UNCHANGED <<jobs, attempts, faults, tasks, bookVars, modeVars, orphans>>
             /\ hostTasks' \subseteq HostTask /\ HostTasksSane'
  BY <1>2, <1>types DEF HostTaskEnds, HostTasksSane, queueVars, modeVars
<1>3. ASSUME NEW t \in hostTasks, NEW result \in Host!Results, FinalizeMirror(t, result)
      PROVE  /\ UNCHANGED <<attempts, faults, tasks, bookVars, modeVars, orphans>>
             /\ jobs' \in [JobIds -> Host!Row] /\ hostTasks' \subseteq HostTask /\ HostTasksSane'
  <2> DEFINE u == [t EXCEPT !.phase = "reports"]
  <2>1. u \in HostTask /\ u.host = t.host
    BY <1>types DEF HostTask
  <2>2. hostTasks' = (hostTasks \ {t}) \cup {u}
    BY <1>3 DEF FinalizeMirror
  <2> HIDE DEF u
  <2>3. UNCHANGED <<attempts, faults, tasks, bookVars, modeVars, orphans>>
    BY <1>3 DEF FinalizeMirror
  <2>4. hostTasks' \subseteq HostTask /\ HostTasksSane'
    BY <1>types, <2>1, <2>2, <2>3 DEF HostTasksSane, modeVars
  <2>5. jobs' \in [JobIds -> Host!Row]
    <3>1. Host!OutcomeOf(result) \in Host!States
      BY OutcomeIsTerminal DEF Host!States
    <3>2. ASSUME NEW j \in JobIds PROVE Settled(jobs[j], result) \in Host!Row
      BY <1>types, <3>1 DEF Settled, Host!Row
    <3> QED
      BY <1>3, <1>types, <3>2 DEF FinalizeMirror, Host!Present, Host!InState
  <2> QED
    BY <2>3, <2>4, <2>5
<1>4. ASSUME NEW c \in orphans, OrphanEnds(c)
      PROVE  /\ UNCHANGED <<jobs, attempts, faults, tasks, bookVars, modeVars, hostTasks>>
             /\ orphans' \subseteq orphans
  BY <1>4 DEF OrphanEnds, queueVars
<1>5. UNCHANGED <<loop, hostTasks>> => HostTasksSane'
  BY DEF HostTasksSane
<1>6. ASSUME NEW c \in orphans, OrphanEnds(c)
      PROVE  jobs' \in [JobIds -> Host!Row] /\ hostTasks' \subseteq HostTask /\ HostTasksSane'
  BY <1>4, <1>5, <1>6, <1>types DEF modeVars
<1> QED
  BY <1>1, <1>2, <1>3, <1>4, <1>6, <1>types DEF HostWork

(* An encode is left behind by a drain or a death, with the date of its
   claim; and claims only grow. *)
LEMMA OrphansStep ==
  ASSUME Inv, [Next]_vars
  PROVE  orphans' \subseteq Claims /\ OrphansDated'
<1> USE DEF Inv
<1>1. orphans \subseteq Claims /\ Ffmpegs \subseteq Claims
  BY DEF TypeOK, Ffmpegs, Encoding, ClaimOf, Claims
<1>2. \A c \in Ffmpegs : c.attempt <= attempts[c.job]
  BY DEF Ffmpegs, Encoding, ClaimOf, TasksSane, TasksDated, OrphansDated
<1>3. ASSUME orphans' \subseteq Ffmpegs, attempts' = attempts
      PROVE  orphans' \subseteq Claims /\ OrphansDated'
  BY <1>1, <1>2, <1>3 DEF OrphansDated
<1>4. orphans \subseteq Ffmpegs
  BY DEF Ffmpegs
<1>5. CASE DrainTimesOut
  <2>1. orphans' = orphans \cup {ClaimOf(t) : t \in {u \in Encoding : Known(u)}}
    BY <1>5 DEF DrainTimesOut
  <2>2. attempts' = attempts
    BY <1>5 DEF DrainTimesOut
  <2> QED
    BY <1>3, <2>1, <2>2 DEF Ffmpegs
<1>6. CASE Die
  BY <1>3, <1>6 DEF Die
<1>7. CASE ClaimLocally
  <2>1. PICK j \in JobIds : Claimed(j)
    BY <1>7, ClaimStep DEF TasksSane
  <2>2. orphans' = orphans
    BY <1>7 DEF ClaimLocally
  <2>3. \A k \in JobIds : attempts'[k] \in Nat /\ attempts[k] \in Nat /\ attempts[k] <= attempts'[k]
    BY <2>1 DEF Claimed, TypeOK
  <2>4. \A c \in orphans : c.job \in JobIds /\ c.attempt \in Nat
    BY <1>1 DEF Claims
  <2> QED
    BY <1>1, <2>2, <2>3, <2>4 DEF OrphansDated
<1>8. CASE HostWork
  BY <1>3, <1>4, <1>8, HostWorkKeeps
<1>9. CASE QueueAction
  BY <1>3, <1>4, <1>9, QueueKeeps
<1>10. ASSUME NEW t \in tasks, TaskStep(t) PROVE orphans' \subseteq Claims /\ OrphansDated'
  BY <1>3, <1>4, <1>10, TaskEffect
<1>11. CASE ModeAction /\ ~DrainTimesOut /\ ~Die
  <2>1. UNCHANGED <<orphans, attempts>>
    BY <1>11 DEF ModeAction, SupervisorStep, FirstMode, BeginDrain, SwitchMode,
       SupervisorFails, BeginLocal, BeginRemote, Registered, LoopReturns, LocalLoopFails,
       LocalLoopRaises, AcceptPairing, RestartWhilePairing, Restart, DisconnectPairing, queueVars
  <2> QED
    BY <1>3, <1>4, <2>1
<1>12. CASE Reap \/ UNCHANGED vars
  BY <1>3, <1>4, <1>12 DEF Reap, vars, queueVars
<1> QED
  BY <1>5, <1>6, <1>7, <1>8, <1>9, <1>10, <1>11, <1>12
  DEF Next, LoopStep, ModeAction, QueueAction, HostWork

(* How the handlers move a row: its file stays, and none is queued or made
   busy again. *)
Moved(row, new) ==
  /\ new.file = row.file
  /\ new.state = "absent" <=> row.state = "absent"
  /\ new.state = "queued" => row.state = "queued"
  /\ new.state \in Busy => row.state \in Busy

RowsMove == \A j \in JobIds : Moved(jobs[j], jobs'[j])

LEMMA RowMoves ==
  ASSUME NEW row \in Host!Row, NEW result \in Host!Results
  PROVE  /\ Moved(row, Host!CancelledRow(row))
         /\ Moved(row, Host!ReconciledRow(row))
         /\ Moved(row, [row EXCEPT !.recent = FALSE])
         /\ row.state # "absent" => Moved(row, Settled(row, result))
         /\ row.state = "queued" =>
              Moved(row, [row EXCEPT !.state = "running", !.node = Local, !.recent = TRUE])
<1>1. row.state # "absent" => Moved(row, Settled(row, result))
  <2>1. Host!OutcomeOf(result) \in Host!Terminal
    BY OutcomeIsTerminal
  <2> QED
    BY <2>1 DEF Moved, Settled, Host!Row, Host!Terminal, Busy
<1> QED
  BY <1>1 DEF Moved, Busy, Host!CancelledRow, Host!ReconciledRow, Host!Row

LEMMA RowsMoveWhenEqual == ASSUME TypeOK, UNCHANGED jobs PROVE RowsMove
BY DEF RowsMove, Moved

(* What a step does to the rows, and to the tasks that name them. *)
LEMMA RowEffects ==
  ASSUME Inv, [Next]_vars
  PROVE  /\ faults' = faults
         /\ \/ RowsMove /\ \A u \in hostTasks' : \E t \in hostTasks : t.row = u.row
            \/ hostTasks' = hostTasks /\ \E f \in Files : Host!Ingest(f)
            \/ hostTasks' = hostTasks /\ \E j \in JobIds : Host!ForceDelete(j)
            \/ \E row \in JobIds \cup {NoMirror} :
                 /\ CreatesMirror(row)
                 /\ \A u \in hostTasks' : u.row = row \/ \E t \in hostTasks : t.row = u.row
<1> USE DEF Inv
<1>types. \A j \in JobIds : jobs[j] \in Host!Row
  BY DEF TypeOK
<1>same. hostTasks' \subseteq hostTasks => \A u \in hostTasks' : \E t \in hostTasks : t.row = u.row
  OBVIOUS
<1>result. "swapped" \in Host!Results
  BY DEF Host!Results
<1>1. CASE ClaimLocally
  <2>1. PICK j \in JobIds : Claimed(j) /\ jobs[j].state = "queued"
    <3>1. PICK j \in JobIds : Claimed(j)
      BY <1>1, ClaimStep DEF TasksSane
    <3>2. PICK k \in JobIds :
            /\ jobs[k].state = "queued" /\ attempts[k] \in Nat
            /\ attempts' = [attempts EXCEPT ![k] = @ + 1]
      BY <1>1 DEF ClaimLocally, Host!LocalClaim, Host!ClaimFor, Host!OldestQueued, TypeOK
    <3>3. j = k
      BY <3>1, <3>2 DEF Claimed, TypeOK
    <3> QED
      BY <3>1, <3>2, <3>3
  <2> DEFINE new == [jobs[j] EXCEPT !.state = "running", !.node = Local, !.recent = TRUE]
  <2>2. jobs' = [jobs EXCEPT ![j] = new]
    BY <2>1 DEF Claimed, TypeOK, Host!Row
  <2>3. Moved(jobs[j], new)
    BY <1>types, <1>result, <2>1, RowMoves
  <2> HIDE DEF new
  <2>4. RowsMove
    BY <2>2, <2>3 DEF RowsMove, Moved, TypeOK
  <2>5. UNCHANGED <<faults, hostTasks>>
    BY <1>1 DEF ClaimLocally, Host!LocalClaim, Host!ClaimFor
  <2> QED
    BY <1>same, <2>4, <2>5
<1>2. ASSUME NEW t \in tasks, TaskStep(t)
      PROVE  RowsMove /\ UNCHANGED <<faults, hostTasks>>
  <2>1. UNCHANGED <<faults, hostTasks>>
    BY <1>2, TaskEffect
  <2>2. ASSUME NEW result \in Host!Results, Host!Finish(DispatchOf(t), result) PROVE RowsMove
    <3>1. CASE jobs' = jobs
      BY <3>1, RowsMoveWhenEqual
    <3>2. CASE jobs' # jobs
      <4>1. t.job \in JobIds
        BY DEF TypeOK
      <4>2. jobs' = [jobs EXCEPT ![t.job].state = Host!OutcomeOf(result), ![t.job].recent = FALSE]
        BY <2>2, <3>2 DEF Host!Finish, DispatchOf
      <4>3. jobs[t.job].state # "absent"
        BY <2>2, <3>2 DEF Host!Finish, DispatchOf, Host!ResultApplies, Host!Active
      <4>4. jobs' = [jobs EXCEPT ![t.job] = Settled(jobs[t.job], result)]
        BY <4>1, <4>2, <1>types DEF Settled, TypeOK, Host!Row
      <4>5. Moved(jobs[t.job], Settled(jobs[t.job], result))
        BY <1>types, <4>1, <4>3, RowMoves
      <4> QED
        BY <4>4, <4>5 DEF RowsMove, Moved, TypeOK
    <3> QED
      BY <3>1, <3>2
  <2> QED
    BY <1>2, <2>1, <2>2, TaskEffect, RowsMoveWhenEqual
<1>3. CASE QueueAction
  <2>1. UNCHANGED <<faults, hostTasks>>
    BY <1>3, QueueKeeps
  <2>2. ASSUME NEW j \in JobIds, Host!Cancel(j) PROVE RowsMove
    BY <2>2, <1>types, <1>result, RowMoves DEF Host!Cancel, RowsMove, Moved, TypeOK
  <2>3. ASSUME NEW j \in JobIds, Host!Age(j) PROVE RowsMove
    BY <2>3, <1>types, <1>result, RowMoves DEF Host!Age, RowsMove, Moved, TypeOK
  <2>4. ASSUME Host!CancelAll PROVE RowsMove
    BY <2>4, <1>types, <1>result, RowMoves DEF Host!CancelAll, RowsMove
  <2> QED
    BY <1>3, <1>same, <2>1, <2>2, <2>3, <2>4, QueueKeeps
<1>4. CASE ModeAction
  <2>1. faults' = faults /\ hostTasks' \subseteq hostTasks
    BY <1>4 DEF ModeAction, SupervisorStep, FirstMode, BeginDrain, SwitchMode, DrainTimesOut,
       CancelTasks, SupervisorFails, BeginLocal, BeginRemote, Registered, LoopReturns,
       LocalLoopFails, LocalLoopRaises, AcceptPairing, RestartWhilePairing, Restart, Die,
       DisconnectPairing, queueVars
  <2>2. CASE BeginLocal
    BY <2>2, <1>same, <2>1, <1>types, <1>result, RowMoves DEF BeginLocal, RowsMove
  <2>3. CASE ~BeginLocal
    <3>1. jobs' = jobs
      BY <1>4, <2>3 DEF ModeAction, SupervisorStep, FirstMode, BeginDrain, SwitchMode,
         DrainTimesOut, SupervisorFails, BeginRemote, Registered, LoopReturns,
         LocalLoopFails, LocalLoopRaises, AcceptPairing, RestartWhilePairing, Restart, Die,
         DisconnectPairing, queueVars
    <3> QED
      BY <3>1, <1>same, <2>1, RowsMoveWhenEqual
  <2> QED
    BY <2>2, <2>3
<1>5. ASSUME NEW r \in RemoteJobs, ClaimFromHost(r)
      PROVE  \E row \in JobIds \cup {NoMirror} :
                 /\ CreatesMirror(row)
                 /\ \A u \in hostTasks' : u.row = row \/ \E t \in hostTasks : t.row = u.row
  <2>1. PICK row \in JobIds \cup {NoMirror} :
          /\ CreatesMirror(row)
          /\ hostTasks' = hostTasks \cup
               {[host |-> loop.host, job |-> r, row |-> row, phase |-> "works"]}
    BY <1>5 DEF ClaimFromHost
  <2> QED
    BY <2>1
<1>6. ASSUME NEW t \in hostTasks, NEW result \in Host!Results, FinalizeMirror(t, result)
      PROVE  RowsMove /\ \A u \in hostTasks' : \E v \in hostTasks : v.row = u.row
  <2>1. [t EXCEPT !.phase = "reports"].row = t.row
    BY DEF TypeOK
  <2>2. \A u \in hostTasks' : \E v \in hostTasks : v.row = u.row
    BY <1>6, <2>1 DEF FinalizeMirror
  <2>3. CASE t.row \in Host!Present /\ jobs' = [jobs EXCEPT ![t.row] = Settled(@, result)]
    <3>1. t.row \in JobIds /\ jobs[t.row].state # "absent"
      BY <2>3 DEF Host!Present, Host!InState
    <3>2. Moved(jobs[t.row], Settled(jobs[t.row], result))
      BY <3>1, <1>types, RowMoves
    <3>3. RowsMove
      BY <2>3, <3>1, <3>2 DEF RowsMove, Moved, TypeOK
    <3> QED
      BY <2>2, <3>3
  <2> QED
    BY <1>6, <2>2, <2>3, RowsMoveWhenEqual DEF FinalizeMirror
<1>7. ASSUME NEW t \in hostTasks, HostTaskEnds(t)
      PROVE  RowsMove /\ hostTasks' \subseteq hostTasks
  BY <1>7, RowsMoveWhenEqual DEF HostTaskEnds, queueVars
<1>8. ASSUME NEW c \in orphans, OrphanEnds(c)
      PROVE  RowsMove /\ hostTasks' \subseteq hostTasks
  BY <1>8, RowsMoveWhenEqual DEF OrphanEnds, queueVars
<1>9. CASE HostWork
  BY <1>5, <1>6, <1>7, <1>8, <1>9, <1>same, HostWorkKeeps DEF HostWork
<1>10. CASE Reap \/ UNCHANGED vars
  BY <1>10, <1>same, RowsMoveWhenEqual DEF Reap, vars, queueVars
<1> QED
  BY <1>1, <1>2, <1>3, <1>4, <1>9, <1>10, <1>same DEF Next, LoopStep, ModeAction, QueueAction, HostWork

LEMMA RowsStep ==
  ASSUME Inv, [Next]_vars
  PROVE  RowsSane' /\ BusyApart' /\ MirrorsStand'
<1> USE DEF Inv
<1>types. \A j \in JobIds : jobs[j] \in Host!Row
  BY DEF TypeOK
<1>1. CASE RowsMove /\ \A u \in hostTasks' : \E t \in hostTasks : t.row = u.row
  <2>1. \A j \in JobIds : jobs'[j].file = jobs[j].file
    BY <1>1 DEF RowsMove, Moved
  <2>2. RowsSane'
    BY <1>1, <2>1 DEF RowsMove, Moved, RowsSane, IsOwn
  <2>3. BusyApart'
    BY <1>1, <2>1 DEF RowsMove, Moved, BusyApart, IsOwn
  <2>4. MirrorsStand'
    <3> SUFFICES ASSUME "purge" \notin faults, NEW u \in hostTasks', u.row # NoMirror
                 PROVE  jobs'[u.row].state # "absent" /\ jobs'[u.row].file = NoFile
      BY RowEffects DEF MirrorsStand, IsOwn
    <3>1. PICK t \in hostTasks : t.row = u.row
      BY <1>1
    <3>2. t.row \in JobIds
      BY <3>1 DEF TypeOK
    <3> QED
      BY <1>1, <3>1, <3>2 DEF RowsMove, Moved, MirrorsStand, IsOwn
  <2> QED
    BY <2>2, <2>3, <2>4
<1>2. ASSUME NEW f \in Files, Host!Ingest(f), hostTasks' = hostTasks
      PROVE  RowsSane' /\ BusyApart' /\ MirrorsStand'
  <2> DEFINE new == [Host!NoRow EXCEPT !.state = "queued", !.file = f]
  <2>1. PICK i \in JobIds : Host!IsNextId(i) /\ jobs' = [jobs EXCEPT ![i] = new]
    BY <1>2 DEF Host!Ingest
  <2>2. jobs[i].state = "absent"
    BY <2>1, <1>types DEF Host!IsNextId, Host!Present, Host!InState, Host!Row
  <2>3. new.state = "queued" /\ new.file = f /\ f # NoFile
    BY QueueAssumption DEF Host!NoRow
  <2> HIDE DEF new
  <2>4. \A j \in JobIds : jobs[j].state \in Busy => jobs[j].file # f
    BY <1>2 DEF Host!Ingest, Host!InState, Host!BusyStates, Busy
  <2>5. \A j \in JobIds : jobs'[j] = IF j = i THEN new ELSE jobs[j]
    BY <2>1 DEF TypeOK
  <2>6. RowsSane'
    BY <2>3, <2>5 DEF RowsSane, IsOwn
  <2>7. BusyApart'
    BY <2>3, <2>4, <2>5 DEF BusyApart, IsOwn
  <2>8. MirrorsStand'
    BY <1>2, <2>2, <2>5, RowEffects DEF MirrorsStand, IsOwn, TypeOK
  <2> QED
    BY <2>6, <2>7, <2>8
<1>3. ASSUME NEW i \in JobIds, Host!ForceDelete(i)
      PROVE  RowsSane' /\ BusyApart' /\ MirrorsStand'
  <2>1. "purge" \in faults /\ \A j \in JobIds : jobs'[j] = IF j = i THEN Host!NoRow ELSE jobs[j]
    BY <1>3 DEF Host!ForceDelete, TypeOK
  <2>2. Host!NoRow.state = "absent" /\ Host!NoRow.file = NoFile
    BY DEF Host!NoRow
  <2> QED
    BY <2>1, <2>2, RowEffects DEF RowsSane, BusyApart, Busy, MirrorsStand, IsOwn
<1>4. ASSUME NEW row \in JobIds \cup {NoMirror}, CreatesMirror(row),
             \A u \in hostTasks' : u.row = row \/ \E t \in hostTasks : t.row = u.row
      PROVE  RowsSane' /\ BusyApart' /\ MirrorsStand'
  <2>zero. NoMirror \notin JobIds
    BY DEF NoMirror
  <2>1. CASE row = NoMirror
    <3>1. jobs' = jobs
      BY <1>4, <2>1 DEF CreatesMirror
    <3> QED
      BY <1>4, <2>1, <3>1, RowEffects DEF RowsSane, BusyApart, MirrorsStand, IsOwn, TypeOK
  <2>2. CASE row # NoMirror
    <3>1. row \in JobIds /\ Host!IsNextId(row) /\ jobs' = [jobs EXCEPT ![row] = MirrorRow]
      BY <1>4, <2>2 DEF CreatesMirror
    <3>2. jobs[row].state = "absent"
      BY <3>1, <1>types DEF Host!IsNextId, Host!Present, Host!InState, Host!Row
    <3>3. MirrorRow.state = "running" /\ MirrorRow.file = NoFile
      BY DEF MirrorRow, Host!NoRow
    <3>4. \A j \in JobIds : jobs'[j] = IF j = row THEN MirrorRow ELSE jobs[j]
      BY <3>1 DEF TypeOK
    <3>5. RowsSane'
      BY <3>3, <3>4 DEF RowsSane, IsOwn
    <3>6. BusyApart'
      BY <3>3, <3>4 DEF BusyApart, IsOwn
    <3>7. MirrorsStand'
      <4> SUFFICES ASSUME "purge" \notin faults, NEW u \in hostTasks', u.row # NoMirror
                   PROVE  jobs'[u.row].state # "absent" /\ jobs'[u.row].file = NoFile
        BY RowEffects DEF MirrorsStand, IsOwn
      <4>1. CASE u.row = row
        BY <3>1, <3>3, <3>4, <4>1
      <4>2. CASE u.row # row
        <5>1. PICK t \in hostTasks : t.row = u.row
          BY <1>4, <4>2
        <5>2. t.row \in JobIds
          BY <5>1 DEF TypeOK
        <5> QED
          BY <3>4, <4>2, <5>1, <5>2 DEF MirrorsStand, IsOwn
      <4> QED
        BY <4>1, <4>2
    <3> QED
      BY <3>5, <3>6, <3>7
  <2> QED
    BY <2>1, <2>2
<1> QED
  BY <1>1, <1>2, <1>3, <1>4, RowEffects

LEMMA InvStep == Inv /\ [Next]_vars => Inv'
<1> SUFFICES ASSUME Inv, [Next]_vars PROVE Inv'
  OBVIOUS
<1> USE DEF Inv
<1>parts. ASSUME jobs' \in [JobIds -> Host!Row], attempts' \in [JobIds -> Nat],
                 ModesTyped', TasksTyped', hostTasks' \subseteq HostTask,
                 LoopSane', TasksSane', HostTasksSane'
          PROVE  Inv'
  BY <1>parts, OrphansStep, RowsStep DEF TypeOK, ModesTyped, TasksTyped, HostTask
<1>still. UNCHANGED modeVars => ModesTyped' /\ LoopSane'
  BY DEF modeVars, ModesTyped, TypeOK, LoopSane
<1>calm. UNCHANGED <<tasks, attempts, bookVars, loop>> => TasksTyped' /\ TasksSane'
  BY DEF bookVars, TasksTyped, TypeOK, TasksSane, TasksDated, Latest, Known
<1>idle. UNCHANGED <<loop, hostTasks>> => HostTasksSane'
  BY DEF HostTasksSane
<1>1. CASE ModeAction
  <2>1. ModesTyped' /\ LoopSane'
    BY <1>1, ModeStep
  <2>2. TasksTyped' /\ TasksSane' /\ HostTasksSane'
    BY <1>1, ModeKeepsTasks
  <2>3. attempts' = attempts /\ hostTasks' \subseteq hostTasks
    BY <1>1 DEF ModeAction, SupervisorStep, FirstMode, BeginDrain, SwitchMode, DrainTimesOut,
       CancelTasks, SupervisorFails, BeginLocal, BeginRemote, Registered, LoopReturns,
       LocalLoopFails, LocalLoopRaises, AcceptPairing, RestartWhilePairing, Restart, Die,
       DisconnectPairing, queueVars
  <2>4. jobs' \in [JobIds -> Host!Row]
    <3>1. CASE BeginLocal
      <4>1. \A j \in JobIds : jobs[j] \in Host!Row
        BY DEF TypeOK
      <4> QED
        BY <3>1, <4>1, RowRewrites DEF BeginLocal
    <3>2. CASE ~BeginLocal
      BY <1>1, <3>2 DEF ModeAction, SupervisorStep, FirstMode, BeginDrain, SwitchMode,
         DrainTimesOut, SupervisorFails, BeginRemote, Registered, LoopReturns,
         LocalLoopFails, LocalLoopRaises, AcceptPairing, RestartWhilePairing, Restart, Die,
         DisconnectPairing, queueVars, TypeOK
    <3> QED
      BY <3>1, <3>2
  <2> QED
    BY <1>parts, <2>1, <2>2, <2>3, <2>4 DEF TypeOK, HostTask
<1>2. CASE Reap
  <2>1. UNCHANGED <<jobs, tasks, attempts, procs, loop, modeVars, orphans, hostTasks>>
    BY <1>2 DEF Reap, queueVars, modeVars
  <2>2. running' = running \cap {ClaimOf(t) : t \in tasks}
    BY <1>2 DEF Reap
  <2>3. TasksTyped'
    BY <2>1, <2>2, SubBook DEF TasksTyped, TypeOK
  <2>4. TasksSane'
    BY <2>1, <2>2 DEF TasksSane, TasksDated, Latest, Known
  <2> QED
    BY <1>parts, <1>still, <1>idle, <2>1, <2>3, <2>4 DEF TypeOK, HostTask
<1>3. CASE ClaimLocally
  <2>1. TasksTyped' /\ TasksSane' /\ HostTasksSane'
    BY <1>3, ClaimKeepsTasks
  <2>2. UNCHANGED <<modeVars, orphans, hostTasks>>
    BY <1>3 DEF ClaimLocally
  <2>3. PICK j \in JobIds : Claimed(j)
    BY <1>3, ClaimStep DEF TasksSane
  <2>4. attempts' \in [JobIds -> Nat]
    BY <2>3 DEF Claimed, TypeOK
  <2>5. jobs' \in [JobIds -> Host!Row]
    <3>1. jobs[j] \in Host!Row
      BY DEF TypeOK
    <3>2. [jobs[j] EXCEPT !.state = "running", !.node = Local, !.recent = TRUE] \in Host!Row
      BY <3>1 DEF Host!Row, Host!States, Host!Active, Host!AllNodes
    <3> QED
      BY <2>3, <3>2 DEF Claimed, TypeOK
  <2> QED
    BY <1>parts, <1>still, <2>1, <2>2, <2>4, <2>5 DEF TypeOK, HostTask
<1>4. CASE HostWork
  <2>1. UNCHANGED <<attempts, tasks, bookVars, modeVars>>
    BY <1>4, HostWorkKeeps
  <2> QED
    BY <1>4, <1>parts, <1>still, <1>calm, <2>1, HostWorkKeeps DEF modeVars, TypeOK
<1>5. ASSUME NEW t \in tasks, TaskStep(t) PROVE Inv'
  <2>1. TasksTyped' /\ TasksSane' /\ HostTasksSane'
    BY <1>5, TaskKeepsTasks
  <2> QED
    BY <1>5, <1>parts, <1>still, <2>1, TaskEffect DEF TypeOK, HostTask
<1>7. CASE QueueAction
  <2>1. attempts' = attempts /\ UNCHANGED <<bookVars, modeVars, orphans, hostTasks>>
    BY <1>7, QueueKeeps
  <2>2. TasksTyped' /\ TasksSane' /\ HostTasksSane'
    BY <1>7, <1>calm, <1>idle, <2>1, QueueKeeps, SignalKeepsTasks DEF modeVars
  <2> QED
    BY <1>7, <1>parts, <1>still, <2>1, <2>2, QueueKeeps DEF TypeOK, HostTask
<1>8. CASE UNCHANGED vars
  BY <1>8, <1>parts, <1>still, <1>calm, <1>idle DEF vars, queueVars, modeVars, TypeOK, HostTask
<1> QED
  BY <1>1, <1>2, <1>3, <1>4, <1>5, <1>7, <1>8 DEF Next, LoopStep, ModeAction, QueueAction, HostWork

LEMMA InvInit == Init => Inv
<1> SUFFICES ASSUME Init PROVE Inv
  OBVIOUS
<1>1. jobs \in [JobIds -> Host!Row] /\ attempts \in [JobIds -> Nat]
  BY EmptyRow DEF Init
<1>2. TypeOK
  BY <1>1 DEF Init, TypeOK, Modes, Phases, Created, NoLoop, OneEntryPerJob
<1>3. LoopSane
  BY DEF Init, LoopSane, Created, NoLoop
<1>4. TasksSane /\ HostTasksSane
  BY DEF Init, TasksSane, TasksDated, HostTasksSane
<1>5. OrphansDated /\ RowsSane /\ BusyApart /\ MirrorsStand
  BY DEF Init, OrphansDated, RowsSane, BusyApart, Busy, MirrorsStand, IsOwn, Host!NoRow
<1> QED
  BY <1>2, <1>3, <1>4, <1>5 DEF Inv

LEMMA InvHolds == Spec => []Inv
BY InvInit, InvStep, PTL DEF Spec

(* Settings, modes, tasks and books hold what they may, the books one entry
   per job id. *)
THEOREM TypeCorrect == Spec => []TypeOK
BY InvHolds, PTL DEF Inv

(* The two modes never overlap. *)
THEOREM ModesApart == Spec => []OneMode
<1>1. Inv => OneMode
  <2> SUFFICES ASSUME Inv, FreshKeys, tasks # {}
               PROVE  loop.kind = "local" /\ loop.phase \in {"running", "failing"}
    BY DEF Inv, HostTasksSane, OneMode
  <2>1. PICK t \in tasks : TRUE
    OBVIOUS
  <2>2. t.attempt = attempts[t.job]
    BY DEF Inv, TypeOK, TasksSane, TasksDated, FreshKeys
  <2> QED
    BY <2>2 DEF Inv, TasksSane, Latest
<1> QED
  BY <1>1, InvHolds, PTL

-----------------------------------------------------------------------------
(* The cancel button finds every encode. *)

LEMMA OneTaskPerJob ==
  ASSUME Inv, FreshKeys
  PROVE  /\ \A t \in tasks : Latest(t) /\ Known(t)
         /\ \A t, u \in tasks : t.job = u.job => t = u
<1>1. \A t \in tasks : t.attempt = 1 /\ attempts[t.job] = 1
  BY DEF Inv, TypeOK, TasksSane, TasksDated, FreshKeys
<1> QED
  BY <1>1 DEF Inv, TasksSane, ClaimOf, Latest

(* Apart from the claims no step creates a task, and claims only grow. *)
LEMMA TasksComeFromClaims ==
  ASSUME Inv, [Next]_vars, ~ClaimLocally
  PROVE  NoNewTask /\ attempts' = attempts
<1>1. ASSUME tasks' \subseteq tasks PROVE NoNewTask
  BY <1>1 DEF NoNewTask, Inv, TypeOK, TasksSane
<1>2. CASE ModeAction
  <2>1. tasks' \subseteq tasks /\ attempts' = attempts
    BY <1>2 DEF ModeAction, SupervisorStep, FirstMode, BeginDrain, SwitchMode, DrainTimesOut,
       CancelTasks, SupervisorFails, BeginLocal, BeginRemote, Registered, LoopReturns,
       LocalLoopFails, LocalLoopRaises, AcceptPairing, RestartWhilePairing, Restart, Die,
       DisconnectPairing, queueVars
  <2> QED
    BY <1>1, <2>1
<1>3. ASSUME NEW t \in tasks, TaskStep(t) PROVE NoNewTask /\ attempts' = attempts
  BY <1>3, TaskKeepsTasks, TaskEffect DEF Inv
<1>4. CASE QueueAction
  BY <1>1, <1>4, QueueKeeps, SignalKeepsTasks DEF Inv
<1>5. CASE HostWork \/ Reap \/ UNCHANGED vars
  BY <1>1, <1>5, HostWorkKeeps DEF Reap, vars, queueVars
<1> QED
  BY <1>2, <1>3, <1>4, <1>5 DEF Next, LoopStep, ModeAction, QueueAction, HostWork

LEMMA KeysStayFresh == Inv /\ [Next]_vars /\ FreshKeys' => FreshKeys
<1> SUFFICES ASSUME Inv, [Next]_vars, FreshKeys' PROVE FreshKeys
  OBVIOUS
<1>1. CASE ClaimLocally
  <2>1. PICK j \in JobIds : Claimed(j)
    BY <1>1, ClaimStep DEF Inv, TasksSane
  <2> QED
    BY <2>1 DEF Claimed, FreshKeys, Inv, TypeOK
<1>2. CASE ~ClaimLocally
  BY <1>2, TasksComeFromClaims DEF FreshKeys
<1> QED
  BY <1>1, <1>2

LEMMA ReachableStep == Inv /\ EncodesReachable /\ [Next]_vars => EncodesReachable'
<1> SUFFICES ASSUME Inv, EncodesReachable, [Next]_vars, FreshKeys',
                    NEW u \in tasks', u.stage \in {"encoding", "killed"}
             PROVE  ClaimOf(u) \in procs'
  BY DEF EncodesReachable, Encoding
<1>fresh. FreshKeys
  BY KeysStayFresh
<1>reach. \A t \in tasks : t.stage \in {"encoding", "killed"} => ClaimOf(t) \in procs
  BY <1>fresh DEF EncodesReachable, Encoding
<1>1. CASE u \in tasks /\ procs' = procs
  BY <1>1, <1>reach
<1>2. CASE ModeAction
  <2>1. CASE DrainTimesOut
    <3>1. tasks' = {}
      BY <2>1, <1>fresh, OneTaskPerJob DEF DrainTimesOut, CancelTasks
    <3> QED
      BY <3>1
  <2>2. CASE Die
    BY <2>2 DEF Die
  <2>3. CASE ~DrainTimesOut /\ ~Die
    BY <1>1, <1>2, <2>3 DEF ModeAction, SupervisorStep, FirstMode, BeginDrain, SwitchMode,
       SupervisorFails, BeginLocal, BeginRemote, Registered, LoopReturns, LocalLoopFails,
       LocalLoopRaises, AcceptPairing, RestartWhilePairing, Restart, DisconnectPairing, queueVars, bookVars
  <2> QED
    BY <2>1, <2>2, <2>3
<1>3. CASE ClaimLocally
  <2>1. PICK j \in JobIds : Claimed(j)
    BY <1>3, ClaimStep DEF Inv, TasksSane
  <2>2. u \in tasks
    BY <2>1 DEF Claimed
  <2> QED
    BY <1>1, <1>3, <2>2 DEF ClaimLocally
<1>4. ASSUME NEW t \in tasks, TaskStep(t) PROVE ClaimOf(u) \in procs'
  <2>1. ASSUME u \in tasks, u # t PROVE ClaimOf(u) \in procs'
    <3>1. ClaimOf(u) \in procs /\ ClaimOf(u).job # t.job
      BY <1>fresh, <1>reach, <2>1, OneTaskPerJob DEF ClaimOf
    <3>2. ClaimOf(t).job = t.job
      BY DEF ClaimOf
    <3> QED
      BY <1>4, <3>1, <3>2, TaskEffect DEF Inv, Put, Pop
  <2>2. CASE /\ t.stage = "starting"
             /\ tasks' = (tasks \ {t}) \cup {[t EXCEPT !.stage = "encoding"]}
             /\ procs' = Put(procs, ClaimOf(t))
    <3>1. "encoding" \in Stages
      BY DEF Stages
    <3>2. ClaimOf([t EXCEPT !.stage = "encoding"]) \in procs'
      BY <2>2, <3>1, TaskMoves DEF Inv, Put
    <3> QED
      BY <2>1, <2>2, <3>2
  <2>3. CASE tasks' = tasks \ {t}
    BY <2>1, <2>3
  <2>4. CASE tasks' = (tasks \ {t}) \cup {[t EXCEPT !.stage = "probing"]}
    <3>1. "probing" \in Stages
      BY DEF Stages
    <3>2. [t EXCEPT !.stage = "probing"].stage = "probing"
      BY <3>1, TaskMoves DEF Inv
    <3> QED
      BY <2>1, <2>4, <3>2
  <2> QED
    BY <1>4, <2>2, <2>3, <2>4, TaskEffect DEF Inv
<1>5. CASE QueueAction
  <2>1. procs' = procs
    BY <1>5, QueueKeeps DEF bookVars
  <2>2. ASSUME NEW J, Signal(J) PROVE ClaimOf(u) \in procs'
    <3>1. PICK t \in tasks : u = IF t.stage = "encoding" /\ t.job \in J /\ ClaimOf(t) \in procs
                                 THEN [t EXCEPT !.stage = "killed"] ELSE t
      BY <2>2 DEF Signal
    <3>2. CASE u = t
      BY <1>1, <2>1, <3>2
    <3>3. CASE u # t
      <4>1. u = [t EXCEPT !.stage = "killed"] /\ t.stage = "encoding"
        BY <3>1, <3>3
      <4>2. "killed" \in Stages
        BY DEF Stages
      <4>3. ClaimOf(u) = ClaimOf(t)
        BY <4>1, <4>2, TaskMoves DEF Inv
      <4> QED
        BY <1>reach, <2>1, <4>1, <4>3
    <3> QED
      BY <3>2, <3>3
  <2> QED
    BY <1>1, <1>5, <2>1, <2>2, QueueKeeps
<1>6. CASE HostWork \/ Reap \/ UNCHANGED vars
  BY <1>1, <1>6, HostWorkKeeps DEF Reap, vars, queueVars, bookVars
<1> QED
  BY <1>2, <1>3, <1>4, <1>5, <1>6 DEF Next, LoopStep, ModeAction, QueueAction, HostWork

(* Unless a primary key was handed out twice, the runner can find every
   local encode under its job id. *)
THEOREM CancelsFindEncodes == Spec => []EncodesReachable
<1>1. Init => EncodesReachable
  BY DEF Init, EncodesReachable, Encoding
<1> QED
  BY <1>1, InvHolds, ReachableStep, PTL DEF Spec

-----------------------------------------------------------------------------
(* Encodes left behind get no company. *)

(* Two encodes of one file never run for two rows that both run, nor twice
   for one, unless a primary key was handed out twice: neither the drains
   that are given up nor the deaths that leave ffmpeg running change that,
   for the row they leave `running` keeps the file from being queued. *)
THEOREM LeftEncodesApart == Spec => []EncodesApart
<1>1. Inv => EncodesApart
  <2> SUFFICES ASSUME Inv, FreshKeys, NEW c \in Ffmpegs, NEW e \in Ffmpegs,
                      IsOwn(c.job), jobs[c.job].state = "running", jobs[e.job].state = "running",
                      jobs[c.job].file = jobs[e.job].file
               PROVE  c = e
    BY DEF EncodesApart
  <2>1. \A x \in Ffmpegs : x \in Claims /\ x.attempt <= attempts[x.job]
    BY DEF Inv, TypeOK, Ffmpegs, Encoding, ClaimOf, Claims, TasksSane, TasksDated, OrphansDated
  <2>2. \A x \in Ffmpegs : x.attempt = 1
    BY <2>1 DEF Inv, TypeOK, FreshKeys, Claims
  <2>3. c.job = e.job
    BY <2>1 DEF Inv, BusyApart, Busy, Claims
  <2> QED
    BY <2>1, <2>2, <2>3 DEF Claims
<1> QED
  BY <1>1, InvHolds, PTL

-----------------------------------------------------------------------------
(* The rows of the process's own queue are a HostQueue whose local loop may
   stop. *)

(* What a handler makes of a row that is none. *)
LEMMA NoRowStays ==
  /\ Own!CancelledRow(Host!NoRow) = Host!NoRow
  /\ Own!ReconciledRow(Host!NoRow) = Host!NoRow
BY DEF Own!CancelledRow, Own!ReconciledRow, Host!NoRow

LEMMA SameRewrites ==
  ASSUME NEW row
  PROVE  /\ Own!CancelledRow(row) = Host!CancelledRow(row)
         /\ Own!ReconciledRow(row) = Host!ReconciledRow(row)
BY DEF Own!CancelledRow, Own!ReconciledRow, Host!CancelledRow, Host!ReconciledRow

LEMMA SameNames ==
  /\ Own!JobIds = JobIds /\ Own!Results = Host!Results /\ Own!NoRow = Host!NoRow
  /\ Own!States = Host!States /\ Own!Active = Host!Active
  /\ Own!InState(Own!BusyStates) = {j \in JobIds : OwnRows[j].state \in Busy}
  /\ Own!InState({"queued"}) = {j \in JobIds : OwnRows[j].state = "queued"}
  /\ Own!Present = {j \in JobIds : OwnRows[j].state \in Host!States \ {"absent"}}
BY DEF Own!JobIds, Own!Results, Host!Results, Own!NoRow, Host!NoRow, Own!States, Host!States,
   Own!Active, Host!Active, Own!Terminal, Host!Terminal, Own!InState, Own!BusyStates, Busy,
   Own!Present

(* The own rows among those of the table. *)
LEMMA OwnRowsAre ==
  ASSUME Inv
  PROVE  /\ \A j \in JobIds : OwnRows[j] = IF IsOwn(j) THEN jobs[j] ELSE Host!NoRow
         /\ OwnRows \in [JobIds -> Host!Row]
         /\ \A j \in JobIds : OwnRows[j].state = "absent" <=> ~IsOwn(j)
         /\ \A j \in JobIds : jobs[j].state = "queued" => OwnRows[j] = jobs[j]
         /\ \A j \in JobIds : OwnRows[j].state # "absent" => OwnRows[j] = jobs[j]
<1>1. \A j \in JobIds : OwnRows[j] = IF IsOwn(j) THEN jobs[j] ELSE Host!NoRow
  BY DEF OwnRows
<1>2. \A j \in JobIds : /\ jobs[j] \in Host!Row
                        /\ jobs[j].state = "absent" => ~IsOwn(j)
                        /\ jobs[j].state = "queued" => IsOwn(j)
  BY DEF Inv, TypeOK, RowsSane
<1>3. OwnRows \in [JobIds -> Host!Row]
  BY <1>2, EmptyRow DEF OwnRows
<1>4. Host!NoRow.state = "absent"
  BY DEF Host!NoRow
<1> QED
  BY <1>1, <1>2, <1>3, <1>4

(* The handlers that change one row leave the others alone, in either view. *)
LEMMA OneOwnRow ==
  ASSUME Inv, NEW i \in JobIds, NEW new, jobs' = [jobs EXCEPT ![i] = new],
         new.file = jobs[i].file
  PROVE  OwnRows' = IF IsOwn(i) THEN [OwnRows EXCEPT ![i] = new] ELSE OwnRows
<1>1. \A j \in JobIds : jobs'[j] = IF j = i THEN new ELSE jobs[j]
  BY DEF Inv, TypeOK
<1>2. OwnRows' = [j \in JobIds |-> IF jobs'[j].file # NoFile THEN jobs'[j] ELSE Host!NoRow]
  BY DEF OwnRows, IsOwn
<1>3. OwnRows = [j \in JobIds |-> IF jobs[j].file # NoFile THEN jobs[j] ELSE Host!NoRow]
  BY DEF OwnRows, IsOwn
<1>4. [OwnRows EXCEPT ![i] = new] = [j \in JobIds |-> IF j = i THEN new ELSE OwnRows[j]]
  BY <1>3
<1>5. CASE IsOwn(i)
  <2>1. new.file # NoFile
    BY <1>5 DEF IsOwn
  <2>2. \A j \in JobIds : (IF jobs'[j].file # NoFile THEN jobs'[j] ELSE Host!NoRow)
                          = IF j = i THEN new ELSE OwnRows[j]
    BY <1>1, <1>3, <2>1
  <2>3. OwnRows' = [j \in JobIds |-> IF j = i THEN new ELSE OwnRows[j]]
    BY <1>2, <2>2
  <2> QED
    BY <1>4, <1>5, <2>3
<1>6. CASE ~IsOwn(i)
  <2>1. new.file = NoFile /\ jobs[i].file = NoFile
    BY <1>6 DEF IsOwn
  <2>2. \A j \in JobIds : (IF jobs'[j].file # NoFile THEN jobs'[j] ELSE Host!NoRow)
                          = IF jobs[j].file # NoFile THEN jobs[j] ELSE Host!NoRow
    BY <1>1, <2>1
  <2> QED
    BY <1>2, <1>3, <1>6, <2>2
<1> QED
  BY <1>5, <1>6

(* The handlers that rewrite all rows. *)
LEMMA AllOwnRows ==
  ASSUME \A j \in JobIds : jobs'[j].file = jobs[j].file
  PROVE  OwnRows' = [j \in JobIds |-> IF IsOwn(j) THEN jobs'[j] ELSE Host!NoRow]
BY DEF OwnRows, IsOwn

LEMMA SameRows == ASSUME UNCHANGED jobs PROVE UNCHANGED OwnRows
BY DEF OwnRows, IsOwn

(* The queue's handlers, seen by the own rows. *)
LEMMA QueueHandlers ==
  ASSUME Inv, QueueAction,
         UNCHANGED <<LocalLoopRuns, {DispatchOf(t) : t \in tasks}, attempts, faults>>
  PROVE  [Own!Next]_(Own!vars)
<1> USE DEF Inv
<1>types. \A j \in JobIds : jobs[j] \in Host!Row
  BY DEF TypeOK
<1>result. "swapped" \in Host!Results
  BY DEF Host!Results
<1>1. ASSUME NEW f \in Files, Host!Ingest(f) PROVE Own!Ingest(f)
  <2> DEFINE new == [Host!NoRow EXCEPT !.state = "queued", !.file = f]
  <2>1. PICK i \in JobIds : Host!IsNextId(i) /\ jobs' = [jobs EXCEPT ![i] = new]
    BY <1>1 DEF Host!Ingest
  <2>2. new.file = f /\ f # NoFile
    BY QueueAssumption DEF Host!NoRow
  <2>3. Own!Present \subseteq Host!Present
    BY SameNames, OwnRowsAre DEF Host!Present, Host!InState
  <2>4. Own!IsNextId(i)
    BY <2>1, <2>3, SameNames DEF Own!IsNextId, Host!IsNextId
  <2>5. \A j \in Own!InState(Own!BusyStates) : OwnRows[j].file # f
    BY <1>1, SameNames, OwnRowsAre DEF Host!Ingest, Host!InState, Host!BusyStates, Busy
  <2>6. OwnRows' = [OwnRows EXCEPT ![i] = new]
    <3> HIDE DEF new
    <3>1. \A j \in JobIds : jobs'[j] = IF j = i THEN new ELSE jobs[j]
      BY <2>1 DEF TypeOK
    <3>2. OwnRows' = [j \in JobIds |-> IF jobs'[j].file # NoFile THEN jobs'[j] ELSE Host!NoRow]
      BY DEF OwnRows, IsOwn
    <3>3. OwnRows = [j \in JobIds |-> IF jobs[j].file # NoFile THEN jobs[j] ELSE Host!NoRow]
      BY DEF OwnRows, IsOwn
    <3>4. \A j \in JobIds : (IF jobs'[j].file # NoFile THEN jobs'[j] ELSE Host!NoRow)
                            = IF j = i THEN new ELSE OwnRows[j]
      BY <2>2, <3>1, <3>3
    <3> QED
      BY <3>2, <3>3, <3>4
  <2> QED
    BY <2>4, <2>5, <2>6, SameNames DEF Own!Ingest
<1>2. ASSUME NEW j \in JobIds, Host!Cancel(j) PROVE Own!Cancel(j)
  <2> DEFINE new == Host!CancelledRow(jobs[j])
  <2>1. jobs' = [jobs EXCEPT ![j] = new] /\ new.file = jobs[j].file
    BY <1>2, <1>types, <1>result, RowMoves DEF Host!Cancel, Moved
  <2>2. OwnRows' = IF IsOwn(j) THEN [OwnRows EXCEPT ![j] = new] ELSE OwnRows
    <3> HIDE DEF new
    <3> QED
      BY <2>1, OneOwnRow
  <2>3. OwnRows' = [OwnRows EXCEPT ![j] = Own!CancelledRow(@)]
    <3>1. CASE IsOwn(j)
      BY <2>2, <3>1, OwnRowsAre, SameRewrites
    <3>2. CASE ~IsOwn(j)
      BY <2>2, <3>2, OwnRowsAre, NoRowStays
    <3> QED
      BY <3>1, <3>2
  <2> QED
    BY <2>3 DEF Own!Cancel
<1>3. ASSUME NEW j \in JobIds, Host!Age(j) PROVE Own!Age(j) \/ UNCHANGED OwnRows
  <2> DEFINE new == [jobs[j] EXCEPT !.recent = FALSE]
  <2>1. jobs' = [jobs EXCEPT ![j] = new] /\ new.file = jobs[j].file
    BY <1>3, <1>types DEF Host!Age, Host!Row, TypeOK
  <2>2. OwnRows' = IF IsOwn(j) THEN [OwnRows EXCEPT ![j] = new] ELSE OwnRows
    <3> HIDE DEF new
    <3> QED
      BY <2>1, OneOwnRow
  <2>3. CASE IsOwn(j)
    <3>1. OwnRows[j] = jobs[j]
      BY <2>3, OwnRowsAre
    <3>2. OwnRows' = [OwnRows EXCEPT ![j].recent = FALSE]
      BY <2>2, <2>3, <3>1, OwnRowsAre
    <3> QED
      BY <1>3, <3>1, <3>2, SameNames DEF Own!Age, Host!Age
  <2> QED
    BY <2>2, <2>3
<1>4. ASSUME Host!CancelAll PROVE Own!CancelAll
  <2>1. \A j \in JobIds : /\ jobs'[j] = Host!CancelledRow(jobs[j])
                          /\ jobs'[j].file = jobs[j].file
    BY <1>4, <1>types, <1>result, RowMoves DEF Host!CancelAll, Moved
  <2>2. OwnRows' = [j \in JobIds |-> IF IsOwn(j) THEN jobs'[j] ELSE Host!NoRow]
    BY <2>1, AllOwnRows
  <2>3. \A j \in JobIds : (IF IsOwn(j) THEN jobs'[j] ELSE Host!NoRow) = Own!CancelledRow(OwnRows[j])
    BY <2>1, OwnRowsAre, NoRowStays, SameRewrites
  <2> QED
    BY <1>4, <2>2, <2>3, SameNames DEF Own!CancelAll, Host!CancelAll
<1>5. ASSUME NEW j \in JobIds, Host!ForceDelete(j) PROVE Own!ForceDelete(j) \/ UNCHANGED OwnRows
  <2>1. \A k \in JobIds : jobs'[k] = IF k = j THEN Host!NoRow ELSE jobs[k]
    BY <1>5 DEF Host!ForceDelete, TypeOK
  <2>2. OwnRows' = [k \in JobIds |-> IF jobs'[k].file # NoFile THEN jobs'[k] ELSE Host!NoRow]
    BY DEF OwnRows, IsOwn
  <2>3. OwnRows = [k \in JobIds |-> IF jobs[k].file # NoFile THEN jobs[k] ELSE Host!NoRow]
    BY DEF OwnRows, IsOwn
  <2>4. \A k \in JobIds : (IF jobs'[k].file # NoFile THEN jobs'[k] ELSE Host!NoRow)
                          = IF k = j THEN Host!NoRow ELSE OwnRows[k]
    BY <2>1, <2>3 DEF Host!NoRow
  <2>5. OwnRows' = [OwnRows EXCEPT ![j] = Host!NoRow]
    BY <2>2, <2>3, <2>4
  <2>6. CASE IsOwn(j)
    <3>1. j \in Own!Present
      BY <1>types, <2>6, SameNames, OwnRowsAre DEF RowsSane, Host!Row
    <3> QED
      BY <1>5, <2>5, <3>1, SameNames DEF Own!ForceDelete, Host!ForceDelete
  <2>7. CASE ~IsOwn(j)
    BY <2>3, <2>5, <2>7 DEF IsOwn
  <2> QED
    BY <2>6, <2>7
<1> QED
  BY <1>1, <1>2, <1>3, <1>4, <1>5, QueueKeeps, SameNames DEF Own!Next, Own!vars

(* A result that reaches the table: a row of the queue takes it as it would
   in HostQueue, and one under a key that is a mirror row's now is none of
   the queue's. *)
LEMMA FinishSeen ==
  ASSUME Inv, NEW t \in tasks, NEW result \in Host!Results, Host!Finish(DispatchOf(t), result)
  PROVE  \E r \in Own!Results : Own!Finish(DispatchOf(t), r)
<1> USE DEF Inv
<1> DEFINE j == t.job
<1>types. \A k \in JobIds : jobs[k] \in Host!Row
  BY DEF TypeOK
<1>1. j \in JobIds /\ DispatchOf(t).job = j /\ DispatchOf(t).node = Local
  BY DEF TypeOK, DispatchOf
<1>2. /\ UNCHANGED <<LocalLoopRuns, attempts, faults>>
      /\ {DispatchOf(u) : u \in tasks}' = {DispatchOf(u) : u \in tasks} \ {DispatchOf(t)}
  BY DEF Host!Finish
<1>3. ASSUME NEW r \in Host!Results,
             r = "cancelled" => OwnRows[j].state = "cancelling",
             OwnRows' = IF OwnRows[j].state \in Host!Active
                        THEN [OwnRows EXCEPT ![j].state = Host!OutcomeOf(r), ![j].recent = FALSE]
                        ELSE OwnRows
      PROVE  \E q \in Own!Results : Own!Finish(DispatchOf(t), q)
  <2>1. Own!OutcomeOf(r) = Host!OutcomeOf(r)
    BY DEF Own!OutcomeOf, Host!OutcomeOf
  <2>2. Own!Reportable(DispatchOf(t), r)
    BY <1>1, <1>3 DEF Own!Reportable
  <2>3. Own!ResultApplies(DispatchOf(t)) <=> OwnRows[j].state \in Host!Active
    BY <1>1, SameNames DEF Own!ResultApplies
  <2>4. OwnRows' = IF Own!ResultApplies(DispatchOf(t))
                   THEN [OwnRows EXCEPT ![DispatchOf(t).job].state = Own!OutcomeOf(r),
                                        ![DispatchOf(t).job].recent = FALSE]
                   ELSE OwnRows
    BY <1>1, <1>3, <2>1, <2>3
  <2>5. Own!Finish(DispatchOf(t), r)
    BY <1>2, <2>2, <2>4 DEF Own!Finish
  <2> QED
    BY <2>5, SameNames
<1>4. CASE jobs' = jobs /\ IsOwn(j)
  <2>1. OwnRows' = OwnRows /\ OwnRows[j] = jobs[j]
    BY <1>1, <1>4, SameRows, OwnRowsAre
  <2>2. CASE jobs[j].state \in Host!Active
    <3>1. jobs' = [jobs EXCEPT ![j].state = Host!OutcomeOf(result), ![j].recent = FALSE]
      BY <1>1, <2>2 DEF Host!Finish, Host!ResultApplies
    <3>2. jobs'[j].state = Host!OutcomeOf(result)
      BY <1>1, <1>types, <3>1 DEF TypeOK, Host!Row
    <3>3. Host!OutcomeOf(result) \in Host!Terminal
      BY OutcomeIsTerminal
    <3> QED
      BY <1>4, <2>2, <3>2, <3>3 DEF Host!Active, Host!Terminal
  <2>3. CASE jobs[j].state \notin Host!Active
    <3>1. result = "cancelled" => jobs[j].state = "cancelling"
      BY <1>1 DEF Host!Finish, Host!Reportable
    <3> QED
      BY <1>3, <2>1, <2>3, <3>1
  <2> QED
    BY <2>2, <2>3
<1>5. CASE jobs' # jobs /\ IsOwn(j)
  <2> DEFINE new == [jobs[j] EXCEPT !.state = Host!OutcomeOf(result), !.recent = FALSE]
  <2>1. jobs[j].state \in Host!Active
    BY <1>1, <1>5 DEF Host!Finish, Host!ResultApplies
  <2>2. jobs' = [jobs EXCEPT ![j].state = Host!OutcomeOf(result), ![j].recent = FALSE]
    BY <1>1, <2>1 DEF Host!Finish, Host!ResultApplies
  <2>3. jobs' = [jobs EXCEPT ![j] = new] /\ new.file = jobs[j].file
    BY <1>1, <1>types, <2>2 DEF TypeOK, Host!Row
  <2>4. OwnRows[j] = jobs[j] /\ OwnRows \in [JobIds -> Host!Row]
    BY <1>1, <1>5, OwnRowsAre
  <2>5. OwnRows' = [OwnRows EXCEPT ![j] = new]
    <3> HIDE DEF new
    <3> QED
      BY <1>1, <1>5, <2>3, OneOwnRow
  <2>6. OwnRows' = [OwnRows EXCEPT ![j].state = Host!OutcomeOf(result), ![j].recent = FALSE]
    BY <1>1, <2>4, <2>5 DEF Host!Row
  <2>7. result = "cancelled" => jobs[j].state = "cancelling"
    BY <1>1 DEF Host!Finish, Host!Reportable
  <2> QED
    BY <1>3, <2>1, <2>4, <2>6, <2>7
<1>6. CASE ~IsOwn(j)
  <2>1. OwnRows[j].state = "absent"
    BY <1>1, <1>6, OwnRowsAre
  <2>2. OwnRows' = OwnRows
    <3>1. CASE jobs' = jobs
      BY <3>1, SameRows
    <3>2. CASE jobs' # jobs
      <4> DEFINE new == [jobs[j] EXCEPT !.state = Host!OutcomeOf(result), !.recent = FALSE]
      <4>1. jobs' = [jobs EXCEPT ![j].state = Host!OutcomeOf(result), ![j].recent = FALSE]
        BY <1>1, <3>2 DEF Host!Finish
      <4>2. jobs' = [jobs EXCEPT ![j] = new] /\ new.file = jobs[j].file
        BY <1>1, <1>types, <4>1 DEF TypeOK, Host!Row
      <4> HIDE DEF new
      <4> QED
        BY <1>1, <1>6, <4>2, OneOwnRow
    <3> QED
      BY <3>1, <3>2
  <2>3. "encode_failed" \in Host!Results
    BY DEF Host!Results
  <2> QED
    BY <1>3, <2>1, <2>2, <2>3 DEF Host!Active
<1> QED
  BY <1>4, <1>5, <1>6

LEMMA ClaimSeen ==
  ASSUME Inv, ClaimLocally
  PROVE  Own!LocalClaim
<1> USE DEF Inv
<1>types. \A k \in JobIds : jobs[k] \in Host!Row
  BY DEF TypeOK
<1>1. PICK j \in JobIds :
        /\ Host!OldestQueued(j)
        /\ attempts[j] < MaxAttempts
        /\ jobs' = [jobs EXCEPT ![j].state = "running", ![j].node = Local, ![j].recent = TRUE]
        /\ attempts' = [attempts EXCEPT ![j] = @ + 1]
        /\ {DispatchOf(t) : t \in tasks}' = {DispatchOf(t) : t \in tasks} \cup
             {[node |-> Local, job |-> j, attempt |-> attempts[j] + 1]}
        /\ UNCHANGED <<LocalLoopRuns, faults>>
  BY DEF ClaimLocally, Host!LocalClaim, Host!ClaimFor
<1> DEFINE new == [jobs[j] EXCEPT !.state = "running", !.node = Local, !.recent = TRUE]
<1>2. jobs[j].state = "queued" /\ OwnRows[j] = jobs[j] /\ IsOwn(j)
  BY <1>1, OwnRowsAre DEF Host!OldestQueued, RowsSane
<1>3. Own!OldestQueued(j)
  BY <1>1, <1>2, OwnRowsAre, SameNames DEF Own!OldestQueued, Host!OldestQueued, Host!InState
<1>4. jobs' = [jobs EXCEPT ![j] = new] /\ new.file = jobs[j].file
  BY <1>1, <1>types DEF TypeOK, Host!Row
<1>5. OwnRows' = [OwnRows EXCEPT ![j] = new]
  <2> HIDE DEF new
  <2> QED
    BY <1>2, <1>4, OneOwnRow
<1>6. OwnRows' = [OwnRows EXCEPT ![j].state = "running", ![j].node = Local, ![j].recent = TRUE]
  BY <1>2, <1>5, OwnRowsAre DEF Host!Row
<1>7. LocalLoopRuns
  BY DEF ClaimLocally, Host!LocalClaim
<1> QED
  BY <1>1, <1>3, <1>6, <1>7, SameNames DEF Own!LocalClaim, Own!ClaimFor

(* The work for another host, which writes the table too. *)
LEMMA MirrorsSeen ==
  ASSUME Inv, HostWork
  PROVE  \/ UNCHANGED Own!vars
         \/ Misfiled /\ "purge" \in faults
<1> USE DEF Inv
<1>types. \A k \in JobIds : jobs[k] \in Host!Row
  BY DEF TypeOK
<1>0. UNCHANGED <<LocalLoopRuns, tasks, attempts, faults>>
  BY HostWorkKeeps DEF modeVars, LocalLoopRuns
<1>1. OwnRows' = OwnRows => UNCHANGED Own!vars
  BY <1>0 DEF Own!vars
<1>2. ASSUME NEW r \in RemoteJobs, ClaimFromHost(r) PROVE OwnRows' = OwnRows
  <2>1. PICK row \in JobIds \cup {NoMirror} : CreatesMirror(row)
    BY <1>2 DEF ClaimFromHost
  <2>2. CASE row = NoMirror
    BY <2>1, <2>2, SameRows DEF CreatesMirror
  <2>3. CASE row # NoMirror
    <3>1. row \in JobIds /\ Host!IsNextId(row) /\ jobs' = [jobs EXCEPT ![row] = MirrorRow]
      BY <2>1, <2>3 DEF CreatesMirror
    <3>2. jobs[row].state = "absent"
      BY <3>1, <1>types DEF Host!IsNextId, Host!Present, Host!InState, Host!Row
    <3>3. ~IsOwn(row)
      BY <3>1, <3>2 DEF RowsSane
    <3>4. MirrorRow.file = jobs[row].file
      BY <3>3 DEF MirrorRow, Host!NoRow, IsOwn
    <3> QED
      BY <3>1, <3>3, <3>4, OneOwnRow
  <2> QED
    BY <2>2, <2>3
<1>3. ASSUME NEW t \in hostTasks, NEW result \in Host!Results, FinalizeMirror(t, result)
      PROVE  OwnRows' = OwnRows \/ (Misfiled /\ "purge" \in faults)
  <2>1. CASE t.row \in Host!Present /\ jobs' = [jobs EXCEPT ![t.row] = Settled(@, result)]
    <3> DEFINE new == Settled(jobs[t.row], result)
    <3>1. t.row \in JobIds /\ jobs[t.row].state # "absent" /\ t.row # NoMirror
      BY <2>1 DEF Host!Present, Host!InState, NoMirror
    <3>2. jobs' = [jobs EXCEPT ![t.row] = new] /\ new.file = jobs[t.row].file
      BY <1>types, <2>1, <3>1, RowMoves DEF Moved
    <3>3. OwnRows' = IF IsOwn(t.row) THEN [OwnRows EXCEPT ![t.row] = new] ELSE OwnRows
      <4> HIDE DEF new
      <4> QED
        BY <3>1, <3>2, OneOwnRow
    <3>4. CASE IsOwn(t.row)
      <4>1. OwnRows[t.row] = jobs[t.row]
        BY <3>1, <3>4, OwnRowsAre
      <4>2. OwnRows' = [OwnRows EXCEPT ![t.row] = Settled(@, result)]
        BY <3>1, <3>3, <3>4, <4>1, OwnRowsAre
      <4> QED
        BY <1>0, <3>1, <3>4, <4>2 DEF Misfiled, MirrorsStand
    <3> QED
      BY <3>3, <3>4
  <2> QED
    BY <1>3, <2>1, SameRows DEF FinalizeMirror
<1>4. ASSUME \/ \E t \in hostTasks : HostTaskEnds(t)
             \/ \E c \in orphans : OrphanEnds(c)
      PROVE  OwnRows' = OwnRows
  BY <1>4, SameRows DEF HostTaskEnds, OrphanEnds, queueVars
<1> QED
  BY <1>1, <1>2, <1>3, <1>4 DEF HostWork

LEMMA OwnStep ==
  ASSUME Inv, [Next]_vars, "halt" \in faults
  PROVE  [Own!Next]_(Own!vars) \/ (Misfiled /\ "purge" \in faults)
<1> USE DEF Inv
<1> DEFINE Dispatches == {DispatchOf(t) : t \in tasks}
<1>still. UNCHANGED <<jobs, tasks, attempts, faults>> /\ LocalLoopRuns' = LocalLoopRuns
            => UNCHANGED Own!vars
  BY SameRows DEF Own!vars
<1>created. ASSUME NEW mode, Start(mode) PROVE LocalLoopRuns' = FALSE
  BY <1>created DEF Start, Created, NoLoop, LocalLoopRuns
<1>stop. ASSUME LocalLoopRuns, LocalLoopRuns' = FALSE, UNCHANGED <<jobs, tasks, attempts, faults>>
         PROVE  Own!Next
  BY <1>stop, SameRows DEF Own!StopLocalLoop, Own!Next
<1>1. CASE FirstMode \/ SwitchMode
  <2>1. LocalLoopRuns = FALSE /\ LocalLoopRuns' = FALSE
    BY <1>1, <1>created DEF FirstMode, SwitchMode, LocalLoopRuns, LoopSane
  <2> QED
    BY <1>1, <1>still, <2>1 DEF FirstMode, SwitchMode, queueVars
<1>2. CASE BeginDrain
  <2>1. LocalLoopRuns' = FALSE
    BY <1>2 DEF BeginDrain, LocalLoopRuns, TypeOK
  <2>2. UNCHANGED <<jobs, tasks, attempts, faults>>
    BY <1>2 DEF BeginDrain, queueVars
  <2>3. LocalLoopRuns \in BOOLEAN
    BY DEF LocalLoopRuns, TypeOK
  <2> QED
    BY <1>still, <1>stop, <2>1, <2>2, <2>3
<1>3. CASE DrainTimesOut
  <2> DEFINE D == {DispatchOf(t) : t \in {u \in tasks : Known(u)}}
  <2>1. LocalLoopRuns = FALSE
    BY <1>3 DEF DrainTimesOut, LoopSane, LocalLoopRuns
  <2>2. LocalLoopRuns' = FALSE
    BY <1>3, <1>created DEF DrainTimesOut
  <2>3. tasks' = {t \in tasks : ~Known(t)} /\ UNCHANGED <<jobs, attempts, faults>>
    BY <1>3 DEF DrainTimesOut, CancelTasks
  <2>4. D \in SUBSET {d \in Dispatches : d.node = Local}
    BY DEF DispatchOf
  <2>5. {d \in Dispatches : Own!Known(d)} \subseteq D
    BY DEF Own!Known, DispatchOf, TasksSane, Latest
  <2>6. {DispatchOf(t) : t \in tasks'} = Dispatches \ D
    <3>1. \A t, u \in tasks : DispatchOf(t) = DispatchOf(u) => (Known(t) <=> Known(u))
      BY DEF DispatchOf, Known, ClaimOf
    <3> QED
      BY <2>3, <3>1
  <2>7. Own!DrainGivenUp
    BY <2>1, <2>2, <2>3, <2>4, <2>5, <2>6, SameRows DEF Own!DrainGivenUp
  <2> QED
    BY <2>7 DEF Own!Next
<1>4. CASE BeginLocal
  <2>1. LocalLoopRuns = FALSE /\ LocalLoopRuns' = TRUE
    BY <1>4 DEF BeginLocal, LocalLoopRuns, LoopSane, TypeOK
  <2>2. \A d \in Dispatches : ~Own!Known(d)
    BY <1>4 DEF BeginLocal, Own!Known, DispatchOf, TasksSane, Latest
  <2>3. \A j \in JobIds : /\ jobs'[j] = Host!ReconciledRow(jobs[j])
                          /\ jobs'[j].file = jobs[j].file
    <3>1. "swapped" \in Host!Results /\ \A j \in JobIds : jobs[j] \in Host!Row
      BY DEF Host!Results, TypeOK
    <3> QED
      BY <1>4, <3>1, RowMoves DEF BeginLocal, Moved
  <2>4. OwnRows' = [j \in JobIds |-> IF IsOwn(j) THEN jobs'[j] ELSE Host!NoRow]
    BY <2>3, AllOwnRows
  <2>5. \A j \in JobIds : (IF IsOwn(j) THEN jobs'[j] ELSE Host!NoRow) = Own!ReconciledRow(OwnRows[j])
    BY <2>3, OwnRowsAre, NoRowStays, SameRewrites
  <2>6. OwnRows' = [j \in JobIds |-> Own!ReconciledRow(OwnRows[j])]
    BY <2>4, <2>5
  <2>7. Own!StartLocalLoop
    BY <1>4, <2>1, <2>2, <2>6, SameNames DEF BeginLocal, Own!StartLocalLoop
  <2> QED
    BY <2>7 DEF Own!Next
<1>5. CASE BeginRemote \/ Registered \/ LoopReturns \/ LocalLoopRaises \/ SupervisorFails
  <2>1. LocalLoopRuns' = LocalLoopRuns
    BY <1>5 DEF BeginRemote, Registered, LoopReturns, LocalLoopRaises, SupervisorFails,
       LocalLoopRuns, LoopSane, TypeOK
  <2> QED
    BY <1>5, <1>still, <2>1 DEF BeginRemote, Registered, LoopReturns, LocalLoopRaises,
       SupervisorFails, queueVars
<1>6. CASE LocalLoopFails
  <2>1. LocalLoopRuns /\ LocalLoopRuns' = FALSE
    BY <1>6 DEF LocalLoopFails, LocalLoopRuns, TypeOK
  <2> QED
    BY <1>6, <1>stop, <2>1 DEF LocalLoopFails, queueVars
<1>7. CASE Die
  <2>1. LocalLoopRuns' = FALSE /\ tasks' = {} /\ UNCHANGED <<jobs, attempts, faults>>
    BY <1>7 DEF Die, NoLoop, LocalLoopRuns
  <2>2. {d \in Dispatches : d.node # Local} = {}
    BY DEF DispatchOf
  <2>3. Own!Restart
    BY <1>7, <2>1, <2>2, SameRows DEF Own!Restart, Die
  <2> QED
    BY <2>3 DEF Own!Next
<1>8. CASE Restart \/ DisconnectPairing
           \/ (\E h \in Hosts : AcceptPairing(h) \/ RestartWhilePairing(h))
  BY <1>7, <1>8, <1>still DEF Restart, DisconnectPairing, AcceptPairing,
     RestartWhilePairing, queueVars, LocalLoopRuns
<1>9. CASE Reap \/ UNCHANGED vars
  BY <1>9, <1>still DEF Reap, vars, queueVars, modeVars, LocalLoopRuns
<1>10. CASE ClaimLocally
  BY <1>10, ClaimSeen DEF Own!Next
<1>11. ASSUME NEW t \in tasks, TaskStep(t) PROVE [Own!Next]_(Own!vars)
  <2>1. CASE \E result \in Host!Results : Host!Finish(DispatchOf(t), result)
    BY <2>1, FinishSeen DEF Own!Next
  <2>2. CASE UNCHANGED jobs /\ {DispatchOf(u) : u \in tasks'} = {DispatchOf(u) : u \in tasks}
    <3>1. UNCHANGED <<attempts, faults, loop>>
      BY <1>11, TaskEffect DEF modeVars
    <3> QED
      BY <2>2, <3>1, SameRows DEF Own!vars, LocalLoopRuns
  <2> QED
    BY <1>11, <2>1, <2>2, TaskEffect
<1>12. CASE QueueAction
  <2>1. UNCHANGED <<attempts, faults, LocalLoopRuns>>
    BY <1>12, QueueKeeps DEF modeVars, LocalLoopRuns
  <2>2. UNCHANGED {DispatchOf(t) : t \in tasks}
    BY <1>12, QueueKeeps DEF Host!Ingest, Host!Cancel, Host!ForceDelete, Host!Age, Host!CancelAll
  <2> QED
    BY <1>12, <2>1, <2>2, QueueHandlers
<1>13. CASE HostWork
  BY <1>13, MirrorsSeen
<1> QED
  BY <1>1, <1>2, <1>3, <1>4, <1>5, <1>6, <1>8, <1>9, <1>10, <1>11, <1>12, <1>13
  DEF Next, SupervisorStep, LoopStep, QueueAction, HostWork

(* Where the local loop may stop, as it does at every change of mode, the
   rows of the process's own queue take only the steps of HostQueue, with the
   one exception that ImplementsHost names.  It includes that the mirror rows
   in the same table, which the same handlers rewrite, are invisible to the
   queue: they are never claimed, and keep no file from being queued. *)
THEOREM ImplementsQueue ==
  ASSUME \A F \in Environments : "halt" \in F
  PROVE  Spec => ImplementsHost
<1>1. Init => Own!Init /\ "halt" \in faults
  BY SameNames DEF Init, Own!Init, Created, NoLoop, LocalLoopRuns, OwnRows, IsOwn, Host!NoRow
<1>2. Inv /\ "halt" \in faults /\ [Next]_vars
        => /\ ("halt" \in faults)'
           /\ [UNCHANGED Own!vars \/ Own!Next \/ Misfiled]_(Own!vars)
  BY OwnStep, RowEffects
<1> QED
  BY <1>1, <1>2, InvHolds, PTL DEF Spec, ImplementsHost

(* Where moreover no row is force-deleted, there is no exception. *)
LEMMA OwnSpecHolds ==
  ASSUME \A F \in Environments : "halt" \in F /\ "purge" \notin F
  PROVE  Spec => Own!Spec
<1>1. Init => Own!Init /\ "halt" \in faults /\ "purge" \notin faults
  BY SameNames DEF Init, Own!Init, Created, NoLoop, LocalLoopRuns, OwnRows, IsOwn, Host!NoRow
<1>2. Inv /\ ("halt" \in faults /\ "purge" \notin faults) /\ [Next]_vars
        => ("halt" \in faults /\ "purge" \notin faults)' /\ [Own!Next]_(Own!vars)
  BY OwnStep, RowEffects
<1> QED
  BY <1>1, <1>2, InvHolds, PTL DEF Spec, Own!Spec

-----------------------------------------------------------------------------
(* What HostQueueProofs proves holds of these rows. *)

Queue == INSTANCE HostQueueProofs WITH
  jobs        <- OwnRows,
  Remotes     <- {},
  nodes       <- {},
  silent      <- {},
  loopStarted <- LocalLoopRuns,
  dispatches  <- {DispatchOf(t) : t \in tasks}

(* Own and Queue are one module under two names. *)
LEMMA SameInit == Own!Init => Queue!Init
BY DEF Queue!Init, Own!Init, Queue!JobIds, Own!JobIds, Queue!NoRow, Own!NoRow

LEMMA SameNext == Own!Next => Queue!Next
BY DEF Queue!Next, Own!Next, Queue!LocalClaim, Own!LocalClaim, Queue!ClaimFor,
     Own!ClaimFor, Queue!OldestQueued, Own!OldestQueued, Queue!InState, Own!InState,
     Queue!JobIds, Own!JobIds, Queue!Ingest, Own!Ingest, Queue!RemoteClaim,
     Own!RemoteClaim, Queue!Register, Own!Register, Queue!Heartbeat, Own!Heartbeat,
     Queue!FallSilent, Own!FallSilent, Queue!DeleteNode, Own!DeleteNode, Queue!Finish,
     Own!Finish, Queue!ResultsLost, Own!ResultsLost, Queue!Cancel, Own!Cancel,
     Queue!ForceDelete, Own!ForceDelete, Queue!Age, Own!Age, Queue!CancelAll,
     Own!CancelAll, Queue!Sweep, Own!Sweep, Queue!Restart, Own!Restart,
     Queue!StopLocalLoop, Own!StopLocalLoop, Queue!DrainGivenUp, Own!DrainGivenUp,
     Queue!StartLocalLoop, Own!StartLocalLoop, Queue!BusyStates, Own!BusyStates,
     Queue!IsNextId, Own!IsNextId, Queue!Present, Own!Present, Queue!NoRow, Own!NoRow,
     Queue!States, Own!States, Queue!Active, Own!Active, Queue!Terminal, Own!Terminal,
     Queue!Results, Own!Results, Queue!Reportable, Own!Reportable, Queue!ResultApplies,
     Own!ResultApplies, Queue!OutcomeOf, Own!OutcomeOf, Queue!CancelledRow,
     Own!CancelledRow, Queue!ReviveJobsOf, Own!ReviveJobsOf, Queue!Revived, Own!Revived,
     Queue!RevivedRow, Own!RevivedRow, Queue!Known, Own!Known, Queue!ReconciledRow,
     Own!ReconciledRow

(* The rows of a process's own queue, too, keep what HostQueue promises,
   whatever its supervisor does to the local loop and whatever it does for
   other hosts: those in progress are the local node's, settled rows stay
   settled, no job is given out twice and no file has two rows, and they
   implement the ledger.  Force-deletes are left out: with them the result of
   another host's job may be filed under a row of the queue.  Rows may be
   stranded: the drain gives up on them. *)
THEOREM QueueHolds ==
  ASSUME \A F \in Environments : "halt" \in F /\ "purge" \notin F
  PROVE  Spec => /\ []Queue!Owned /\ Queue!SettledForGood
                 /\ []Queue!OneDispatchPerJob /\ []Queue!OneBusyRowPerFile
                 /\ Queue!LedgerSpec
<1>1. Queue!Spec => /\ []Queue!Owned /\ Queue!SettledForGood
                    /\ []Queue!OneDispatchPerJob /\ []Queue!OneBusyRowPerFile
                    /\ Queue!LedgerSpec
  BY QueueAssumption, EnvironmentsAssumption, Queue!OwnershipKept, Queue!SettledStaysSettled,
     Queue!DispatchedOnce, Queue!FileBusyOnce, Queue!ImplementsLedger
<1>2. Own!Spec => Queue!Spec
  <2>1. [Own!Next]_(Own!vars) => [Queue!Next]_(Queue!vars)
    BY SameNext DEF Queue!vars, Own!vars
  <2> QED
    BY <2>1, SameInit, PTL DEF Own!Spec, Queue!Spec
<1>3. Spec => Queue!Spec
  BY <1>2, OwnSpecHolds, PTL
<1> QED
  BY <1>1, <1>3, PTL
=============================================================================

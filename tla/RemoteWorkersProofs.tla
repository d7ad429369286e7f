------------------------- MODULE RemoteWorkersProofs -------------------------
(***************************************************************************)
(* Proofs about RemoteWorkers, for any number of workers, slots, files,    *)
(* rows and claims.  What HostQueueProofs shows of one step of the queue   *)
(* is cited from an instance of it.                                        *)
(***************************************************************************)
EXTENDS RemoteWorkers, FunctionTheorems, FiniteSetTheorems, TLAPS

Queue == INSTANCE HostQueueProofs

LEMMA SameType == Queue!TypeOK <=> Host!TypeOK
BY DEF Queue!TypeOK, Host!TypeOK, Queue!Dispatch, Host!Dispatch, Queue!JobIds, Host!JobIds,
     Queue!AllNodes, Host!AllNodes, Queue!Row, Host!Row, Queue!States, Host!States,
     Queue!Active, Host!Active, Queue!Terminal, Host!Terminal

LEMMA SameInit == Queue!Init <=> Host!Init
BY DEF Queue!Init, Host!Init, Queue!JobIds, Host!JobIds, Queue!NoRow, Host!NoRow

LEMMA SameNext == Queue!Next <=> Host!Next
BY DEF Queue!Next, Host!Next, Queue!LocalClaim, Host!LocalClaim, Queue!ClaimFor,
     Host!ClaimFor, Queue!OldestQueued, Host!OldestQueued, Queue!InState, Host!InState,
     Queue!JobIds, Host!JobIds, Queue!Ingest, Host!Ingest, Queue!RemoteClaim,
     Host!RemoteClaim, Queue!Register, Host!Register, Queue!Heartbeat, Host!Heartbeat,
     Queue!FallSilent, Host!FallSilent, Queue!DeleteNode, Host!DeleteNode, Queue!Finish,
     Host!Finish, Queue!ResultsLost, Host!ResultsLost, Queue!Cancel, Host!Cancel,
     Queue!ForceDelete, Host!ForceDelete, Queue!Age, Host!Age, Queue!CancelAll,
     Host!CancelAll, Queue!Sweep, Host!Sweep, Queue!Restart, Host!Restart,
     Queue!StopLocalLoop, Host!StopLocalLoop, Queue!DrainGivenUp, Host!DrainGivenUp,
     Queue!StartLocalLoop, Host!StartLocalLoop, Queue!BusyStates, Host!BusyStates,
     Queue!IsNextId, Host!IsNextId, Queue!Present, Host!Present, Queue!NoRow, Host!NoRow,
     Queue!States, Host!States, Queue!Active, Host!Active, Queue!Terminal, Host!Terminal,
     Queue!Results, Host!Results, Queue!Reportable, Host!Reportable, Queue!ResultApplies,
     Host!ResultApplies, Queue!OutcomeOf, Host!OutcomeOf, Queue!CancelledRow,
     Host!CancelledRow, Queue!ReviveJobsOf, Host!ReviveJobsOf, Queue!Revived, Host!Revived,
     Queue!RevivedRow, Host!RevivedRow, Queue!Known, Host!Known, Queue!ReconciledRow,
     Host!ReconciledRow

LEMMA QueueTypeStep == Host!TypeOK /\ [Host!Next]_(Host!vars) => Host!TypeOK'
<1>1. Queue!TypeOK /\ [Queue!Next]_(Queue!vars) => Queue!TypeOK'
  BY QueueAssumption, Queue!TypeStep
<1>2. [Host!Next]_(Host!vars) => [Queue!Next]_(Queue!vars)
  BY SameNext DEF Queue!vars, Host!vars
<1>3. Queue!TypeOK' <=> Host!TypeOK'
  BY SameType, PTL
<1> QED
  BY <1>1, <1>2, <1>3, SameType

LEMMA QueueInit == Host!Init => Host!TypeOK
BY QueueAssumption, Queue!TypeInit, SameType, SameInit

-----------------------------------------------------------------------------
(* Every claim is in one place at a time: in an answer, with a task that has
   not posted, or posted; and nothing is dated later than the table says. *)

Dated(d) == d.attempt <= attempts[d.job]

Placed ==
  /\ \A w \in Remotes : answer[w] # NoDispatch =>
       /\ answer[w] \in dispatches /\ answer[w].node = w
       /\ \A t \in tasks : t.of # answer[w]
       /\ \A m \in posted : m.of # answer[w]
  /\ \A t \in tasks :
       /\ t.of.node \in Remotes /\ Dated(t.of)
       /\ t.phase # "posted" => t.of \in dispatches /\ \A m \in posted : m.of # t.of
  /\ \A t, u \in tasks : t.of = u.of => t = u
  /\ \A m \in posted : m.of \in dispatches /\ m.of.node \in Remotes
  /\ \A m, n \in posted : m.of = n.of => m = n
  /\ \A d \in dispatches : Dated(d)

(* A result that says the file was swapped says the truth. *)
Truthful ==
  /\ \A t \in tasks : /\ t.result = "swapped" => t.of \in swapped
                      /\ t.phase \in {"report", "posted"} => t.result # "none"
  /\ \A m \in posted : m.result = "swapped" => m.of \in swapped

WorkersTyped ==
  /\ TypeOK
  /\ dispatches \subseteq Dispatch
  /\ posted \subseteq [of: Dispatch, result: Host!Results]
  /\ \A w \in Remotes, j \in JobIds :
       procs[w][j] # NoDispatch => procs[w][j].node = w /\ procs[w][j].job = j

BaseInv == Host!TypeOK /\ WorkersTyped /\ Placed /\ Truthful

USE DEF JobIds, Host!JobIds

(* How the host's side of a step may change the claims that are out: those of
   the remote nodes stay, but for E, and new ones are dated later. *)
ClaimsKept(E) ==
  /\ dispatches' \subseteq Dispatch
  /\ \A d \in dispatches : d.node \in Remotes /\ d \notin E => d \in dispatches'
  /\ \A j \in JobIds : attempts'[j] \in Nat /\ attempts[j] <= attempts'[j]
  /\ \A d \in dispatches' : d.attempt <= attempts'[d.job]

LEMMA ClaimEffect ==
  ASSUME BaseInv, NEW n \in Remotes \cup {Local}, Host!ClaimFor(n)
  PROVE  \E j \in JobIds :
           LET d == [node |-> n, job |-> j, attempt |-> attempts[j] + 1] IN
           /\ d \in Dispatch /\ d \notin dispatches
           /\ jobs[j].state = "queued"
           /\ jobs' = [jobs EXCEPT ![j].state = "running", ![j].node = n, ![j].recent = TRUE]
           /\ attempts' = [attempts EXCEPT ![j] = @ + 1]
           /\ dispatches' = dispatches \cup {d}
           /\ UNCHANGED <<nodes, silent, loopStarted, faults>>
<1>1. PICK j \in JobIds :
        /\ Host!OldestQueued(j)
        /\ attempts[j] < MaxAttempts
        /\ jobs' = [jobs EXCEPT ![j].state = "running", ![j].node = n, ![j].recent = TRUE]
        /\ attempts' = [attempts EXCEPT ![j] = @ + 1]
        /\ dispatches' = dispatches \cup {[node |-> n, job |-> j, attempt |-> attempts[j] + 1]}
        /\ UNCHANGED <<nodes, silent, loopStarted, faults>>
  BY DEF Host!ClaimFor
<1> DEFINE d == [node |-> n, job |-> j, attempt |-> attempts[j] + 1]
<1>2. attempts[j] \in Nat
  BY DEF BaseInv, Host!TypeOK
<1>3. d \in Dispatch
  BY <1>1, <1>2, QueueAssumption DEF Dispatch
<1>4. d \notin dispatches
  BY <1>2 DEF BaseInv, Placed, Dated
<1>5. jobs[j].state = "queued"
  BY <1>1 DEF Host!OldestQueued
<1> QED
  BY <1>1, <1>3, <1>4, <1>5

LEMMA ClaimKeeps ==
  ASSUME BaseInv, NEW n \in Remotes \cup {Local}, Host!ClaimFor(n)
  PROVE  ClaimsKept({})
<1>1. PICK j \in JobIds :
        LET d == [node |-> n, job |-> j, attempt |-> attempts[j] + 1] IN
        /\ d \in Dispatch
        /\ attempts' = [attempts EXCEPT ![j] = @ + 1]
        /\ dispatches' = dispatches \cup {d}
  BY ClaimEffect
<1> DEFINE d == [node |-> n, job |-> j, attempt |-> attempts[j] + 1]
<1>2. d \in Dispatch /\ dispatches' = dispatches \cup {d} /\ dispatches \subseteq Dispatch
  BY <1>1 DEF BaseInv, WorkersTyped
<1>3. \A k \in JobIds : attempts[k] \in Nat /\ attempts'[k] = IF k = j THEN attempts[k] + 1 ELSE attempts[k]
  BY <1>1 DEF BaseInv, Host!TypeOK
<1>4. \A e \in dispatches : e.job \in JobIds /\ e.attempt \in Nat /\ e.attempt <= attempts[e.job]
  BY DEF BaseInv, WorkersTyped, Dispatch, Placed, Dated
<1>5. \A e \in dispatches : e.attempt <= attempts'[e.job]
  BY <1>3, <1>4
<1>6. d.attempt <= attempts'[d.job]
  BY <1>3
<1> HIDE DEF d
<1> QED
  BY <1>2, <1>3, <1>5, <1>6 DEF ClaimsKept

LEMMA HostKeeps == ASSUME BaseInv, HostStep PROVE ClaimsKept({}) /\ UNCHANGED workerVars
<1>1. UNCHANGED workerVars
  BY DEF HostStep
<1>t. /\ \A d \in dispatches : d \in Dispatch /\ d.attempt <= attempts[d.job]
      /\ \A j \in JobIds : attempts[j] \in Nat
  BY DEF BaseInv, WorkersTyped, Placed, Dated, Host!TypeOK
<1>2. ASSUME dispatches' \subseteq dispatches, attempts' = attempts,
             \A d \in dispatches : d.node \in Remotes => d \in dispatches'
      PROVE  ClaimsKept({})
  <2>1. /\ dispatches' \subseteq Dispatch
        /\ \A d \in dispatches' : d.attempt <= attempts'[d.job]
    BY <1>t, <1>2
  <2>2. \A j \in JobIds : attempts'[j] \in Nat /\ attempts[j] <= attempts'[j]
    BY <1>t, <1>2
  <2> QED
    BY <2>1, <2>2, <1>2 DEF ClaimsKept
<1>3. CASE Host!LocalClaim
  BY <1>1, <1>3, ClaimKeeps DEF Host!LocalClaim
<1>4. CASE Host!Restart
  <2>1. attempts' = attempts /\ dispatches' = {d \in dispatches : d.node # Local}
    BY <1>4 DEF Host!Restart
  <2> QED
    BY <1>1, <1>2, <2>1, QueueAssumption
<1>5. CASE ~Host!LocalClaim /\ ~Host!Restart
  <2>1. dispatches' = dispatches /\ attempts' = attempts
    BY <1>5 DEF HostStep, Host!Ingest, Host!Cancel, Host!ForceDelete, Host!Age,
       Host!FallSilent, Host!DeleteNode, Host!Sweep, Host!StartLocalLoop
  <2> QED
    BY <1>1, <1>2, <2>1
<1> QED
  BY <1>1, <1>3, <1>4, <1>5

(* The workers' books as they stand, with other answers, tasks and posts. *)
(* What the conjuncts of the invariant say of a claim's numbers. *)
LEMMA Numbers ==
  ASSUME BaseInv
  PROVE  /\ \A t \in tasks : t \in Task /\ t.of.job \in JobIds /\ t.of.attempt \in Nat
         /\ \A d \in dispatches : d \in Dispatch /\ d.job \in JobIds /\ d.attempt \in Nat
         /\ \A j \in JobIds : attempts[j] \in Nat
         /\ \A w \in Remotes : answer[w] # NoDispatch => answer[w] \in Dispatch
<1>1. \A d \in Dispatch : d.job \in JobIds /\ d.attempt \in Nat /\ d.node \in Remotes \cup {Local}
  BY DEF Dispatch
<1>2. \A t \in Task : t.of \in Dispatch
  BY DEF Task
<1> QED
  BY <1>1, <1>2 DEF BaseInv, WorkersTyped, TypeOK, Host!TypeOK

(* Answers, tasks and posts may go; what stays must not be among the claims
   that go. *)
LEMMA StillPlaced ==
  ASSUME BaseInv, NEW E, ClaimsKept(E),
         tasks' \subseteq tasks, posted' \subseteq posted,
         \A w \in Remotes : answer'[w] # NoDispatch =>
           answer'[w] = answer[w] /\ answer'[w] \notin E,
         \A t \in tasks' : t.phase # "posted" => t.of \notin E,
         \A m \in posted' : m.of \notin E
  PROVE  Placed'
<1>1. \A w \in Remotes : answer'[w] # NoDispatch =>
        /\ answer'[w] \in dispatches' /\ answer'[w].node = w
        /\ \A t \in tasks' : t.of # answer'[w]
        /\ \A m \in posted' : m.of # answer'[w]
  BY DEF Placed, BaseInv, ClaimsKept
<1>2. \A t \in tasks : t.of.node \in Remotes /\ t.of.attempt <= attempts'[t.of.job]
  <2>1. \A t \in tasks : /\ t.of.job \in JobIds /\ t.of.attempt \in Nat
                         /\ t.of.attempt <= attempts[t.of.job]
    BY Numbers DEF BaseInv, Placed, Dated
  <2>2. \A j \in JobIds : attempts[j] \in Nat /\ attempts'[j] \in Nat
    BY Numbers DEF ClaimsKept
  <2>3. \A t \in tasks : t.of.node \in Remotes
    BY DEF BaseInv, Placed
  <2> QED
    BY <2>1, <2>2, <2>3 DEF ClaimsKept
<1>3. \A t \in tasks' : t.phase # "posted" =>
        t.of \in dispatches' /\ \A m \in posted' : m.of # t.of
  BY DEF Placed, BaseInv, ClaimsKept
<1>4. \A m \in posted' : m.of \in dispatches' /\ m.of.node \in Remotes
  BY DEF Placed, BaseInv, ClaimsKept
<1>5. \A d \in dispatches' : d.attempt <= attempts'[d.job]
  BY DEF ClaimsKept
<1>6. /\ \A t, u \in tasks' : t.of = u.of => t = u
      /\ \A m, n \in posted' : m.of = n.of => m = n
  BY DEF Placed, BaseInv
<1> QED
  BY <1>1, <1>2, <1>3, <1>4, <1>5, <1>6 DEF Placed, Dated

(* Tasks may change, but not what they encode, and not back from posted. *)
LEMMA RewrittenPlaced ==
  ASSUME BaseInv, UNCHANGED <<answer, posted, dispatches, attempts>>,
         \A t \in tasks' : \E s \in tasks :
           t.of = s.of /\ (t.phase # "posted" => s.phase # "posted"),
         \A t, u \in tasks' : t.of = u.of => t = u
  PROVE  Placed'
<1>1. Placed
  BY DEF BaseInv
<1>2. \A t \in tasks' :
        /\ t.of.node \in Remotes /\ t.of.attempt <= attempts[t.of.job]
        /\ t.phase # "posted" => t.of \in dispatches /\ \A m \in posted : m.of # t.of
        /\ \A w \in Remotes : answer[w] # NoDispatch => t.of # answer[w]
  BY <1>1 DEF Placed, Dated
<1> QED
  BY <1>1, <1>2 DEF Placed, Dated

LEMMA HostStays == ASSUME BaseInv, UNCHANGED hostVars PROVE ClaimsKept({})
BY Numbers DEF hostVars, ClaimsKept, BaseInv, Placed, Dated

LEMMA HostLoses ==
  ASSUME BaseInv, NEW E, dispatches' = dispatches \ E, attempts' = attempts
  PROVE  ClaimsKept(E)
<1>1. \A d \in dispatches : d \in Dispatch /\ d.job \in JobIds /\ d.attempt <= attempts[d.job]
  BY Numbers DEF BaseInv, Placed, Dated
<1>2. \A j \in JobIds : attempts[j] \in Nat
  BY Numbers
<1> QED
  BY <1>1, <1>2 DEF ClaimsKept

LEMMA ForgetPlaced == ASSUME BaseInv, NEW w \in Remotes, Forget(w) PROVE Placed'
<1> DEFINE E == {d \in dispatches : d.node = w} \ {m.of : m \in posted}
<1>1. dispatches' = dispatches \ E /\ attempts' = attempts /\ posted' = posted
  BY DEF Forget, Host!ResultsLost
<1>2. ClaimsKept(E)
  BY <1>1, HostLoses
<1>3. tasks' = {t \in tasks : t.of.node # w}
  BY DEF Forget, TasksOf
<1>4. \A v \in Remotes : answer'[v] # NoDispatch => v # w /\ answer'[v] = answer[v]
  BY DEF Forget, BaseInv, WorkersTyped, TypeOK
<1>5. \A v \in Remotes : answer'[v] # NoDispatch => answer'[v] = answer[v] /\ answer'[v] \notin E
  BY <1>4 DEF BaseInv, Placed
<1>6. \A t \in tasks' : t.of \notin E
  BY <1>3
<1>7. \A m \in posted' : m.of \notin E
  BY <1>1
<1> HIDE DEF E
<1> QED
  BY <1>1, <1>2, <1>3, <1>5, <1>6, <1>7, StillPlaced
LEMMA AskPlaced == ASSUME BaseInv, NEW w \in Remotes, AskClaim(w) PROVE Placed'
<1>1. PICK j \in JobIds :
        LET d == [node |-> w, job |-> j, attempt |-> attempts[j] + 1] IN
        /\ d \in Dispatch /\ d \notin dispatches
        /\ attempts' = [attempts EXCEPT ![j] = @ + 1]
        /\ dispatches' = dispatches \cup {d}
  BY ClaimEffect DEF AskClaim, Host!RemoteClaim
<1> DEFINE d == [node |-> w, job |-> j, attempt |-> attempts[j] + 1]
<1>2. ClaimsKept({})
  BY ClaimKeeps DEF AskClaim, Host!RemoteClaim
<1>3. answer' = [answer EXCEPT ![w] = d] /\ tasks' = tasks /\ posted' = posted
  BY <1>1 DEF AskClaim
<1>4. \A e \in dispatches \cup {t.of : t \in tasks} : e # d
  <2>1. \A t \in tasks : t.of.job = j => t.of.attempt <= attempts[j]
    BY DEF BaseInv, Placed, Dated
  <2>2. attempts[j] \in Nat
    BY Numbers
  <2>3. \A t \in tasks : t.of # d
    BY <2>1, <2>2
  <2> QED
    BY <1>1, <2>3
<1>5. d.node = w /\ d \in dispatches'
  BY <1>1
<1> HIDE DEF d
<1>6. \A v \in Remotes : answer'[v] = IF v = w THEN d ELSE answer[v]
  BY <1>3 DEF BaseInv, WorkersTyped, TypeOK
<1>7. \A v \in Remotes : answer'[v] # NoDispatch =>
        /\ answer'[v] \in dispatches' /\ answer'[v].node = v
        /\ \A t \in tasks' : t.of # answer'[v]
        /\ \A m \in posted' : m.of # answer'[v]
  BY <1>2, <1>3, <1>4, <1>5, <1>6 DEF BaseInv, Placed, ClaimsKept
<1>8. \A t \in tasks' :
        /\ t.of.node \in Remotes /\ t.of.attempt <= attempts'[t.of.job]
        /\ t.phase # "posted" => t.of \in dispatches' /\ \A m \in posted' : m.of # t.of
  <2>1. \A t \in tasks : t.of.job \in JobIds /\ t.of.attempt \in Nat /\ t.of.attempt <= attempts[t.of.job]
    BY Numbers DEF BaseInv, Placed, Dated
  <2>2. \A k \in JobIds : attempts[k] \in Nat /\ attempts'[k] \in Nat /\ attempts[k] <= attempts'[k]
    BY <1>2, Numbers DEF ClaimsKept
  <2>3. \A t \in tasks : t.of.attempt <= attempts'[t.of.job]
    BY <2>1, <2>2
  <2> QED
    BY <1>2, <1>3, <2>3 DEF BaseInv, Placed, ClaimsKept
<1>9. /\ \A m \in posted' : m.of \in dispatches' /\ m.of.node \in Remotes
      /\ \A t, u \in tasks' : t.of = u.of => t = u
      /\ \A m, n \in posted' : m.of = n.of => m = n
      /\ \A e \in dispatches' : e.attempt <= attempts'[e.job]
  BY <1>2, <1>3 DEF BaseInv, Placed, ClaimsKept
<1> QED
  BY <1>7, <1>8, <1>9 DEF Placed, Dated

LEMMA TakePlaced == ASSUME BaseInv, NEW w \in Remotes, TakeClaim(w) PROVE Placed'
<1> DEFINE d == answer[w]
<1>1. /\ d # NoDispatch /\ d \in dispatches /\ d.node = w
      /\ \A t \in tasks : t.of # d
      /\ \A m \in posted : m.of # d
      /\ d.attempt <= attempts[d.job]
  BY DEF BaseInv, Placed, TakeClaim, Dated
<1>2. /\ tasks' = tasks \cup {NewTask(d)} /\ NewTask(d).of = d
      /\ UNCHANGED <<dispatches, attempts, posted>>
  BY DEF TakeClaim, NewTask, hostVars
<1>3. \A v \in Remotes : answer'[v] = IF v = w THEN NoDispatch ELSE answer[v]
  BY DEF BaseInv, WorkersTyped, TypeOK, TakeClaim
<1> HIDE DEF d
<1>4. \A v \in Remotes : v # w /\ answer[v] # NoDispatch => answer[v] # d
  BY <1>1 DEF BaseInv, Placed
<1>5. \A v \in Remotes : answer'[v] # NoDispatch =>
        /\ answer'[v] \in dispatches' /\ answer'[v].node = v
        /\ \A t \in tasks' : t.of # answer'[v]
        /\ \A m \in posted' : m.of # answer'[v]
  BY <1>2, <1>3, <1>4 DEF BaseInv, Placed
<1>6. \A t \in tasks' :
        /\ t.of.node \in Remotes /\ t.of.attempt <= attempts'[t.of.job]
        /\ t.phase # "posted" => t.of \in dispatches' /\ \A m \in posted' : m.of # t.of
  BY <1>1, <1>2 DEF BaseInv, Placed, Dated
<1>7. \A t, u \in tasks' : t.of = u.of => t = u
  BY <1>1, <1>2 DEF BaseInv, Placed
<1> QED
  BY <1>2, <1>5, <1>6, <1>7 DEF BaseInv, Placed, Dated

(* Replacing a task by one for the same claim. *)
LEMMA ReplacedPlaced ==
  ASSUME BaseInv, NEW t \in tasks, NEW u, Replace(t, u), u.of = t.of, t.phase # "posted",
         UNCHANGED <<answer, posted, dispatches, attempts>>
  PROVE  Placed'
<1>1. \A s \in tasks' : s = u \/ (s \in tasks /\ s # t)
  BY DEF Replace
<1>2. \A s \in tasks : s.of = t.of => s = t
  BY DEF BaseInv, Placed
<1>3. \A s, v \in tasks : s.of = v.of => s = v
  BY DEF BaseInv, Placed
<1>4. \A s, v \in tasks' : s.of = v.of => s = v
  BY <1>1, <1>2, <1>3
<1>5. \A s \in tasks' : \E v \in tasks :
        s.of = v.of /\ (s.phase # "posted" => v.phase # "posted")
  BY <1>1
<1> QED
  BY <1>4, <1>5, RewrittenPlaced

LEMMA PostPlaced == ASSUME BaseInv, NEW t \in tasks, PostResult(t) PROVE Placed'
<1>1. PICK u : u.of = t.of /\ u.phase = "posted" /\ Replace(t, u)
  BY Numbers DEF PostResult, Task
<1>2. PICK p : p.of = t.of /\ posted' = posted \cup {p}
  BY DEF PostResult
<1>3. UNCHANGED <<answer, dispatches, attempts>> /\ t.phase = "report"
  BY DEF PostResult, hostVars
<1>4. \A s \in tasks' : s = u \/ (s \in tasks /\ s # t)
  BY <1>1 DEF Replace
<1>5. /\ \A s, v \in tasks : s.of = v.of => s = v
      /\ t.of \in dispatches /\ t.of.node \in Remotes
      /\ \A m \in posted : m.of # t.of
      /\ \A w \in Remotes : answer[w] # NoDispatch => t.of # answer[w]
      /\ t.of.attempt <= attempts[t.of.job]
  BY <1>3 DEF BaseInv, Placed, Dated
<1>6. \A s, v \in tasks' : s.of = v.of => s = v
  BY <1>1, <1>4, <1>5
<1>7. \A s \in tasks' :
        /\ s.of.node \in Remotes /\ s.of.attempt <= attempts'[s.of.job]
        /\ s.phase # "posted" => s.of \in dispatches' /\ \A m \in posted' : m.of # s.of
  <2> QED
    BY <1>1, <1>2, <1>3, <1>4, <1>5 DEF BaseInv, Placed, Dated
<1>8. \A w \in Remotes : answer'[w] # NoDispatch =>
        /\ answer'[w] \in dispatches' /\ answer'[w].node = w
        /\ \A s \in tasks' : s.of # answer'[w]
        /\ \A m \in posted' : m.of # answer'[w]
  BY <1>1, <1>2, <1>3, <1>4, <1>5 DEF BaseInv, Placed
<1>9. /\ \A m \in posted' : m.of \in dispatches' /\ m.of.node \in Remotes
      /\ \A m, n \in posted' : m.of = n.of => m = n
  BY <1>2, <1>3, <1>5 DEF BaseInv, Placed
<1> QED
  BY <1>3, <1>6, <1>7, <1>8, <1>9 DEF BaseInv, Placed, Dated
(* What a task becomes in each step, by field. *)
LEMMA TaskFields ==
  ASSUME NEW t \in Task
  PROVE  /\ \A p \in {"encode", "posted"} :
              LET u == [t EXCEPT !.phase = p] IN
              /\ p = "encode" => u \in Task
              /\ p = "posted" => u \in Task
              /\ u.of = t.of /\ u.phase = p /\ u.result = t.result /\ u.killed = t.killed
         /\ \A r \in Host!Results :
              LET u == [t EXCEPT !.phase = "report", !.result = r] IN
              u \in Task /\ u.of = t.of /\ u.phase = "report" /\ u.result = r /\ u.killed = t.killed
         /\ LET u == [t EXCEPT !.killed = TRUE] IN
            u \in Task /\ u.of = t.of /\ u.phase = t.phase /\ u.result = t.result /\ u.killed = TRUE
BY DEF Task

LEMMA ReportFields ==
  ASSUME NEW t \in Task, NEW r \in Host!Results
  PROVE  LET u == [t EXCEPT !.phase = "report", !.result = r] IN
         u \in Task /\ u.of = t.of /\ u.phase = "report" /\ u.result = r /\ u.killed = t.killed
BY DEF Task

LEMMA ResultKnown ==
  ASSUME NEW w, NEW j, NEW encoded \in Host!Results PROVE ResultOf(w, j, encoded) \in Host!Results
BY DEF ResultOf, Host!Results

LEMMA HeardTasks ==
  ASSUME BaseInv, NEW w \in Remotes, NEW j \in JobIds, CancelHeard(w, j)
  PROVE  /\ tasks' \subseteq Task
         /\ \A t \in tasks' : \E s \in tasks :
              /\ t.of = s.of /\ t.phase = s.phase /\ t.result = s.result
              /\ \/ t = s
                 \/ /\ t.killed /\ s.phase = "encode" /\ s.of = procs[w][j]
                    /\ procs[w][j] # NoDispatch
         /\ \A t \in tasks : \E s \in tasks' :
              t.of = s.of /\ t.phase = s.phase /\ t.result = s.result
<1> DEFINE Killed(t) == Signalled(w, j) /\ t.phase = "encode" /\ t.of = procs[w][j]
           New(t) == IF Killed(t) THEN [t EXCEPT !.killed = TRUE] ELSE t
<1>1. tasks' = {New(t) : t \in tasks}
  BY DEF CancelHeard
<1>2. \A t \in tasks : /\ New(t) \in Task
                       /\ New(t).of = t.of /\ New(t).phase = t.phase /\ New(t).result = t.result
                       /\ New(t) = t \/ (New(t).killed /\ Killed(t))
  BY Numbers, TaskFields
<1>3. \A t : Killed(t) => t.phase = "encode" /\ t.of = procs[w][j] /\ procs[w][j] # NoDispatch
  BY DEF Signalled
<1> HIDE DEF New, Killed
<1> QED
  BY <1>1, <1>2, <1>3

LEMMA HeardPlaced ==
  ASSUME BaseInv, NEW w \in Remotes, NEW j \in JobIds, CancelHeard(w, j) PROVE Placed'
<1> DEFINE Killed(t) == Signalled(w, j) /\ t.phase = "encode" /\ t.of = procs[w][j]
           New(t) == IF Killed(t) THEN [t EXCEPT !.killed = TRUE] ELSE t
<1>1. tasks' = {New(t) : t \in tasks}
  BY DEF CancelHeard
<1>2. \A t \in tasks : New(t).of = t.of /\ New(t).phase = t.phase
  BY Numbers, TaskFields
<1>3. \A s, t \in tasks : s.of = t.of => s = t
  BY DEF BaseInv, Placed
<1> HIDE DEF New
<1>4. \A t, u \in tasks' : t.of = u.of => t = u
  BY <1>1, <1>2, <1>3
<1>5. \A t \in tasks' : \E s \in tasks : t.of = s.of /\ (t.phase # "posted" => s.phase # "posted")
  BY <1>1, <1>2
<1> QED
  BY <1>4, <1>5, RewrittenPlaced DEF CancelHeard, hostVars

LEMMA PlacedStep == ASSUME BaseInv, Next PROVE Placed'
<1>1. CASE HostStep
  BY <1>1, HostKeeps, StillPlaced DEF workerVars
<1>2. ASSUME NEW d \in dispatches, NEW result \in Host!Results, LocalFinish(d, result)
      PROVE  Placed'
  <2>1. ClaimsKept({d}) /\ d.node \notin Remotes
    BY <1>2, HostLoses, QueueAssumption DEF LocalFinish, Host!Finish
  <2>2. /\ \A w \in Remotes : answer[w] # NoDispatch => answer[w] # d
        /\ \A t \in tasks : t.of # d
        /\ \A m \in posted : m.of # d
    BY <2>1 DEF BaseInv, Placed
  <2> QED
    BY <1>2, <2>1, <2>2, StillPlaced DEF LocalFinish
<1>3. ASSUME NEW w \in Remotes, WorkerStep(w)
      PROVE  Placed'
  <2>1. ASSUME UNCHANGED <<answer, tasks, posted, dispatches, attempts>>
        PROVE  Placed'
    <3>1. ClaimsKept({})
      <4>1. dispatches' = dispatches \ {}
        BY <2>1
      <4> QED
        BY <2>1, <4>1, HostLoses
    <3> QED
      BY <2>1, <3>1, StillPlaced
  <2>2. CASE StartWorker(w) \/ Reap(w) \/ Beat(w)
    BY <2>1, <2>2 DEF StartWorker, Reap, Beat, Host!Register, Host!Heartbeat, hostVars
  <2>3. CASE (StopWorker(w) /\ answer[w] # NoDispatch) \/ ClaimAnswerLost(w)
    <3>1. /\ dispatches' = dispatches \ {answer[w]} /\ attempts' = attempts
          /\ answer' = [answer EXCEPT ![w] = NoDispatch] /\ UNCHANGED <<tasks, posted>>
          /\ answer[w] # NoDispatch
      BY <2>3 DEF StopWorker, ClaimAnswerLost, Host!ResultsLost
    <3>2. \A v \in Remotes : answer'[v] # NoDispatch => answer'[v] = answer[v] /\ v # w
      BY <3>1 DEF BaseInv, WorkersTyped, TypeOK
    <3>3. \A v \in Remotes : answer'[v] # NoDispatch => answer'[v] \notin {answer[w]}
      BY <3>1, <3>2 DEF BaseInv, Placed
    <3>4. ClaimsKept({answer[w]})
      BY <3>1, HostLoses
    <3>5. /\ \A t \in tasks : t.of # answer[w]
          /\ \A m \in posted : m.of # answer[w]
      BY <3>1 DEF BaseInv, Placed
    <3> QED
      BY <3>1, <3>2, <3>3, <3>4, <3>5, StillPlaced
  <2>4. CASE StopWorker(w) /\ answer[w] = NoDispatch
    <3>1. answer' = answer
      BY <2>4 DEF StopWorker, BaseInv, WorkersTyped, TypeOK
    <3> QED
      BY <2>1, <2>4, <3>1 DEF StopWorker, hostVars
  <2>5. CASE Drained(w) \/ WorkerDies(w)
    BY <2>5, ForgetPlaced DEF Drained, WorkerDies
  <2>6. CASE AskClaim(w)
    BY <2>6, AskPlaced
  <2>7. CASE TakeClaim(w)
    BY <2>7, TakePlaced
  <2>8. ASSUME NEW j \in JobIds, CancelHeard(w, j) \/ NoticeLost(w, j)
        PROVE  Placed'
    <3>1. CASE NoticeLost(w, j)
      BY <2>1, <3>1 DEF NoticeLost, hostVars
    <3> QED
      BY <2>8, <3>1, HeardPlaced
  <2> QED
    BY <1>3, <2>2, <2>3, <2>4, <2>5, <2>6, <2>7, <2>8 DEF WorkerStep
<1>4. ASSUME NEW t \in tasks, TaskStep(t)
      PROVE  Placed'
  <2>0. t \in Task
    BY Numbers
  <2>1. CASE Launch(t)
    <3>1. [t EXCEPT !.phase = "encode"].of = t.of
      BY <2>0, TaskFields
    <3> QED
      BY <2>1, <3>1, ReplacedPlaced DEF Launch, hostVars
  <2>2. CASE LaunchFails(t)
    <3>1. [t EXCEPT !.phase = "report", !.result = "encode_failed"].of = t.of
      BY <2>0, TaskFields DEF Host!Results
    <3> QED
      BY <2>2, <3>1, ReplacedPlaced DEF LaunchFails, hostVars
  <2>3. ASSUME NEW encoded \in Host!Results, EncodeEnds(t, encoded)
        PROVE  Placed'
    <3> DEFINE r == ResultOf(t.of.node, t.of.job, encoded)
    <3>1. r \in Host!Results /\ Replace(t, [t EXCEPT !.phase = "report", !.result = r])
      BY <2>3, ResultKnown DEF EncodeEnds
    <3> HIDE DEF r
    <3>2. [t EXCEPT !.phase = "report", !.result = r].of = t.of
      BY <2>0, <3>1, TaskFields
    <3> QED
      BY <2>3, <3>1, <3>2, ReplacedPlaced DEF EncodeEnds, hostVars
  <2>4. CASE PostResult(t)
    BY <2>4, PostPlaced
  <2>5. CASE TaskReturns(t) \/ ProgressAnswered(t)
    <3>1. ClaimsKept({})
      BY <2>5, HostStays DEF TaskReturns, ProgressAnswered
    <3>2. tasks' \subseteq tasks /\ answer' = answer /\ posted' = posted
      BY <2>5 DEF TaskReturns, ProgressAnswered
    <3> QED
      BY <3>1, <3>2, StillPlaced
  <2> QED
    BY <1>4, <2>1, <2>2, <2>3, <2>4, <2>5 DEF TaskStep
<1>5. ASSUME NEW m \in posted, FinishArrives(m) \/ FinishLost(m)
      PROVE  Placed'
  <2>1. /\ dispatches' = dispatches \ {m.of} /\ attempts' = attempts
        /\ posted' = posted \ {m} /\ UNCHANGED <<answer, tasks>>
    BY <1>5 DEF FinishArrives, FinishLost, Host!Finish, Host!ResultsLost
  <2>2. ClaimsKept({m.of})
    BY <2>1, HostLoses
  <2>3. /\ \A w \in Remotes : answer[w] # NoDispatch => answer[w] # m.of
        /\ \A t \in tasks : t.phase # "posted" => t.of # m.of
        /\ \A n \in posted' : n.of # m.of
    BY <2>1 DEF BaseInv, Placed
  <2> QED
    BY <2>1, <2>2, <2>3, StillPlaced
<1> QED
  BY <1>1, <1>2, <1>3, <1>4, <1>5 DEF Next
-----------------------------------------------------------------------------
(* Every step of the workers is a step of the queue, or none. *)

LEMMA HostMoves == ASSUME BaseInv, Next PROVE Host!Next \/ UNCHANGED hostVars
<1>1. CASE HostStep
  BY <1>1 DEF HostStep, Host!Next
<1>2. CASE \E d \in dispatches, result \in Host!Results : LocalFinish(d, result)
  BY <1>2 DEF LocalFinish, Host!Next
<1>3. ASSUME NEW w \in Remotes, WorkerStep(w)
      PROVE  Host!Next \/ UNCHANGED hostVars
  <2>1. CASE StartWorker(w) \/ Beat(w) \/ AskClaim(w)
    BY <2>1 DEF StartWorker, Beat, AskClaim, Host!Next
  <2>2. ASSUME NEW D \in SUBSET dispatches, Host!ResultsLost(D) PROVE Host!Next
    BY <2>2 DEF Host!Next
  <2>3. answer[w] # NoDispatch => {answer[w]} \in SUBSET dispatches
    BY DEF BaseInv, Placed
  <2>4. CASE StopWorker(w) \/ ClaimAnswerLost(w)
    BY <2>2, <2>3, <2>4 DEF StopWorker, ClaimAnswerLost
  <2>5. CASE Drained(w) \/ WorkerDies(w)
    <3>1. {d \in dispatches : d.node = w} \ {m.of : m \in posted} \in SUBSET dispatches
      OBVIOUS
    <3> QED
      BY <2>2, <2>5, <3>1 DEF Drained, WorkerDies, Forget
  <2>6. CASE Reap(w) \/ TakeClaim(w) \/ \E j \in JobIds : CancelHeard(w, j) \/ NoticeLost(w, j)
    BY <2>6 DEF Reap, TakeClaim, CancelHeard, NoticeLost
  <2> QED
    BY <1>3, <2>1, <2>4, <2>5, <2>6 DEF WorkerStep
<1>4. CASE \E t \in tasks : TaskStep(t)
  BY <1>4 DEF TaskStep, Launch, LaunchFails, PostResult, TaskReturns, ProgressAnswered, EncodeEnds
<1>5. ASSUME NEW m \in posted, FinishArrives(m) \/ FinishLost(m)
      PROVE  Host!Next \/ UNCHANGED hostVars
  <2>1. m.of \in dispatches /\ m.result \in Host!Results
    BY DEF BaseInv, Placed, WorkersTyped
  <2>2. {m.of} \in SUBSET dispatches
    BY <2>1
  <2> QED
    BY <1>5, <2>1, <2>2 DEF FinishArrives, FinishLost, Host!Next
<1> QED
  BY <1>1, <1>2, <1>3, <1>4, <1>5 DEF Next

LEMMA HostImplements ==
  BaseInv /\ [Next]_vars => [Host!Next]_(Host!vars)
BY HostMoves DEF vars, hostVars, Host!vars

-----------------------------------------------------------------------------
(* Types. *)

LEMMA DispatchesTyped == ASSUME BaseInv, Next PROVE dispatches' \subseteq Dispatch
<1>0. dispatches \subseteq Dispatch
  BY DEF BaseInv, WorkersTyped
<1>1. CASE HostStep
  BY <1>1, HostKeeps DEF ClaimsKept
<1>2. ASSUME NEW w \in Remotes, AskClaim(w) PROVE dispatches' \subseteq Dispatch
  BY <1>2, ClaimKeeps DEF AskClaim, Host!RemoteClaim, ClaimsKept
<1>3. ASSUME NEW w \in Remotes, WorkerStep(w), ~AskClaim(w) PROVE dispatches' \subseteq dispatches
  BY <1>3 DEF WorkerStep, StartWorker, StopWorker, Drained, WorkerDies, Forget, Reap, TakeClaim,
     ClaimAnswerLost, Beat, CancelHeard, NoticeLost, Host!Register, Host!Heartbeat,
     Host!ResultsLost, hostVars
<1>4. ASSUME NEW t \in tasks, TaskStep(t) PROVE dispatches' = dispatches
  BY <1>4 DEF TaskStep, Launch, LaunchFails, PostResult, TaskReturns, ProgressAnswered, EncodeEnds,
     hostVars
<1>5. ASSUME NEW m \in posted, FinishArrives(m) \/ FinishLost(m) PROVE dispatches' \subseteq dispatches
  BY <1>5 DEF FinishArrives, FinishLost, Host!Finish, Host!ResultsLost
<1>6. ASSUME NEW d \in dispatches, NEW result \in Host!Results, LocalFinish(d, result)
      PROVE  dispatches' \subseteq dispatches
  BY <1>6 DEF LocalFinish, Host!Finish
<1> QED
  BY <1>0, <1>1, <1>2, <1>3, <1>4, <1>5, <1>6 DEF Next

(* What TypeOK and WorkersTyped say of the workers' books alone. *)
Books ==
  /\ mode \in [Remotes -> {"off", "run", "drain"}]
  /\ answer \in [Remotes -> Dispatch \cup {NoDispatch}]
  /\ tasks \subseteq Task
  /\ running \in [Remotes -> [JobIds -> Dispatch \cup {NoDispatch}]]
  /\ procs \in [Remotes -> [JobIds -> Dispatch \cup {NoDispatch}]]
  /\ cancelReq \in [Remotes -> SUBSET JobIds]
  /\ notices \in [Remotes -> SUBSET JobIds]
  /\ swapped \subseteq Dispatch
  /\ posted \subseteq [of: Dispatch, result: Host!Results]
  /\ \A w \in Remotes, j \in JobIds :
       procs[w][j] # NoDispatch => procs[w][j].node = w /\ procs[w][j].job = j

LEMMA BooksStay == ASSUME Books, UNCHANGED workerVars PROVE Books'
BY DEF Books, workerVars

(* One entry of a two-level dictionary is set. *)
LEMMA EntrySet ==
  ASSUME NEW book \in [Remotes -> [JobIds -> Dispatch \cup {NoDispatch}]],
         NEW w \in Remotes, NEW j \in JobIds, NEW d \in Dispatch \cup {NoDispatch}
  PROVE  LET new == [book EXCEPT ![w][j] = d] IN
         /\ new \in [Remotes -> [JobIds -> Dispatch \cup {NoDispatch}]]
         /\ \A v \in Remotes, k \in JobIds :
              new[v][k] = IF v = w /\ k = j THEN d ELSE book[v][k]
OBVIOUS

LEMMA EntryCleared ==
  ASSUME NEW book \in [Remotes -> [JobIds -> Dispatch \cup {NoDispatch}]],
         NEW w \in Remotes, NEW j \in JobIds
  PROVE  LET new == [book EXCEPT ![w][j] = NoDispatch] IN
         /\ new \in [Remotes -> [JobIds -> Dispatch \cup {NoDispatch}]]
         /\ \A v \in Remotes, k \in JobIds :
              new[v][k] = IF v = w /\ k = j THEN NoDispatch ELSE book[v][k]
BY NoDispatch \in Dispatch \cup {NoDispatch}, EntrySet

LEMMA WorkerBooks ==
  ASSUME BaseInv, Books, NEW w \in Remotes, WorkerStep(w)
  PROVE  Books'
<1>1. CASE StartWorker(w) \/ StopWorker(w)
  <2>1. /\ mode' \in [Remotes -> {"off", "run", "drain"}]
        /\ answer' \in [Remotes -> Dispatch \cup {NoDispatch}]
    BY <1>1 DEF Books, StartWorker, StopWorker
  <2>2. UNCHANGED <<tasks, running, procs, cancelReq, notices, posted, swapped>>
    BY <1>1 DEF StartWorker, StopWorker
  <2> QED
    BY <2>1, <2>2 DEF Books
<1>2. CASE Drained(w) \/ WorkerDies(w)
  <2>1. Forget(w)
    BY <1>2 DEF Drained, WorkerDies
  <2>2. /\ mode' \in [Remotes -> {"off", "run", "drain"}]
        /\ answer' \in [Remotes -> Dispatch \cup {NoDispatch}]
        /\ cancelReq' \in [Remotes -> SUBSET JobIds]
        /\ notices' \in [Remotes -> SUBSET JobIds]
        /\ tasks' \subseteq tasks /\ posted' = posted /\ swapped' = swapped
    BY <2>1 DEF Books, Forget
  <2> DEFINE none == [j \in JobIds |-> NoDispatch]
  <2>3. none \in [JobIds -> Dispatch \cup {NoDispatch}] /\ \A j \in JobIds : none[j] = NoDispatch
    OBVIOUS
  <2>4. running' = [running EXCEPT ![w] = none] /\ procs' = [procs EXCEPT ![w] = none]
    BY <2>1 DEF Forget
  <2> HIDE DEF none
  <2>5. /\ running' \in [Remotes -> [JobIds -> Dispatch \cup {NoDispatch}]]
        /\ procs' \in [Remotes -> [JobIds -> Dispatch \cup {NoDispatch}]]
    BY <2>3, <2>4 DEF Books
  <2>6. \A v \in Remotes, j \in JobIds : procs'[v][j] # NoDispatch => procs'[v][j] = procs[v][j]
    BY <2>3, <2>4 DEF Books
  <2> QED
    BY <2>2, <2>5, <2>6 DEF Books
<1>3. CASE Reap(w)
  <2> DEFINE Kept(j) == IF \E t \in tasks : t.of = running[w][j] THEN running[w][j] ELSE NoDispatch
  <2>1. \A j \in JobIds : Kept(j) \in Dispatch \cup {NoDispatch}
    <3>1. \A j \in JobIds : Kept(j) \in {running[w][j], NoDispatch}
      OBVIOUS
    <3>2. running[w] \in [JobIds -> Dispatch \cup {NoDispatch}]
      BY DEF Books
    <3>3. \A j \in JobIds : running[w][j] \in Dispatch \cup {NoDispatch}
      BY <3>2
    <3> QED
      BY <3>1, <3>3
  <2>2. running' = [running EXCEPT ![w] = [j \in JobIds |-> Kept(j)]]
    BY <1>3 DEF Reap
  <2> HIDE DEF Kept
  <2>3. [j \in JobIds |-> Kept(j)] \in [JobIds -> Dispatch \cup {NoDispatch}]
    BY <2>1
  <2>4. running' \in [Remotes -> [JobIds -> Dispatch \cup {NoDispatch}]]
    BY <2>2, <2>3 DEF Books
  <2> QED
    BY <1>3, <2>4 DEF Books, Reap
<1>4. CASE AskClaim(w)
  <2>1. \E d \in Dispatch : answer' = [answer EXCEPT ![w] = d]
    BY <1>4, ClaimKeeps DEF AskClaim, Host!RemoteClaim, ClaimsKept
  <2> QED
    BY <1>4, <2>1 DEF Books, AskClaim
<1>5. CASE TakeClaim(w)
  <2>1. answer[w] \in Dispatch /\ answer[w].job \in JobIds
    BY <1>5 DEF TakeClaim, Books, Dispatch
  <2>2. NewTask(answer[w]) \in Task
    BY <2>1 DEF NewTask, Task
  <2>3. running' \in [Remotes -> [JobIds -> Dispatch \cup {NoDispatch}]]
    BY <1>5, <2>1, EntrySet DEF TakeClaim, Books
  <2> QED
    BY <1>5, <2>2, <2>3 DEF Books, TakeClaim
<1>6. CASE ClaimAnswerLost(w)
  BY <1>6 DEF Books, ClaimAnswerLost
<1>7. CASE Beat(w)
  <2>1. CancellationsFor(w, Entries(running, w)) \subseteq JobIds
    BY DEF CancellationsFor, Entries
  <2>2. notices' \in [Remotes -> SUBSET JobIds]
    BY <1>7, <2>1 DEF Books, Beat
  <2> QED
    BY <1>7, <2>2 DEF Books, Beat
<1>8. ASSUME NEW j \in JobIds, CancelHeard(w, j)
      PROVE  Books'
  <2>1. tasks' \subseteq Task
    BY <1>8, HeardTasks
  <2>2. cancelReq' \in [Remotes -> SUBSET JobIds] /\ notices' \in [Remotes -> SUBSET JobIds]
    BY <1>8 DEF CancelHeard, Books
  <2> QED
    BY <1>8, <2>1, <2>2 DEF CancelHeard, Books
<1>9. ASSUME NEW j \in JobIds, NoticeLost(w, j)
      PROVE  Books'
  BY <1>9 DEF NoticeLost, Books
<1> QED
  BY <1>1, <1>2, <1>3, <1>4, <1>5, <1>6, <1>7, <1>8, <1>9 DEF WorkerStep
LEMMA TaskBooks ==
  ASSUME BaseInv, Books, NEW t \in tasks, TaskStep(t)
  PROVE  Books'
<1>0. t \in Task /\ t.of \in Dispatch /\ t.of.node \in Remotes /\ t.of.job \in JobIds
  BY Numbers DEF BaseInv, Placed, Task
<1>1. ASSUME NEW u \in Task, Replace(t, u) PROVE tasks' \subseteq Task
  BY <1>1 DEF Replace, Books
<1>2. CASE Launch(t)
  <2>1. [t EXCEPT !.phase = "encode"] \in Task
    BY <1>0, TaskFields
  <2>2. tasks' \subseteq Task
    BY <1>1, <1>2, <2>1 DEF Launch
  <2>3. procs' = [procs EXCEPT ![t.of.node][t.of.job] = t.of]
    BY <1>2 DEF Launch
  <2>4. /\ procs' \in [Remotes -> [JobIds -> Dispatch \cup {NoDispatch}]]
        /\ \A w \in Remotes, j \in JobIds :
             procs'[w][j] = IF w = t.of.node /\ j = t.of.job THEN t.of ELSE procs[w][j]
    BY <1>0, <2>3, EntrySet DEF Books
  <2>5. UNCHANGED <<mode, answer, running, cancelReq, notices, posted, swapped>>
    BY <1>2 DEF Launch
  <2> QED
    BY <2>2, <2>4, <2>5 DEF Books
<1>3. CASE LaunchFails(t)
  <2>1. [t EXCEPT !.phase = "report", !.result = "encode_failed"] \in Task
    BY <1>0, TaskFields DEF Host!Results
  <2>2. tasks' \subseteq Task
    BY <1>1, <1>3, <2>1 DEF LaunchFails
  <2> QED
    BY <1>3, <2>2 DEF Books, LaunchFails
<1>4. ASSUME NEW encoded \in Host!Results, EncodeEnds(t, encoded)
      PROVE  Books'
  <2> DEFINE r == ResultOf(t.of.node, t.of.job, encoded)
             u == [t EXCEPT !.phase = "report", !.result = r]
  <2>1. r \in Host!Results /\ Replace(t, u)
    BY <1>4, ResultKnown DEF EncodeEnds
  <2> HIDE DEF r
  <2>2. u \in Task
    BY <1>0, <2>1, TaskFields
  <2> HIDE DEF u
  <2>3. tasks' \subseteq Task
    BY <1>1, <2>1, <2>2
  <2>4. procs' = [procs EXCEPT ![t.of.node][t.of.job] = NoDispatch]
    BY <1>4 DEF EncodeEnds
  <2>5. /\ procs' \in [Remotes -> [JobIds -> Dispatch \cup {NoDispatch}]]
        /\ \A w \in Remotes, j \in JobIds :
             procs'[w][j] = IF w = t.of.node /\ j = t.of.job THEN NoDispatch ELSE procs[w][j]
    <3>1. procs \in [Remotes -> [JobIds -> Dispatch \cup {NoDispatch}]]
      BY DEF Books
    <3> QED
      BY <1>0, <2>4, <3>1, EntryCleared
  <2>6. cancelReq' \in [Remotes -> SUBSET JobIds]
    BY <1>4 DEF EncodeEnds, Books
  <2>7. swapped' \subseteq Dispatch
    BY <1>0, <1>4 DEF EncodeEnds, Books
  <2>8. UNCHANGED <<mode, answer, running, notices, posted>>
    BY <1>4 DEF EncodeEnds
  <2> QED
    BY <2>3, <2>5, <2>6, <2>7, <2>8 DEF Books
<1>5. CASE PostResult(t)
  <2>1. [t EXCEPT !.phase = "posted"] \in Task
    BY <1>0, TaskFields
  <2>2. tasks' \subseteq Task
    BY <1>1, <1>5, <2>1 DEF PostResult
  <2>3. t.result \in Host!Results
    BY <1>0, <1>5 DEF PostResult, BaseInv, Truthful, Task
  <2>4. [of |-> t.of, result |-> t.result] \in [of: Dispatch, result: Host!Results]
    BY <1>0, <2>3
  <2> QED
    BY <1>5, <2>2, <2>4 DEF Books, PostResult
<1>6. CASE TaskReturns(t)
  BY <1>6 DEF Books, TaskReturns
<1>7. CASE ProgressAnswered(t)
  BY <1>0, <1>7 DEF Books, ProgressAnswered
<1> QED
  BY <1>2, <1>3, <1>4, <1>5, <1>6, <1>7 DEF TaskStep

LEMMA BooksStep == ASSUME BaseInv, Next PROVE Books'
<1>0. Books
  BY DEF BaseInv, WorkersTyped, TypeOK, Books
<1>1. CASE HostStep
  BY <1>0, <1>1, BooksStay DEF HostStep
<1>2. ASSUME NEW d \in dispatches, NEW result \in Host!Results, LocalFinish(d, result)
      PROVE  Books'
  <2>1. d \in Dispatch
    BY Numbers
  <2>2. swapped' \subseteq Dispatch
    BY <1>0, <1>2, <2>1 DEF Books, LocalFinish
  <2> QED
    BY <1>0, <1>2, <2>2 DEF Books, LocalFinish
<1>3. ASSUME NEW m \in posted, FinishArrives(m) \/ FinishLost(m)
      PROVE  Books'
  BY <1>0, <1>3 DEF Books, FinishArrives, FinishLost
<1> QED
  BY <1>0, <1>1, <1>2, <1>3, WorkerBooks, TaskBooks DEF Next

(* Only the host's steps give a key to a new row. *)
LEMMA PastStays == ASSUME Next, ~HostStep PROVE past' = past
<1>1. CASE \E d \in dispatches, result \in Host!Results : LocalFinish(d, result)
  BY <1>1 DEF LocalFinish
<1>2. CASE \E w \in Remotes : WorkerStep(w)
  BY <1>2 DEF WorkerStep, StartWorker, StopWorker, Drained, WorkerDies, Forget, Reap, AskClaim,
     TakeClaim, ClaimAnswerLost, Beat, CancelHeard, NoticeLost
<1>3. CASE \E t \in tasks : TaskStep(t)
  BY <1>3 DEF TaskStep, Launch, LaunchFails, PostResult, TaskReturns, ProgressAnswered, EncodeEnds
<1>4. CASE \E m \in posted : FinishArrives(m) \/ FinishLost(m)
  BY <1>4 DEF FinishArrives, FinishLost
<1> QED
  BY <1>1, <1>2, <1>3, <1>4 DEF Next

LEMMA PastTyped ==
  ASSUME BaseInv, Next PROVE past' \in [JobIds -> [claims: Nat, out: SUBSET Dispatch]]
<1>0. past \in [JobIds -> [claims: Nat, out: SUBSET Dispatch]]
  BY DEF BaseInv, WorkersTyped, TypeOK
<1>1. CASE ~HostStep
  BY <1>0, <1>1, PastStays
<1>2. CASE HostStep
  <2>1. \A j \in JobIds : attempts[j] \in Nat /\ OutUnder(j) \in SUBSET Dispatch
    BY DEF BaseInv, Host!TypeOK, WorkersTyped, OutUnder
  <2> QED
    BY <1>0, <1>2, <2>1 DEF HostStep, KeysPassOn
<1> QED
  BY <1>1, <1>2

LEMMA TypedStep == ASSUME BaseInv, Next PROVE WorkersTyped'
<1>1. Books' /\ Placed' /\ dispatches' \subseteq Dispatch
  BY BooksStep, PlacedStep, DispatchesTyped
<1>3. past' \in [JobIds -> [claims: Nat, out: SUBSET Dispatch]]
  BY PastTyped
<1>2. {m.of : m \in posted'} \subseteq dispatches'
  BY <1>1 DEF Placed
<1> QED
  BY <1>1, <1>2, <1>3 DEF Books, WorkersTyped, TypeOK

-----------------------------------------------------------------------------
(* Keys that were used before.  A claim that is out is of the present row of
   its key, or was out already when the row was inserted. *)

Dating ==
  /\ \A j \in JobIds : past[j].claims <= attempts[j]
  /\ \A d \in dispatches : ClaimOf(d, d.job)

(* A claim handed out is of a queued row, and later than all of its key. *)
Fresh(d) == jobs[d.job].state = "queued" /\ attempts[d.job] < d.attempt

LEMMA ClaimFresh ==
  ASSUME BaseInv, NEW n \in Remotes \cup {Local}, Host!ClaimFor(n)
  PROVE  \A d \in dispatches' \ dispatches : Fresh(d)
<1>1. PICK j \in JobIds :
        LET d == [node |-> n, job |-> j, attempt |-> attempts[j] + 1] IN
        jobs[j].state = "queued" /\ dispatches' = dispatches \cup {d}
  BY ClaimEffect
<1>2. attempts[j] \in Nat
  BY DEF BaseInv, Host!TypeOK
<1> QED
  BY <1>1, <1>2 DEF Fresh

LEMMA NewFresh == ASSUME BaseInv, Next PROVE \A d \in dispatches' \ dispatches : Fresh(d)
<1>1. CASE HostStep
  <2>1. CASE Host!LocalClaim
    BY <2>1, ClaimFresh DEF Host!LocalClaim
  <2>2. CASE ~Host!LocalClaim
    <3>1. dispatches' \subseteq dispatches
      BY <1>1, <2>2 DEF HostStep, Host!Ingest, Host!Cancel, Host!ForceDelete, Host!Age, Host!Restart,
         Host!FallSilent, Host!DeleteNode, Host!Sweep, Host!StartLocalLoop
    <3> QED
      BY <3>1
  <2> QED
    BY <2>1, <2>2
<1>2. ASSUME NEW w \in Remotes, AskClaim(w) PROVE \A d \in dispatches' \ dispatches : Fresh(d)
  BY <1>2, ClaimFresh DEF AskClaim, Host!RemoteClaim
<1>3. ASSUME NEW w \in Remotes, WorkerStep(w), ~AskClaim(w) PROVE dispatches' \subseteq dispatches
  BY <1>3 DEF WorkerStep, StartWorker, StopWorker, Drained, WorkerDies, Forget, Reap, TakeClaim,
     ClaimAnswerLost, Beat, CancelHeard, NoticeLost, Host!Register, Host!Heartbeat,
     Host!ResultsLost, hostVars
<1>4. ASSUME NEW t \in tasks, TaskStep(t) PROVE dispatches' = dispatches
  BY <1>4 DEF TaskStep, Launch, LaunchFails, PostResult, TaskReturns, ProgressAnswered, EncodeEnds,
     hostVars
<1>5. ASSUME NEW m \in posted, FinishArrives(m) \/ FinishLost(m) PROVE dispatches' \subseteq dispatches
  BY <1>5 DEF FinishArrives, FinishLost, Host!Finish, Host!ResultsLost
<1>6. ASSUME NEW d \in dispatches, NEW result \in Host!Results, LocalFinish(d, result)
      PROVE  dispatches' \subseteq dispatches
  BY <1>6 DEF LocalFinish, Host!Finish
<1> QED
  BY <1>1, <1>2, <1>3, <1>4, <1>5, <1>6 DEF Next

LEMMA AttemptsRise ==
  ASSUME BaseInv, Next
  PROVE  \A j \in JobIds : attempts'[j] \in Nat /\ attempts[j] <= attempts'[j]
<1>1. CASE HostStep
  BY <1>1, HostKeeps DEF ClaimsKept
<1>2. ASSUME NEW w \in Remotes, AskClaim(w)
      PROVE  \A j \in JobIds : attempts'[j] \in Nat /\ attempts[j] <= attempts'[j]
  BY <1>2, ClaimKeeps DEF AskClaim, Host!RemoteClaim, ClaimsKept
<1>3. ASSUME NEW w \in Remotes, WorkerStep(w), ~AskClaim(w) PROVE attempts' = attempts
  BY <1>3 DEF WorkerStep, StartWorker, StopWorker, Drained, WorkerDies, Forget, Reap, TakeClaim,
     ClaimAnswerLost, Beat, CancelHeard, NoticeLost, Host!Register, Host!Heartbeat,
     Host!ResultsLost, hostVars
<1>4. ASSUME NEW t \in tasks, TaskStep(t) PROVE attempts' = attempts
  BY <1>4 DEF TaskStep, Launch, LaunchFails, PostResult, TaskReturns, ProgressAnswered, EncodeEnds,
     hostVars
<1>5. ASSUME NEW m \in posted, FinishArrives(m) \/ FinishLost(m) PROVE attempts' = attempts
  BY <1>5 DEF FinishArrives, FinishLost, Host!Finish, Host!ResultsLost
<1>6. ASSUME NEW d \in dispatches, NEW result \in Host!Results, LocalFinish(d, result)
      PROVE  attempts' = attempts
  BY <1>6 DEF LocalFinish, Host!Finish
<1>7. attempts' = attempts \/ (\A j \in JobIds : attempts'[j] \in Nat /\ attempts[j] <= attempts'[j])
  BY <1>1, <1>2, <1>3, <1>4, <1>5, <1>6 DEF Next
<1>8. \A j \in JobIds : attempts[j] \in Nat
  BY DEF BaseInv, Host!TypeOK
<1> QED
  BY <1>7, <1>8

LEMMA DatingStep == ASSUME BaseInv, Dating, Next PROVE Dating'
<1>1. /\ \A j \in JobIds : attempts[j] \in Nat /\ past[j].claims \in Nat
      /\ \A d \in dispatches \cup dispatches' : d.job \in JobIds /\ d.attempt \in Nat
  <2>1. \A j \in JobIds : attempts[j] \in Nat
    BY DEF BaseInv, Host!TypeOK
  <2>2. \A j \in JobIds : past[j].claims \in Nat
    BY DEF BaseInv, WorkersTyped, TypeOK
  <2>3. dispatches \subseteq Dispatch /\ dispatches' \subseteq Dispatch
    BY DispatchesTyped DEF BaseInv, WorkersTyped
  <2>4. \A d \in Dispatch : d.job \in JobIds /\ d.attempt \in Nat
    BY QueueAssumption DEF Dispatch
  <2> QED
    BY <2>1, <2>2, <2>3, <2>4
<1>2. \A d \in dispatches' \ dispatches : Fresh(d)
  BY NewFresh
<1>3. \A j \in JobIds : attempts'[j] \in Nat /\ attempts[j] <= attempts'[j]
  BY AttemptsRise
<1>4. CASE ~HostStep
  <2>1. past' = past
    BY <1>4, PastStays
  <2>2. \A j \in JobIds : past[j].claims <= attempts'[j]
    BY <1>1, <1>3 DEF Dating
  <2>3. ASSUME NEW d \in dispatches', d \notin dispatches PROVE ClaimOf(d, d.job)
    BY <1>1, <1>2, <2>3 DEF Dating, ClaimOf, Fresh
  <2>4. \A d \in dispatches' : ClaimOf(d, d.job)
    BY <2>3 DEF Dating
  <2> QED
    BY <2>1, <2>2, <2>4 DEF Dating, ClaimOf
<1>5. CASE HostStep
  <2> DEFINE new(j) == jobs[j].state = "absent" /\ jobs'[j].state # "absent"
  <2>1. \A j \in JobIds : past'[j] = IF new(j) THEN [claims |-> attempts[j], out |-> OutUnder(j)]
                                    ELSE past[j]
    BY <1>5 DEF HostStep, KeysPassOn
  <2>2. ASSUME NEW j \in JobIds, new(j)
        PROVE  past'[j].claims = attempts[j] /\ past'[j].out = OutUnder(j)
    <3>1. past'[j] = [claims |-> attempts[j], out |-> OutUnder(j)]
      BY <2>1, <2>2
    <3> QED
      BY <3>1
  <2> HIDE DEF new
  <2>3. ASSUME NEW j \in JobIds PROVE past'[j].claims <= attempts'[j]
    <3>1. CASE new(j)
      BY <1>3, <2>2, <3>1
    <3>2. CASE ~new(j)
      <4>1. past'[j] = past[j]
        BY <2>1, <3>2
      <4>2. past[j].claims <= attempts[j]
        BY DEF Dating
      <4> QED
        BY <1>1, <1>3, <4>1, <4>2
    <3> QED
      BY <3>1, <3>2
  <2>4. ASSUME NEW d \in dispatches', d \notin dispatches PROVE ClaimOf(d, d.job)'
    <3>1. jobs[d.job].state = "queued" /\ attempts[d.job] < d.attempt
      BY <1>2, <2>4 DEF Fresh
    <3>2. past'[d.job] = past[d.job]
      BY <1>1, <2>1, <3>1 DEF new
    <3> QED
      BY <1>1, <3>1, <3>2 DEF Dating, ClaimOf
  <2>5. ASSUME NEW d \in dispatches PROVE ClaimOf(d, d.job)'
    <3>0. d.job \in JobIds
      BY <1>1
    <3>1. CASE new(d.job)
      <4>1. d \in past'[d.job].out
        BY <3>0, <2>2, <3>1 DEF OutUnder
      <4> QED
        BY <4>1 DEF ClaimOf
    <3>2. CASE ~new(d.job)
      <4>1. past'[d.job] = past[d.job]
        BY <3>0, <2>1, <3>2
      <4>2. ClaimOf(d, d.job)
        BY DEF Dating
      <4> QED
        BY <4>1, <4>2 DEF ClaimOf
    <3> QED
      BY <3>1, <3>2
  <2> QED
    BY <2>3, <2>4, <2>5 DEF Dating
<1> QED
  BY <1>4, <1>5

-----------------------------------------------------------------------------
(* Results. *)

LEMMA TruthfulStep == ASSUME BaseInv, Next PROVE Truthful'
<1>0. Truthful
  BY DEF BaseInv
<1>1. ASSUME tasks' \subseteq tasks, posted' \subseteq posted, swapped \subseteq swapped'
      PROVE  Truthful'
  BY <1>0, <1>1 DEF Truthful
<1>2. CASE HostStep \/ (\E d \in dispatches, result \in Host!Results : LocalFinish(d, result))
           \/ \E m \in posted : FinishArrives(m) \/ FinishLost(m)
  BY <1>1, <1>2 DEF HostStep, workerVars, LocalFinish, FinishArrives, FinishLost
<1>3. ASSUME NEW w \in Remotes, WorkerStep(w)
      PROVE  Truthful'
  <2>1. CASE TakeClaim(w)
    BY <1>0, <2>1 DEF TakeClaim, NewTask, Truthful
  <2>2. ASSUME NEW j \in JobIds, CancelHeard(w, j)
        PROVE  Truthful'
    <3>1. \A t \in tasks' : \E s \in tasks :
            t.of = s.of /\ t.phase = s.phase /\ t.result = s.result
      BY <2>2, HeardTasks
    <3>2. posted' = posted /\ swapped' = swapped
      BY <2>2 DEF CancelHeard
    <3> QED
      BY <1>0, <3>1, <3>2 DEF Truthful
  <2>3. CASE StartWorker(w) \/ StopWorker(w) \/ Drained(w) \/ WorkerDies(w) \/ Reap(w)
             \/ AskClaim(w) \/ ClaimAnswerLost(w) \/ Beat(w)
             \/ \E j \in JobIds : NoticeLost(w, j)
    BY <1>1, <2>3 DEF StartWorker, StopWorker, Drained, WorkerDies, Forget, Reap, AskClaim,
       ClaimAnswerLost, Beat, NoticeLost
  <2> QED
    BY <1>3, <2>1, <2>2, <2>3 DEF WorkerStep
<1>4. ASSUME NEW t \in tasks, TaskStep(t)
      PROVE  Truthful'
  <2>0. t \in Task
    BY Numbers
  <2>1. ASSUME NEW u, Replace(t, u), posted' = posted, swapped \subseteq swapped',
               u.result = "swapped" => u.of \in swapped',
               u.phase \in {"report", "posted"} => u.result # "none"
        PROVE  Truthful'
    BY <1>0, <2>1 DEF Truthful, Replace
  <2>2. CASE Launch(t)
    <3> DEFINE u == [t EXCEPT !.phase = "encode"]
    <3>1. u.of = t.of /\ u.phase = "encode" /\ u.result = t.result
      BY <2>0, TaskFields
    <3>2. Replace(t, u) /\ posted' = posted /\ swapped' = swapped
      BY <2>2 DEF Launch
    <3> HIDE DEF u
    <3> QED
      BY <1>0, <2>1, <3>1, <3>2 DEF Truthful
  <2>3. CASE LaunchFails(t)
    <3> DEFINE u == [t EXCEPT !.phase = "report", !.result = "encode_failed"]
    <3>1. u.result = "encode_failed"
      BY <2>0, TaskFields DEF Host!Results
    <3>2. Replace(t, u) /\ posted' = posted /\ swapped' = swapped
      BY <2>3 DEF LaunchFails
    <3> HIDE DEF u
    <3> QED
      BY <2>1, <3>1, <3>2
  <2>4. ASSUME NEW encoded \in Host!Results, EncodeEnds(t, encoded)
        PROVE  Truthful'
    <3> DEFINE r == ResultOf(t.of.node, t.of.job, encoded)
               u == [t EXCEPT !.phase = "report", !.result = r]
    <3>1. r \in Host!Results /\ Replace(t, u) /\ posted' = posted
      BY <2>4, ResultKnown DEF EncodeEnds
    <3>2. swapped \subseteq swapped' /\ (r = "swapped" => t.of \in swapped')
      BY <2>4 DEF EncodeEnds, SwapsOutput
    <3> HIDE DEF r
    <3>3. u.of = t.of /\ u.result = r
      BY <2>0, <3>1, ReportFields
    <3>4. r # "none"
      BY <3>1 DEF Host!Results
    <3> HIDE DEF u
    <3> QED
      BY <2>1, <3>1, <3>2, <3>3, <3>4
  <2>5. CASE PostResult(t)
    <3> DEFINE u == [t EXCEPT !.phase = "posted"]
               p == [of |-> t.of, result |-> t.result]
    <3>1. u.of = t.of /\ u.result = t.result
      BY <2>0, TaskFields
    <3>2. t.result # "none" /\ (t.result = "swapped" => t.of \in swapped)
      BY <1>0, <2>5 DEF Truthful, PostResult
    <3>3. p.of = t.of /\ p.result = t.result
      OBVIOUS
    <3>4. Replace(t, u) /\ posted' = posted \cup {p} /\ swapped' = swapped
      BY <2>5 DEF PostResult
    <3> HIDE DEF u, p
    <3> QED
      BY <1>0, <3>1, <3>2, <3>3, <3>4 DEF Truthful, Replace
  <2>6. CASE TaskReturns(t) \/ ProgressAnswered(t)
    BY <1>1, <2>6 DEF TaskReturns, ProgressAnswered
  <2> QED
    BY <1>4, <2>2, <2>3, <2>4, <2>5, <2>6 DEF TaskStep
<1> QED
  BY <1>2, <1>3, <1>4 DEF Next
-----------------------------------------------------------------------------
(* The rows. *)

LEMMA RowFields ==
  ASSUME NEW row \in Host!Row
  PROVE  /\ Host!CancelledRow(row).node = row.node
         /\ Host!CancelledRow(row).state =
              IF row.state = "queued" THEN "cancelled"
              ELSE IF row.state = "running" THEN "cancelling" ELSE row.state
         /\ Host!RevivedRow(row).state = "queued"
         /\ Host!ReconciledRow(row).state \in {row.state, "cancelled", "failed"}
         /\ row.state \notin {"running", "cancelling"} => Host!ReconciledRow(row) = row
<1>1. Host!CancelledRow(row).node = row.node
  BY DEF Host!Row, Host!CancelledRow
<1>2. Host!CancelledRow(row).state =
        IF row.state = "queued" THEN "cancelled"
        ELSE IF row.state = "running" THEN "cancelling" ELSE row.state
  BY DEF Host!Row, Host!CancelledRow
<1>3. Host!RevivedRow(row).state = "queued"
  BY DEF Host!Row, Host!RevivedRow
<1>4. Host!ReconciledRow(row).state \in {row.state, "cancelled", "failed"}
  BY DEF Host!Row, Host!ReconciledRow
<1>5. row.state \notin {"running", "cancelling"} => Host!ReconciledRow(row) = row
  BY DEF Host!ReconciledRow
<1> QED
  BY <1>1, <1>2, <1>3, <1>4, <1>5

LEMMA ClaimedRow ==
  ASSUME NEW row \in Host!Row, NEW n
  PROVE  [row EXCEPT !.state = "running", !.node = n, !.recent = TRUE].state = "running"
BY DEF Host!Row

(* No step of the host but a result makes a row done. *)
LEMMA HostDoesNotFinish ==
  ASSUME BaseInv, HostStep, NEW j \in JobIds, jobs'[j].state = "done"
  PROVE  jobs[j].state = "done"
<1>0. jobs \in [JobIds -> Host!Row]
  BY DEF BaseInv, Host!TypeOK
<1>1. ASSUME NEW f \in Files, Host!Ingest(f) PROVE jobs[j].state = "done"
  BY <1>0, <1>1 DEF Host!Ingest, Host!NoRow
<1>2. CASE Host!LocalClaim
  <2>1. PICK k \in JobIds :
          jobs' = [jobs EXCEPT ![k].state = "running", ![k].node = Local, ![k].recent = TRUE]
    BY <1>2 DEF Host!LocalClaim, Host!ClaimFor
  <2>2. jobs'[j] = IF j = k THEN [jobs[k] EXCEPT !.state = "running", !.node = Local, !.recent = TRUE]
                   ELSE jobs[j]
    BY <1>0, <2>1
  <2> QED
    BY <1>0, <2>2, ClaimedRow
<1>3. ASSUME NEW k \in JobIds, Host!Cancel(k) PROVE jobs[j].state = "done"
  <2>1. jobs'[j] = IF j = k THEN Host!CancelledRow(jobs[j]) ELSE jobs[j]
    BY <1>0, <1>3 DEF Host!Cancel
  <2> QED
    BY <1>0, <2>1, RowFields
<1>4. ASSUME NEW k \in JobIds, Host!ForceDelete(k) PROVE jobs[j].state = "done"
  BY <1>0, <1>4 DEF Host!ForceDelete, Host!NoRow
<1>5. ASSUME NEW k \in JobIds, Host!Age(k) PROVE jobs[j].state = "done"
  BY <1>0, <1>5 DEF Host!Age, Host!Row
<1>6. ASSUME NEW N, Host!ReviveJobsOf(N) PROVE jobs[j].state = "done"
  BY <1>0, <1>6, RowFields DEF Host!ReviveJobsOf
<1>7. CASE Host!StartLocalLoop
  <2>1. jobs'[j] = Host!ReconciledRow(jobs[j])
    BY <1>7 DEF Host!StartLocalLoop
  <2> QED
    BY <1>0, <2>1, RowFields
<1>8. CASE jobs' = jobs
  BY <1>8
<1> QED
  BY <1>1, <1>2, <1>3, <1>4, <1>5, <1>6, <1>7, <1>8
     DEF HostStep, Host!FallSilent, Host!DeleteNode, Host!Sweep, Host!Restart

(* A result makes the row of its claim done if it says the file was swapped. *)
LEMMA FinishedRow ==
  ASSUME Host!TypeOK, NEW d \in Dispatch, NEW result \in Host!Results, Host!Finish(d, result),
         NEW j \in JobIds
  PROVE  /\ j # d.job \/ jobs[j].state \notin Host!Active => jobs'[j] = jobs[j]
         /\ j = d.job /\ jobs[j].state \in Host!Active =>
              jobs'[j].state = Host!OutcomeOf(result) /\ jobs'[j].node = jobs[j].node
<1>1. jobs[j] \in Host!Row /\ jobs \in [JobIds -> Host!Row]
  BY DEF Host!TypeOK
<1>2. j # d.job \/ jobs[j].state \notin Host!Active => jobs'[j] = jobs[j]
  BY <1>1 DEF Host!Finish, Host!ResultApplies
<1>3. ASSUME j = d.job, jobs[j].state \in Host!Active
      PROVE  jobs'[j].state = Host!OutcomeOf(result) /\ jobs'[j].node = jobs[j].node
  <2>1. jobs' = [jobs EXCEPT ![j].state = Host!OutcomeOf(result), ![j].recent = FALSE]
    BY <1>3 DEF Host!Finish, Host!ResultApplies
  <2>2. jobs'[j] = [jobs[j] EXCEPT !.state = Host!OutcomeOf(result), !.recent = FALSE]
    BY <1>1, <2>1
  <2> QED
    BY <1>1, <2>2 DEF Host!Row
<1> QED
  BY <1>2, <1>3

LEMMA OutcomeDone ==
  ASSUME NEW result \in Host!Results, Host!OutcomeOf(result) = "done" PROVE result = "swapped"
BY DEF Host!OutcomeOf, Host!Results

(* A row that is done keeps its past; a claim speaks for it as before. *)
LEMMA PastOfPresent ==
  ASSUME BaseInv, Next, NEW j \in JobIds, jobs[j].state # "absent"
  PROVE  past'[j] = past[j]
<1>1. CASE HostStep
  BY <1>1 DEF HostStep, KeysPassOn
<1>2. CASE ~HostStep
  BY <1>2, PastStays
<1> QED
  BY <1>1, <1>2

(* Rows become done by a result that says the file was swapped, no other way. *)
LEMMA DoneBy ==
  ASSUME BaseInv, Next, NEW j \in JobIds, jobs'[j].state = "done", jobs[j].state # "done"
  PROVE  jobs[j].state # "absent" /\ \E d \in dispatches : d.job = j /\ d \in swapped'
<1>0. Host!TypeOK /\ jobs \in [JobIds -> Host!Row]
  BY DEF BaseInv, Host!TypeOK
<1>1. ~HostStep
  BY HostDoesNotFinish
<1>2. ASSUME NEW d \in dispatches, NEW result \in Host!Results, Host!Finish(d, result),
             result = "swapped" => d \in swapped'
      PROVE  jobs[j].state # "absent" /\ d.job = j /\ d \in swapped'
  <2>1. d \in Dispatch
    BY Numbers
  <2>2. j = d.job /\ jobs[j].state \in Host!Active
    BY <1>0, <1>2, <2>1, FinishedRow
  <2>3. Host!OutcomeOf(result) = "done"
    BY <1>0, <1>2, <2>1, <2>2, FinishedRow
  <2> QED
    BY <1>2, <2>2, <2>3, OutcomeDone DEF Host!Active
<1>3. ASSUME NEW d \in dispatches, NEW result \in Host!Results, LocalFinish(d, result)
      PROVE  jobs[j].state # "absent" /\ d.job = j /\ d \in swapped'
  BY <1>2, <1>3 DEF LocalFinish
<1>4. ASSUME NEW w \in Remotes, WorkerStep(w)
      PROVE  FALSE
  <2>1. CASE AskClaim(w)
    <3>1. PICK k \in JobIds :
            jobs' = [jobs EXCEPT ![k].state = "running", ![k].node = w, ![k].recent = TRUE]
      BY <2>1 DEF AskClaim, Host!RemoteClaim, Host!ClaimFor
    <3>2. jobs'[j] = IF j = k THEN [jobs[k] EXCEPT !.state = "running", !.node = w, !.recent = TRUE]
                     ELSE jobs[j]
      BY <1>0, <3>1
    <3> QED
      BY <1>0, <3>2, ClaimedRow
  <2>2. CASE ~AskClaim(w)
    <3>1. jobs' = jobs
      BY <1>4, <2>2 DEF WorkerStep, StartWorker, StopWorker, Drained, WorkerDies, Forget, Reap,
         TakeClaim, ClaimAnswerLost, Beat, CancelHeard, NoticeLost, Host!Register, Host!Heartbeat,
         Host!ResultsLost, hostVars
    <3> QED
      BY <3>1
  <2> QED
    BY <2>1, <2>2
<1>5. ASSUME NEW t \in tasks, TaskStep(t)
      PROVE  FALSE
  <2>1. jobs' = jobs
    BY <1>5 DEF TaskStep, Launch, LaunchFails, PostResult, TaskReturns, ProgressAnswered,
       EncodeEnds, hostVars
  <2> QED
    BY <2>1
<1>6. ASSUME NEW m \in posted, FinishLost(m)
      PROVE  FALSE
  BY <1>6 DEF FinishLost, Host!ResultsLost
<1>7. ASSUME NEW m \in posted, FinishArrives(m)
      PROVE  jobs[j].state # "absent" /\ m.of \in dispatches /\ m.of.job = j /\ m.of \in swapped'
  <2>1. /\ m.of \in dispatches /\ m.result \in Host!Results
        /\ m.result = "swapped" => m.of \in swapped
    BY DEF BaseInv, WorkersTyped, Placed, Truthful
  <2>2. Host!Finish(m.of, m.result) /\ swapped' = swapped
    BY <1>7 DEF FinishArrives
  <2> QED
    BY <1>2, <2>1, <2>2
<1> QED
  BY <1>1, <1>3, <1>4, <1>5, <1>6, <1>7 DEF Next

LEMMA SwappedStay == ASSUME Next PROVE swapped \subseteq swapped'
<1>1. CASE HostStep
  BY <1>1 DEF HostStep, workerVars
<1>2. CASE \E d \in dispatches, result \in Host!Results : LocalFinish(d, result)
  BY <1>2 DEF LocalFinish
<1>3. CASE \E w \in Remotes : WorkerStep(w)
  BY <1>3 DEF WorkerStep, StartWorker, StopWorker, Drained, WorkerDies, Forget, Reap, AskClaim,
     TakeClaim, ClaimAnswerLost, Beat, CancelHeard, NoticeLost
<1>4. CASE \E t \in tasks : TaskStep(t)
  BY <1>4 DEF TaskStep, Launch, LaunchFails, PostResult, TaskReturns, ProgressAnswered, EncodeEnds
<1>5. CASE \E m \in posted : FinishArrives(m) \/ FinishLost(m)
  BY <1>5 DEF FinishArrives, FinishLost
<1> QED
  BY <1>1, <1>2, <1>3, <1>4, <1>5 DEF Next

LEMMA DoneStep == ASSUME BaseInv, Dating, DoneMeansSwapped, Next PROVE DoneMeansSwapped'
<1>1. ASSUME NEW j \in JobIds, jobs'[j].state = "done"
      PROVE  \E d \in swapped' : ClaimOf(d, j)'
  <2>1. jobs[j].state # "absent"
    BY <1>1, DoneBy
  <2>2. PICK d \in swapped' : ClaimOf(d, j)
    <3>1. CASE jobs[j].state = "done"
      BY <3>1, SwappedStay DEF DoneMeansSwapped
    <3>2. CASE jobs[j].state # "done"
      BY <1>1, <3>2, DoneBy DEF Dating
    <3> QED
      BY <3>1, <3>2
  <2>3. past'[j] = past[j]
    BY <2>1, PastOfPresent
  <2> QED
    BY <2>2, <2>3 DEF ClaimOf
<1> QED
  BY <1>1 DEF DoneMeansSwapped

-----------------------------------------------------------------------------
(* The invariant, and what follows from it. *)

Inv == BaseInv /\ Dating /\ DoneMeansSwapped

LEMMA InvInit == Init => Inv
<1> SUFFICES ASSUME Init PROVE Inv
  OBVIOUS
<1>1. Host!TypeOK
  BY QueueInit DEF Init
<1>2. /\ mode \in [Remotes -> {"off", "run", "drain"}]
      /\ answer \in [Remotes -> Dispatch \cup {NoDispatch}]
      /\ running \in [Remotes -> [JobIds -> Dispatch \cup {NoDispatch}]]
      /\ procs \in [Remotes -> [JobIds -> Dispatch \cup {NoDispatch}]]
      /\ cancelReq \in [Remotes -> SUBSET JobIds]
      /\ notices \in [Remotes -> SUBSET JobIds]
      /\ \A w \in Remotes : answer[w] = NoDispatch
      /\ \A w \in Remotes, j \in JobIds : procs[w][j] = NoDispatch
  BY DEF Init
<1>3. tasks = {} /\ posted = {} /\ swapped = {} /\ dispatches = {}
  BY DEF Init, Host!Init
<1>7. /\ past \in [JobIds -> [claims: Nat, out: SUBSET Dispatch]]
      /\ \A j \in JobIds : past[j].claims = 0 /\ attempts[j] = 0
  BY DEF Init, Host!Init
<1>4. WorkersTyped
  BY <1>2, <1>3, <1>7 DEF WorkersTyped, TypeOK
<1>8. Dating
  BY <1>3, <1>7 DEF Dating
<1>5. Placed /\ Truthful
  BY <1>2, <1>3 DEF Placed, Truthful
<1>6. DoneMeansSwapped
  BY DEF Init, Host!Init, Host!NoRow, DoneMeansSwapped
<1> QED
  BY <1>1, <1>4, <1>5, <1>6, <1>8 DEF Inv, BaseInv

LEMMA InvStep == Inv /\ [Next]_vars => Inv'
<1>1. ASSUME Inv, Next PROVE Inv'
  <2>1. WorkersTyped' /\ Placed' /\ Truthful' /\ Dating' /\ DoneMeansSwapped'
    BY <1>1, TypedStep, PlacedStep, TruthfulStep, DatingStep, DoneStep DEF Inv
  <2>2. Host!TypeOK'
    BY <1>1, HostImplements, QueueTypeStep DEF Inv, BaseInv
  <2> QED
    BY <2>1, <2>2 DEF Inv, BaseInv
<1>2. ASSUME Inv, UNCHANGED vars PROVE Inv'
  <2>1. Host!TypeOK'
    <3>1. UNCHANGED Host!vars
      BY <1>2 DEF vars, hostVars, Host!vars
    <3> QED
      BY <1>2, <3>1, QueueTypeStep DEF Inv, BaseInv
  <2> QED
    BY <1>2, <2>1 DEF Inv, BaseInv, vars, hostVars, workerVars, WorkersTyped, TypeOK, Placed,
       Dated, Truthful, Dating, ClaimOf, DoneMeansSwapped
<1> QED
  BY <1>1, <1>2

LEMMA Invariance == Spec => []Inv
BY InvInit, InvStep, PTL DEF Spec

(* The workers' dictionaries hold only what was claimed under their keys, and
   a result is under way only for a claim whose result the host still lacks. *)
THEOREM TypeCorrect == Spec => []TypeOK
<1>1. Inv => TypeOK
  BY DEF Inv, BaseInv, WorkersTyped
<1> QED
  BY <1>1, Invariance, PTL

(* A row is done only if the output of a claim of that row is in place, or of
   one that was out already when the row was given its key. *)
THEOREM OnlySwapsAreDone == Spec => []DoneMeansSwapped
<1>1. Inv => DoneMeansSwapped
  BY DEF Inv
<1> QED
  BY <1>1, Invariance, PTL

(* The workers and the network show the host's table only steps of HostQueue. *)
THEOREM ImplementsQueue == Spec => ImplementsHost
<1>1. Init => Host!Init
  BY DEF Init
<1>2. Inv /\ [Next]_vars => [Host!Next]_(Host!vars)
  BY HostImplements DEF Inv
<1> QED
  BY <1>1, <1>2, Invariance, PTL DEF Spec, ImplementsHost, Host!Spec
-----------------------------------------------------------------------------
(* Without faults a row is claimed once and keeps its node, so a job id names
   one claim, one task and one entry of each dictionary. *)

Claims == dispatches \cup swapped \cup {t.of : t \in tasks}

Given(d) ==
  /\ jobs[d.job].state \in Host!Active \cup Host!Terminal
  /\ d.node = jobs[d.job].node /\ d.attempt = 1

Once ==
  /\ silent = {} /\ loopStarted
  /\ \A j \in JobIds : jobs[j].state \in {"absent", "queued"} => attempts[j] = 0
  /\ \A d \in dispatches : jobs[d.job].state \in Host!Active
  /\ \A d \in Claims : Given(d)

(* A swapped claim whose row is not yet done is on its way to tell. *)
Telling(d) ==
  \/ \E t \in tasks : t.of = d /\ t.phase = "report" /\ t.result = "swapped"
  \/ \E m \in posted : m.of = d /\ m.result = "swapped"

Told == \A d \in swapped : jobs[d.job].state = "done" \/ Telling(d)

Entered == \A t \in tasks : running[t.of.node][t.of.job] = t.of

(* The slots, counted by job id. *)
JobsOf(w) == {t.of.job : t \in TasksOf(w)}

Fitting ==
  \A w \in Remotes :
    Cardinality(JobsOf(w)) + (IF answer[w] = NoDispatch THEN 0 ELSE 1) <= Cap

(* A cancellation the worker knows of, has acted on or reports is one that
   the row shows. *)
Stopping(j) == jobs[j].state \in {"cancelling"} \cup Host!Terminal

Heard == \A w \in Remotes : \A j \in notices[w] \cup cancelReq[w] : Stopping(j)

Honest(t) ==
  /\ t.killed => \/ t.phase = "encode" /\ t.of.job \in cancelReq[t.of.node]
                 \/ t.result = "cancelled"
  /\ t.result = "cancelled" =>
       \/ t.phase = "report" /\ jobs[t.of.job].state = "cancelling"
       \/ t.phase = "posted" /\ jobs[t.of.job].state \in {"cancelling", "cancelled"}
  /\ \A m \in posted : m.of = t.of => m.result = t.result

PostHonest(m) == m.result = "cancelled" => jobs[m.of.job].state = "cancelling"

Cancels == Heard /\ (\A t \in tasks : Honest(t)) /\ (\A m \in posted : PostHonest(m))

Calm == Inv /\ Lossless /\ Once

LEMMA ClaimsTyped ==
  ASSUME Inv
  PROVE  \A d \in Claims : d \in Dispatch /\ d.job \in JobIds
<1>1. \A t \in tasks : t.of \in Dispatch
  BY DEF Inv, BaseInv, WorkersTyped, TypeOK, Task
<1>2. \A d \in Claims : d \in Dispatch
  BY <1>1 DEF Claims, Inv, BaseInv, WorkersTyped, TypeOK
<1> QED
  BY <1>2 DEF Dispatch

LEMMA OneClaimPerJob ==
  ASSUME Calm, NEW d \in Claims, NEW e \in Claims, d.job = e.job
  PROVE  d = e
<1>1. d \in Dispatch /\ e \in Dispatch
  BY ClaimsTyped DEF Calm
<1>2. d.node = e.node /\ d.attempt = e.attempt
  BY DEF Calm, Once, Given
<1> QED
  BY <1>1, <1>2 DEF Dispatch

(* How the rows move when no fault does. *)
RowMoves(j) ==
  /\ jobs[j].state \in Host!Active =>
       jobs'[j].state \in Host!Active /\ jobs'[j].node = jobs[j].node
  /\ jobs[j].state = "cancelling" => jobs'[j].state = "cancelling"
  /\ jobs[j].state \in Host!Terminal =>
       jobs'[j].state = jobs[j].state /\ jobs'[j].node = jobs[j].node

Rises(j) ==
  jobs'[j].state \in {"absent", "queued"} => jobs[j].state \in {"absent", "queued"}

Quiet ==
  /\ dispatches' = dispatches /\ attempts' = attempts
  /\ silent' = {} /\ loopStarted'
  /\ \A j \in JobIds : RowMoves(j) /\ Rises(j)

USE DEF Host!Active, Host!Terminal

LEMMA RowTyped ==
  ASSUME Inv
  PROVE  /\ jobs \in [JobIds -> Host!Row]
         /\ \A j \in JobIds :
              jobs[j].state \in {"absent", "queued"} \cup Host!Active \cup Host!Terminal
<1>1. jobs \in [JobIds -> Host!Row]
  BY DEF Inv, BaseInv, Host!TypeOK
<1>2. \A row \in Host!Row : row.state \in {"absent", "queued"} \cup Host!Active \cup Host!Terminal
  BY DEF Host!Row, Host!States
<1> QED
  BY <1>1, <1>2

LEMMA RowsSame == ASSUME jobs' = jobs PROVE \A j \in JobIds : RowMoves(j) /\ Rises(j)
BY DEF RowMoves, Rises

LEMMA QuietHost ==
  ASSUME Calm, HostStep, ~Host!LocalClaim
  PROVE  Quiet
<1>0. jobs \in [JobIds -> Host!Row] /\ faults = {} /\ silent = {} /\ loopStarted
  BY RowTyped DEF Calm, Lossless, Once
<1>1. UNCHANGED <<dispatches, attempts, silent, loopStarted>>
  BY <1>0 DEF HostStep, Host!Ingest, Host!Cancel, Host!ForceDelete, Host!Age,
     Host!FallSilent, Host!DeleteNode, Host!Sweep, Host!StartLocalLoop, Host!Restart
<1>2. ASSUME NEW f \in Files, Host!Ingest(f)
      PROVE  \A j \in JobIds : RowMoves(j) /\ Rises(j)
  <2>1. PICK k \in JobIds : Host!IsNextId(k) /\
          jobs' = [jobs EXCEPT ![k] = [Host!NoRow EXCEPT !.state = "queued", !.file = f]]
    BY <1>2 DEF Host!Ingest
  <2>2. jobs[k].state = "absent"
    BY <1>0, <2>1 DEF Host!IsNextId, Host!Present, Host!InState, Host!States, Host!Row
  <2>3. \A j \in JobIds : j # k => jobs'[j] = jobs[j]
    BY <1>0, <2>1
  <2> QED
    BY <2>2, <2>3 DEF RowMoves, Rises
<1>3. ASSUME NEW k \in JobIds, Host!Cancel(k)
      PROVE  \A j \in JobIds : RowMoves(j) /\ Rises(j)
  <2>1. /\ jobs'[k] = Host!CancelledRow(jobs[k])
        /\ \A j \in JobIds : j # k => jobs'[j] = jobs[j]
    BY <1>0, <1>3 DEF Host!Cancel
  <2>2. RowMoves(k) /\ Rises(k)
    BY <1>0, <2>1, RowFields DEF RowMoves, Rises
  <2> QED
    BY <2>1, <2>2 DEF RowMoves, Rises
<1>4. ASSUME NEW k \in JobIds, Host!Age(k)
      PROVE  \A j \in JobIds : RowMoves(j) /\ Rises(j)
  <2>1. \A row \in Host!Row : /\ [row EXCEPT !.recent = FALSE].state = row.state
                              /\ [row EXCEPT !.recent = FALSE].node = row.node
    BY DEF Host!Row
  <2>2. /\ jobs'[k] = [jobs[k] EXCEPT !.recent = FALSE]
        /\ \A j \in JobIds : j # k => jobs'[j] = jobs[j]
    BY <1>0, <1>4 DEF Host!Age
  <2> QED
    BY <1>0, <2>1, <2>2 DEF RowMoves, Rises
<1>5. CASE Host!Sweep
  <2>1. \A j \in JobIds : jobs'[j] = jobs[j]
    BY <1>0, <1>5 DEF Host!Sweep, Host!ReviveJobsOf, Host!Revived
  <2> QED
    BY <1>1, <1>0, <2>1 DEF Quiet, RowMoves, Rises
<1>6. ~Host!StartLocalLoop /\ ~Host!Restart /\ \A n \in Remotes : ~Host!FallSilent(n) /\ ~Host!DeleteNode(n)
  BY <1>0 DEF Host!StartLocalLoop, Host!Restart, Host!FallSilent, Host!DeleteNode
<1>7. \A j \in JobIds : ~Host!ForceDelete(j)
  BY <1>0 DEF Host!ForceDelete
<1> QED
  BY <1>0, <1>1, <1>2, <1>3, <1>4, <1>5, <1>6, <1>7 DEF HostStep, Quiet

LEMMA QuietElse ==
  ASSUME Calm, UNCHANGED <<jobs, dispatches, attempts, loopStarted>>, silent' \subseteq silent
  PROVE  Quiet
BY RowsSame DEF Quiet, Calm, Once

LEMMA ClaimRows ==
  ASSUME Calm, NEW n \in Remotes \cup {Local}, Host!ClaimFor(n)
  PROVE  /\ \A j \in JobIds : RowMoves(j) /\ Rises(j)
         /\ UNCHANGED <<silent, loopStarted>>
         /\ \A j \in JobIds : jobs'[j].state \in {"absent", "queued"} => attempts'[j] = attempts[j]
         /\ \E d \in Dispatch :
              /\ dispatches' = dispatches \cup {d} /\ d \notin Claims
              /\ \A e \in Claims : e.job # d.job
              /\ jobs'[d.job].state = "running" /\ jobs'[d.job].node = d.node
              /\ d.node = n /\ d.attempt = 1
<1>0. jobs \in [JobIds -> Host!Row] /\ BaseInv /\ \A j \in JobIds : attempts[j] \in Nat
  BY RowTyped, Numbers DEF Calm, Inv
<1>1. PICK j \in JobIds :
        LET d == [node |-> n, job |-> j, attempt |-> attempts[j] + 1] IN
        /\ d \in Dispatch /\ d \notin dispatches
        /\ jobs[j].state = "queued"
        /\ jobs' = [jobs EXCEPT ![j].state = "running", ![j].node = n, ![j].recent = TRUE]
        /\ attempts' = [attempts EXCEPT ![j] = @ + 1]
        /\ dispatches' = dispatches \cup {d}
        /\ UNCHANGED <<nodes, silent, loopStarted, faults>>
  BY <1>0, ClaimEffect
<1> DEFINE d == [node |-> n, job |-> j, attempt |-> attempts[j] + 1]
<1>2. /\ d \in Dispatch /\ dispatches' = dispatches \cup {d} /\ d.job = j /\ d.node = n
      /\ d.attempt = 1
  BY <1>0, <1>1 DEF Calm, Once
<1> HIDE DEF d
<1>3. \A e \in Claims : e.job # j
  BY <1>1 DEF Calm, Once, Given
<1>4. \A row \in Host!Row :
        LET new == [row EXCEPT !.state = "running", !.node = n, !.recent = TRUE] IN
        new.state = "running" /\ new.node = n
  BY DEF Host!Row
<1>5. /\ jobs'[j] = [jobs[j] EXCEPT !.state = "running", !.node = n, !.recent = TRUE]
      /\ \A k \in JobIds : k # j => jobs'[k] = jobs[k]
  BY <1>0, <1>1
<1>6. jobs'[j].state = "running" /\ jobs'[j].node = n
  BY <1>0, <1>4, <1>5
<1>7. \A k \in JobIds : RowMoves(k) /\ Rises(k)
  BY <1>1, <1>5, <1>6 DEF RowMoves, Rises
<1>8. \A k \in JobIds : jobs'[k].state \in {"absent", "queued"} => attempts'[k] = attempts[k]
  BY <1>0, <1>1, <1>6
<1> QED
  BY <1>1, <1>2, <1>3, <1>6, <1>7, <1>8

LEMMA FinishRows ==
  ASSUME Calm, NEW d \in dispatches, NEW result \in Host!Results, Host!Finish(d, result)
  PROVE  /\ \A j \in JobIds : j # d.job => RowMoves(j)
         /\ \A j \in JobIds : Rises(j)
         /\ jobs[d.job].state \in Host!Active
         /\ jobs'[d.job].state = Host!OutcomeOf(result) /\ jobs'[d.job].node = jobs[d.job].node
         /\ Host!OutcomeOf(result) \in Host!Terminal
         /\ dispatches' = dispatches \ {d}
         /\ UNCHANGED <<silent, loopStarted, attempts>>
<1>1. d \in Dispatch /\ d.job \in JobIds /\ Host!TypeOK
  BY Numbers DEF Calm, Inv, BaseInv
<1>2. jobs[d.job].state \in Host!Active
  BY DEF Calm, Once
<1>3. /\ \A j \in JobIds : j # d.job => jobs'[j] = jobs[j]
      /\ jobs'[d.job].state = Host!OutcomeOf(result) /\ jobs'[d.job].node = jobs[d.job].node
  BY <1>1, <1>2, FinishedRow
<1>4. Host!OutcomeOf(result) \in Host!Terminal
  BY DEF Host!OutcomeOf
<1> QED
  BY <1>2, <1>3, <1>4 DEF RowMoves, Rises, Host!Finish
(* What may happen without faults. *)
LEMMA LiveSteps ==
  ASSUME Calm, Next
  PROVE  \/ Quiet /\ UNCHANGED workerVars
         \/ Host!ClaimFor(Local) /\ UNCHANGED workerVars
         \/ \E d \in dispatches, result \in Host!Results : LocalFinish(d, result)
         \/ \E w \in Remotes :
              \/ Quiet /\ (StartWorker(w) \/ Reap(w) \/ TakeClaim(w) \/ Beat(w))
              \/ AskClaim(w)
              \/ \E j \in JobIds : Quiet /\ (CancelHeard(w, j) \/ NoticeLost(w, j))
         \/ \E t \in tasks : Quiet /\ TaskStep(t)
         \/ \E m \in posted : FinishArrives(m)
<1>0. faults = {} /\ silent = {} /\ loopStarted
  BY DEF Calm, Lossless, Once
<1>1. CASE HostStep
  <2>1. CASE Host!LocalClaim
    BY <1>1, <2>1 DEF HostStep, Host!LocalClaim
  <2>2. CASE ~Host!LocalClaim
    BY <1>1, <2>2, QuietHost DEF HostStep
  <2> QED
    BY <2>1, <2>2
<1>2. \A D : ~Host!ResultsLost(D)
  BY <1>0 DEF Host!ResultsLost
<1>3. ASSUME NEW w \in Remotes, WorkerStep(w)
      PROVE  \/ Quiet /\ (StartWorker(w) \/ Reap(w) \/ TakeClaim(w) \/ Beat(w))
             \/ AskClaim(w)
             \/ \E j \in JobIds : Quiet /\ (CancelHeard(w, j) \/ NoticeLost(w, j))
  <2>1. ~StopWorker(w) /\ ~Drained(w) /\ ~WorkerDies(w) /\ ~ClaimAnswerLost(w)
    BY <1>0, <1>2 DEF StopWorker, Drained, WorkerDies, Forget, ClaimAnswerLost
  <2>2. CASE StartWorker(w) \/ Beat(w)
    <3>1. Quiet
      BY <2>2, QuietElse DEF StartWorker, Beat, Host!Register, Host!Heartbeat
    <3> QED
      BY <2>2, <3>1
  <2>3. ASSUME UNCHANGED hostVars PROVE Quiet
    BY <2>3, QuietElse DEF hostVars
  <2>4. Reap(w) \/ TakeClaim(w) => UNCHANGED hostVars
    BY DEF Reap, TakeClaim
  <2>5. \A j \in JobIds : CancelHeard(w, j) \/ NoticeLost(w, j) => UNCHANGED hostVars
    BY DEF CancelHeard, NoticeLost
  <2> QED
    BY <1>3, <2>1, <2>2, <2>3, <2>4, <2>5 DEF WorkerStep
<1>4. ASSUME NEW t \in tasks, TaskStep(t) PROVE Quiet
  <2>1. UNCHANGED hostVars
    BY <1>4 DEF TaskStep, Launch, LaunchFails, PostResult, TaskReturns, ProgressAnswered, EncodeEnds
  <2> QED
    BY <2>1, QuietElse DEF hostVars
<1>5. \A m \in posted : ~FinishLost(m)
  BY <1>2 DEF FinishLost
<1> QED
  BY <1>1, <1>3, <1>4, <1>5 DEF Next

-----------------------------------------------------------------------------
(* Once. *)

LEMMA OnceQuiet ==
  ASSUME Calm, Quiet, Claims' \subseteq Claims
  PROVE  Once'
<1>1. \A d \in Claims : d.job \in JobIds /\ Given(d)
  BY ClaimsTyped DEF Calm, Once
<1>2. \A d \in Claims : jobs'[d.job].state \in Host!Active \cup Host!Terminal
                        /\ jobs'[d.job].node = jobs[d.job].node
  BY <1>1 DEF Quiet, RowMoves, Given
<1>3. \A d \in Claims' : Given(d)'
  BY <1>1, <1>2 DEF Given
<1>4. \A d \in dispatches' : jobs'[d.job].state \in Host!Active
  BY <1>1 DEF Quiet, RowMoves, Calm, Once, Claims
<1>5. \A j \in JobIds : jobs'[j].state \in {"absent", "queued"} => attempts'[j] = 0
  BY DEF Quiet, Rises, Calm, Once
<1> QED
  BY <1>3, <1>4, <1>5 DEF Once, Quiet

LEMMA OnceClaim ==
  ASSUME Calm, NEW n \in Remotes \cup {Local}, Host!ClaimFor(n), UNCHANGED <<tasks, swapped>>
  PROVE  Once'
<1>1. PICK d \in Dispatch :
        /\ dispatches' = dispatches \cup {d}
        /\ jobs'[d.job].state = "running" /\ jobs'[d.job].node = d.node
        /\ d.attempt = 1
  BY ClaimRows
<1>2. \A e \in Claims : e.job \in JobIds /\ Given(e)
  BY ClaimsTyped DEF Calm, Once
<1>3. Claims' = Claims \cup {d}
  BY <1>1 DEF Claims
<1>4. /\ \A j \in JobIds : RowMoves(j) /\ Rises(j)
      /\ UNCHANGED <<silent, loopStarted>>
      /\ \A j \in JobIds : jobs'[j].state \in {"absent", "queued"} => attempts'[j] = attempts[j]
  BY ClaimRows
<1>5. \A e \in Claims : jobs'[e.job].state \in Host!Active \cup Host!Terminal
                        /\ jobs'[e.job].node = jobs[e.job].node
  BY <1>2, <1>4 DEF RowMoves, Given
<1>6. \A e \in Claims' : Given(e)'
  BY <1>1, <1>2, <1>3, <1>5 DEF Given
<1>7. \A e \in dispatches' : jobs'[e.job].state \in Host!Active
  <2>1. \A e \in dispatches : e.job \in JobIds /\ jobs[e.job].state \in Host!Active
    BY <1>2 DEF Calm, Once, Claims
  <2> QED
    BY <1>1, <1>4, <2>1 DEF RowMoves
<1>8. \A j \in JobIds : jobs'[j].state \in {"absent", "queued"} => attempts'[j] = 0
  BY <1>4 DEF Rises, Calm, Once
<1> QED
  BY <1>4, <1>6, <1>7, <1>8 DEF Once, Calm

LEMMA OnceFinish ==
  ASSUME Calm, NEW d \in dispatches, NEW result \in Host!Results, Host!Finish(d, result),
         tasks' = tasks, swapped' \subseteq swapped \cup {d}
  PROVE  Once'
<1>1. Claims' \subseteq Claims /\ dispatches' = dispatches \ {d}
  BY FinishRows DEF Claims
<1>2. \A e \in Claims : e.job \in JobIds /\ Given(e)
  BY ClaimsTyped DEF Calm, Once
<1>3. \A e \in Claims : jobs'[e.job].state \in Host!Active \cup Host!Terminal
                        /\ jobs'[e.job].node = jobs[e.job].node
  <2>1. ASSUME NEW e \in Claims
        PROVE  jobs'[e.job].state \in Host!Active \cup Host!Terminal
               /\ jobs'[e.job].node = jobs[e.job].node
    <3>1. CASE e.job = d.job
      BY <3>1, FinishRows
    <3>2. CASE e.job # d.job
      BY <1>2, <3>2, FinishRows DEF RowMoves, Given
    <3> QED
      BY <3>1, <3>2
  <2> QED
    BY <2>1
<1>4. \A e \in Claims' : Given(e)'
  BY <1>1, <1>2, <1>3 DEF Given
<1>5. \A e \in dispatches' : jobs'[e.job].state \in Host!Active
  <2>1. ASSUME NEW e \in dispatches, e # d PROVE jobs'[e.job].state \in Host!Active
    <3>1. e.job # d.job
      BY <2>1, OneClaimPerJob DEF Claims
    <3> QED
      BY <1>2, <2>1, <3>1, FinishRows DEF RowMoves, Calm, Once, Claims
  <2> QED
    BY <1>1, <2>1
<1>6. \A j \in JobIds : jobs'[j].state \in {"absent", "queued"} => attempts'[j] = 0
  BY FinishRows DEF Rises, Calm, Once
<1>7. silent' = {} /\ loopStarted'
  BY FinishRows DEF Calm, Once
<1> QED
  BY <1>4, <1>5, <1>6, <1>7 DEF Once

(* A task step changes what no task encodes. *)
LEMMA TaskClaims == ASSUME Inv, NEW t \in tasks, TaskStep(t) PROVE
  {s.of : s \in tasks'} \subseteq {s.of : s \in tasks} /\ swapped' \subseteq swapped \cup {t.of}
<1>0. t \in Task
  BY Numbers DEF Inv
<1>1. ASSUME NEW u, u.of = t.of, Replace(t, u)
      PROVE  {s.of : s \in tasks'} \subseteq {s.of : s \in tasks}
  BY <1>1 DEF Replace
<1>2. CASE Launch(t)
  BY <1>0, <1>1, <1>2, TaskFields DEF Launch
<1>3. CASE LaunchFails(t)
  <2>1. "encode_failed" \in Host!Results
    BY DEF Host!Results
  <2> QED
    BY <1>0, <1>1, <1>3, <2>1, ReportFields DEF LaunchFails
<1>4. ASSUME NEW encoded \in Host!Results, EncodeEnds(t, encoded)
      PROVE  {s.of : s \in tasks'} \subseteq {s.of : s \in tasks} /\ swapped' \subseteq swapped \cup {t.of}
  <2> DEFINE r == ResultOf(t.of.node, t.of.job, encoded)
             u == [t EXCEPT !.phase = "report", !.result = r]
  <2>1. r \in Host!Results /\ Replace(t, u) /\ swapped' \subseteq swapped \cup {t.of}
    BY <1>4, ResultKnown DEF EncodeEnds
  <2> HIDE DEF r
  <2>2. u.of = t.of
    BY <1>0, <2>1, ReportFields
  <2> HIDE DEF u
  <2> QED
    BY <1>1, <2>1, <2>2
<1>5. CASE PostResult(t)
  BY <1>0, <1>1, <1>5, TaskFields DEF PostResult
<1>6. CASE TaskReturns(t) \/ ProgressAnswered(t)
  BY <1>6 DEF TaskReturns, ProgressAnswered
<1> QED
  BY <1>2, <1>3, <1>4, <1>5, <1>6 DEF TaskStep, Launch, LaunchFails, PostResult

LEMMA OnceStep == ASSUME Calm, Next PROVE Once'
<1>0. BaseInv
  BY DEF Calm, Inv
<1>1. CASE Quiet /\ UNCHANGED workerVars
  BY <1>1, OnceQuiet DEF workerVars, Quiet, Claims
<1>2. CASE Host!ClaimFor(Local) /\ UNCHANGED workerVars
  BY <1>2, OnceClaim DEF workerVars
<1>3. ASSUME NEW d \in dispatches, NEW result \in Host!Results, LocalFinish(d, result)
      PROVE  Once'
  BY <1>3, OnceFinish DEF LocalFinish
<1>4. ASSUME NEW w \in Remotes, Quiet, StartWorker(w) \/ Reap(w) \/ Beat(w)
      PROVE  Once'
  BY <1>4, OnceQuiet DEF StartWorker, Reap, Beat, Quiet, Claims
<1>5. ASSUME NEW w \in Remotes, Quiet, TakeClaim(w)
      PROVE  Once'
  <2>1. answer[w] \in dispatches
    BY <1>5 DEF TakeClaim, Calm, Inv, BaseInv, Placed
  <2>2. Claims' \subseteq Claims
    BY <1>5, <2>1 DEF TakeClaim, NewTask, Quiet, Claims
  <2> QED
    BY <1>5, <2>2, OnceQuiet
<1>6. ASSUME NEW w \in Remotes, AskClaim(w)
      PROVE  Once'
  BY <1>6, OnceClaim DEF AskClaim, Host!RemoteClaim
<1>7. ASSUME NEW w \in Remotes, NEW j \in JobIds, Quiet, CancelHeard(w, j)
      PROVE  Once'
  <2>1. \A t \in tasks' : \E s \in tasks : t.of = s.of
    BY <1>0, <1>7, HeardTasks
  <2>2. Claims' \subseteq Claims
    BY <1>7, <2>1 DEF CancelHeard, Quiet, Claims
  <2> QED
    BY <1>7, <2>2, OnceQuiet
<1>8. ASSUME NEW w \in Remotes, NEW j \in JobIds, Quiet, NoticeLost(w, j)
      PROVE  Once'
  BY <1>8, OnceQuiet DEF NoticeLost, Quiet, Claims
<1>9. ASSUME NEW t \in tasks, Quiet, TaskStep(t)
      PROVE  Once'
  <2>1. Claims' \subseteq Claims
    BY <1>9, TaskClaims DEF Calm, Quiet, Claims
  <2> QED
    BY <1>9, <2>1, OnceQuiet
<1>10. ASSUME NEW m \in posted, FinishArrives(m)
       PROVE  Once'
  <2>1. m.of \in dispatches /\ m.result \in Host!Results
    BY DEF Calm, Inv, BaseInv, Placed, WorkersTyped
  <2> QED
    BY <1>10, <2>1, OnceFinish DEF FinishArrives
<1> QED
  BY <1>1, <1>2, <1>3, <1>4, <1>5, <1>6, <1>7, <1>8, <1>9, <1>10, LiveSteps
-----------------------------------------------------------------------------
(* Told. *)

LEMMA DoneStays ==
  ASSUME Calm, NEW d \in Claims, RowMoves(d.job), jobs[d.job].state = "done"
  PROVE  jobs'[d.job].state = "done"
BY DEF RowMoves

LEMMA ToldKept ==
  ASSUME Calm, Told, \A j \in JobIds : RowMoves(j), swapped' = swapped,
         \A d \in swapped : Telling(d) => Telling(d)'
  PROVE  Told'
<1>1. \A d \in swapped : d.job \in JobIds /\ d \in Claims
  BY ClaimsTyped DEF Claims, Calm
<1> QED
  BY <1>1, DoneStays DEF Told

LEMMA TellingBooks ==
  ASSUME \A t \in tasks : t.phase = "report" =>
           \E s \in tasks' : s.of = t.of /\ s.phase = t.phase /\ s.result = t.result,
         posted \subseteq posted'
  PROVE  \A d : Telling(d) => Telling(d)'
BY DEF Telling

LEMMA ToldTask == ASSUME Calm, Told, Quiet, NEW t \in tasks, TaskStep(t) PROVE Told'
<1>0. /\ t \in Task /\ t.of \in Claims /\ t.of.job \in JobIds
      /\ \A j \in JobIds : RowMoves(j)
  BY ClaimsTyped DEF Calm, Inv, BaseInv, WorkersTyped, TypeOK, Claims, Quiet
<1>1. ASSUME NEW u, Replace(t, u), posted' = posted, t.phase # "report"
      PROVE  \A d : Telling(d) => Telling(d)'
  <2>1. \A s \in tasks : s.phase = "report" => s \in tasks'
    BY <1>1 DEF Replace
  <2> QED
    BY <1>1, <2>1, TellingBooks
<1>2. CASE Launch(t)
  BY <1>0, <1>1, <1>2, ToldKept DEF Launch
<1>3. CASE LaunchFails(t)
  BY <1>0, <1>1, <1>3, ToldKept DEF LaunchFails
<1>4. ASSUME NEW encoded \in Host!Results, EncodeEnds(t, encoded)
      PROVE  Told'
  <2> DEFINE r == ResultOf(t.of.node, t.of.job, encoded)
             u == [t EXCEPT !.phase = "report", !.result = r]
  <2>1. r \in Host!Results /\ Replace(t, u) /\ posted' = posted /\ t.phase = "encode"
        /\ (swapped' = swapped \/ (r = "swapped" /\ swapped' = swapped \cup {t.of}))
    BY <1>4, ResultKnown DEF EncodeEnds, SwapsOutput
  <2> HIDE DEF r
  <2>2. u.of = t.of /\ u.phase = "report" /\ u.result = r
    BY <1>0, <2>1, ReportFields
  <2> HIDE DEF u
  <2>3. \A d : Telling(d) => Telling(d)'
    BY <1>1, <2>1
  <2>4. CASE swapped' = swapped
    BY <1>0, <2>3, <2>4, ToldKept
  <2>5. CASE r = "swapped" /\ swapped' = swapped \cup {t.of}
    <3>1. Telling(t.of)'
      BY <2>1, <2>2, <2>5 DEF Telling, Replace
    <3>2. \A d \in swapped : jobs[d.job].state = "done" => jobs'[d.job].state = "done"
      BY <1>0, ClaimsTyped, DoneStays DEF Claims, Calm
    <3> QED
      BY <2>3, <2>5, <3>1, <3>2 DEF Told
  <2> QED
    BY <2>1, <2>4, <2>5
<1>5. CASE PostResult(t)
  <2> DEFINE p == [of |-> t.of, result |-> t.result]
  <2>1. p.of = t.of /\ p.result = t.result /\ posted' = posted \cup {p} /\ swapped' = swapped
    BY <1>5 DEF PostResult
  <2>2. \A s \in tasks : s # t => s \in tasks'
    BY <1>5 DEF PostResult, Replace
  <2> HIDE DEF p
  <2>3. \A d : Telling(d) => Telling(d)'
    BY <2>1, <2>2 DEF Telling
  <2> QED
    BY <1>0, <2>1, <2>3, ToldKept
<1>6. CASE TaskReturns(t) \/ ProgressAnswered(t)
  <2>1. /\ posted' = posted /\ swapped' = swapped
        /\ \A s \in tasks : s.phase = "report" => s \in tasks'
    BY <1>6 DEF TaskReturns, ProgressAnswered
  <2>2. \A d : Telling(d) => Telling(d)'
    BY <2>1, TellingBooks
  <2> QED
    BY <1>0, <2>1, <2>2, ToldKept
<1> QED
  BY <1>2, <1>3, <1>4, <1>5, <1>6 DEF TaskStep

LEMMA ToldFinish ==
  ASSUME Calm, Told, NEW d \in dispatches, NEW result \in Host!Results, Host!Finish(d, result),
         swapped' \subseteq swapped \cup {d}, tasks' = tasks,
         \A m \in posted : m.of # d => m \in posted',
         d \in swapped' => result = "swapped"
  PROVE  Told'
<1>1. ASSUME NEW e \in swapped' PROVE jobs'[e.job].state = "done" \/ Telling(e)'
  <2>1. e \in Claims /\ d \in Claims /\ e.job \in JobIds
    BY ClaimsTyped DEF Claims, Calm
  <2>2. CASE e.job = d.job
    <3>1. e = d
      BY <2>1, <2>2, OneClaimPerJob
    <3>2. Host!OutcomeOf("swapped") = "done"
      BY DEF Host!OutcomeOf
    <3> QED
      BY <1>1, <3>1, <3>2, FinishRows
  <2>3. CASE e.job # d.job
    <3>1. e \in swapped
      BY <1>1, <2>3
    <3>2. jobs[e.job].state = "done" => jobs'[e.job].state = "done"
      BY <2>1, <2>3, FinishRows, DoneStays
    <3>3. Telling(e) => Telling(e)'
      BY <2>3 DEF Telling
    <3> QED
      BY <3>1, <3>2, <3>3 DEF Told
  <2> QED
    BY <2>2, <2>3
<1> QED
  BY <1>1 DEF Told

LEMMA ToldStep == ASSUME Calm, Told, Next PROVE Told'
<1>0. Inv /\ BaseInv
  BY DEF Calm, Inv
<1>q. Quiet => \A j \in JobIds : RowMoves(j)
  BY DEF Quiet
<1>1. ASSUME \A j \in JobIds : RowMoves(j), UNCHANGED <<tasks, posted, swapped>>
      PROVE  Told'
  <2>1. \A d : Telling(d) => Telling(d)'
    BY <1>1 DEF Telling
  <2> QED
    BY <1>1, <2>1, ToldKept
<1>2. CASE Quiet /\ UNCHANGED workerVars
  BY <1>q, <1>1, <1>2 DEF workerVars
<1>3. CASE Host!ClaimFor(Local) /\ UNCHANGED workerVars
  BY <1>1, <1>3, ClaimRows DEF workerVars
<1>4. ASSUME NEW d \in dispatches, NEW result \in Host!Results, LocalFinish(d, result)
      PROVE  Told'
  <2>1. d.node \notin Remotes /\ d \in Claims
    BY <1>4, QueueAssumption DEF LocalFinish, Claims
  <2>2. jobs[d.job].state # "done" /\ d.job \in JobIds
    BY <2>1, ClaimsTyped DEF Calm, Once
  <2>3. ~Telling(d)
    BY <1>0, <2>1 DEF Telling, BaseInv, Placed
  <2>4. d \notin swapped
    BY <2>2, <2>3 DEF Told
  <2> QED
    BY <1>4, <2>4, ToldFinish DEF LocalFinish
<1>5. ASSUME NEW w \in Remotes, Quiet, StartWorker(w) \/ Reap(w) \/ Beat(w)
      PROVE  Told'
  BY <1>q, <1>1, <1>5 DEF StartWorker, Reap, Beat
<1>6. ASSUME NEW w \in Remotes, Quiet, TakeClaim(w)
      PROVE  Told'
  <2>1. \A d : Telling(d) => Telling(d)'
    BY <1>6 DEF Telling, TakeClaim
  <2> QED
    BY <1>q, <1>6, <2>1, ToldKept DEF TakeClaim
<1>7. ASSUME NEW w \in Remotes, AskClaim(w)
      PROVE  Told'
  BY <1>1, <1>7, ClaimRows DEF AskClaim, Host!RemoteClaim
<1>8. ASSUME NEW w \in Remotes, NEW j \in JobIds, Quiet, CancelHeard(w, j)
      PROVE  Told'
  <2>1. \A t \in tasks : \E s \in tasks' : t.of = s.of /\ t.phase = s.phase /\ t.result = s.result
    BY <1>0, <1>8, HeardTasks
  <2>2. posted' = posted /\ swapped' = swapped
    BY <1>8 DEF CancelHeard
  <2>3. \A d : Telling(d) => Telling(d)'
    BY <2>1, <2>2 DEF Telling
  <2> QED
    BY <1>q, <1>8, <2>2, <2>3, ToldKept
<1>9. ASSUME NEW w \in Remotes, NEW j \in JobIds, Quiet, NoticeLost(w, j)
      PROVE  Told'
  BY <1>q, <1>1, <1>9 DEF NoticeLost
<1>10. ASSUME NEW m \in posted, FinishArrives(m)
       PROVE  Told'
  <2>1. m.of \in dispatches /\ m.result \in Host!Results
    BY <1>0 DEF BaseInv, Placed, WorkersTyped
  <2>2. m.of.job \in JobIds /\ jobs[m.of.job].state # "done"
    BY <1>0, <2>1, ClaimsTyped DEF Calm, Once, Claims
  <2>3. \A n \in posted : n.of = m.of => n = m
    BY <1>0 DEF BaseInv, Placed
  <2>4. \A t \in tasks : t.of = m.of => t.phase = "posted"
    BY <1>0 DEF BaseInv, Placed
  <2>5. Telling(m.of) => m.result = "swapped"
    BY <2>3, <2>4 DEF Telling
  <2>6. m.of \in swapped => m.result = "swapped"
    BY <2>2, <2>5 DEF Told
  <2>7. /\ Host!Finish(m.of, m.result) /\ swapped' = swapped /\ tasks' = tasks
        /\ posted' = posted \ {m}
    BY <1>10 DEF FinishArrives
  <2> QED
    BY <2>1, <2>6, <2>7, ToldFinish
<1> QED
  BY <1>2, <1>3, <1>4, <1>5, <1>6, <1>7, <1>8, <1>9, <1>10, ToldTask, LiveSteps

-----------------------------------------------------------------------------
(* Entered, and the slots. *)

LEMMA EnteredStep == ASSUME Calm, Entered, Next PROVE Entered'
<1>0. Inv /\ BaseInv /\ \A t \in tasks : t \in Task /\ t.of.node \in Remotes /\ t.of.job \in JobIds
  BY Numbers DEF Calm, Inv, BaseInv, Placed
<1>r. running \in [Remotes -> [JobIds -> Dispatch \cup {NoDispatch}]]
  BY <1>0 DEF BaseInv, WorkersTyped, TypeOK
<1>1. ASSUME {t.of : t \in tasks'} \subseteq {t.of : t \in tasks}, running' = running
      PROVE  Entered'
  BY <1>1 DEF Entered
<1>2. ASSUME NEW w \in Remotes, Reap(w)
      PROVE  Entered'
  <2>1. ASSUME NEW t \in tasks PROVE running'[t.of.node][t.of.job] = t.of
    <3>1. running[t.of.node][t.of.job] = t.of
      BY DEF Entered
    <3>2. running'[t.of.node][t.of.job] = running[t.of.node][t.of.job]
      <4>1. CASE t.of.node # w
        BY <1>2, <1>0, <1>r, <4>1 DEF Reap
      <4>2. CASE t.of.node = w
        <5>1. running'[w][t.of.job] = IF \E s \in tasks : s.of = running[w][t.of.job]
                                      THEN running[w][t.of.job] ELSE NoDispatch
          BY <1>2, <1>0, <1>r DEF Reap
        <5> QED
          BY <3>1, <4>2, <5>1
      <4> QED
        BY <4>1, <4>2
    <3> QED
      BY <3>1, <3>2
  <2> QED
    BY <1>2, <2>1 DEF Entered, Reap
<1>3. ASSUME NEW w \in Remotes, TakeClaim(w)
      PROVE  Entered'
  <2> DEFINE d == answer[w]
  <2>1. d \in dispatches /\ d.node = w /\ d \in Dispatch
    BY <1>0, <1>3 DEF TakeClaim, BaseInv, Placed, WorkersTyped
  <2>2. d.job \in JobIds /\ d \in Dispatch \cup {NoDispatch} /\ d \in Claims
    BY <2>1 DEF Dispatch, Claims
  <2>3. running' = [running EXCEPT ![w][d.job] = d] /\ tasks' = tasks \cup {NewTask(d)}
    BY <1>3 DEF TakeClaim
  <2>4. NewTask(d).of = d
    BY DEF NewTask
  <2> HIDE DEF d
  <2>5. \A v \in Remotes, k \in JobIds :
          running'[v][k] = IF v = w /\ k = d.job THEN d ELSE running[v][k]
    BY <1>r, <2>2, <2>3, EntrySet
  <2>6. \A t \in tasks : t.of.job = d.job => t.of = d
    BY <2>2, OneClaimPerJob DEF Claims
  <2>7. \A t \in tasks : running'[t.of.node][t.of.job] = t.of
    BY <1>0, <2>5, <2>6 DEF Entered
  <2> QED
    BY <2>1, <2>2, <2>3, <2>4, <2>5, <2>7 DEF Entered
<1>4. CASE UNCHANGED workerVars
  BY <1>1, <1>4 DEF workerVars
<1>5. CASE (\E d \in dispatches, result \in Host!Results : LocalFinish(d, result))
           \/ \E m \in posted : FinishArrives(m)
  BY <1>1, <1>5 DEF LocalFinish, FinishArrives
<1>6. ASSUME NEW w \in Remotes, StartWorker(w) \/ Beat(w) \/ AskClaim(w)
             \/ \E j \in JobIds : NoticeLost(w, j)
      PROVE  Entered'
  BY <1>1, <1>6 DEF StartWorker, Beat, AskClaim, NoticeLost
<1>7. ASSUME NEW w \in Remotes, NEW j \in JobIds, CancelHeard(w, j)
      PROVE  Entered'
  <2>1. \A t \in tasks' : \E s \in tasks : t.of = s.of
    BY <1>0, <1>7, HeardTasks
  <2> QED
    BY <1>1, <1>7, <2>1 DEF CancelHeard
<1>8. ASSUME NEW t \in tasks, TaskStep(t)
      PROVE  Entered'
  <2>1. running' = running
    BY <1>8 DEF TaskStep, Launch, LaunchFails, PostResult, TaskReturns, ProgressAnswered, EncodeEnds
  <2> QED
    BY <1>0, <1>1, <1>8, <2>1, TaskClaims
<1> QED
  BY <1>2, <1>3, <1>4, <1>5, <1>6, <1>7, <1>8, LiveSteps
LEMMA JobsFinite ==
  ASSUME Inv, NEW w
  PROVE  /\ JobsOf(w) \subseteq JobIds /\ IsFiniteSet(JobsOf(w))
         /\ Cardinality(JobsOf(w)) \in Nat
<1>1. JobsOf(w) \subseteq JobIds
  BY Numbers DEF Inv, JobsOf, TasksOf
<1>2. IsFiniteSet(JobIds)
  BY QueueAssumption, FS_Interval
<1> QED
  BY <1>1, <1>2, FS_Subset, FS_CardinalityType

LEMMA FittingKept ==
  ASSUME Inv, Fitting,
         \A w \in Remotes : JobsOf(w)' \subseteq JobsOf(w),
         \A w \in Remotes : answer'[w] # NoDispatch => answer[w] # NoDispatch
  PROVE  Fitting'
<1>1. ASSUME NEW w \in Remotes
      PROVE  Cardinality(JobsOf(w)') \in Nat /\ Cardinality(JobsOf(w)') <= Cardinality(JobsOf(w))
  <2>1. JobsOf(w)' \subseteq JobsOf(w)
    OBVIOUS
  <2> QED
    BY <2>1, JobsFinite, FS_Subset, FS_CardinalityType
<1>2. \A w \in Remotes : Cardinality(JobsOf(w)) \in Nat
  BY JobsFinite
<1>3. \A w \in Remotes :
        Cardinality(JobsOf(w)') + (IF answer'[w] = NoDispatch THEN 0 ELSE 1) <= Cap
  <2> SUFFICES ASSUME NEW w \in Remotes
               PROVE  Cardinality(JobsOf(w)') + (IF answer'[w] = NoDispatch THEN 0 ELSE 1) <= Cap
    OBVIOUS
  <2> DEFINE a == Cardinality(JobsOf(w))
             b == Cardinality(JobsOf(w)')
             c == IF answer[w] = NoDispatch THEN 0 ELSE 1
             e == IF answer'[w] = NoDispatch THEN 0 ELSE 1
  <2>1. a \in Nat /\ b \in Nat /\ b <= a
    BY <1>1, <1>2
  <2>2. a + c <= Cap
    BY DEF Fitting
  <2>3. c \in Nat /\ e \in Nat /\ e <= c
    OBVIOUS
  <2> HIDE DEF a, b, c, e
  <2>4. b + e <= Cap
    BY <2>1, <2>2, <2>3, CapAssumption
  <2> QED
    BY <2>4 DEF b, e
<1> QED
  BY <1>3 DEF Fitting

LEMMA SameJobs ==
  ASSUME {t.of : t \in tasks'} \subseteq {t.of : t \in tasks}
  PROVE  \A w \in Remotes : JobsOf(w)' \subseteq JobsOf(w)
<1> SUFFICES ASSUME NEW w \in Remotes, NEW t \in tasks', t.of.node = w
             PROVE  \E s \in tasks : s.of.node = w /\ s.of.job = t.of.job
  BY DEF JobsOf, TasksOf
<1>1. PICK s \in tasks : s.of = t.of
  OBVIOUS
<1> QED
  BY <1>1

LEMMA FittingStep == ASSUME Calm, Entered, Fitting, Next PROVE Fitting'
<1>0. /\ Inv /\ BaseInv
      /\ \A t \in tasks : t.of \in Dispatch /\ t.of.node \in Remotes /\ t.of.job \in JobIds
  BY ClaimsTyped DEF Calm, Inv, BaseInv, Placed, Claims
<1>a. answer \in [Remotes -> Dispatch \cup {NoDispatch}]
  BY <1>0 DEF BaseInv, WorkersTyped, TypeOK
<1>1. ASSUME {t.of : t \in tasks'} \subseteq {t.of : t \in tasks}, answer' = answer
      PROVE  Fitting'
  BY <1>0, <1>1, SameJobs, FittingKept
<1>2. ASSUME NEW w \in Remotes, AskClaim(w)
      PROVE  Fitting'
  <2>1. /\ tasks' = tasks /\ HasFreeSlot(w)
        /\ \A v \in Remotes : v # w => answer'[v] = answer[v]
    BY <1>2, <1>a DEF AskClaim
  <2>2. JobsOf(w) \subseteq Entries(running, w)
    BY <1>0, NoDispatchAssumption DEF JobsOf, TasksOf, Entries, Entered
  <2>3. /\ IsFiniteSet(Entries(running, w))
        /\ Cardinality(Entries(running, w)) \in Nat
        /\ Cardinality(JobsOf(w)) <= Cardinality(Entries(running, w))
        /\ Cardinality(JobsOf(w)) \in Nat
    <3>1. Entries(running, w) \subseteq JobIds
      BY DEF Entries
    <3>2. IsFiniteSet(JobIds)
      BY QueueAssumption, FS_Interval
    <3>3. IsFiniteSet(Entries(running, w))
      BY <3>1, <3>2, FS_Subset
    <3> QED
      BY <1>0, <2>2, <3>3, FS_Subset, FS_CardinalityType, JobsFinite
  <2>4. Cardinality(JobsOf(w)) + 1 <= Cap
    BY <2>1, <2>3, CapAssumption DEF HasFreeSlot
  <2>5. \A v \in Remotes : JobsOf(v)' = JobsOf(v)
    BY <2>1 DEF JobsOf, TasksOf
  <2>6. \A v \in Remotes :
          Cardinality(JobsOf(v)) + (IF answer'[v] = NoDispatch THEN 0 ELSE 1) <= Cap
    <3> SUFFICES ASSUME NEW v \in Remotes
                 PROVE  Cardinality(JobsOf(v)) + (IF answer'[v] = NoDispatch THEN 0 ELSE 1) <= Cap
      OBVIOUS
    <3>1. CASE v = w
      BY <2>3, <2>4, <3>1, CapAssumption
    <3>2. CASE v # w
      BY <2>1, <3>2 DEF Fitting
    <3> QED
      BY <3>1, <3>2
  <2> QED
    BY <2>5, <2>6 DEF Fitting
<1>3. ASSUME NEW w \in Remotes, TakeClaim(w)
      PROVE  Fitting'
  <2> DEFINE d == answer[w]
  <2>1. /\ tasks' = tasks \cup {NewTask(d)} /\ NewTask(d).of = d
        /\ d # NoDispatch /\ d.node = w
        /\ \A v \in Remotes : answer'[v] = IF v = w THEN NoDispatch ELSE answer[v]
    BY <1>0, <1>3, <1>a DEF TakeClaim, NewTask, BaseInv, Placed
  <2> HIDE DEF d
  <2>2. JobsOf(w)' = JobsOf(w) \cup {d.job}
    BY <2>1 DEF JobsOf, TasksOf
  <2>3. \A v \in Remotes : v # w => JobsOf(v)' = JobsOf(v)
    BY <2>1 DEF JobsOf, TasksOf
  <2>4. Cardinality(JobsOf(w)') \in Nat /\ Cardinality(JobsOf(w)') <= Cardinality(JobsOf(w)) + 1
    <3>1. IsFiniteSet(JobsOf(w)) /\ Cardinality(JobsOf(w)) \in Nat
      BY <1>0, JobsFinite
    <3> DEFINE S == JobsOf(w)
    <3>2. JobsOf(w)' = S \cup {d.job} /\ IsFiniteSet(S) /\ Cardinality(S) \in Nat
      BY <2>2, <3>1
    <3> HIDE DEF S
    <3>3. Cardinality(S \cup {d.job}) = Cardinality(S) \/ Cardinality(S \cup {d.job}) = Cardinality(S) + 1
      BY <3>2, FS_AddElement
    <3>4. Cardinality(S \cup {d.job}) \in Nat /\ Cardinality(S \cup {d.job}) <= Cardinality(S) + 1
      BY <3>2, <3>3
    <3> QED
      BY <3>2, <3>4 DEF S
  <2>5. Cardinality(JobsOf(w)) + 1 <= Cap /\ Cardinality(JobsOf(w)) \in Nat
    BY <1>0, <2>1, JobsFinite DEF Fitting, d
  <2>6. Cardinality(JobsOf(w)') + 0 <= Cap
    BY <2>4, <2>5, CapAssumption
  <2>7. \A v \in Remotes :
          Cardinality(JobsOf(v)') + (IF answer'[v] = NoDispatch THEN 0 ELSE 1) <= Cap
    <3> SUFFICES ASSUME NEW v \in Remotes
                 PROVE  Cardinality(JobsOf(v)') + (IF answer'[v] = NoDispatch THEN 0 ELSE 1) <= Cap
      OBVIOUS
    <3>1. CASE v = w
      BY <2>1, <2>6, <3>1
    <3>2. CASE v # w
      BY <2>1, <2>3, <3>2 DEF Fitting
    <3> QED
      BY <3>1, <3>2
  <2> QED
    BY <2>7 DEF Fitting
<1>4. CASE UNCHANGED workerVars
  BY <1>1, <1>4 DEF workerVars
<1>5. CASE (\E d \in dispatches, result \in Host!Results : LocalFinish(d, result))
           \/ \E m \in posted : FinishArrives(m)
  BY <1>1, <1>5 DEF LocalFinish, FinishArrives
<1>6. ASSUME NEW w \in Remotes, StartWorker(w) \/ Beat(w) \/ Reap(w)
             \/ \E j \in JobIds : NoticeLost(w, j)
      PROVE  Fitting'
  BY <1>1, <1>6 DEF StartWorker, Beat, Reap, NoticeLost
<1>7. ASSUME NEW w \in Remotes, NEW j \in JobIds, CancelHeard(w, j)
      PROVE  Fitting'
  <2>1. \A t \in tasks' : \E s \in tasks : t.of = s.of
    BY <1>0, <1>7, HeardTasks
  <2> QED
    BY <1>1, <1>7, <2>1 DEF CancelHeard
<1>8. ASSUME NEW t \in tasks, TaskStep(t)
      PROVE  Fitting'
  <2>1. answer' = answer
    BY <1>8 DEF TaskStep, Launch, LaunchFails, PostResult, TaskReturns, ProgressAnswered, EncodeEnds
  <2> QED
    BY <1>0, <1>1, <1>8, <2>1, TaskClaims
<1> QED
  BY <1>2, <1>3, <1>4, <1>5, <1>6, <1>7, <1>8, LiveSteps
-----------------------------------------------------------------------------
(* Cancellations. *)

LEMMA HeardKept ==
  ASSUME Inv, Heard, \A j \in JobIds : RowMoves(j),
         \A w \in Remotes, j \in JobIds : j \in notices'[w] \cup cancelReq'[w] =>
           j \in notices[w] \cup cancelReq[w] \/ Stopping(j),
         \A w \in Remotes : notices'[w] \subseteq JobIds /\ cancelReq'[w] \subseteq JobIds
  PROVE  Heard'
BY DEF Heard, Stopping, RowMoves

LEMMA HonestKept ==
  ASSUME NEW t, Honest(t), RowMoves(t.of.job), posted' \subseteq posted,
         cancelReq[t.of.node] \subseteq cancelReq'[t.of.node]
  PROVE  Honest(t)'
BY DEF Honest, RowMoves

LEMMA PostKept ==
  ASSUME NEW m, PostHonest(m), RowMoves(m.of.job) PROVE PostHonest(m)'
BY DEF PostHonest, RowMoves

LEMMA CancelsKept ==
  ASSUME Inv, Cancels, \A j \in JobIds : RowMoves(j),
         tasks' \subseteq tasks, posted' \subseteq posted, cancelReq' = cancelReq,
         \A w \in Remotes : notices'[w] \subseteq notices[w] \cup Flagged(w)
  PROVE  Cancels'
<1>1. /\ \A t \in tasks : t.of.job \in JobIds
      /\ \A m \in posted : m.of.job \in JobIds
  BY Numbers DEF Inv, BaseInv, Placed
<1>2. \A w \in Remotes : notices[w] \subseteq JobIds /\ cancelReq[w] \subseteq JobIds
  BY DEF Inv, BaseInv, WorkersTyped, TypeOK
<1>3. \A w \in Remotes : \A j \in Flagged(w) : j \in JobIds /\ Stopping(j)
  BY DEF Flagged, Stopping
<1>4. Heard'
  BY <1>2, <1>3, HeardKept DEF Cancels
<1>5. \A t \in tasks' : Honest(t)'
  BY <1>1, HonestKept DEF Cancels
<1>6. \A m \in posted' : PostHonest(m)'
  BY <1>1, PostKept DEF Cancels
<1> QED
  BY <1>4, <1>5, <1>6 DEF Cancels

LEMMA CancelsFinish ==
  ASSUME Calm, Cancels, NEW d \in dispatches, NEW result \in Host!Results,
         Host!Finish(d, result), tasks' = tasks, posted' \subseteq posted,
         UNCHANGED <<notices, cancelReq>>,
         \A m \in posted' : m.of # d,
         \A t \in tasks : t.of = d => t.phase = "posted" /\ t.result = result
  PROVE  Cancels'
<1>1. d \in Claims /\ d.job \in JobIds
  BY ClaimsTyped DEF Claims, Calm
<1>2. /\ \A j \in JobIds : j # d.job => RowMoves(j)
      /\ jobs'[d.job].state = Host!OutcomeOf(result) /\ Host!OutcomeOf(result) \in Host!Terminal
  BY FinishRows
<1>3. Heard'
  <2>1. \A w \in Remotes : notices[w] \subseteq JobIds /\ cancelReq[w] \subseteq JobIds
    BY DEF Calm, Inv, BaseInv, WorkersTyped, TypeOK
  <2>2. \A j \in JobIds : Stopping(j) => Stopping(j)'
    BY <1>2 DEF Stopping, RowMoves
  <2> QED
    BY <2>1, <2>2 DEF Heard, Cancels
<1>4. ASSUME NEW t \in tasks PROVE Honest(t)'
  <2>1. t.of \in Claims /\ t.of.job \in JobIds
    BY ClaimsTyped DEF Claims, Calm
  <2>2. CASE t.of.job # d.job
    BY <1>2, <2>1, <2>2, HonestKept DEF Cancels
  <2>3. CASE t.of.job = d.job
    <3>1. t.of = d
      BY <1>1, <2>1, <2>3, OneClaimPerJob
    <3>2. t.phase = "posted" /\ t.result = result /\ Honest(t)
      BY <3>1 DEF Cancels
    <3>3. t.result = "cancelled" => jobs'[t.of.job].state = "cancelled"
      BY <1>2, <3>1, <3>2 DEF Host!OutcomeOf
    <3> QED
      BY <3>2, <3>3 DEF Honest
  <2> QED
    BY <2>2, <2>3
<1>5. ASSUME NEW m \in posted' PROVE PostHonest(m)'
  <2>1. m.of \in Claims /\ m.of.job \in JobIds
    BY ClaimsTyped DEF Claims, Calm, Inv, BaseInv, Placed
  <2>2. m.of.job # d.job
    BY <1>1, <1>5, <2>1, OneClaimPerJob
  <2> QED
    BY <1>2, <2>1, <2>2, PostKept DEF Cancels
<1> QED
  BY <1>3, <1>4, <1>5 DEF Cancels

LEMMA CancelsTask == ASSUME Calm, Cancels, Quiet, NEW t \in tasks, TaskStep(t) PROVE Cancels'
<1>0. /\ Inv /\ t \in Task /\ t.of \in Claims /\ t.of.job \in JobIds /\ t.of.node \in Remotes
      /\ \A j \in JobIds : RowMoves(j)
      /\ \A s \in tasks : s.of \in Claims /\ s.of.job \in JobIds
      /\ \A m \in posted : m.of.job \in JobIds
  BY ClaimsTyped, Numbers DEF Calm, Inv, BaseInv, WorkersTyped, Placed, Claims, Quiet
<1>h. Honest(t)
  BY DEF Cancels
<1>b. /\ \A w \in Remotes : notices[w] \subseteq JobIds /\ cancelReq[w] \subseteq JobIds
      /\ cancelReq \in [Remotes -> SUBSET JobIds]
  BY <1>0 DEF Inv, BaseInv, WorkersTyped, TypeOK
<1>1. ASSUME NEW u, Replace(t, u), Honest(u)', UNCHANGED <<posted, notices, cancelReq>>
      PROVE  Cancels'
  <2>1. Heard'
    BY <1>0, <1>1, <1>b, HeardKept DEF Cancels
  <2>2. \A s \in tasks : Honest(s)'
    BY <1>0, <1>1, HonestKept DEF Cancels
  <2>3. \A m \in posted : PostHonest(m)'
    BY <1>0, PostKept DEF Cancels
  <2> QED
    BY <1>1, <2>1, <2>2, <2>3 DEF Cancels, Replace
<1>2. CASE Launch(t)
  <2> DEFINE u == [t EXCEPT !.phase = "encode"]
  <2>1. u.of = t.of /\ u.phase = "encode" /\ u.result = t.result /\ u.killed = t.killed
    BY <1>0, TaskFields
  <2>2. Replace(t, u) /\ t.phase = "start" /\ UNCHANGED <<posted, notices, cancelReq>>
    BY <1>2 DEF Launch
  <2> HIDE DEF u
  <2>3. ~t.killed /\ t.result # "cancelled"
    BY <1>h, <2>2 DEF Honest
  <2>4. Honest(u)'
    BY <1>h, <2>1, <2>2, <2>3 DEF Honest
  <2> QED
    BY <1>1, <2>2, <2>4
<1>3. CASE LaunchFails(t)
  <2> DEFINE u == [t EXCEPT !.phase = "report", !.result = "encode_failed"]
  <2>0. "encode_failed" \in Host!Results
    BY DEF Host!Results
  <2>1. u.of = t.of /\ u.result = "encode_failed" /\ u.killed = t.killed
    BY <1>0, <2>0, ReportFields
  <2>2. Replace(t, u) /\ t.phase = "start" /\ UNCHANGED <<posted, notices, cancelReq>>
    BY <1>3 DEF LaunchFails
  <2> HIDE DEF u
  <2>3. ~t.killed /\ \A m \in posted : m.of # t.of
    BY <1>h, <1>0, <2>2 DEF Honest, Inv, BaseInv, Placed
  <2>4. Honest(u)'
    BY <2>1, <2>2, <2>3 DEF Honest
  <2> QED
    BY <1>1, <2>2, <2>4
<1>4. ASSUME NEW encoded \in Host!Results \ {"cancelled"}, EncodeEnds(t, encoded)
      PROVE  Cancels'
  <2> DEFINE w == t.of.node
             j == t.of.job
  <2>2. PICK r \in Host!Results :
          /\ r = "cancelled" <=> j \in cancelReq[w]
          /\ Replace(t, [t EXCEPT !.phase = "report", !.result = r])
    <3> DEFINE r == ResultOf(w, j, encoded)
    <3>1. r \in Host!Results /\ (j \in cancelReq[w] => r = "cancelled")
          /\ (j \notin cancelReq[w] => r # "cancelled")
      BY <1>4, ResultKnown DEF ResultOf
    <3>2. Replace(t, [t EXCEPT !.phase = "report", !.result = r])
      BY <1>4 DEF EncodeEnds
    <3>3. r = "cancelled" <=> j \in cancelReq[w]
      BY <3>1
    <3> HIDE DEF r
    <3> QED
      BY <3>1, <3>2, <3>3, Zenon
  <2>1. /\ t.phase = "encode" /\ UNCHANGED <<posted, notices>>
        /\ cancelReq' = [cancelReq EXCEPT ![w] = @ \ {j}]
    BY <1>4 DEF EncodeEnds
  <2>3. PICK u : /\ Replace(t, u) /\ u.of = t.of /\ u.phase = "report" /\ u.result = r
                 /\ u.killed = t.killed
    <3> DEFINE u == [t EXCEPT !.phase = "report", !.result = r]
    <3>1. /\ Replace(t, u) /\ u.of = t.of /\ u.phase = "report" /\ u.result = r
          /\ u.killed = t.killed
      BY <1>0, <2>2, ReportFields
    <3> HIDE DEF u
    <3> QED
      BY <3>1, Zenon
  <2>4. \A v \in Remotes : cancelReq'[v] = IF v = w THEN cancelReq[v] \ {j} ELSE cancelReq[v]
    BY <1>0, <1>b, <2>1
  <2>5. r = "cancelled" => jobs'[j].state = "cancelling"
    <3>1. t.of \in dispatches
      BY <1>0, <2>1 DEF Inv, BaseInv, Placed
    <3>2. jobs[j].state \in Host!Active
      BY <3>1 DEF Calm, Once
    <3>3. j \in cancelReq[w] => Stopping(j)
      BY <1>0 DEF Cancels, Heard
    <3>4. j \in cancelReq[w] => jobs[j].state = "cancelling"
      BY <3>2, <3>3 DEF Stopping
    <3> QED
      BY <1>0, <2>2, <3>4 DEF RowMoves
  <2>6. \A m \in posted : m.of # t.of
    BY <1>0, <2>1 DEF Inv, BaseInv, Placed
  <2>7. t.killed => r = "cancelled"
    BY <1>h, <2>1, <2>2 DEF Honest
  <2>8. Honest(u)'
    BY <2>1, <2>3, <2>5, <2>6, <2>7 DEF Honest
  <2>9. \A s \in tasks : s # t => Honest(s)'
    <3> SUFFICES ASSUME NEW s \in tasks, s # t PROVE Honest(s)'
      OBVIOUS
    <3>1. s.of.job # j
      BY <1>0, OneClaimPerJob DEF Inv, BaseInv, Placed
    <3>2. Honest(s) /\ s.of.node \in Remotes
      BY <1>0 DEF Cancels, Inv, BaseInv, Placed
    <3>3. s.of.job \in cancelReq[s.of.node] => s.of.job \in cancelReq'[s.of.node]
      BY <2>4, <3>1, <3>2
    <3> QED
      BY <1>0, <2>1, <3>2, <3>3 DEF Honest, RowMoves
  <2>10. Heard'
    <3>1. \A v \in Remotes : cancelReq'[v] \subseteq cancelReq[v]
      BY <2>4
    <3> QED
      BY <1>0, <1>b, <2>1, <3>1, HeardKept DEF Cancels
  <2>11. \A m \in posted : PostHonest(m)'
    BY <1>0, PostKept DEF Cancels
  <2> QED
    BY <2>1, <2>3, <2>8, <2>9, <2>10, <2>11 DEF Cancels, Replace
<1>5. CASE PostResult(t)
  <2> DEFINE u == [t EXCEPT !.phase = "posted"]
             p == [of |-> t.of, result |-> t.result]
  <2>1. u.of = t.of /\ u.phase = "posted" /\ u.result = t.result /\ u.killed = t.killed
    BY <1>0, TaskFields
  <2>2. /\ Replace(t, u) /\ t.phase = "report" /\ posted' = posted \cup {p}
        /\ UNCHANGED <<notices, cancelReq>> /\ p.of = t.of /\ p.result = t.result
    BY <1>5 DEF PostResult
  <2> HIDE DEF u, p
  <2>3. t.result = "cancelled" => jobs'[t.of.job].state = "cancelling"
    BY <1>0, <1>h, <2>2 DEF Honest, RowMoves
  <2>4. Honest(u)'
    BY <1>h, <2>1, <2>2, <2>3 DEF Honest
  <2>5. \A s \in tasks : s # t => Honest(s)'
    <3> SUFFICES ASSUME NEW s \in tasks, s # t PROVE Honest(s)'
      OBVIOUS
    <3>1. s.of # t.of /\ Honest(s)
      BY <1>0 DEF Inv, BaseInv, Placed, Cancels
    <3> QED
      BY <1>0, <2>2, <3>1 DEF Honest, RowMoves
  <2>6. Heard'
    BY <1>0, <1>b, <2>2, HeardKept DEF Cancels
  <2>7. \A m \in posted' : PostHonest(m)'
    <3>1. \A m \in posted : PostHonest(m)'
      BY <1>0, PostKept DEF Cancels
    <3>2. PostHonest(p)'
      BY <2>2, <2>3 DEF PostHonest
    <3> QED
      BY <2>2, <3>1, <3>2
  <2> QED
    BY <2>2, <2>4, <2>5, <2>6, <2>7 DEF Cancels, Replace
<1>6. CASE TaskReturns(t)
  BY <1>0, <1>6, CancelsKept DEF TaskReturns
<1>7. CASE ProgressAnswered(t)
  <2>1. \A w \in Remotes : notices'[w] \subseteq notices[w] \cup Flagged(w)
    BY <1>0, <1>7 DEF ProgressAnswered, Inv, BaseInv, WorkersTyped, TypeOK
  <2> QED
    BY <1>0, <1>7, <2>1, CancelsKept DEF ProgressAnswered
<1> QED
  BY <1>2, <1>3, <1>4, <1>5, <1>6, <1>7 DEF TaskStep
LEMMA CancelsHeard ==
  ASSUME Calm, Cancels, Quiet, NEW w \in Remotes, NEW j \in JobIds, CancelHeard(w, j)
  PROVE  Cancels'
<1>0. /\ Inv /\ BaseInv /\ (\A k \in JobIds : RowMoves(k)) /\ posted' = posted
      /\ \A t \in tasks : t.of.job \in JobIds /\ t.of.node \in Remotes
      /\ \A m \in posted : m.of.job \in JobIds
  BY Numbers DEF Calm, Inv, BaseInv, Placed, Quiet, CancelHeard
<1>1. /\ \A v \in Remotes : notices[v] \subseteq JobIds /\ cancelReq[v] \subseteq JobIds
      /\ notices \in [Remotes -> SUBSET JobIds] /\ cancelReq \in [Remotes -> SUBSET JobIds]
  BY <1>0 DEF BaseInv, WorkersTyped, TypeOK
<1>2. /\ \A v \in Remotes : cancelReq'[v] = IF v = w THEN cancelReq[v] \cup {j} ELSE cancelReq[v]
      /\ \A v \in Remotes : notices'[v] \subseteq notices[v]
      /\ j \in notices[w]
  BY <1>1 DEF CancelHeard
<1>3. \A v \in Remotes : /\ notices'[v] \cup cancelReq'[v] \subseteq notices[v] \cup cancelReq[v]
                         /\ notices'[v] \subseteq JobIds /\ cancelReq'[v] \subseteq JobIds
                         /\ cancelReq[v] \subseteq cancelReq'[v]
  BY <1>1, <1>2
<1>4. Heard'
  BY <1>0, <1>3, HeardKept DEF Cancels
<1>5. ASSUME NEW t \in tasks' PROVE Honest(t)'
  <2>1. PICK s \in tasks :
          /\ t.of = s.of /\ t.phase = s.phase /\ t.result = s.result
          /\ \/ t = s
             \/ /\ t.killed /\ s.phase = "encode" /\ s.of = procs[w][j]
                /\ procs[w][j] # NoDispatch
    BY <1>0, HeardTasks
  <2>2. Honest(s)'
    BY <1>0, <1>3, HonestKept DEF Cancels
  <2>3. CASE t = s
    BY <2>2, <2>3
  <2>4. CASE s.phase = "encode" /\ s.of = procs[w][j] /\ procs[w][j] # NoDispatch
    <3>1. s.of.node = w /\ s.of.job = j
      BY <1>0, <2>4 DEF BaseInv, WorkersTyped
    <3>2. t.of.job \in cancelReq'[t.of.node] /\ t.phase = "encode"
      BY <1>2, <2>1, <2>4, <3>1
    <3> QED
      BY <2>1, <2>2, <3>2 DEF Honest
  <2> QED
    BY <2>1, <2>3, <2>4
<1>6. \A m \in posted' : PostHonest(m)'
  BY <1>0, PostKept DEF Cancels
<1> QED
  BY <1>4, <1>5, <1>6 DEF Cancels

LEMMA CancelsStep == ASSUME Calm, Cancels, Next PROVE Cancels'
<1>0. Inv /\ BaseInv
  BY DEF Calm, Inv
<1>q. Quiet => \A j \in JobIds : RowMoves(j)
  BY DEF Quiet
<1>1. ASSUME \A j \in JobIds : RowMoves(j), UNCHANGED <<tasks, posted, cancelReq, notices>>
      PROVE  Cancels'
  BY <1>0, <1>1, CancelsKept
<1>2. CASE Quiet /\ UNCHANGED workerVars
  BY <1>q, <1>1, <1>2 DEF workerVars
<1>3. CASE Host!ClaimFor(Local) /\ UNCHANGED workerVars
  BY <1>1, <1>3, ClaimRows DEF workerVars
<1>4. ASSUME NEW d \in dispatches, NEW result \in Host!Results, LocalFinish(d, result)
      PROVE  Cancels'
  <2>1. /\ \A t \in tasks : t.of # d
        /\ \A m \in posted : m.of # d
    BY <1>0, <1>4, QueueAssumption DEF LocalFinish, BaseInv, Placed
  <2>2. Host!Finish(d, result) /\ UNCHANGED <<tasks, posted, notices, cancelReq>>
    BY <1>4 DEF LocalFinish
  <2> QED
    BY <2>1, <2>2, CancelsFinish
<1>5. ASSUME NEW w \in Remotes, Quiet, StartWorker(w) \/ Reap(w)
      PROVE  Cancels'
  BY <1>q, <1>1, <1>5 DEF StartWorker, Reap
<1>6. ASSUME NEW w \in Remotes, Quiet, Beat(w)
      PROVE  Cancels'
  <2>1. \A v \in Remotes : notices'[v] \subseteq notices[v] \cup Flagged(v)
    BY <1>0, <1>6 DEF Beat, CancellationsFor, BaseInv, WorkersTyped, TypeOK
  <2> QED
    BY <1>0, <1>q, <1>6, <2>1, CancelsKept DEF Beat
<1>7. ASSUME NEW w \in Remotes, Quiet, TakeClaim(w)
      PROVE  Cancels'
  <2> DEFINE u == NewTask(answer[w])
  <2>1. /\ u.of = answer[w] /\ u.killed = FALSE /\ u.result = "none"
        /\ tasks' = tasks \cup {u} /\ UNCHANGED <<posted, notices, cancelReq>>
    BY <1>7 DEF TakeClaim, NewTask
  <2>2. \A m \in posted : m.of # u.of
    BY <1>0, <1>7, <2>1 DEF TakeClaim, BaseInv, Placed
  <2>3. /\ \A t \in tasks : t.of.job \in JobIds
        /\ \A m \in posted : m.of.job \in JobIds
    BY <1>0, Numbers DEF BaseInv, Placed
  <2>4. \A v \in Remotes : notices[v] \subseteq JobIds /\ cancelReq[v] \subseteq JobIds
    BY <1>0 DEF BaseInv, WorkersTyped, TypeOK
  <2> HIDE DEF u
  <2>5. \A t \in tasks : Honest(t)'
    BY <1>q, <1>7, <2>1, <2>3, HonestKept DEF Cancels
  <2>6. \A t \in tasks' : Honest(t)'
    <3>1. ASSUME NEW t \in tasks', t = u PROVE Honest(t)'
      BY <2>1, <2>2, <3>1 DEF Honest
    <3> QED
      BY <2>1, <2>5, <3>1
  <2>7. Heard'
    BY <1>0, <1>q, <1>7, <2>1, <2>4, HeardKept DEF Cancels
  <2>8. \A m \in posted' : PostHonest(m)'
    BY <1>q, <1>7, <2>1, <2>3, PostKept DEF Cancels
  <2> QED
    BY <2>6, <2>7, <2>8 DEF Cancels
<1>8. ASSUME NEW w \in Remotes, AskClaim(w)
      PROVE  Cancels'
  BY <1>1, <1>8, ClaimRows DEF AskClaim, Host!RemoteClaim
<1>9. ASSUME NEW w \in Remotes, NEW j \in JobIds, Quiet, CancelHeard(w, j)
      PROVE  Cancels'
  BY <1>9, CancelsHeard
<1>10. ASSUME NEW w \in Remotes, NEW j \in JobIds, Quiet, NoticeLost(w, j)
       PROVE  Cancels'
  <2>1. \A v \in Remotes : notices'[v] \subseteq notices[v] \cup Flagged(v)
    BY <1>0, <1>10 DEF NoticeLost, BaseInv, WorkersTyped, TypeOK
  <2> QED
    BY <1>0, <1>q, <1>10, <2>1, CancelsKept DEF NoticeLost
<1>11. ASSUME NEW m \in posted, FinishArrives(m)
       PROVE  Cancels'
  <2>1. m.of \in dispatches /\ m.result \in Host!Results
    BY <1>0 DEF BaseInv, Placed, WorkersTyped
  <2>2. /\ Host!Finish(m.of, m.result) /\ UNCHANGED <<tasks, notices, cancelReq>>
        /\ posted' = posted \ {m}
    BY <1>11 DEF FinishArrives
  <2>3. \A n \in posted' : n.of # m.of
    BY <1>0, <2>2 DEF BaseInv, Placed
  <2>4. \A t \in tasks : t.of = m.of => t.phase = "posted" /\ t.result = m.result
    BY <1>0 DEF BaseInv, Placed, Cancels, Honest
  <2> QED
    BY <2>1, <2>2, <2>3, <2>4, CancelsFinish
<1> QED
  BY <1>2, <1>3, <1>4, <1>5, <1>6, <1>7, <1>8, <1>9, <1>10, <1>11, CancelsTask, LiveSteps

-----------------------------------------------------------------------------
(* The invariant of the behaviours without faults, and what it shows. *)

CalmInv == Lossless => Once /\ Told /\ Entered /\ Fitting /\ Cancels

LEMMA FaultsFixed == ASSUME BaseInv, Next PROVE faults' = faults
<1>1. ASSUME NEW n \in Remotes \cup {Local}, Host!ClaimFor(n) PROVE faults' = faults
  BY <1>1 DEF Host!ClaimFor
<1>2. Host!Next => faults' = faults
  BY <1>1 DEF Host!Next, Host!Ingest, Host!LocalClaim, Host!RemoteClaim, Host!Register,
     Host!Heartbeat, Host!FallSilent, Host!DeleteNode, Host!Finish, Host!ResultsLost, Host!Cancel,
     Host!ForceDelete, Host!Age, Host!CancelAll, Host!Sweep, Host!Restart, Host!StopLocalLoop,
     Host!DrainGivenUp, Host!StartLocalLoop
<1> QED
  BY <1>2, HostMoves DEF hostVars

LEMMA CalmInit == Init => CalmInv
<1> SUFFICES ASSUME Init PROVE Once /\ Told /\ Entered /\ Fitting /\ Cancels
  BY DEF CalmInv
<1>1. /\ tasks = {} /\ posted = {} /\ swapped = {} /\ dispatches = {} /\ silent = {} /\ loopStarted
      /\ \A w \in Remotes : answer[w] = NoDispatch /\ notices[w] = {} /\ cancelReq[w] = {}
      /\ \A j \in JobIds : attempts[j] = 0
  BY DEF Init, Host!Init
<1>2. Once
  BY <1>1 DEF Once, Claims
<1>3. Told /\ Entered /\ Cancels
  BY <1>1 DEF Told, Entered, Cancels, Heard
<1>4. \A w \in Remotes : JobsOf(w) = {}
  BY <1>1 DEF JobsOf, TasksOf
<1>5. Fitting
  BY <1>1, <1>4, FS_EmptySet, CapAssumption DEF Fitting
<1> QED
  BY <1>2, <1>3, <1>5

LEMMA CalmStep == Inv /\ CalmInv /\ [Next]_vars => CalmInv'
<1>1. ASSUME Inv, CalmInv, Next PROVE CalmInv'
  <2>1. faults' = faults
    BY <1>1, FaultsFixed DEF Inv
  <2>2. ASSUME Lossless PROVE Once' /\ Told' /\ Entered' /\ Fitting' /\ Cancels'
    <3>1. Calm /\ Told /\ Entered /\ Fitting /\ Cancels
      BY <1>1, <2>2 DEF Calm, CalmInv
    <3> QED
      BY <1>1, <3>1, OnceStep, ToldStep, EnteredStep, FittingStep, CancelsStep
  <2> QED
    BY <2>1, <2>2 DEF CalmInv, Lossless
<1>2. ASSUME CalmInv, UNCHANGED vars PROVE CalmInv'
  <2>1. Once /\ UNCHANGED vars => Once'
    BY DEF vars, hostVars, workerVars, Once, Claims, Given
  <2>2. Told /\ UNCHANGED vars => Told'
    BY DEF vars, hostVars, workerVars, Told, Telling
  <2>3. Entered /\ UNCHANGED vars => Entered'
    BY DEF vars, hostVars, workerVars, Entered
  <2>4. Fitting /\ UNCHANGED vars => Fitting'
    BY DEF vars, hostVars, workerVars, Fitting, JobsOf, TasksOf
  <2>5. Cancels /\ UNCHANGED vars => Cancels'
    BY DEF vars, hostVars, workerVars, Cancels, Heard, Honest, PostHonest, Stopping
  <2>6. faults' = faults
    BY <1>2 DEF vars, hostVars
  <2> QED
    BY <1>2, <2>1, <2>2, <2>3, <2>4, <2>5, <2>6 DEF CalmInv, Lossless
<1> QED
  BY <1>1, <1>2

LEMMA CalmInvariance == Spec => []CalmInv
BY CalmInit, CalmStep, Invariance, PTL DEF Spec

(* Without faults the row of a swapped claim is done, or its result is on the
   way to a host that will take it. *)
THEOREM SwapsCount == Spec => []SwapNotDenied
<1>1. Inv /\ CalmInv => SwapNotDenied
  <2> SUFFICES ASSUME Inv, CalmInv, Lossless, NEW d \in swapped
               PROVE  jobs[d.job].state \in Host!Active \cup {"done"}
    BY DEF SwapNotDenied
  <2>1. jobs[d.job].state = "done" \/ Telling(d)
    BY DEF CalmInv, Told
  <2>2. Telling(d) => d \in dispatches
    BY DEF Telling, Inv, BaseInv, Placed
  <2>3. d \in dispatches => jobs[d.job].state \in Host!Active
    BY DEF CalmInv, Once
  <2> QED
    BY <2>1, <2>2, <2>3
<1> QED
  BY <1>1, Invariance, CalmInvariance, PTL

(* Without faults a worker has no more tasks than slots, the claim whose
   answer is under way among them. *)
THEOREM SlotsRespected == Spec => []SlotsHold
<1>1. Inv /\ CalmInv => SlotsHold
  <2> SUFFICES ASSUME Inv, CalmInv, Lossless, NEW w \in Remotes
               PROVE  Cardinality(TasksOf(w)) + (IF answer[w] = NoDispatch THEN 0 ELSE 1) <= Cap
    BY DEF SlotsHold
  <2> DEFINE f == [t \in TasksOf(w) |-> t.of.job]
  <2>1. \A t, u \in TasksOf(w) : t.of.job = u.of.job => t = u
    BY DEF CalmInv, Entered, TasksOf, Inv, BaseInv, Placed
  <2>2. f \in Injection(TasksOf(w), JobsOf(w))
    BY <2>1 DEF Injection, IsInjective, JobsOf
  <2>3. IsFiniteSet(JobsOf(w)) /\ Cardinality(JobsOf(w)) \in Nat
    BY JobsFinite
  <2> HIDE DEF f
  <2>4. /\ Cardinality(TasksOf(w)) <= Cardinality(JobsOf(w))
        /\ Cardinality(TasksOf(w)) \in Nat
    BY <2>2, <2>3, FS_Injection, FS_CardinalityType
  <2>5. Cardinality(JobsOf(w)) + (IF answer[w] = NoDispatch THEN 0 ELSE 1) <= Cap
    BY DEF CalmInv, Fitting
  <2> QED
    BY <2>3, <2>4, <2>5, CapAssumption
<1> QED
  BY <1>1, Invariance, CalmInvariance, PTL

(* Without faults an encode is stopped, or reported as cancelled, only if the
   operator cancelled its row. *)
THEOREM OnlyTheCancelledStop == Spec => []NoCollateralCancel
<1>1. Inv /\ CalmInv => NoCollateralCancel
  <2> SUFFICES ASSUME Inv, CalmInv, Lossless, NEW t \in tasks,
                      t.killed \/ t.result = "cancelled"
               PROVE  jobs[t.of.job].state \in {"cancelling", "cancelled"}
    BY DEF NoCollateralCancel
  <2>1. Honest(t)
    BY DEF CalmInv, Cancels
  <2>2. CASE t.result = "cancelled"
    BY <2>1, <2>2 DEF Honest
  <2>3. CASE t.phase = "encode" /\ t.of.job \in cancelReq[t.of.node]
    <3>1. t.of \in dispatches /\ t.of.node \in Remotes
      BY <2>3 DEF Inv, BaseInv, Placed
    <3>2. jobs[t.of.job].state \in Host!Active
      BY <3>1 DEF CalmInv, Once
    <3>3. Stopping(t.of.job)
      BY <2>3, <3>1 DEF CalmInv, Cancels, Heard
    <3> QED
      BY <3>2, <3>3 DEF Stopping
  <2> QED
    BY <2>1, <2>2, <2>3 DEF Honest
<1> QED
  BY <1>1, Invariance, CalmInvariance, PTL

(* Host and Queue are one module under two names. *)
LEMMA SameSpec == Host!Spec => Queue!Spec
<1>1. [Host!Next]_(Host!vars) => [Queue!Next]_(Queue!vars)
  BY SameNext DEF Queue!vars, Host!vars
<1> QED
  BY <1>1, SameInit, PTL DEF Host!Spec, Queue!Spec

(* So the workers' table keeps what HostQueue promises: its rows in progress
   name a node there is, settled rows stay settled, none is stranded or given
   out twice under the provisos of these properties, and it implements the
   ledger. *)
THEOREM QueueHolds ==
  Spec => /\ []Queue!Owned /\ Queue!SettledForGood /\ []Queue!ActiveHasDispatch
          /\ []Queue!OneDispatchPerJob /\ []Queue!OneBusyRowPerFile
          /\ Queue!LedgerSpec
<1>1. Queue!Spec => /\ []Queue!Owned /\ Queue!SettledForGood /\ []Queue!ActiveHasDispatch
                    /\ []Queue!OneDispatchPerJob /\ []Queue!OneBusyRowPerFile
                    /\ Queue!LedgerSpec
  BY QueueAssumption, Queue!OwnershipKept, Queue!SettledStaysSettled, Queue!NoRowStranded,
     Queue!DispatchedOnce, Queue!FileBusyOnce, Queue!ImplementsLedger
<1>2. Spec => Queue!Spec
  BY ImplementsQueue, SameSpec, PTL DEF ImplementsHost
<1> QED
  BY <1>1, <1>2, PTL
=============================================================================

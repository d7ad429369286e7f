-------------------------- MODULE HostQueueProofs --------------------------
(***************************************************************************)
(* Proofs about HostQueue, for any number of nodes, files, rows, claims    *)
(* and any set of faults.                                                  *)
(***************************************************************************)
EXTENDS HostQueue, TLAPS

LEMMA TypeInit == Init => TypeOK
<1> SUFFICES ASSUME Init PROVE TypeOK
  OBVIOUS
<1>1. NoRow \in Row
  BY DEF NoRow, Row, States
<1>2. jobs \in [JobIds -> Row]
  BY <1>1 DEF Init
<1>3. attempts \in [JobIds -> Nat]
  BY DEF Init
<1> QED
  BY <1>2, <1>3 DEF Init, TypeOK

(* Rewriting a row the way a handler does keeps it a row. *)
LEMMA RowRewrites ==
  ASSUME NEW row \in Row
  PROVE  /\ CancelledRow(row) \in Row
         /\ RevivedRow(row) \in Row
         /\ ReconciledRow(row) \in Row
BY DEF CancelledRow, RevivedRow, ReconciledRow, Row, States, Active, Terminal

LEMMA OutcomeIsTerminal == \A result \in Results : OutcomeOf(result) \in Terminal
BY DEF Results, OutcomeOf, Terminal

LEMMA ReviveType ==
  ASSUME TypeOK, NEW N, ReviveJobsOf(N)
  PROVE  jobs' \in [JobIds -> Row]
BY RowRewrites DEF ReviveJobsOf, TypeOK

LEMMA ClaimType ==
  ASSUME TypeOK, NEW n \in AllNodes, ClaimFor(n)
  PROVE  TypeOK'
<1> PICK j \in JobIds :
      /\ jobs' = [jobs EXCEPT ![j].state = "running", ![j].node = n, ![j].recent = TRUE]
      /\ attempts' = [attempts EXCEPT ![j] = @ + 1]
      /\ dispatches' = dispatches \cup {[node |-> n, job |-> j, attempt |-> attempts[j] + 1]}
      /\ UNCHANGED <<nodes, silent, loopStarted, faults>>
  BY DEF ClaimFor
<1>1. jobs' \in [JobIds -> Row]
  <2>1. "running" \in States
    BY DEF States, Active
  <2> QED
    BY <2>1 DEF TypeOK, Row
<1>2. attempts' \in [JobIds -> Nat]
  BY DEF TypeOK
<1>3. dispatches' \subseteq Dispatch
  BY DEF TypeOK, Dispatch
<1> QED
  BY <1>1, <1>2, <1>3 DEF TypeOK

LEMMA TypeStep == TypeOK /\ [Next]_vars => TypeOK'
<1> SUFFICES ASSUME TypeOK, [Next]_vars PROVE TypeOK'
  OBVIOUS
<1>1. ASSUME NEW f \in Files, Ingest(f) PROVE TypeOK'
  <2>1. jobs' \in [JobIds -> Row]
    BY <1>1 DEF Ingest, TypeOK, Row, NoRow, States
  <2> QED
    BY <1>1, <2>1 DEF Ingest, TypeOK
<1>2. CASE LocalClaim
  BY <1>2, ClaimType DEF LocalClaim, AllNodes
<1>3. ASSUME NEW n \in Remotes, RemoteClaim(n) PROVE TypeOK'
  BY <1>3, ClaimType DEF RemoteClaim, AllNodes
<1>4. ASSUME NEW n \in Remotes, Register(n) \/ Heartbeat(n) \/ FallSilent(n) PROVE TypeOK'
  BY <1>4 DEF Register, Heartbeat, FallSilent, TypeOK
<1>5. ASSUME NEW n \in Remotes, DeleteNode(n) PROVE TypeOK'
  BY <1>5, ReviveType DEF DeleteNode, TypeOK
<1>6. ASSUME NEW D \in SUBSET dispatches, ResultsLost(D) PROVE TypeOK'
  BY <1>6 DEF ResultsLost, TypeOK
<1>7. ASSUME NEW d \in dispatches, NEW result \in Results, Finish(d, result) PROVE TypeOK'
  <2>1. OutcomeOf(result) \in States
    BY OutcomeIsTerminal DEF States
  <2>2. jobs' \in [JobIds -> Row]
    BY <1>7, <2>1 DEF Finish, TypeOK, Row, Dispatch
  <2> QED
    BY <1>7, <2>2 DEF Finish, TypeOK
<1>8. ASSUME NEW j \in JobIds, Cancel(j) PROVE TypeOK'
  BY <1>8, RowRewrites DEF Cancel, TypeOK
<1>9. ASSUME NEW j \in JobIds, ForceDelete(j) PROVE TypeOK'
  BY <1>9 DEF ForceDelete, TypeOK, Row, NoRow, States
<1>10. ASSUME NEW j \in JobIds, Age(j) PROVE TypeOK'
  BY <1>10 DEF Age, TypeOK, Row
<1>11. CASE CancelAll
  BY <1>11, RowRewrites DEF CancelAll, TypeOK
<1>12. CASE Sweep
  BY <1>12, ReviveType DEF Sweep, TypeOK
<1>13. CASE Restart \/ StopLocalLoop \/ DrainGivenUp
  BY <1>13 DEF Restart, StopLocalLoop, DrainGivenUp, TypeOK
<1>14. CASE StartLocalLoop
  BY <1>14, RowRewrites DEF StartLocalLoop, TypeOK
<1>15. CASE UNCHANGED vars
  BY <1>15 DEF vars, TypeOK
<1> QED
  BY <1>1, <1>2, <1>3, <1>4, <1>5, <1>6, <1>7, <1>8, <1>9, <1>10, <1>11, <1>12,
     <1>13, <1>14, <1>15 DEF Next

(* The columns of the table always hold what their types allow. *)
THEOREM TypeCorrect == Spec => []TypeOK
BY TypeInit, TypeStep, PTL DEF Spec

-----------------------------------------------------------------------------
(* Every row in progress names a node that has a Node row. *)

LEMMA OwnedStep == TypeOK /\ Owned /\ [Next]_vars => Owned'
<1> SUFFICES ASSUME TypeOK, Owned, [Next]_vars PROVE Owned'
  OBVIOUS
<1> USE DEF Owned
<1>1. ASSUME NEW f \in Files, Ingest(f) PROVE Owned'
  BY <1>1 DEF Ingest, TypeOK, NoRow, Active
<1>2. ASSUME NEW n \in nodes \cup {Local}, ClaimFor(n) PROVE Owned'
  BY <1>2 DEF ClaimFor, TypeOK, Row, Active
<1>3. CASE LocalClaim
  BY <1>2, <1>3 DEF LocalClaim
<1>4. ASSUME NEW n \in Remotes, RemoteClaim(n) PROVE Owned'
  BY <1>2, <1>4 DEF RemoteClaim
<1>5. ASSUME NEW n \in Remotes, Register(n) \/ Heartbeat(n) \/ FallSilent(n) PROVE Owned'
  BY <1>5 DEF Register, Heartbeat, FallSilent
<1>6. ASSUME NEW N, ReviveJobsOf(N), nodes \ N \subseteq nodes' PROVE Owned'
  <2> SUFFICES ASSUME NEW j \in JobIds
               PROVE  /\ jobs'[j].state \in Active => jobs'[j].node \in nodes' \cup {Local}
                      /\ jobs'[j].state = "queued" => jobs'[j].node = NoNode
    OBVIOUS
  <2>1. CASE j \in Revived(N)
    BY <1>6, <2>1 DEF ReviveJobsOf, RevivedRow, TypeOK, Row, Active
  <2>2. CASE j \notin Revived(N)
    BY <1>6, <2>2 DEF ReviveJobsOf, Revived, InState
  <2> QED
    BY <2>1, <2>2
<1>7. ASSUME NEW n \in Remotes, DeleteNode(n) PROVE Owned'
  BY <1>6, <1>7 DEF DeleteNode
<1>8. CASE Sweep
  BY <1>6, <1>8 DEF Sweep
<1>9. ASSUME NEW D \in SUBSET dispatches, ResultsLost(D) PROVE Owned'
  BY <1>9 DEF ResultsLost
<1>10. ASSUME NEW d \in dispatches, NEW result \in Results, Finish(d, result) PROVE Owned'
  BY <1>10, OutcomeIsTerminal DEF Finish, TypeOK, Row, Dispatch, Active, Terminal
<1>11. ASSUME NEW j \in JobIds, jobs'[j] = CancelledRow(jobs[j]) \/ jobs'[j] = ReconciledRow(jobs[j]),
              nodes' = nodes
       PROVE  /\ jobs'[j].state \in Active => jobs'[j].node \in nodes' \cup {Local}
              /\ jobs'[j].state = "queued" => jobs'[j].node = NoNode
  BY <1>11 DEF CancelledRow, ReconciledRow, TypeOK, Row, Active
<1>12. ASSUME NEW j \in JobIds, Cancel(j) PROVE Owned'
  BY <1>11, <1>12 DEF Cancel, TypeOK
<1>13. CASE CancelAll
  BY <1>11, <1>13 DEF CancelAll
<1>14. CASE StartLocalLoop
  BY <1>11, <1>14 DEF StartLocalLoop
<1>15. ASSUME NEW j \in JobIds, ForceDelete(j) \/ Age(j) PROVE Owned'
  BY <1>15 DEF ForceDelete, Age, TypeOK, Row, NoRow, Active
<1>16. CASE Restart \/ StopLocalLoop \/ DrainGivenUp
  BY <1>16 DEF Restart, StopLocalLoop, DrainGivenUp
<1>17. CASE UNCHANGED vars
  BY <1>17 DEF vars
<1> QED
  BY <1>1, <1>3, <1>4, <1>5, <1>7, <1>8, <1>9, <1>10, <1>12, <1>13, <1>14, <1>15,
     <1>16, <1>17 DEF Next

(* No row in progress is ever out of the reach of the watchdog and of the
   node pages: its owner always has a Node row, or is the host itself. *)
THEOREM OwnershipKept == Spec => []Owned
<1>1. Init => Owned
  BY DEF Init, Owned, NoRow, Active
<1> QED
  BY <1>1, TypeInit, TypeStep, OwnedStep, PTL DEF Spec

-----------------------------------------------------------------------------
(* What one step can do to one row, for the theorems that follow. *)

(* A row that is done, failed or cancelled. *)
LEMMA SettledStep ==
  ASSUME TypeOK, [Next]_vars, NEW j \in JobIds, jobs[j].state \in Terminal
  PROVE  jobs'[j].state \in {jobs[j].state, "absent"}
<1> jobs[j].state \notin Active \cup {"queued", "absent"}
  BY DEF Terminal, Active
<1>1. ASSUME NEW f \in Files, Ingest(f) PROVE jobs'[j] = jobs[j]
  BY <1>1 DEF Ingest, IsNextId, Present, InState, States, TypeOK
<1>2. ASSUME NEW n, ClaimFor(n) PROVE jobs'[j] = jobs[j]
  BY <1>2 DEF ClaimFor, OldestQueued, TypeOK
<1>3. ASSUME NEW N, ReviveJobsOf(N) PROVE jobs'[j] = jobs[j]
  BY <1>3 DEF ReviveJobsOf, Revived, InState
<1>4. ASSUME NEW d \in dispatches, NEW result \in Results, Finish(d, result)
      PROVE  jobs'[j] = jobs[j]
  BY <1>4 DEF Finish, ResultApplies, TypeOK
<1>5. CancelledRow(jobs[j]) = jobs[j] /\ ReconciledRow(jobs[j]) = jobs[j]
  BY DEF CancelledRow, ReconciledRow, Active
<1>6. ASSUME NEW k \in JobIds, Cancel(k) \/ ForceDelete(k) \/ Age(k)
      PROVE  jobs'[j].state \in {jobs[j].state, "absent"}
  BY <1>5, <1>6 DEF Cancel, ForceDelete, Age, TypeOK, NoRow, Row
<1> QED
  BY <1>1, <1>2, <1>3, <1>4, <1>5, <1>6 DEF Next, LocalClaim, RemoteClaim, Register,
     Heartbeat, FallSilent, DeleteNode, ResultsLost, CancelAll, Sweep, Restart,
     StopLocalLoop, DrainGivenUp, StartLocalLoop, vars

(* A settled row is settled for good. *)
THEOREM SettledStaysSettled == Spec => SettledForGood
<1>1. TypeOK /\ [Next]_vars =>
        [\A j \in JobIds :
           jobs[j].state \in Terminal => jobs'[j].state \in {jobs[j].state, "absent"}]_vars
  BY SettledStep
<1> QED
  BY <1>1, TypeCorrect, PTL DEF Spec, SettledForGood

-----------------------------------------------------------------------------
(* The environment events are chosen once. *)
LEMMA FaultsStay == [Next]_vars => faults' = faults
BY DEF Next, vars, Ingest, LocalClaim, RemoteClaim, ClaimFor, Finish, ResultsLost,
   Cancel, CancelAll, ForceDelete, Register, Heartbeat, FallSilent, DeleteNode, Sweep,
   Age, Restart, StopLocalLoop, DrainGivenUp, StartLocalLoop

-----------------------------------------------------------------------------
(* Every row in progress has the dispatch of its latest claim out. *)

Latest(j) == [node |-> jobs[j].node, job |-> j, attempt |-> attempts[j]]

LEMMA HasDispatchStep ==
  ASSUME TypeOK, ActiveHasDispatch, [Next]_vars,
         faults \cap {"loss", "restart", "halt"} = {}
  PROVE  ActiveHasDispatch'
<1> SUFFICES ASSUME NEW j \in JobIds, jobs'[j].state \in Active
             PROVE  Latest(j)' \in dispatches'
  BY DEF ActiveHasDispatch, InState, Latest
<1> USE DEF Latest
<1>0. jobs[j].state \in Active => Latest(j) \in dispatches
  BY DEF ActiveHasDispatch, InState
<1>1. ASSUME NEW f \in Files, Ingest(f) PROVE Latest(j)' \in dispatches'
  BY <1>0, <1>1 DEF Ingest, TypeOK, NoRow, Active
<1>2. ASSUME NEW n \in AllNodes, ClaimFor(n) PROVE Latest(j)' \in dispatches'
  <2> PICK k \in JobIds :
        /\ jobs' = [jobs EXCEPT ![k].state = "running", ![k].node = n, ![k].recent = TRUE]
        /\ attempts' = [attempts EXCEPT ![k] = @ + 1]
        /\ dispatches' = dispatches \cup {[node |-> n, job |-> k, attempt |-> attempts[k] + 1]}
    BY <1>2 DEF ClaimFor
  <2>1. CASE j = k
    BY <2>1 DEF TypeOK, Row
  <2>2. CASE j # k
    BY <1>0, <2>2 DEF TypeOK
  <2> QED
    BY <2>1, <2>2
<1>3. ASSUME NEW N, ReviveJobsOf(N), attempts' = attempts, dispatches' = dispatches
      PROVE  Latest(j)' \in dispatches'
  BY <1>0, <1>3 DEF ReviveJobsOf, RevivedRow, TypeOK, Row, Active
<1>4. ASSUME NEW d \in dispatches, NEW result \in Results, Finish(d, result)
      PROVE  Latest(j)' \in dispatches'
  <2>1. d.job \in JobIds
    BY DEF TypeOK, Dispatch
  <2>2. CASE j = d.job
    BY <1>4, <2>1, <2>2, OutcomeIsTerminal
    DEF Finish, ResultApplies, TypeOK, Row, Active, Terminal
  <2>3. CASE j # d.job
    BY <1>0, <1>4, <2>1, <2>3 DEF Finish, TypeOK
  <2> QED
    BY <2>2, <2>3
<1>5. ASSUME jobs'[j] = CancelledRow(jobs[j]) \/ jobs'[j] = ReconciledRow(jobs[j]),
             attempts' = attempts, dispatches' = dispatches
      PROVE  Latest(j)' \in dispatches'
  BY <1>0, <1>5 DEF CancelledRow, ReconciledRow, TypeOK, Row, Active
<1>6. ASSUME NEW k \in JobIds, Cancel(k) PROVE Latest(j)' \in dispatches'
  BY <1>0, <1>5, <1>6 DEF Cancel, TypeOK
<1>7. ASSUME NEW k \in JobIds, ForceDelete(k) \/ Age(k) PROVE Latest(j)' \in dispatches'
  BY <1>0, <1>7 DEF ForceDelete, Age, NoRow, TypeOK, Row, Active
<1>8. CASE CancelAll \/ StartLocalLoop
  BY <1>5, <1>8 DEF CancelAll, StartLocalLoop
<1>9. ASSUME UNCHANGED <<jobs, dispatches, attempts>> PROVE Latest(j)' \in dispatches'
  BY <1>0, <1>9
<1> QED
  BY <1>1, <1>2, <1>3, <1>4, <1>6, <1>7, <1>8, <1>9 DEF Next, LocalClaim, RemoteClaim,
     AllNodes, Register, Heartbeat, FallSilent, DeleteNode, ResultsLost, Sweep, Restart,
     StopLocalLoop, DrainGivenUp, vars

(* Without a lost claim, result or process no row in progress is stranded,
   however the watchdog, the operator and late results interleave. *)
THEOREM NoRowStranded == Spec => []ActiveHasDispatch
<1>1. Init => ActiveHasDispatch
  BY DEF Init, ActiveHasDispatch, InState, NoRow, Active
<1>2. TypeOK /\ ActiveHasDispatch /\ [Next]_vars => ActiveHasDispatch'
  BY HasDispatchStep, FaultsStay DEF ActiveHasDispatch
<1> QED
  BY <1>1, <1>2, TypeCorrect, PTL DEF Spec

-----------------------------------------------------------------------------
(* While no node falls silent or is unpaired and no row is purged, nothing
   is queued twice: the two properties need that no node is silent, so that
   the watchdog revives nothing, and that a row with a dispatch out has left
   the queue for good. *)

Calm == faults \cap {"silence", "unpair", "purge"} = {}

CalmInv ==
  /\ silent = {}
  /\ \A d \in dispatches : jobs[d.job].state \in Active \cup Terminal
  /\ \A d, e \in dispatches : d.job = e.job => d = e
  /\ \A j, k \in JobIds :
       /\ jobs[j].state \in BusyStates /\ jobs[k].state \in BusyStates
       /\ jobs[j].file = jobs[k].file
       => j = k

LEMMA CalmStep ==
  ASSUME TypeOK, CalmInv, [Next]_vars, Calm
  PROVE  CalmInv'
<1> USE DEF CalmInv
<1> DEFINE
      OutStays == \A d \in dispatches' : jobs'[d.job].state \in Active \cup Terminal
      OneOut   == \A d, e \in dispatches' : d.job = e.job => d = e
      OneBusy  == \A j, k \in JobIds :
                    /\ jobs'[j].state \in BusyStates /\ jobs'[k].state \in BusyStates
                    /\ jobs'[j].file = jobs'[k].file
                    => j = k
<1>typ. \A d \in dispatches : d.job \in JobIds
  BY DEF TypeOK, Dispatch
(* Most actions only move rows forward and hand out nothing. *)
<1>fwd. ASSUME silent' = {}, dispatches' \subseteq dispatches,
               \A j \in JobIds :
                 /\ jobs'[j].state \in BusyStates =>
                      jobs[j].state \in BusyStates /\ jobs'[j].file = jobs[j].file
                 /\ jobs[j].state \in Active \cup Terminal =>
                      jobs'[j].state \in Active \cup Terminal
        PROVE  CalmInv'
  <2>1. OutStays
    BY <1>fwd, <1>typ
  <2>2. OneOut
    BY <1>fwd
  <2>3. OneBusy
    BY <1>fwd
  <2> QED
    BY <1>fwd, <2>1, <2>2, <2>3
<1>1. ASSUME NEW f \in Files, Ingest(f) PROVE CalmInv'
  <2> PICK i \in JobIds :
        /\ IsNextId(i)
        /\ jobs' = [jobs EXCEPT ![i] = [NoRow EXCEPT !.state = "queued", !.file = f]]
    BY <1>1 DEF Ingest
  <2>1. jobs[i].state = "absent"
    BY DEF IsNextId, Present, InState, States, TypeOK, Row
  <2>2. \A j \in JobIds : j # i => jobs'[j] = jobs[j]
    BY DEF TypeOK
  <2>3. jobs'[i].file = f /\ jobs'[i].state = "queued"
    BY DEF TypeOK, NoRow
  <2>4. dispatches' = dispatches /\ silent' = silent
    BY <1>1 DEF Ingest
  <2>5. OutStays
    <3>1. \A d \in dispatches : d.job # i
      BY <2>1 DEF Active, Terminal
    <3> QED
      BY <1>typ, <2>2, <2>4, <3>1
  <2>6. \A j \in JobIds : jobs[j].state \in BusyStates => jobs[j].file # f
    BY <1>1 DEF Ingest, InState
  <2>7. OneBusy
    <3> SUFFICES ASSUME NEW j \in JobIds, NEW k \in JobIds,
                        jobs'[j].state \in BusyStates, jobs'[k].state \in BusyStates,
                        jobs'[j].file = jobs'[k].file
                 PROVE  j = k
      OBVIOUS
    <3>1. CASE j # i /\ k # i
      BY <2>2, <3>1
    <3>2. CASE j = i \/ k = i
      BY <2>2, <2>3, <2>6, <3>2
    <3> QED
      BY <3>1, <3>2
  <2> QED
    BY <2>4, <2>5, <2>7
<1>2. ASSUME NEW n \in AllNodes, ClaimFor(n) PROVE CalmInv'
  <2> PICK i \in JobIds :
        /\ OldestQueued(i)
        /\ jobs' = [jobs EXCEPT ![i].state = "running", ![i].node = n, ![i].recent = TRUE]
        /\ dispatches' = dispatches \cup {[node |-> n, job |-> i, attempt |-> attempts[i] + 1]}
        /\ silent' = silent
    BY <1>2 DEF ClaimFor
  <2>1. jobs[i].state = "queued"
    BY DEF OldestQueued
  <2>2. \A d \in dispatches : d.job # i
    BY <2>1 DEF Active, Terminal
  <2>3. \A j \in JobIds : j # i => jobs'[j] = jobs[j]
    BY DEF TypeOK
  <2>4. jobs'[i].state = "running" /\ jobs'[i].file = jobs[i].file
    BY DEF TypeOK, Row
  <2>5. OutStays
    <3>1. jobs'[i].state \in Active
      BY <2>4 DEF Active
    <3>2. \A d \in dispatches' : d \in dispatches \/ d.job = i
      OBVIOUS
    <3> QED
      BY <1>typ, <2>2, <2>3, <3>1, <3>2
  <2>6. OneOut
    BY <2>2
  <2>7. OneBusy
    <3>1. \A j \in JobIds : /\ jobs'[j].state \in BusyStates => jobs[j].state \in BusyStates
                            /\ jobs'[j].file = jobs[j].file
      BY <2>1, <2>3, <2>4 DEF BusyStates
    <3> QED
      BY <3>1
  <2> QED
    BY <2>5, <2>6, <2>7
<1>3. CASE Sweep
  <2>1. \A j \in JobIds : jobs'[j] = jobs[j]
    BY <1>3 DEF Sweep, ReviveJobsOf, Revived
  <2> QED
    BY <1>3, <2>1, <1>fwd DEF Sweep
<1>4. ASSUME NEW d \in dispatches, NEW result \in Results, Finish(d, result)
      PROVE  CalmInv'
  <2>1. \A j \in JobIds : j # d.job => jobs'[j] = jobs[j]
    BY <1>4 DEF Finish, TypeOK
  <2>2. jobs'[d.job] = jobs[d.job] \/ jobs'[d.job].state \in Terminal
    BY <1>4, <1>typ, OutcomeIsTerminal DEF Finish, TypeOK, Row
  <2> QED
    BY <1>4, <2>1, <2>2, <1>fwd DEF Finish, BusyStates, Terminal
<1>5. ASSUME NEW j \in JobIds,
             jobs'[j] = CancelledRow(jobs[j]) \/ jobs'[j] = ReconciledRow(jobs[j])
      PROVE  /\ jobs'[j].state \in BusyStates =>
                  jobs[j].state \in BusyStates /\ jobs'[j].file = jobs[j].file
             /\ jobs[j].state \in Active \cup Terminal =>
                  jobs'[j].state \in Active \cup Terminal
  BY <1>5 DEF CancelledRow, ReconciledRow, TypeOK, Row, BusyStates, Active, Terminal
<1>6. CASE CancelAll
  BY <1>5, <1>6, <1>fwd DEF CancelAll
<1>7. CASE StartLocalLoop
  BY <1>5, <1>7, <1>fwd DEF StartLocalLoop
<1>8. ASSUME NEW i \in JobIds, Cancel(i) PROVE CalmInv'
  <2>1. \A j \in JobIds : jobs'[j] = jobs[j] \/ jobs'[j] = CancelledRow(jobs[j])
    BY <1>8 DEF Cancel, TypeOK
  <2> QED
    BY <1>5, <1>8, <2>1, <1>fwd DEF Cancel
<1>9. ASSUME NEW i \in JobIds, Age(i) PROVE CalmInv'
  <2>1. \A j \in JobIds : jobs'[j].state = jobs[j].state /\ jobs'[j].file = jobs[j].file
    BY <1>9 DEF Age, TypeOK, Row
  <2> QED
    BY <1>9, <2>1, <1>fwd DEF Age
<1>10. ASSUME UNCHANGED jobs, dispatches' \subseteq dispatches, silent' = {} PROVE CalmInv'
  BY <1>10, <1>fwd
<1>11. ASSUME NEW n \in Remotes, Register(n) \/ Heartbeat(n) PROVE CalmInv'
  BY <1>10, <1>11 DEF Register, Heartbeat
<1>12. ASSUME NEW D \in SUBSET dispatches, ResultsLost(D) PROVE CalmInv'
  BY <1>10, <1>12 DEF ResultsLost
<1>13. CASE Restart \/ StopLocalLoop \/ DrainGivenUp
  BY <1>10, <1>13 DEF Restart, StopLocalLoop, DrainGivenUp
<1>14. CASE UNCHANGED vars
  BY <1>10, <1>14 DEF vars
<1> QED
  BY <1>1, <1>2, <1>3, <1>4, <1>6, <1>7, <1>8, <1>9, <1>11, <1>12, <1>13, <1>14
  DEF Next, LocalClaim, RemoteClaim, AllNodes, FallSilent, DeleteNode, ForceDelete, Calm

LEMMA CalmInvariant == Spec => [](Calm => CalmInv)
<1>1. Init => CalmInv
  BY DEF Init, CalmInv, NoRow, BusyStates
<1>2. TypeOK /\ (Calm => CalmInv) /\ [Next]_vars => (Calm => CalmInv')
  BY CalmStep
<1>3. TypeOK /\ (Calm => CalmInv) /\ [Next]_vars => (Calm => CalmInv)'
  BY <1>2, FaultsStay DEF Calm
<1> QED
  BY <1>1, <1>3, TypeCorrect, PTL DEF Spec

(* Lost results and restarts alone never put a job out twice. *)
THEOREM DispatchedOnce == Spec => []OneDispatchPerJob
<1>1. (Calm => CalmInv) => OneDispatchPerJob
  BY DEF Calm, CalmInv, OneDispatchPerJob
<1> QED
  BY <1>1, CalmInvariant, PTL

(* ... nor do they put a file in the queue twice. *)
THEOREM FileBusyOnce == Spec => []OneBusyRowPerFile
<1>1. (Calm => CalmInv) => OneBusyRowPerFile
  BY DEF Calm, CalmInv, OneBusyRowPerFile, InState, BusyStates
<1> QED
  BY <1>1, CalmInvariant, PTL

-----------------------------------------------------------------------------
(* HostQueue implements JobLedger. *)

LEMMA LedgerInit == Init => Ledger!Init
BY DEF Init, Ledger!Init, NoRow, StatusOf, HolderOf, Active

(* Queued rows J become cancelled and running ones at most cancelling. *)
LEMMA CancelWithdraws ==
  ASSUME TypeOK, NEW C \in SUBSET JobIds,
         jobs' = [j \in JobIds |-> IF j \in C THEN CancelledRow(jobs[j]) ELSE jobs[j]]
  PROVE  Ledger!Withdraw({j \in C : jobs[j].state = "queued"})
<1> DEFINE J == {j \in C : jobs[j].state = "queued"}
<1>1. \A j \in J : StatusOf(jobs[j]) = "waiting"
  BY DEF StatusOf, Active
<1>2. ASSUME NEW j \in JobIds
      PROVE  /\ StatusOf(jobs'[j]) = IF j \in J THEN "cancelled" ELSE StatusOf(jobs[j])
             /\ HolderOf(jobs'[j]) = HolderOf(jobs[j])
  BY DEF CancelledRow, StatusOf, HolderOf, TypeOK, Row, Active
<1>3. [j \in JobIds |-> StatusOf(jobs'[j])]
        = [j \in JobIds |-> IF j \in J THEN "cancelled"
                            ELSE [i \in JobIds |-> StatusOf(jobs[i])][j]]
  BY <1>2
<1>4. [j \in JobIds |-> HolderOf(jobs'[j])] = [j \in JobIds |-> HolderOf(jobs[j])]
  BY <1>2
<1> QED
  BY <1>1, <1>3, <1>4 DEF Ledger!Withdraw

LEMMA ReviveGivesBack ==
  ASSUME TypeOK, NEW N, ReviveJobsOf(N)
  PROVE  Ledger!GiveBack(Revived(N))
<1> DEFINE J == Revived(N)
<1>1. \A j \in J : j \in JobIds /\ StatusOf(jobs[j]) = "held"
  BY DEF Revived, InState, StatusOf, Active
<1>2. ASSUME NEW j \in JobIds
      PROVE  /\ StatusOf(jobs'[j]) = IF j \in J THEN "waiting" ELSE StatusOf(jobs[j])
             /\ HolderOf(jobs'[j]) = IF j \in J THEN NoNode ELSE HolderOf(jobs[j])
  BY DEF ReviveJobsOf, RevivedRow, StatusOf, HolderOf, TypeOK, Row, Active
<1>3. [j \in JobIds |-> StatusOf(jobs'[j])]
        = [j \in JobIds |-> IF j \in J THEN "waiting"
                            ELSE [i \in JobIds |-> StatusOf(jobs[i])][j]]
  BY <1>2
<1>4. [j \in JobIds |-> HolderOf(jobs'[j])]
        = [j \in JobIds |-> IF j \in J THEN NoNode
                            ELSE [i \in JobIds |-> HolderOf(jobs[i])][j]]
  BY <1>2
<1> QED
  BY <1>1, <1>3, <1>4 DEF Ledger!GiveBack

(* Rows J in progress become terminal and nothing else changes. *)
LEMMA TerminalSettles ==
  ASSUME TypeOK, NEW J \in SUBSET JobIds,
         \A j \in J : jobs[j].state \in Active /\ jobs'[j].state \in Terminal,
         \A j \in JobIds \ J : jobs'[j] = jobs[j]
  PROVE  Ledger!Settle(J)
<1> Active \cap Terminal = {} /\ "queued" \notin Active \cup Terminal
  BY DEF Active, Terminal
<1>1. ASSUME NEW j \in J
      PROVE  /\ StatusOf(jobs[j]) = "held"
             /\ StatusOf(jobs'[j]) \in Terminal
             /\ HolderOf(jobs'[j]) = NoNode
  BY DEF StatusOf, HolderOf
<1>2. ASSUME NEW j \in JobIds \ J
      PROVE  /\ StatusOf(jobs'[j]) = StatusOf(jobs[j])
             /\ HolderOf(jobs'[j]) = HolderOf(jobs[j])
  BY <1>2
<1>3. \A j \in JobIds : StatusOf(jobs[j]) \in Ledger!Statuses
  BY DEF TypeOK, Row, States, StatusOf, Active, Terminal, Ledger!Statuses, Ledger!Outcomes
<1>4. \A j \in JobIds : StatusOf(jobs'[j]) \in Ledger!Statuses
  BY <1>1, <1>2, <1>3 DEF Terminal, Ledger!Statuses, Ledger!Outcomes
<1>5. [j \in JobIds |-> HolderOf(jobs'[j])]
        = [j \in JobIds |-> IF j \in J THEN NoNode
                            ELSE [i \in JobIds |-> HolderOf(jobs[i])][j]]
  BY <1>1, <1>2
<1> QED
  BY <1>1, <1>2, <1>4, <1>5 DEF Ledger!Settle, Ledger!Outcomes, Terminal

LEMMA SameRowsSameLedger ==
  ASSUME \A j \in JobIds : /\ StatusOf(jobs'[j]) = StatusOf(jobs[j])
                           /\ HolderOf(jobs'[j]) = HolderOf(jobs[j])
  PROVE  UNCHANGED Ledger!vars
BY DEF Ledger!vars

LEMMA LedgerStep ==
  ASSUME TypeOK, [Next]_vars
  PROVE  [Ledger!Next]_(Ledger!vars)
<1>1. ASSUME NEW f \in Files, Ingest(f) PROVE Ledger!Next
  <2> PICK i \in JobIds :
        /\ IsNextId(i)
        /\ jobs' = [jobs EXCEPT ![i] = [NoRow EXCEPT !.state = "queued", !.file = f]]
    BY <1>1 DEF Ingest
  <2>1. jobs[i].state = "absent"
    BY DEF IsNextId, Present, InState, States, TypeOK, Row
  <2>2. \A j \in JobIds : j # i => jobs'[j] = jobs[j]
    BY DEF TypeOK
  <2>3. StatusOf(jobs[i]) = "absent" /\ HolderOf(jobs[i]) = NoNode
    BY <2>1 DEF StatusOf, HolderOf, Active
  <2>4. StatusOf(jobs'[i]) = "waiting" /\ HolderOf(jobs'[i]) = NoNode
    BY DEF StatusOf, HolderOf, TypeOK, NoRow, Active
  <2>5. [j \in JobIds |-> StatusOf(jobs'[j])]
          = [[j \in JobIds |-> StatusOf(jobs[j])] EXCEPT ![i] = "waiting"]
    <3>1. \A j \in JobIds : StatusOf(jobs'[j])
            = IF j = i THEN "waiting" ELSE StatusOf(jobs[j])
      BY <2>2, <2>4
    <3> QED
      BY <3>1
  <2>6. [j \in JobIds |-> HolderOf(jobs'[j])] = [j \in JobIds |-> HolderOf(jobs[j])]
    BY <2>2, <2>3, <2>4
  <2>7. Ledger!Post(i)
    BY <2>3, <2>5, <2>6 DEF Ledger!Post
  <2> QED
    BY <2>7 DEF Ledger!Next
<1>2. ASSUME NEW n \in AllNodes, ClaimFor(n) PROVE Ledger!Next
  <2>0. PICK i \in JobIds :
        /\ OldestQueued(i)
        /\ jobs' = [jobs EXCEPT ![i].state = "running", ![i].node = n, ![i].recent = TRUE]
    BY <1>2 DEF ClaimFor
  <2>1. \A j \in JobIds : j # i => jobs'[j] = jobs[j]
    BY <2>0 DEF TypeOK
  <2>2. StatusOf(jobs[i]) = "waiting"
    BY <2>0 DEF OldestQueued, StatusOf, Active
  <2>3. StatusOf(jobs'[i]) = "held" /\ HolderOf(jobs'[i]) = n
    BY <2>0 DEF StatusOf, HolderOf, TypeOK, Row, Active
  <2>4. [j \in JobIds |-> StatusOf(jobs'[j])]
          = [[j \in JobIds |-> StatusOf(jobs[j])] EXCEPT ![i] = "held"]
    <3>1. \A j \in JobIds : StatusOf(jobs'[j])
            = IF j = i THEN "held" ELSE StatusOf(jobs[j])
      BY <2>1, <2>3
    <3> QED
      BY <3>1
  <2>5. [j \in JobIds |-> HolderOf(jobs'[j])]
          = [[j \in JobIds |-> HolderOf(jobs[j])] EXCEPT ![i] = n]
    <3>1. \A j \in JobIds : HolderOf(jobs'[j])
            = IF j = i THEN n ELSE HolderOf(jobs[j])
      BY <2>1, <2>3
    <3> QED
      BY <3>1
  <2>6. Ledger!Grant(i, n)
    BY <2>2, <2>4, <2>5 DEF Ledger!Grant
  <2> QED
    BY <2>6 DEF Ledger!Next
<1>3. ASSUME NEW N, ReviveJobsOf(N) PROVE Ledger!Next
  <2>1. Revived(N) \in SUBSET JobIds
    BY DEF Revived, InState
  <2> QED
    BY <1>3, <2>1, ReviveGivesBack DEF Ledger!Next
<1>4. ASSUME NEW d \in dispatches, NEW result \in Results, Finish(d, result)
      PROVE  [Ledger!Next]_(Ledger!vars)
  <2>1. CASE ResultApplies(d)
    <3>1. d.job \in JobIds
      BY DEF TypeOK, Dispatch
    <3>2. jobs[d.job].state \in Active /\ jobs'[d.job].state \in Terminal
      BY <1>4, <2>1, <3>1, OutcomeIsTerminal DEF Finish, ResultApplies, TypeOK, Row
    <3>3. \A j \in JobIds \ {d.job} : jobs'[j] = jobs[j]
      BY <1>4, <2>1 DEF Finish, TypeOK
    <3>4. Ledger!Settle({d.job})
      BY <3>1, <3>2, <3>3, TerminalSettles
    <3> QED
      BY <3>1, <3>4 DEF Ledger!Next
  <2>2. CASE ~ResultApplies(d)
    BY <1>4, <2>2, SameRowsSameLedger DEF Finish
  <2> QED
    BY <2>1, <2>2
<1>5. ASSUME NEW i \in JobIds, Cancel(i) PROVE Ledger!Next
  <2>1. jobs' = [j \in JobIds |-> IF j \in {i} THEN CancelledRow(jobs[j]) ELSE jobs[j]]
    BY <1>5 DEF Cancel, TypeOK
  <2>2. Ledger!Withdraw({j \in {i} : jobs[j].state = "queued"})
    BY <2>1, CancelWithdraws
  <2> QED
    BY <2>2 DEF Ledger!Next
<1>6. CASE CancelAll
  <2>1. jobs' = [j \in JobIds |-> IF j \in JobIds THEN CancelledRow(jobs[j]) ELSE jobs[j]]
    BY <1>6 DEF CancelAll
  <2>2. Ledger!Withdraw({j \in JobIds : jobs[j].state = "queued"})
    BY <2>1, CancelWithdraws
  <2> QED
    BY <2>2 DEF Ledger!Next
<1>7. ASSUME NEW i \in JobIds, ForceDelete(i) PROVE Ledger!Next
  <2>1. \A j \in JobIds : j # i => jobs'[j] = jobs[j]
    BY <1>7 DEF ForceDelete, TypeOK
  <2>2. StatusOf(jobs'[i]) = "absent" /\ HolderOf(jobs'[i]) = NoNode
    BY <1>7 DEF ForceDelete, TypeOK, StatusOf, HolderOf, NoRow, Active
  <2>3. Ledger!Discard(i)
    BY <2>1, <2>2 DEF Ledger!Discard
  <2> QED
    BY <2>3 DEF Ledger!Next
<1>8. ASSUME NEW i \in JobIds, Age(i) PROVE UNCHANGED Ledger!vars
  <2>1. \A j \in JobIds : jobs'[j].state = jobs[j].state /\ jobs'[j].node = jobs[j].node
    BY <1>8 DEF Age, TypeOK, Row
  <2>2. \A j \in JobIds : /\ StatusOf(jobs'[j]) = StatusOf(jobs[j])
                          /\ HolderOf(jobs'[j]) = HolderOf(jobs[j])
    BY <2>1 DEF StatusOf, HolderOf
  <2> QED
    BY <2>2, SameRowsSameLedger
<1>9. CASE StartLocalLoop
  <2> DEFINE J == {j \in JobIds : jobs[j].state \in Active /\ ~jobs[j].recent}
  <2>1. \A j \in J : jobs[j].state \in Active /\ jobs'[j].state \in Terminal
    BY <1>9 DEF StartLocalLoop, ReconciledRow, TypeOK, Row, Active, Terminal
  <2>2. \A j \in JobIds \ J : jobs'[j] = jobs[j]
    BY <1>9 DEF StartLocalLoop, ReconciledRow, Active
  <2>3. Ledger!Settle(J)
    BY <2>1, <2>2, TerminalSettles
  <2> QED
    BY <2>3 DEF Ledger!Next
<1>10. ASSUME UNCHANGED jobs PROVE UNCHANGED Ledger!vars
  BY <1>10, SameRowsSameLedger
<1> QED
  BY <1>1, <1>2, <1>3, <1>4, <1>5, <1>6, <1>7, <1>8, <1>9, <1>10 DEF Next, LocalClaim,
     RemoteClaim, AllNodes, Register, Heartbeat, FallSilent, DeleteNode, ResultsLost,
     Sweep, Restart, StopLocalLoop, DrainGivenUp, vars

(* Whatever nodes, network and operator do, the job table behaves like a
   ledger whose jobs wait, are held by one node and are settled once. *)
THEOREM ImplementsLedger == Spec => LedgerSpec
BY LedgerInit, LedgerStep, TypeCorrect, PTL DEF Spec, LedgerSpec, Ledger!Spec
=============================================================================

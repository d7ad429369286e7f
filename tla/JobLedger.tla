----------------------------- MODULE JobLedger -----------------------------
(***************************************************************************)
(* What the job table of a convertarr host promises, told without nodes'   *)
(* heartbeats, result messages or restarts: a ledger of conversion jobs.   *)
(* A posted job waits until a node holds it; a held job is settled once,   *)
(* or given back to wait again; a settled job never moves again.  The only *)
(* way out of the ledger is an operator throwing the entry away.           *)
(*                                                                         *)
(* The state names abstract JobState (models.py): "waiting" is `queued`,   *)
(* "held" is `running` or `cancelling`.                                    *)
(***************************************************************************)

CONSTANTS
  Jobs,      (* Ledger slots, the primary keys of the job table.           *)
  Holders,   (* Nodes that may hold a job.                                 *)
  Nobody     (* The holder of a job that is not held.                      *)

VARIABLES
  status,    (* status[j]: where job j is in its life.                     *)
  holder     (* holder[j]: the node holding j, Nobody unless j is "held".  *)

vars == <<status, holder>>

Outcomes == {"done", "failed", "cancelled"}
Statuses == {"absent", "waiting", "held"} \cup Outcomes

Init ==
  /\ status = [j \in Jobs |-> "absent"]
  /\ holder = [j \in Jobs |-> Nobody]

(* A job is entered. *)
Post(j) ==
  /\ status[j] = "absent"
  /\ status' = [status EXCEPT ![j] = "waiting"]
  /\ UNCHANGED holder

(* A waiting job is handed to one node. *)
Grant(j, n) ==
  /\ status[j] = "waiting"
  /\ status' = [status EXCEPT ![j] = "held"]
  /\ holder' = [holder EXCEPT ![j] = n]

(* Held jobs reach an outcome, several at once at a startup. *)
Settle(J) ==
  /\ \A j \in J : status[j] = "held" /\ status'[j] \in Outcomes
  /\ status' \in [Jobs -> Statuses]
  /\ \A j \in Jobs \ J : status'[j] = status[j]
  /\ holder' = [j \in Jobs |-> IF j \in J THEN Nobody ELSE holder[j]]

(* Held jobs go back to waiting, all those of a lost node at once. *)
GiveBack(J) ==
  /\ \A j \in J : status[j] = "held"
  /\ status' = [j \in Jobs |-> IF j \in J THEN "waiting" ELSE status[j]]
  /\ holder' = [j \in Jobs |-> IF j \in J THEN Nobody ELSE holder[j]]

(* Waiting jobs are cancelled before any node has them. *)
Withdraw(J) ==
  /\ \A j \in J : status[j] = "waiting"
  /\ status' = [j \in Jobs |-> IF j \in J THEN "cancelled" ELSE status[j]]
  /\ UNCHANGED holder

(* The operator deletes the entry, whatever its state. *)
Discard(j) ==
  /\ status' = [status EXCEPT ![j] = "absent"]
  /\ holder' = [holder EXCEPT ![j] = Nobody]

Next ==
  \/ \E j \in Jobs : Post(j) \/ Discard(j)
  \/ \E j \in Jobs, n \in Holders : Grant(j, n)
  \/ \E J \in SUBSET Jobs : Settle(J) \/ GiveBack(J) \/ Withdraw(J)

Spec == Init /\ [][Next]_vars
=============================================================================

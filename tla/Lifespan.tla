------------------------------ MODULE Lifespan ------------------------------
(***************************************************************************)
(* A process as lifespan (main.py) runs it: init_db first, and handlers    *)
(* and loops only once it has returned.                                    *)
(*                                                                         *)
(* Serving bounds the composition: of the databases that a boot may leave, *)
(* the library lives in one that was made by one boot, and dies there as   *)
(* Restart says; a boot of a complete database changes nothing.            *)
(***************************************************************************)
EXTENDS Library, Migrations

vars == <<bootVars, libVars>>

Serving == stage = "up" /\ disk.rows = {} /\ crashes = 0

(* The library is still as a new database has it. *)
Untouched == media = NoMedia /\ scan = NoScan /\ pass = NoPass /\ index = <<>> /\ events = 0

(* Only a new database comes to be served, so one library will do for the
   others. *)
Init == BootInit /\ LibInit /\ (disk # NoTables => setup = CHOOSE s \in Setups : TRUE)

Booting == BootProgress /\ UNCHANGED libVars

Dying == Untouched /\ Die /\ UNCHANGED libVars

Living == Serving /\ LibNext /\ UNCHANGED bootVars

Next == Booting \/ Dying \/ Living

Spec == Init /\ [][Next]_vars

Indexing == Serving /\ IndexProgress /\ UNCHANGED bootVars

(* A supervisor starts a process again and its boot runs through; once it
   serves, the indexer goes round and round as its servers answer. *)
FairSpec == Spec /\ WF_vars(Booting \/ Indexing)

-----------------------------------------------------------------------------
(* Once the library is served, the cached row of every enabled instance says
   again and again what its sources say, whatever failed before. *)
IndexCatchesUp ==
  Serving /\ "index" \in setup.events ~>
    (~Serving \/ \A id \in DOMAIN instances : Enabled(id) => CaughtUp(id))
=============================================================================

------------------------------- MODULE Rules -------------------------------
(***************************************************************************)
(* What the pure modules promise, asked of one input at a time: a file and *)
(* the target of a workflow, the conditions of a workflow, a table of      *)
(* workflows, a saved filter, a codec and a target, a column of a grid.    *)
(* Which inputs there are is left open: TLC is given small sets of them,   *)
(* and RulesProofs takes any that meet the assumptions.                    *)
(***************************************************************************)
EXTENDS EncodePlan, Filters

CONSTANTS
  Probes,      (* Files, as ffprobe describes them.                        *)
  Targets,     (* What a workflow may say of a file that it matches.       *)
  Hosts,       (* Machines, as EncodePlan describes them.                  *)
  Conditions,  (* The conditions of a workflow.                            *)
  Subjects,    (* Files that workflows are tried on.                       *)
  Tables,      (* Tables of workflows.                                     *)
  FilterLists, (* The clauses of a saved filter.                           *)
  GridItems,   (* Items of a grid.                                         *)
  CodecNames,  (* Names that ffprobe has for the codec of a video.         *)
  Columns      (* Values of the items of a grid in the sorted column.      *)

ASSUME FilesAssumption ==
  /\ \A probe \in Probes : IsProbe(probe)
  /\ \A match \in Targets : match.video \in VideoTargets

ASSUME TablesAssumption ==
  /\ \A conditions \in Conditions :
       IsSeq(conditions) /\ \A i \in DOMAIN conditions : IsClause(conditions[i])
  /\ \A table \in Tables : IsTable(table)
  /\ \A clauses \in FilterLists : IsSeq(clauses)

(* x264 and x265 are encoders, and codecs are named in small letters. *)
ASSUME CodecsAssumption ==
  CodecNames \cap {"", "x264", "x265", "HEVC (H.265)", "H.264", "VVC (H.266)", "MPEG-2"} = {}

ASSUME ColumnsAssumption ==
  \A items \in Columns : IsSeq(items) /\ Values(items) \subseteq Int

VARIABLE input

NoInput == [of |-> "none"]

Inputs ==
  [of : {"plan"}, probe : Probes, match : Targets]
    \cup [of : {"clauses"}, conditions : Conditions]
    \cup [of : {"table"}, table : Tables]
    \cup [of : {"filter"}, clauses : FilterLists]
    \cup [of : {"codecs"}, codec : CodecNames, target : VideoTargets \ {"copy"}]
    \cup [of : {"items"}, items : Columns, reverse : BOOLEAN]

Ask == input = NoInput /\ input' \in Inputs

RulesSpec == input = NoInput /\ [][Ask]_input

-----------------------------------------------------------------------------
(* A converted file needs no second conversion by the workflow that asked
   for it, on whatever machine, if its cover art comes after its video. *)
PlanConverges ==
  input.of = "plan" /\ ArtComesLast(input.probe) =>
    \A host \in Hosts : Converges(input.probe, input.match, host)

(* The frames of a video that is re-encoded are where its encoder reads
   them, for files of one video. *)
FramesMatch ==
  input.of = "plan" /\ Cardinality(RealVideos(input.probe)) = 1
    /\ ArtComesLast(input.probe) =>
    \A host \in Hosts : FramesReach(input.probe, input.match, host)

(* Saving a workflow, as _clean_workflow_payload reads what it is sent, does
   not change which files it is for. *)
SavedAlike(conditions) ==
  LET row == [enabled |-> TRUE, priority |-> 1, conditions |-> conditions,
              video |-> "hevc", audio |-> "copy"]
  IN \A probe \in Subjects :
       Matches(FileAttributes(probe), CleanWorkflow(row).conditions)
         <=> Matches(FileAttributes(probe), conditions)

Shown(clauses) ==
  {item \in GridItems :
     ApplyFilter(<<item>>, [kind |-> "custom", clauses |-> clauses]) # <<>>}

(* A backup that is read in again chooses for a file the row that was chosen
   before, by whatever key it goes now. *)
ChosenAlike(probe, table) ==
  LET before == PickWorkflow(probe, table)
      after  == PickWorkflow(probe, ImportRows(table))
  IN /\ after.id = 0 <=> before.id = 0
     /\ before.id # 0 =>
          /\ after.id = Rank(table, before.id)
          /\ ImportRows(table)[after.id] = table[before.id]

(* A clause that saving keeps as it is meant: of a known field and operator,
   and, if its value is a text of old, with no commas in that. *)
Storable(c) ==
  /\ IsKnownClause(c)
  /\ c.list \/ c.field \in NumberFields \/ \A text \in Values(c.value) : IsName(text)

(* Saving a workflow, saving a filter and reading a backup in again change
   nothing that is found or chosen; nor does a clause that a filter does not
   know, as it asks nothing.  A workflow may have come from an older release,
   but not with a clause that is dropped, or with names joined by commas,
   which the matcher splits until they are wrapped as one item of a list. *)
RoundTripsKeepMeaning ==
  /\ input.of = "clauses" =>
       ((\A i \in DOMAIN input.conditions : Storable(input.conditions[i]))
          => SavedAlike(input.conditions))
  /\ input.of = "filter" => Shown(CleanFilter(input.clauses)) = Shown(input.clauses)
  /\ input.of = "table" => \A probe \in Subjects : ChosenAlike(probe, input.table)

(* The four tables of codec names agree, for the codecs that workflows can
   target and the names ffprobe gives them. *)
AliasTablesAgree ==
  input.of = "codecs" => TablesAgree(input.codec, input.target)

(* However a grid is sorted, items without a value come last. *)
EmptiesLast ==
  input.of = "items" => SortedWell(input.items, input.reverse)
=============================================================================

------------------------------ MODULE Library ------------------------------
(***************************************************************************)
(* One movie, or one series with one file, from Sonarr or Radarr to the    *)
(* grid and the queue: rescans (workers/ingest.py), the workflow chosen    *)
(* when a job is claimed and the result recorded (workers/execution.py),   *)
(* the entity index (workers/indexer.py), the grids and the settings pages *)
(* (web/routes.py, web/system_routes.py).                                  *)
(*                                                                         *)
(* Handlers and loops share one event loop and the database: a transaction *)
(* is a step, and so is what happens between two awaits.  How the queue is *)
(* worked off is in HostQueue and how a file is replaced in MediaSwap;     *)
(* here the one job of the file is claimed by the process itself, swaps or *)
(* fails, and is recorded.  Instances of the *arr servers and workflows    *)
(* live under keys that SQLite gives out again: one more than the largest  *)
(* in use.                                                                 *)
(***************************************************************************)
EXTENDS EncodePlan, Filters

CONSTANTS
  Servers,    (* The *arr servers there are, ...                           *)
  Owner,      (* ... and the one that has the file.                        *)
  Elsewhere,  (* What another server has under the same entity id.         *)
  Reported,   (* Codec -> its name in the mediaInfo of Sonarr and Radarr.  *)
  Machine,    (* The host that encodes, as in EncodePlan.                  *)
  Contents,   (* What a server may replace the file by.                    *)
  Rows,       (* The workflows an operator may save or import.             *)
  Setups      (* Kind of server, paths, tables, events.  See below.        *)

(* A setup is a record of
     kind      "sonarr" or "radarr",
     folder    the path that the server gives for the series,
     path      the path that it gives for the file,
     mappings  the path mappings of its instance,
     content   what the file holds at first,
     table     the workflows at first,
     order     the servers in the order of their keys,
     events    which kinds of event happen: "edit" and "pin" (workflows),
               "servers" (instances), "fail" and "die" (faults), "replace"
               (the server imports a better file), "index" (index passes),
     most      how many of them at most, index passes not counted.         *)

ASSUME LibraryAssumption ==
  /\ Owner \in Servers
  /\ \A row \in Rows : IsRow(row)
  /\ \A content \in Contents : IsProbe(content)
  /\ \A s \in Setups :
       /\ s.kind \in {"sonarr", "radarr"}
       /\ IsProbe(s.content) /\ IsTable(s.table)
       /\ IsSeq(s.order) /\ Values(s.order) \subseteq Servers
       /\ \A m, n \in DOMAIN s.order : s.order[m] = s.order[n] => m = n
       /\ s.most \in Nat

(* What Sonarr and Radarr call a codec is read as what ffprobe calls it: so
   for every target of a workflow, and for the videos that occur here.  The
   code does not have it for mpeg2video, which becomes mpeg2. *)
WellNamed(probe) ==
  \A i \in RealVideos(probe) :
    LET c == probe.streams[i].codec
    IN CodecsFromArr(Reported[c]) = ExpandCodecAliases(c)

ASSUME NamesAssumption ==
  /\ \A c \in VideoTargets \ {"copy"} : CodecsFromArr(Reported[c]) = ExpandCodecAliases(c)
  /\ \A content \in Contents \cup {s.content : s \in Setups} : WellNamed(content)

VARIABLES
  setup,      (* The setup.                                                *)
  file,       (* What is at the path, and its version.                     *)
  media,      (* The MediaFile row, or none.                               *)
  job,        (* The job of the file, from queued to recorded.             *)
  scan,       (* A rescan in flight.                                       *)
  workflows,  (* The table of workflows.                                   *)
  instances,  (* The table of instances.                                   *)
  index,      (* The EntityIndex rows of the entity, by instance id.       *)
  pass,       (* The index pass in flight.                                 *)
  arr,        (* What the owner reports of the file: when it last looked.  *)
  notices,    (* Calls under way that ask a server to look again.          *)
  recorded,   (* History: the version that record_finish stored last.      *)
  deletions,  (* History: how often a key may have changed hands.          *)
  events      (* Bound: how many events there have been.                   *)

libVars == <<setup, file, media, job, scan, workflows, instances, index, pass,
             arr, notices, recorded, deletions, events>>

NoMedia == [ver |-> -1]
NoJob   == [state |-> "none", edited |-> FALSE]
NoScan  == [at |-> "idle"]
NoPass  == [at |-> "idle"]
NoProbe == [ver |-> -1]

(* For the version of the file it was queued for.  The rest is history: the
   workflows are no longer those it was queued by, or a conversion has been
   recorded between the probe and the row. *)
Queued(ver, edited, late) ==
  [state |-> "queued", ver |-> ver, edited |-> edited, late |-> late]

(* A row that says running, of an encode that died with its process. *)
Orphaned(was) == [state |-> "orphaned", ver |-> was.ver, edited |-> was.edited]

Enabled(id) == instances[id].enabled

NextKey(table) == 1 + Greatest({0} \cup DOMAIN table)

Keyed(table, row) ==
  [k \in DOMAIN table \cup {NextKey(table)} |-> IF k \in DOMAIN table THEN table[k] ELSE row]

Without(table, key) == [k \in DOMAIN table \ {key} |-> table[k]]

Happens(event) ==
  /\ event \in setup.events
  /\ events < setup.most
  /\ events' = events + 1

-----------------------------------------------------------------------------
(* Mutants of the definitions below: the slips the properties must notice. *)

(* A file that no workflow wants to change is queued as well. *)
Queues_Always(plan) == job.state = "none"

(* A disabled workflow is still applied to what is in the queue. *)
ClaimMatch_Disabled ==
  PickWorkflow(media.probe, [w \in DOMAIN workflows |->
                               [workflows[w] EXCEPT !.enabled = TRUE]])

(* After the last instance there is another turn. *)
Listing_Again(left) == [at |-> "list", left |-> left, recorded |-> recorded]

(* Instances come back in the opposite order. *)
ImportedInstances_Reversed(table) ==
  LET ids == DOMAIN table
  IN [n \in 1 .. Cardinality(ids) |->
        table[CHOOSE i \in ids : Cardinality({j \in ids : j > i}) = n - 1]]

(* The index row of the entity outlives the conversion. *)
IndexAfterFinish_Kept == index

(* A row that is there is not written again. *)
Upsert_AddsOnly(id, row) ==
  [i \in DOMAIN index \cup {id} |-> IF i \in DOMAIN index THEN index[i] ELSE row]

-----------------------------------------------------------------------------
(* What is shown *)

CodecsReported(probe) ==
  UNION {CodecsFromArr(Reported[probe.streams[i].codec]) : i \in RealVideos(probe)}

(* The MediaFile rows that an instance owns, by entity id. *)
Bucket(id) ==
  IF media # NoMedia /\ media.inst = id THEN VideoCodecsFromProbe(media.probe) ELSE {}

(* The series page attributes files by their path instead, and compares the
   translated one with the path that Sonarr gives. *)
Joined ==
  setup.kind = "sonarr" =>
    IsUnder(setup.folder, Translate(setup.path, setup.mappings))

LoadEntityIndex(id) == IF id \in DOMAIN index THEN index[id].codecs ELSE {}

GridCodecs(id) ==
  LoadEntityIndex(id)
    \cup (IF Joined THEN Bucket(id) ELSE {})
    \cup (IF setup.kind = "radarr" /\ instances[id].server = Owner
          THEN CodecsReported(arr.probe) ELSE {})

-----------------------------------------------------------------------------
(* Rescans.  The instance is read, then the server is asked, then ffprobe
   runs; the row and the job are one transaction. *)

PlanFor(probe) == Evaluate(probe, PickWorkflow(probe, workflows))

(* Files of another server are other files.  pin is 0 for no workflow. *)
Rescan(id, pin) ==
  /\ scan = NoScan
  /\ instances[id].server = Owner
  /\ IF pin = 0 THEN UNCHANGED events ELSE Happens("pin")
  /\ scan' = [at |-> "asked", inst |-> id, pin |-> pin, deletions |-> deletions]
  /\ UNCHANGED <<setup, file, media, job, workflows, instances, index, pass, arr,
                 notices, recorded, deletions>>

(* For its one file, the rescans of a season and of an episode file do what
   that of the series does. *)
RescanSeries(id, pin) == setup.kind = "sonarr" /\ Rescan(id, pin)
RescanMovie(id, pin)  == setup.kind = "radarr" /\ Rescan(id, pin)

ScanProbes ==
  /\ scan.at = "asked"
  /\ scan' = [at |-> "probed", inst |-> scan.inst, pin |-> scan.pin,
              deletions |-> scan.deletions, probe |-> file.probe, ver |-> file.ver,
              recorded |-> recorded]
  /\ UNCHANGED <<setup, file, media, job, workflows, instances, index, pass, arr,
                 notices, recorded, deletions, events>>

(* The server or ffprobe fails: nothing is stored. *)
ScanFails ==
  /\ scan.at = "asked"
  /\ Happens("fail")
  /\ scan' = NoScan
  /\ UNCHANGED <<setup, file, media, job, workflows, instances, index, pass, arr,
                 notices, recorded, deletions>>

(* One active job for a file is enough, orphaned or not. *)
Queues(plan) == NeedsConversion(plan) /\ job.state = "none"

ScanStores ==
  LET plan == IF scan.pin = 0 THEN PlanFor(scan.probe)
              ELSE Evaluate(scan.probe,
                            PickWorkflowById(scan.probe, workflows, scan.pin))
  IN
  /\ scan.at = "probed"
  /\ media' = [probe |-> scan.probe, ver |-> scan.ver, inst |-> scan.inst,
               plan |-> plan, edited |-> scan.pin # 0, deletions |-> scan.deletions]
  /\ job' = IF Queues(plan)
            THEN Queued(scan.ver, scan.pin # 0, scan.recorded # recorded) ELSE job
  /\ scan' = NoScan
  /\ UNCHANGED <<setup, file, workflows, instances, index, pass, arr, notices,
                 recorded, deletions, events>>

-----------------------------------------------------------------------------
(* The job: the workflow is chosen again when it is claimed, among all of
   them, and once more for the result. *)

ClaimMatch == PickWorkflow(media.probe, workflows)

Claim ==
  LET plan == Evaluate(media.probe, ClaimMatch)
  IN
  /\ job.state = "queued"
  /\ job' = [state |-> "running", ver |-> job.ver, edited |-> job.edited, plan |-> plan,
             args |-> BuildArgs(media.probe, plan, DetectBest(Machine))]
  /\ UNCHANGED <<setup, file, media, scan, workflows, instances, index, pass, arr,
                 notices, recorded, deletions, events>>

(* The worker probes what it has put in place.  That may fail. *)
Swap(probed) ==
  /\ job.state = "running"
  /\ file' = [probe |-> Output(file.probe, job.args), ver |-> file.ver + 1]
  /\ IF probed THEN UNCHANGED events ELSE Happens("fail")
  /\ job' = [state |-> "swapped", ver |-> job.ver, edited |-> job.edited,
             new |-> IF probed THEN file' ELSE NoProbe]
  /\ UNCHANGED <<setup, media, scan, workflows, instances, index, pass, arr, notices,
                 recorded, deletions>>

EncodeFails ==
  /\ job.state = "running"
  /\ Happens("fail")
  /\ job' = NoJob
  /\ UNCHANGED <<setup, file, media, scan, workflows, instances, index, pass, arr,
                 notices, recorded, deletions>>

IndexAfterFinish == Without(index, media.inst)

(* The instance is read in the transaction that settles the row, for the call
   that follows it.  A notice is sure, as history has it, if no key may have
   changed hands since the file was found. *)
Noticed ==
  {[server |-> instances[id].server, sure |-> media.deletions = deletions] :
     id \in {media.inst} \cap DOMAIN instances}

RecordFinish ==
  /\ job.state = "swapped"
  /\ job' = NoJob
  /\ notices' = notices \cup Noticed
  /\ IF job.new = NoProbe THEN UNCHANGED <<media, index, recorded>>
     ELSE /\ media' = [probe |-> job.new.probe, ver |-> job.new.ver, inst |-> media.inst,
                       plan |-> PlanFor(job.new.probe), edited |-> FALSE,
                       deletions |-> media.deletions]
          /\ index' = IndexAfterFinish
          /\ recorded' = job.new.ver
  /\ UNCHANGED <<setup, file, scan, workflows, instances, pass, arr, deletions, events>>

(* The call comes through and the server looks at the file, or it fails: that
   is logged, and nobody calls again. *)
Notify(notice, ok) ==
  /\ notices' = notices \ {notice}
  /\ IF ok THEN UNCHANGED events ELSE Happens("fail")
  /\ arr' = IF ok /\ notice.server = Owner THEN file ELSE arr
  /\ UNCHANGED <<setup, file, media, job, scan, workflows, instances, index, pass,
                 recorded, deletions>>

-----------------------------------------------------------------------------
(* The index pass: one enabled instance after the other, in the order of
   their keys.  Sonarr answers twice, and the rows are read in between. *)

NextInstance == Least({entry.id : entry \in pass.left})
ServerAsked  == (CHOOSE entry \in pass.left : entry.id = NextInstance).server

(* recorded is history: what was recorded when the instance had its turn. *)
Listing(left) ==
  IF left = {} THEN NoPass ELSE [at |-> "list", left |-> left, recorded |-> recorded]

AfterThis == Listing({entry \in pass.left : entry.id # NextInstance})

PassStarts ==
  LET enabled == {[id |-> id, server |-> instances[id].server] :
                    id \in {i \in DOMAIN instances : Enabled(i)}}
  IN
  /\ pass = NoPass
  /\ enabled # {}
  /\ "index" \in setup.events
  /\ pass' = Listing(enabled)
  /\ UNCHANGED <<setup, file, media, job, scan, workflows, instances, index, arr,
                 notices, recorded, deletions, events>>

(* The rows of the instance, and how old the oldest of them is. *)
BucketNow ==
  [codecs |-> Bucket(NextInstance),
   ver |-> IF Bucket(NextInstance) = {} THEN recorded ELSE media.ver]

PassBuckets ==
  /\ pass.at = "list"
  /\ setup.kind = "sonarr"
  /\ pass' = [at |-> "files", left |-> pass.left, recorded |-> pass.recorded,
              bucket |-> BucketNow]
  /\ UNCHANGED <<setup, file, media, job, scan, workflows, instances, index, arr,
                 notices, recorded, deletions, events>>

Answer ==
  IF ServerAsked = Owner
  THEN [codecs |-> CodecsReported(arr.probe), ver |-> arr.ver]
  ELSE [codecs |-> CodecsReported(Elsewhere), ver |-> recorded]

NoAnswer == [codecs |-> {}, ver |-> recorded]

Hears(answer) ==
  /\ \/ pass.at = "files"
     \/ pass.at = "list" /\ setup.kind = "radarr"
  /\ pass' = [at |-> "heard", left |-> pass.left, recorded |-> pass.recorded,
              answer |-> answer,
              bucket |-> IF setup.kind = "sonarr" THEN pass.bucket ELSE NoAnswer]
  /\ UNCHANGED <<setup, file, media, job, scan, workflows, instances, index, arr,
                 notices, recorded, deletions>>

PassHears == Hears(Answer) /\ UNCHANGED events

(* episode_files of Sonarr may fail and leaves what the rows say; a list
   that fails is another case. *)
PassMisses == setup.kind = "sonarr" /\ Happens("fail") /\ Hears(NoAnswer)

PassSkips ==
  /\ pass.at = "list"
  /\ Happens("fail")
  /\ pass' = AfterThis
  /\ UNCHANGED <<setup, file, media, job, scan, workflows, instances, index, arr,
                 notices, recorded, deletions>>

Upsert(id, row) ==
  [i \in DOMAIN index \cup {id} |-> IF i = id THEN row ELSE index[i]]

(* For Radarr the rows are read here, for Sonarr they were read before its
   second answer. *)
PassStores ==
  LET bucket == IF setup.kind = "radarr" THEN BucketNow ELSE pass.bucket
      parts  == {bucket, pass.answer}
  IN
  /\ pass.at = "heard"
  /\ index' = Upsert(NextInstance,
                [codecs |-> bucket.codecs \cup pass.answer.codecs,
                 ver  |-> Least({p.ver : p \in parts}),
                 late |-> pass.recorded # recorded \/ \E p \in parts : p.ver < recorded])
  /\ pass' = AfterThis
  /\ UNCHANGED <<setup, file, media, job, scan, workflows, instances, arr, notices,
                 recorded, deletions, events>>

-----------------------------------------------------------------------------
(* The server looks at its disk again, asked or not, or imports a better
   file; not while ffmpeg reads the old one. *)

ArrScans ==
  /\ arr # file
  /\ arr' = file
  /\ UNCHANGED <<setup, file, media, job, scan, workflows, instances, index, pass,
                 notices, recorded, deletions, events>>

Replace(content) ==
  /\ job.state # "running"
  /\ content # file.probe
  /\ Happens("replace")
  /\ file' = [probe |-> content, ver |-> file.ver + 1]
  /\ arr' = file'
  /\ UNCHANGED <<setup, media, job, scan, workflows, instances, index, pass, notices,
                 recorded, deletions>>

-----------------------------------------------------------------------------
(* The settings pages.  What the file was last found to need may no longer
   be what the workflows say. *)

EditWorkflows(table) ==
  /\ Happens("edit")
  /\ workflows' = table
  /\ media' = IF media = NoMedia THEN media ELSE [media EXCEPT !.edited = TRUE]
  /\ job' = IF job = NoJob THEN job ELSE [job EXCEPT !.edited = TRUE]
  /\ UNCHANGED <<setup, file, scan, instances, index, pass, arr, notices,
                 recorded, deletions>>

CreateWorkflow(row)   == EditWorkflows(Keyed(workflows, CleanWorkflow(row)))
UpdateWorkflow(w, row) == EditWorkflows([workflows EXCEPT ![w] = CleanWorkflow(row)])
DeleteWorkflow(w)     == EditWorkflows(Without(workflows, w))
ToggleWorkflow(w)     == EditWorkflows([workflows EXCEPT ![w].enabled = ~@])
ImportWorkflow(row)   == EditWorkflows(Keyed(workflows, row))

(* An instance keeps its server: its address is not edited. *)
ChangeInstances(table) ==
  /\ Happens("servers")
  /\ instances' = table
  /\ UNCHANGED <<setup, file, media, job, scan, index, pass, arr, notices, recorded>>

AddInstance(server) ==
  /\ \A id \in DOMAIN instances : instances[id].server # server
  /\ ChangeInstances(Keyed(instances, [server |-> server, enabled |-> TRUE]))
  /\ UNCHANGED <<workflows, deletions>>

EditInstance(id) ==
  /\ ChangeInstances([instances EXCEPT ![id].enabled = ~@])
  /\ UNCHANGED <<workflows, deletions>>

DeleteInstance(id) ==
  /\ ChangeInstances(Without(instances, id))
  /\ deletions' = deletions + 1
  /\ UNCHANGED workflows

ImportedInstances(table) == InOrder(table, DOMAIN table)

(* The backup is one that was just taken.  It closes the gaps that deletions
   have left between the keys. *)
ImportBackup ==
  /\ ChangeInstances(ImportedInstances(instances))
  /\ workflows' = ImportRows(workflows)
  /\ deletions' = IF DOMAIN instances = 1 .. Cardinality(DOMAIN instances)
                  THEN deletions ELSE deletions + 1

-----------------------------------------------------------------------------
(* The process dies and comes back: what was in flight is gone, notices
   included.  The startup sweep fails the row that was running, or leaves it
   as it is if it is recent: nobody works on it, and it keeps the file from
   being queued until a later sweep fails it. *)
Restart ==
  /\ Happens("die")
  /\ scan' = NoScan
  /\ pass' = NoPass
  /\ notices' = {}
  /\ IF job.state \in {"running", "swapped", "orphaned"}
     THEN job' \in {NoJob, Orphaned(job)} ELSE UNCHANGED job
  /\ UNCHANGED <<setup, file, media, workflows, instances, index, arr, recorded,
                 deletions>>

-----------------------------------------------------------------------------
LibInit ==
  /\ setup \in Setups
  /\ file = [probe |-> setup.content, ver |-> 0]
  /\ workflows = setup.table
  /\ instances = [id \in DOMAIN setup.order |->
                    [server |-> setup.order[id], enabled |-> TRUE]]
  /\ arr = file
  /\ media = NoMedia
  /\ job = NoJob
  /\ scan = NoScan
  /\ index = <<>>
  /\ pass = NoPass
  /\ notices = {}
  /\ recorded = 0
  /\ deletions = 0
  /\ events = 0

Ingest ==
  \/ \E id \in DOMAIN instances, pin \in {0} \cup DOMAIN workflows :
       RescanSeries(id, pin) \/ RescanMovie(id, pin)
  \/ ScanProbes \/ ScanFails \/ ScanStores

Conversion ==
  \/ Claim \/ EncodeFails \/ RecordFinish
  \/ \E probed \in BOOLEAN : Swap(probed)
  \/ \E notice \in notices, ok \in BOOLEAN : Notify(notice, ok)

IndexProgress == PassStarts \/ PassBuckets \/ PassHears \/ PassStores

Editing ==
  \/ \E row \in Rows : CreateWorkflow(row) \/ ImportWorkflow(row)
  \/ \E w \in DOMAIN workflows :
       \/ DeleteWorkflow(w) \/ ToggleWorkflow(w)
       \/ \E row \in Rows : UpdateWorkflow(w, row)
  \/ \E server \in Servers : AddInstance(server)
  \/ \E id \in DOMAIN instances : EditInstance(id) \/ DeleteInstance(id)
  \/ ImportBackup

LibNext ==
  \/ Ingest \/ Conversion \/ IndexProgress \/ Editing
  \/ PassMisses \/ PassSkips
  \/ ArrScans \/ (\E content \in Contents : Replace(content))
  \/ Restart

LibSpec == LibInit /\ [][LibNext]_libVars

-----------------------------------------------------------------------------
(* Properties *)

LibraryTypeOK ==
  /\ setup.kind \in {"sonarr", "radarr"}
  /\ file.ver \in Nat /\ arr.ver \in 0 .. file.ver
  /\ media = NoMedia \/ media.ver \in 0 .. file.ver
  /\ recorded \in 0 .. file.ver
  /\ job.state \in {"none", "queued", "running", "swapped", "orphaned"}
  /\ job # NoJob => media # NoMedia
  /\ scan.at \in {"idle", "asked", "probed"}
  /\ pass.at \in {"idle", "list", "files", "heard"}
  /\ pass # NoPass => pass.left # {}
  /\ \A id \in DOMAIN instances : instances[id] \in [server : Servers, enabled : BOOLEAN]
  /\ \A id \in DOMAIN index : index[id].ver \in 0 .. file.ver
  /\ notices \subseteq [server : Servers, sure : BOOLEAN]
  /\ deletions \in 0 .. setup.most
  /\ events \in 0 .. setup.most

(* No encode is started on what the last conversion has made, or on what was
   there before the first, unless the workflows want it changed.  A job comes
   to outlive its reason if the workflows were edited since, if it was pinned,
   or if a rescan had probed the file before the conversion and stores that
   probe after it was recorded: these the code lets through, and a file that
   was replaced or converted unrecorded is not asked about. *)
EncodeNeeded ==
  [][job.state = "queued" /\ job'.state = "running"
       /\ file.ver = recorded /\ ~job.edited /\ ~job.late
     => NeedsConversion(PlanFor(file.probe))]_libVars

(* What a claim dispatches is what the last look at the file decided, unless
   the workflows were edited since or the operator had pinned one; a backup
   that is read in again changes none of it. *)
PlanKept ==
  [][job.state = "queued" /\ job'.state = "running" /\ ~media.edited
     => job'.plan = media.plan]_libVars

(* Nobody but the server that has the file is told of a conversion, by
   whatever keys the instances go when it is recorded, unless a key may have
   changed hands since the file was found: an instance was deleted, or a
   backup closed the gap of one that was deleted before.  That the owner is
   told is not certain: the call may fail, or the process die before it. *)
NotifyReachesOwner == \A notice \in notices : notice.sure => notice.server = Owner

UpToDate(id) ==
  /\ media # NoMedia
  /\ media.ver = file.ver /\ arr.ver = file.ver
  /\ id \in DOMAIN index => index[id].ver = file.ver

(* The grid's cached row of a file is not older than its last recorded
   conversion, so that no filter finds it by the codec it had, unless the
   row comes from a pass that had its data before, or from a server or a
   rescan that had not looked since, or a key may have changed hands.  When
   all that is merged is up to date, the grid has the file's codec, by all
   its names and no other; where mappings take the file out of the folder of
   its series, it has no other. *)
GridTruthful ==
  deletions = 0 =>
    \A id \in DOMAIN instances : instances[id].server = Owner =>
      /\ id \in DOMAIN index => index[id].late \/ index[id].ver >= recorded
      /\ UpToDate(id) =>
           /\ GridCodecs(id) \subseteq VideoCodecsFromProbe(file.probe)
           /\ Joined => GridCodecs(id) = VideoCodecsFromProbe(file.probe)

(* The row says what its sources say. *)
CaughtUp(id) ==
  /\ id \in DOMAIN index
  /\ index[id].codecs = Bucket(id) \cup
       CodecsReported(IF instances[id].server = Owner THEN arr.probe ELSE Elsewhere)
=============================================================================

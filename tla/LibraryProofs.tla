--------------------------- MODULE LibraryProofs ---------------------------
(***************************************************************************)
(* Proofs of Library and Lifespan: for any servers, files, workflows and   *)
(* setups that meet the assumptions, and any number of events.             *)
(*                                                                         *)
(* Everybody has seen the file at some version, and knows no more of it    *)
(* than that.  So the inductive invariant says of each of them, the row of *)
(* the file, a rescan, the server, the job, an index pass, an index row:   *)
(* its version is not newer than the file's, and at the file's version it  *)
(* says what the file holds.  A step makes a new version of the file, of   *)
(* which nobody claims to know, or hands on what another one knows.        *)
(*                                                                         *)
(* Ids of instances are kept in four places while the table changes.  What *)
(* is said of the instance that has one holds as long as no key may have   *)
(* changed hands since it was taken down: deletions is the clock for it.   *)
(***************************************************************************)
EXTENDS Lifespan, RulesProofs

-----------------------------------------------------------------------------
(* The inductive invariant *)

(* What is known of the file is of one of its versions, and of this one only
   if it says the same. *)
Knows(x) ==
  /\ x.ver \in 0 .. file.ver
  /\ x.ver = file.ver => x.probe = file.probe

(* Codecs that are not newer than the file, and its own if they are as new. *)
Fresh(p) ==
  /\ p.ver \in 0 .. file.ver
  /\ p.ver = file.ver => p.codecs \subseteq VideoCodecsFromProbe(file.probe)

IsOwner(id) == id \in DOMAIN instances /\ instances[id].server = Owner

(* A server has one instance at most, and sure notices go to the owner. *)
SettingsInv ==
  /\ setup \in Setups
  /\ IsTable(workflows)
  /\ IsFiniteSet(DOMAIN instances) /\ DOMAIN instances \subseteq Nat \ {0}
  /\ \A id \in DOMAIN instances : instances[id] \in [server : Servers, enabled : BOOLEAN]
  /\ \A i, j \in DOMAIN instances : instances[i].server = instances[j].server => i = j
  /\ notices \subseteq [server : Servers, sure : BOOLEAN]
  /\ \A notice \in notices : notice.sure => notice.server = Owner
  /\ events \in 0 .. setup.most /\ deletions \in 0 .. events

FileInv ==
  /\ file.ver \in Nat /\ IsProbe(file.probe) /\ WellNamed(file.probe)
  /\ recorded \in 0 .. file.ver
  /\ Knows(arr)

(* The row was found by an instance of the owner, and its plan is what the
   workflows say unless they were edited. *)
MediaInv ==
  media # NoMedia =>
    /\ DOMAIN media = {"probe", "ver", "inst", "plan", "edited", "deletions"}
    /\ Knows(media)
    /\ media.deletions \in 0 .. deletions
    /\ media.deletions = deletions => IsOwner(media.inst)
    /\ ~media.edited => media.plan = PlanFor(media.probe)

(* What was probed is not older than the last conversion, unless that was
   recorded since. *)
ScanInv ==
  /\ scan.at \in {"idle", "asked", "probed"}
  /\ scan.at = "idle" => scan = NoScan
  /\ scan.at # "idle" => /\ scan.deletions \in 0 .. deletions
                         /\ scan.deletions = deletions => IsOwner(scan.inst)
  /\ scan.at = "probed" =>
       /\ Knows(scan)
       /\ scan.recorded \in 0 .. recorded
       /\ scan.recorded = recorded => scan.ver >= recorded

(* What is queued is no older than the last conversion, unless it is late,
   and needs a conversion if it is for the present version; what is encoded by
   the arguments gets codecs that workflows can name. *)
JobInv ==
  /\ \/ job = NoJob
     \/ job.state = "queued" /\ DOMAIN job = {"state", "ver", "edited", "late"}
     \/ job.state = "running" /\ DOMAIN job = {"state", "ver", "edited", "plan", "args"}
     \/ job.state = "swapped" /\ DOMAIN job = {"state", "ver", "edited", "new"}
     \/ job.state = "orphaned" /\ DOMAIN job = {"state", "ver", "edited"}
  /\ job # NoJob => media # NoMedia /\ job.ver \in 0 .. file.ver
  /\ job.state = "queued" =>
       /\ ~job.late => job.ver >= recorded
       /\ job.ver = file.ver /\ ~job.edited => NeedsConversion(PlanFor(file.probe))
  /\ job.state = "running" =>
       \A n \in DOMAIN job.args.video :
         \/ job.args.video[n] = "copy"
         \/ Produces(job.args.video[n]) \in VideoTargets \ {"copy"}
  /\ job.state = "swapped" =>
       job.new = NoProbe \/ (Knows(job.new) /\ job.new.ver > recorded)

(* The instances in a pass are still what they were. *)
LeftInv ==
  /\ IsFiniteSet(pass.left) /\ pass.left # {}
  /\ \A entry \in pass.left : entry.id \in Nat
  /\ deletions = 0 =>
       \A entry \in pass.left :
         entry.id \in DOMAIN instances /\ instances[entry.id].server = entry.server

(* What a pass has read is as fresh as it says. *)
PassInv ==
  /\ pass.at \in {"idle", "list", "files", "heard"}
  /\ pass.at = "idle" => pass = NoPass
  /\ pass.at # "idle" => LeftInv
  /\ pass.at \in {"files", "heard"} => Fresh(pass.bucket)
  /\ pass.at = "heard" => /\ pass.answer.ver \in 0 .. file.ver
                          /\ ServerAsked = Owner => Fresh(pass.answer)

(* What it stores is, too, and is late or not older than the last
   conversion. *)
RowInv(id) == Fresh(index[id]) /\ (index[id].late \/ index[id].ver >= recorded)

IndexInv ==
  /\ \A id \in DOMAIN index : index[id].ver \in 0 .. file.ver
  /\ deletions = 0 =>
       \A id \in DOMAIN index :
         /\ id \in DOMAIN instances
         /\ instances[id].server = Owner => RowInv(id)

LibInv == SettingsInv /\ FileInv /\ MediaInv /\ ScanInv /\ JobInv /\ PassInv /\ IndexInv

-----------------------------------------------------------------------------
(* Tables *)

LEMMA NextKeyFacts ==
  ASSUME NEW table, IsFiniteSet(DOMAIN table), DOMAIN table \subseteq Nat \ {0}
  PROVE  NextKey(table) \in Nat \ {0} /\ NextKey(table) \notin DOMAIN table
<1> DEFINE S == DOMAIN table \cup {0}
<1>1. IsFiniteSet(S)
  BY FS_AddElement
<1>2. S \in SUBSET Int /\ S # {} /\ 0 \in S /\ S = {0} \cup DOMAIN table
  OBVIOUS
<1>3. DOMAIN table \subseteq S
  OBVIOUS
<1> HIDE DEF S
<1>4. Greatest(S) \in S /\ \A j \in S : j <= Greatest(S)
  BY <1>1, <1>2, GreatestFacts
<1>5. NextKey(table) = 1 + Greatest(S)
  BY <1>2 DEF NextKey
<1>6. Greatest(S) \in Int /\ 0 <= Greatest(S)
  BY <1>2, <1>4
<1> QED
  BY <1>3, <1>4, <1>5, <1>6

LEMMA KeyedFacts ==
  ASSUME NEW table, IsFiniteSet(DOMAIN table), DOMAIN table \subseteq Nat \ {0}, NEW row
  PROVE  LET t == Keyed(table, row)
             k == NextKey(table)
         IN /\ DOMAIN t = DOMAIN table \cup {k} /\ k \notin DOMAIN table
            /\ IsFiniteSet(DOMAIN t) /\ DOMAIN t \subseteq Nat \ {0}
            /\ \A i \in DOMAIN table : t[i] = table[i]
            /\ t[k] = row
<1> DEFINE t == Keyed(table, row)
           k == NextKey(table)
<1>1. k \in Nat \ {0} /\ k \notin DOMAIN table
  BY NextKeyFacts
<1> HIDE DEF k
<1>2. t = [i \in DOMAIN table \cup {k} |-> IF i \in DOMAIN table THEN table[i] ELSE row]
  BY DEF Keyed, k
<1>3. IsFiniteSet(DOMAIN table \cup {k})
  BY FS_AddElement
<1> QED
  BY <1>1, <1>2, <1>3 DEF k

LEMMA WithoutFacts ==
  ASSUME NEW table, NEW key
  PROVE  /\ DOMAIN Without(table, key) = DOMAIN table \ {key}
         /\ \A i \in DOMAIN table \ {key} : Without(table, key)[i] = table[i]
         /\ IsFiniteSet(DOMAIN table) => IsFiniteSet(DOMAIN Without(table, key))
<1>1. /\ DOMAIN Without(table, key) = DOMAIN table \ {key}
      /\ \A i \in DOMAIN table \ {key} : Without(table, key)[i] = table[i]
  BY DEF Without
<1>2. IsFiniteSet(DOMAIN table) => IsFiniteSet(DOMAIN table \ {key})
  BY FS_RemoveElement
<1> QED
  BY <1>1, <1>2

LEMMA EditedTables ==
  ASSUME NEW table, IsTable(table)
  PROVE  /\ \A row : IsRow(row) => IsTable(Keyed(table, row)) /\ IsRow(CleanWorkflow(row))
         /\ \A w \in DOMAIN table :
              /\ IsTable(Without(table, w))
              /\ IsTable([table EXCEPT ![w].enabled = ~@])
              /\ \A row : IsRow(row) => IsTable([table EXCEPT ![w] = row])
<1>1. /\ IsFiniteSet(DOMAIN table) /\ DOMAIN table \subseteq Nat \ {0}
      /\ \A w \in DOMAIN table : IsRow(table[w])
  BY DEF IsTable
<1>2. ASSUME NEW row, IsRow(row) PROVE IsTable(Keyed(table, row))
  <2> DEFINE t == Keyed(table, row)
             k == NextKey(table)
  <2>1. /\ DOMAIN t = DOMAIN table \cup {k}
        /\ IsFiniteSet(DOMAIN t) /\ DOMAIN t \subseteq Nat \ {0}
        /\ \A i \in DOMAIN table : t[i] = table[i]
        /\ t[k] = row
    BY <1>1, KeyedFacts
  <2> HIDE DEF t, k
  <2>2. \A i \in DOMAIN t : IsRow(t[i])
    BY <1>1, <1>2, <2>1
  <2>3. IsTable(t)
    BY <2>1, <2>2 DEF IsTable
  <2> QED
    BY <2>3 DEF t
<1>3. ASSUME NEW row, IsRow(row) PROVE IsRow(CleanWorkflow(row))
  <2>1. \A c : IsRow([row EXCEPT !.conditions = c])
    BY <1>3 DEF IsRow
  <2> QED
    BY <2>1 DEF CleanWorkflow
<1>4. ASSUME NEW w \in DOMAIN table PROVE IsTable(Without(table, w))
  <2> DEFINE t == Without(table, w)
  <2>1. /\ DOMAIN t = DOMAIN table \ {w} /\ IsFiniteSet(DOMAIN t)
        /\ \A i \in DOMAIN table \ {w} : t[i] = table[i]
    BY <1>1, WithoutFacts
  <2> HIDE DEF t
  <2>2. IsTable(t)
    BY <1>1, <2>1 DEF IsTable
  <2> QED
    BY <2>2 DEF t
<1>5. ASSUME NEW w \in DOMAIN table, NEW row, IsRow(row)
      PROVE  IsTable([table EXCEPT ![w] = row])
  <2> DEFINE t == [table EXCEPT ![w] = row]
  <2>1. DOMAIN t = DOMAIN table /\ \A i \in DOMAIN table : t[i] = IF i = w THEN row ELSE table[i]
    OBVIOUS
  <2> HIDE DEF t
  <2>2. IsTable(t)
    BY <1>1, <1>5, <2>1 DEF IsTable
  <2> QED
    BY <2>2 DEF t
<1>6. ASSUME NEW w \in DOMAIN table PROVE IsTable([table EXCEPT ![w].enabled = ~@])
  <2> DEFINE row == [table[w] EXCEPT !.enabled = ~@]
  <2>1. IsRow(row)
    BY <1>1 DEF IsRow
  <2>2. [table EXCEPT ![w].enabled = ~@] = [table EXCEPT ![w] = row]
    OBVIOUS
  <2> HIDE DEF row
  <2> QED
    BY <1>5, <2>1, <2>2
<1> QED
  BY <1>2, <1>3, <1>4, <1>5, <1>6

(* A choice is of a workflow that the table has. *)
LEMMA PickTyped ==
  ASSUME NEW table, IsTable(table), NEW probe
  PROVE  PickWorkflow(probe, table).video \in VideoTargets
<1> DEFINE F == Fits(probe, table)
<1>1. F \in SUBSET DOMAIN table
  BY DEF Fits, ActiveIn
<1>2. PickWorkflow(probe, table) = IF F = {} THEN NoMatch ELSE WfToMatch(table, First(table, F))
  BY DEF PickWorkflow, Fits
<1>3. CASE F = {}
  BY <1>2, <1>3 DEF NoMatch, VideoTargets
<1>4. CASE F # {}
  <2>1. First(table, F) \in DOMAIN table
    BY <1>1, <1>4, FirstFacts
  <2>2. table[First(table, F)].video \in VideoTargets
    BY <2>1 DEF IsTable, IsRow
  <2> QED
    BY <1>2, <1>4, <2>2 DEF WfToMatch
<1> QED
  BY <1>3, <1>4

(* The codecs of an output are those of the input, and what encoders make. *)
LEMMA OutputWellNamed ==
  ASSUME NEW probe, IsProbe(probe), WellNamed(probe), NEW args,
         \A n \in DOMAIN args.video :
           \/ args.video[n] = "copy"
           \/ Produces(args.video[n]) \in VideoTargets \ {"copy"}
  PROVE  WellNamed(Output(probe, args))
<1> DEFINE out == Output(probe, args)
           Named(c) == CodecsFromArr(Reported[c]) = ExpandCodecAliases(c)
<1>1. /\ \A i \in DOMAIN probe.streams : IsStream(probe.streams[i])
      /\ \A m \in DOMAIN out.streams : out.streams[m] \in OutputStreams(probe, args)
  BY OutputFacts, SeqOfValues DEF IsProbe
<1>2. \A i \in RealVideos(probe) : Named(probe.streams[i].codec)
  BY DEF WellNamed
<1>3. Named("h264") /\ \A c \in VideoTargets \ {"copy"} : Named(c)
  BY NamesAssumption DEF VideoTargets
<1> HIDE DEF Named, out
<1>4. ASSUME NEW i \in RealVideos(probe), NEW n
      PROVE  Named(Written(probe.streams[i], args, n).codec)
  <2>1. IsStream(probe.streams[i]) /\ probe.streams[i].type = "video"
    BY <1>1 DEF RealVideos, IsRealVideo
  <2> QED
    BY <1>2, <1>3, <2>1, WrittenVideo
<1>5. ASSUME NEW i \in Audios(probe), NEW n
      PROVE  ~IsRealVideo(Written(probe.streams[i], args, n))
  <2>1. IsStream(probe.streams[i]) /\ probe.streams[i].type = "audio"
    BY <1>1 DEF Audios
  <2> QED
    BY <2>1, WrittenStream DEF IsRealVideo
<1>6. ASSUME NEW i \in OutputRest(probe) PROVE ~IsRealVideo(probe.streams[i])
  BY DEF OutputRest, IsRealVideo
<1>7. \A m \in DOMAIN out.streams : IsRealVideo(out.streams[m]) => Named(out.streams[m].codec)
  BY <1>1, <1>4, <1>5, <1>6 DEF OutputStreams
<1> QED
  BY <1>7 DEF WellNamed, RealVideos, Named, out

LEMMA ReportedAsProbed ==
  ASSUME NEW probe, WellNamed(probe)
  PROVE  CodecsReported(probe) = VideoCodecsFromProbe(probe)
BY DEF WellNamed, CodecsReported, VideoCodecsFromProbe

-----------------------------------------------------------------------------
(* What a step may do without disturbing the invariant *)

(* The file is what it was, or another version. *)
FileMoves == file' = file \/ file'.ver = file.ver + 1

(* Every instance keeps its server, or a key has changed hands. *)
OwnersStay ==
  \/ /\ deletions' = deletions
     /\ \A id \in DOMAIN instances :
          id \in DOMAIN instances' /\ instances'[id].server = instances[id].server
  \/ deletions' = deletions + 1

(* The workflows say of every file what they said. *)
PlansStay ==
  \A probe : Evaluate(probe, PickWorkflow(probe, workflows')) =
             Evaluate(probe, PickWorkflow(probe, workflows))

Ticks ==
  \/ events' = events
  \/ events < setup.most /\ events' = events + 1

LEMMA Counters ==
  ASSUME SettingsInv
  PROVE  setup.most \in Nat /\ events \in Nat /\ deletions \in Nat
BY LibraryAssumption DEF SettingsInv

LEMMA HappensTicks ==
  ASSUME NEW event, Happens(event)
  PROVE  Ticks
BY DEF Happens, Ticks

LEMMA TicksCount ==
  ASSUME SettingsInv, Ticks, setup' = setup, deletions' = deletions
  PROVE  events' \in 0 .. setup'.most /\ deletions' \in 0 .. events'
<1>1. setup.most \in Nat /\ events \in 0 .. setup.most /\ deletions \in 0 .. events
  BY Counters DEF SettingsInv
<1> QED
  BY <1>1 DEF Ticks

LEMMA SettingsKept ==
  ASSUME SettingsInv, Ticks, UNCHANGED <<setup, workflows, instances, deletions>>,
         notices' \subseteq notices
  PROVE  SettingsInv'
<1>1. events' \in 0 .. setup'.most /\ deletions' \in 0 .. events'
  BY TicksCount
<1> QED
  BY <1>1 DEF SettingsInv

LEMMA SameInstances ==
  ASSUME UNCHANGED <<instances, deletions>>
  PROVE  OwnersStay
BY DEF OwnersStay

LEMMA SameWorkflows ==
  ASSUME workflows' = workflows
  PROVE  PlansStay
BY DEF PlansStay

LEMMA FileKept ==
  ASSUME FileInv, UNCHANGED <<file, recorded>>, arr' \in {arr, file}
  PROVE  FileInv'
BY DEF FileInv, Knows

LEMMA MediaKept ==
  ASSUME FileInv, SettingsInv, MediaInv, media' = media, FileMoves, OwnersStay, PlansStay
  PROVE  MediaInv'
<1> SUFFICES ASSUME media # NoMedia PROVE MediaInv'
  BY DEF MediaInv
<1>1. /\ file.ver \in Nat /\ deletions \in Nat
      /\ media.ver \in 0 .. file.ver /\ media.deletions \in 0 .. deletions
  BY Counters DEF FileInv, MediaInv, Knows
<1>2. Knows(media)'
  BY <1>1 DEF Knows, FileMoves, MediaInv
<1>3. media'.deletions \in 0 .. deletions'
  BY <1>1 DEF OwnersStay
<1>4. media'.deletions = deletions' => IsOwner(media.inst)'
  BY <1>1 DEF OwnersStay, MediaInv, IsOwner
<1>5. ~media'.edited => media'.plan = PlanFor(media.probe)'
  BY DEF PlansStay, MediaInv, PlanFor
<1> QED
  BY <1>2, <1>3, <1>4, <1>5 DEF MediaInv

(* The last conversion is the one that was the last, or a later one. *)
RecordMoves == recorded' \in Nat /\ (recorded' = recorded \/ recorded' > recorded)

LEMMA SameRecord ==
  ASSUME FileInv, recorded' = recorded
  PROVE  RecordMoves
BY DEF FileInv, RecordMoves

LEMMA ScanKept ==
  ASSUME FileInv, SettingsInv, ScanInv, scan' = scan, FileMoves, OwnersStay, RecordMoves
  PROVE  ScanInv'
<1> SUFFICES ASSUME scan.at # "idle" PROVE ScanInv'
  BY DEF ScanInv
<1>1. file.ver \in Nat /\ deletions \in Nat /\ scan.deletions \in 0 .. deletions
  BY Counters DEF FileInv, ScanInv
<1>2. scan'.deletions \in 0 .. deletions'
  BY <1>1 DEF OwnersStay
<1>3. scan'.deletions = deletions' => IsOwner(scan.inst)'
  BY <1>1 DEF OwnersStay, ScanInv, IsOwner
<1>4. ASSUME scan.at = "probed"
      PROVE  /\ Knows(scan)'
             /\ scan.recorded \in 0 .. recorded'
             /\ scan.recorded = recorded' => scan.ver >= recorded'
  <2>1. Knows(scan)'
    BY <1>1, <1>4 DEF ScanInv, Knows, FileMoves
  <2>2. /\ recorded \in Nat /\ scan.recorded \in 0 .. recorded
        /\ scan.recorded = recorded => scan.ver >= recorded
    BY <1>1, <1>4 DEF ScanInv, FileInv
  <2>3. recorded' \in Nat /\ (recorded' = recorded \/ recorded' > recorded)
    BY DEF RecordMoves
  <2> QED
    BY <2>1, <2>2, <2>3
<1> QED
  BY <1>2, <1>3, <1>4 DEF ScanInv

LEMMA JobKept ==
  ASSUME FileInv, JobInv, job' = job, media # NoMedia => media' # NoMedia, FileMoves, PlansStay,
         recorded' = recorded
  PROVE  JobInv'
<1> SUFFICES ASSUME job # NoJob PROVE JobInv'
  BY DEF JobInv, NoJob
<1>1. file.ver \in Nat /\ job.ver \in 0 .. file.ver
  BY DEF FileInv, JobInv
<1>2. job'.ver \in 0 .. file'.ver
  BY <1>1 DEF FileMoves
<1>3. job'.state = "queued" /\ job'.ver = file'.ver /\ ~job'.edited =>
        NeedsConversion(PlanFor(file.probe))'
  BY <1>1 DEF FileMoves, PlansStay, JobInv, PlanFor
<1>4. job'.state = "swapped" =>
        job'.new = NoProbe \/ (Knows(job.new)' /\ job'.new.ver > recorded')
  BY <1>1 DEF FileMoves, JobInv, Knows
<1> QED
  BY <1>2, <1>3, <1>4 DEF JobInv

LEMMA LeftKept ==
  ASSUME SettingsInv, LeftInv, pass'.left = pass.left, OwnersStay
  PROVE  LeftInv'
<1>1. deletions \in Nat
  BY Counters
<1>2. deletions' = 0 =>
        \A entry \in pass.left :
          entry.id \in DOMAIN instances' /\ instances'[entry.id].server = entry.server
  BY <1>1 DEF LeftInv, OwnersStay
<1> QED
  BY <1>2 DEF LeftInv

LEMMA FreshKept ==
  ASSUME NEW p, FileInv, Fresh(p), FileMoves
  PROVE  /\ p.ver \in 0 .. file'.ver
         /\ p.ver = file'.ver => p.codecs \subseteq VideoCodecsFromProbe(file'.probe)
BY DEF Fresh, FileInv, FileMoves

LEMMA PassKept ==
  ASSUME FileInv, SettingsInv, PassInv, pass' = pass, FileMoves, OwnersStay
  PROVE  PassInv'
<1>1. pass.at # "idle" => LeftInv'
  BY LeftKept DEF PassInv
<1>2. pass.at \in {"files", "heard"} => Fresh(pass.bucket)'
  BY FreshKept DEF PassInv, Fresh
<1>3. pass.at = "heard" => pass'.answer.ver \in 0 .. file'.ver
  BY DEF PassInv, FileInv, FileMoves
<1>4. pass.at = "heard" /\ ServerAsked' = Owner => Fresh(pass.answer)'
  <2>1. ServerAsked' = ServerAsked
    BY DEF ServerAsked, NextInstance
  <2> QED
    BY <2>1, FreshKept DEF PassInv, Fresh
<1> QED
  BY <1>1, <1>2, <1>3, <1>4 DEF PassInv

LEMMA IndexKept ==
  ASSUME FileInv, SettingsInv, IndexInv, UNCHANGED <<index, recorded>>, FileMoves, OwnersStay
  PROVE  IndexInv'
<1>1. deletions \in Nat /\ file.ver \in Nat
  BY Counters DEF FileInv
<1>2. \A id \in DOMAIN index' : index'[id].ver \in 0 .. file'.ver
  BY <1>1 DEF IndexInv, FileMoves
<1>3. ASSUME deletions' = 0, NEW id \in DOMAIN index'
      PROVE  id \in DOMAIN instances' /\ (instances'[id].server = Owner => RowInv(id)')
  <2>1. deletions' = deletions
    BY <1>1, <1>3 DEF OwnersStay
  <2>2. /\ id \in DOMAIN instances /\ id \in DOMAIN instances'
        /\ instances'[id].server = instances[id].server
    BY <1>3, <2>1, <1>1 DEF IndexInv, OwnersStay
  <2>3. instances[id].server = Owner => Fresh(index[id])
    BY <1>3, <2>1, <2>2 DEF IndexInv, RowInv
  <2>4. instances[id].server = Owner => Fresh(index[id])'
    BY <2>3, FreshKept DEF Fresh
  <2> QED
    BY <1>3, <2>1, <2>2, <2>4 DEF IndexInv, RowInv
<1> QED
  BY <1>2, <1>3 DEF IndexInv

LEMMA ScanOnly ==
  ASSUME LibInv, Ticks, ScanInv',
         UNCHANGED <<setup, file, media, job, workflows, instances, index, pass, arr,
                     notices, recorded, deletions>>
  PROVE  LibInv'
<1>1. OwnersStay /\ PlansStay /\ FileMoves
  BY SameInstances, SameWorkflows DEF FileMoves
<1>2. SettingsInv' /\ FileInv' /\ MediaInv'
  BY <1>1, SettingsKept, FileKept, MediaKept DEF LibInv
<1>3. JobInv' /\ PassInv' /\ IndexInv'
  BY <1>1, JobKept, PassKept, IndexKept DEF LibInv
<1> QED
  BY <1>2, <1>3 DEF LibInv

LEMMA PassOnly ==
  ASSUME LibInv, Ticks, PassInv',
         UNCHANGED <<setup, file, media, job, scan, workflows, instances, index, arr,
                     notices, recorded, deletions>>
  PROVE  LibInv'
<1>1. OwnersStay /\ PlansStay /\ FileMoves
  BY SameInstances, SameWorkflows DEF FileMoves
<1>2. SettingsInv' /\ FileInv' /\ MediaInv'
  BY <1>1, SettingsKept, FileKept, MediaKept DEF LibInv
<1>3. ScanInv' /\ JobInv' /\ IndexInv'
  BY <1>1, ScanKept, SameRecord, JobKept, IndexKept DEF LibInv
<1> QED
  BY <1>2, <1>3 DEF LibInv

-----------------------------------------------------------------------------
(* Rescans *)

LEMMA RescanStep ==
  ASSUME LibInv, NEW id \in DOMAIN instances, NEW pin, Rescan(id, pin)
  PROVE  LibInv'
<1>1. Ticks
  BY HappensTicks DEF Rescan, Ticks
<1>2. ScanInv'
  <2>1. deletions \in Nat
    BY Counters DEF LibInv
  <2> QED
    BY <2>1 DEF Rescan, ScanInv, IsOwner
<1> QED
  BY <1>1, <1>2, ScanOnly DEF Rescan

LEMMA ScanProbesStep ==
  ASSUME LibInv, ScanProbes
  PROVE  LibInv'
<1>1. Ticks
  BY DEF ScanProbes, Ticks
<1>2. file.ver \in Nat /\ recorded \in 0 .. file.ver
  BY DEF LibInv, FileInv
<1>3. ScanInv'
  BY <1>2 DEF ScanProbes, LibInv, ScanInv, IsOwner, Knows
<1> QED
  BY <1>1, <1>3, ScanOnly DEF ScanProbes

LEMMA ScanFailsStep ==
  ASSUME LibInv, ScanFails
  PROVE  LibInv'
<1>1. Ticks
  BY HappensTicks DEF ScanFails
<1>2. ScanInv'
  BY DEF ScanFails, ScanInv, NoScan
<1> QED
  BY <1>1, <1>2, ScanOnly DEF ScanFails

LEMMA ScanStoresStep ==
  ASSUME LibInv, ScanStores
  PROVE  LibInv'
<1> DEFINE plan == IF scan.pin = 0 THEN PlanFor(scan.probe)
                   ELSE Evaluate(scan.probe,
                                 PickWorkflowById(scan.probe, workflows, scan.pin))
<1>1. /\ media' = [probe |-> scan.probe, ver |-> scan.ver, inst |-> scan.inst,
                   plan |-> plan, edited |-> scan.pin # 0, deletions |-> scan.deletions]
      /\ job' = IF Queues(plan)
                THEN Queued(scan.ver, scan.pin # 0, scan.recorded # recorded) ELSE job
      /\ scan.at = "probed" /\ scan' = NoScan
      /\ UNCHANGED <<setup, file, workflows, instances, index, pass, arr, notices,
                     recorded, deletions, events>>
  BY DEF ScanStores
<1>2. scan.pin = 0 => plan = PlanFor(scan.probe)
  OBVIOUS
<1> HIDE DEF plan
<1>3. OwnersStay /\ PlansStay /\ FileMoves /\ Ticks
  BY <1>1, SameInstances, SameWorkflows DEF FileMoves, Ticks
<1>4. /\ Knows(scan) /\ scan.ver \in Nat
      /\ scan.recorded = recorded => scan.ver >= recorded
      /\ scan.deletions \in 0 .. deletions
      /\ scan.deletions = deletions => IsOwner(scan.inst)
  BY <1>1 DEF LibInv, ScanInv, FileInv, Knows
<1>5. media' # NoMedia
  BY <1>1, <1>4 DEF NoMedia
<1>6. MediaInv'
  <2>1. Knows(media)'
    BY <1>1, <1>4 DEF Knows
  <2>2. media'.deletions = deletions' => IsOwner(media.inst)'
    BY <1>1, <1>4 DEF IsOwner
  <2>3. ~media'.edited => media'.plan = PlanFor(media.probe)'
    BY <1>1, <1>2 DEF PlanFor
  <2> QED
    BY <1>1, <1>4, <2>1, <2>2, <2>3 DEF MediaInv
<1>7. JobInv'
  <2>1. CASE ~Queues(plan)
    BY <1>1, <1>3, <1>5, <2>1, JobKept DEF LibInv
  <2>2. CASE Queues(plan)
    <3>1. job' = [state |-> "queued", ver |-> scan.ver, edited |-> scan.pin # 0,
                  late |-> scan.recorded # recorded]
      BY <1>1, <2>2 DEF Queued
    <3>2. NeedsConversion(plan)
      BY <2>2 DEF Queues
    <3>3. ASSUME scan.ver = file.ver, scan.pin = 0
          PROVE  NeedsConversion(PlanFor(file.probe))'
      <4>1. plan = PlanFor(file.probe)
        BY <1>2, <1>4, <3>3 DEF Knows
      <4>2. PlanFor(file.probe)' = PlanFor(file.probe)
        BY <1>1 DEF PlanFor
      <4> QED
        BY <3>2, <4>1, <4>2
    <3>4. /\ job'.state = "queued" /\ DOMAIN job' = {"state", "ver", "edited", "late"}
          /\ job'.ver \in 0 .. file'.ver
      BY <1>1, <1>4, <3>1 DEF Knows
    <3>5. job'.ver = scan.ver /\ (~job'.edited => scan.pin = 0)
      BY <3>1
    <3>6. ~job'.late => job'.ver >= recorded'
      <4>1. job'.late = (scan.recorded # recorded)
        BY <3>1, Zenon
      <4>2. ~job'.late => scan.recorded = recorded
        BY <4>1, Zenon
      <4> QED
        BY <1>1, <1>4, <3>5, <4>2
    <3>7. job'.ver = file'.ver /\ ~job'.edited => NeedsConversion(PlanFor(file.probe))'
      BY <1>1, <3>3, <3>5
    <3> QED
      BY <1>5, <3>4, <3>6, <3>7 DEF JobInv
  <2> QED
    BY <2>1, <2>2
<1>8. ScanInv'
  BY <1>1 DEF ScanInv, NoScan
<1>9. SettingsInv' /\ FileInv' /\ PassInv' /\ IndexInv'
  BY <1>1, <1>3, SettingsKept, FileKept, PassKept, IndexKept DEF LibInv
<1> QED
  BY <1>6, <1>7, <1>8, <1>9 DEF LibInv

-----------------------------------------------------------------------------
(* The job *)

LEMMA ClaimStep ==
  ASSUME LibInv, Claim
  PROVE  LibInv'
<1> DEFINE plan == Evaluate(media.probe, ClaimMatch)
           args == BuildArgs(media.probe, plan, DetectBest(Machine))
<1>1. /\ job.state = "queued"
      /\ job' = [state |-> "running", ver |-> job.ver, edited |-> job.edited,
                 plan |-> plan, args |-> args]
      /\ UNCHANGED <<setup, file, media, scan, workflows, instances, index, pass, arr,
                     notices, recorded, deletions, events>>
  BY DEF Claim
<1>2. \A n \in DOMAIN args.video :
        args.video[n] = "copy" \/ Produces(args.video[n]) \in {"hevc", "h264", "av1"}
  <2>1. ClaimMatch.video \in VideoTargets
    BY PickTyped DEF ClaimMatch, LibInv, SettingsInv
  <2> QED
    BY <2>1, VideoArgs
<1> HIDE DEF plan, args
<1>3. OwnersStay /\ PlansStay /\ FileMoves /\ Ticks
  BY <1>1, SameInstances, SameWorkflows DEF FileMoves, Ticks
<1>4. JobInv'
  <2>1. media # NoMedia /\ job.ver \in 0 .. file.ver
    BY <1>1 DEF LibInv, JobInv, NoJob
  <2>2. job' # NoJob /\ job'.ver = job.ver
    BY <1>1 DEF NoJob
  <2>3. job'.state = "running" /\ DOMAIN job' = {"state", "ver", "edited", "plan", "args"}
    BY <1>1
  <2>4. \A n \in DOMAIN job'.args.video :
          job'.args.video[n] = "copy" \/ Produces(job'.args.video[n]) \in VideoTargets \ {"copy"}
    BY <1>1, <1>2 DEF VideoTargets
  <2> QED
    BY <1>1, <2>1, <2>2, <2>3, <2>4 DEF JobInv
<1>5. SettingsInv' /\ FileInv' /\ MediaInv'
  BY <1>1, <1>3, SettingsKept, FileKept, MediaKept DEF LibInv
<1>6. ScanInv' /\ PassInv' /\ IndexInv'
  BY <1>1, <1>3, ScanKept, SameRecord, PassKept, IndexKept DEF LibInv
<1> QED
  BY <1>4, <1>5, <1>6 DEF LibInv

LEMMA SwapStep ==
  ASSUME LibInv, NEW probed \in BOOLEAN, Swap(probed)
  PROVE  LibInv'
<1> DEFINE out == Output(file.probe, job.args)
<1>1. /\ job.state = "running"
      /\ file' = [probe |-> out, ver |-> file.ver + 1]
      /\ job' = [state |-> "swapped", ver |-> job.ver, edited |-> job.edited,
                 new |-> IF probed THEN file' ELSE NoProbe]
      /\ UNCHANGED <<setup, media, scan, workflows, instances, index, pass, arr, notices,
                     recorded, deletions>>
  BY DEF Swap
<1>2. IsProbe(out) /\ WellNamed(out)
  BY <1>1, OutputIsProbe, OutputWellNamed DEF LibInv, FileInv, JobInv
<1> HIDE DEF out
<1>3. Ticks
  BY HappensTicks DEF Swap, Ticks
<1>4. OwnersStay /\ PlansStay /\ FileMoves
  BY <1>1, SameInstances, SameWorkflows DEF FileMoves
<1>5. FileInv'
  BY <1>1, <1>2 DEF LibInv, FileInv, Knows
<1>6. JobInv'
  <2>1. /\ media # NoMedia /\ job.ver \in 0 .. file.ver /\ file.ver \in Nat
        /\ recorded \in 0 .. file.ver
    BY <1>1 DEF LibInv, JobInv, FileInv, NoJob
  <2>2. job'.new = NoProbe \/ (Knows(job.new)' /\ job'.new.ver > recorded')
    BY <1>1, <2>1 DEF Knows
  <2> QED
    BY <1>1, <2>1, <2>2 DEF JobInv
<1>7. SettingsInv' /\ MediaInv' /\ ScanInv'
  BY <1>1, <1>3, <1>4, SettingsKept, MediaKept, ScanKept, SameRecord DEF LibInv
<1>8. PassInv' /\ IndexInv'
  BY <1>1, <1>4, PassKept, IndexKept DEF LibInv
<1> QED
  BY <1>5, <1>6, <1>7, <1>8 DEF LibInv

LEMMA EncodeFailsStep ==
  ASSUME LibInv, EncodeFails
  PROVE  LibInv'
<1>1. Ticks
  BY HappensTicks DEF EncodeFails
<1>2. OwnersStay /\ PlansStay /\ FileMoves
  BY SameInstances, SameWorkflows DEF FileMoves, EncodeFails
<1>3. JobInv'
  BY DEF EncodeFails, JobInv, NoJob
<1>4. SettingsInv' /\ FileInv' /\ MediaInv'
  BY <1>1, <1>2, SettingsKept, FileKept, MediaKept DEF LibInv, EncodeFails
<1>5. ScanInv' /\ PassInv' /\ IndexInv'
  BY <1>2, ScanKept, SameRecord, PassKept, IndexKept DEF LibInv, EncodeFails
<1> QED
  BY <1>3, <1>4, <1>5 DEF LibInv

(* Servers have one instance each, so what is taken out of the index is the
   row of every instance of the owner. *)
LEMMA RecordFinishStep ==
  ASSUME LibInv, RecordFinish
  PROVE  LibInv'
<1>1. /\ job.state = "swapped" /\ job' = NoJob
      /\ UNCHANGED <<setup, file, scan, workflows, instances, pass, arr, deletions, events>>
  BY DEF RecordFinish
<1>2. OwnersStay /\ PlansStay /\ FileMoves /\ Ticks
  BY <1>1, SameInstances, SameWorkflows DEF FileMoves, Ticks
<1>4. /\ media # NoMedia /\ file.ver \in Nat /\ deletions \in Nat
      /\ job.new = NoProbe \/ (Knows(job.new) /\ job.new.ver > recorded)
      /\ recorded \in Nat
  BY <1>1, Counters DEF LibInv, JobInv, FileInv, NoJob
<1>5. /\ media.deletions \in 0 .. deletions
      /\ media.deletions = deletions => IsOwner(media.inst)
  BY <1>4 DEF LibInv, MediaInv
<1>6. FileInv' /\ MediaInv' /\ IndexInv'
  <2>1. CASE job.new = NoProbe
    <3>1. UNCHANGED <<media, index, recorded>>
      BY <2>1 DEF RecordFinish
    <3> QED
      BY <1>1, <1>2, <3>1, FileKept, MediaKept, IndexKept DEF LibInv
  <2>2. CASE job.new # NoProbe
    <3>1. /\ media' = [probe |-> job.new.probe, ver |-> job.new.ver, inst |-> media.inst,
                       plan |-> PlanFor(job.new.probe), edited |-> FALSE,
                       deletions |-> media.deletions]
          /\ index' = Without(index, media.inst)
          /\ recorded' = job.new.ver
      BY <2>2 DEF RecordFinish, IndexAfterFinish
    <3>2. Knows(job.new)
      BY <1>4, <2>2
    <3>3. FileInv'
      BY <1>1, <3>1, <3>2 DEF LibInv, FileInv, Knows
    <3>4. MediaInv'
      <4>1. Knows(media)'
        BY <1>1, <3>1, <3>2 DEF Knows
      <4>2. media'.deletions = deletions' => IsOwner(media.inst)'
        BY <1>1, <1>5, <3>1 DEF IsOwner
      <4>3. media'.plan = PlanFor(media.probe)'
        BY <1>1, <3>1 DEF PlanFor
      <4> QED
        BY <1>1, <1>5, <3>1, <4>1, <4>2, <4>3 DEF MediaInv
    <3>5. IndexInv'
      <4>1. /\ DOMAIN index' = DOMAIN index \ {media.inst}
            /\ \A id \in DOMAIN index' : index'[id] = index[id]
        BY <3>1, WithoutFacts
      <4>2. \A id \in DOMAIN index' : index'[id].ver \in 0 .. file'.ver
        BY <1>1, <4>1 DEF LibInv, IndexInv
      <4>3. ASSUME deletions' = 0, NEW id \in DOMAIN index'
            PROVE  id \in DOMAIN instances /\ instances[id].server # Owner
        <5>1. IsOwner(media.inst)
          BY <1>1, <1>5, <4>3
        <5>2. id \in DOMAIN instances /\ id # media.inst
          BY <1>1, <4>1, <4>3 DEF LibInv, IndexInv
        <5> QED
          BY <5>1, <5>2 DEF IsOwner, LibInv, SettingsInv
      <4> QED
        BY <1>1, <4>2, <4>3 DEF IndexInv
    <3> QED
      BY <3>3, <3>4, <3>5
  <2> QED
    BY <2>1, <2>2
<1>7. JobInv'
  BY <1>1 DEF JobInv, NoJob
<1>8. SettingsInv'
  <2>1. /\ \A id \in DOMAIN instances : instances[id] \in [server : Servers, enabled : BOOLEAN]
        /\ notices \subseteq [server : Servers, sure : BOOLEAN]
        /\ \A notice \in notices : notice.sure => notice.server = Owner
        /\ notices' = notices \cup Noticed
    BY DEF LibInv, SettingsInv, RecordFinish
  <2>2. ASSUME NEW notice \in Noticed
        PROVE  /\ notice \in [server : Servers, sure : BOOLEAN]
               /\ notice.sure => notice.server = Owner
    <3>1. /\ media.inst \in DOMAIN instances
          /\ notice = [server |-> instances[media.inst].server,
                       sure |-> media.deletions = deletions]
      BY <2>2 DEF Noticed
    <3>2. media.deletions = deletions => instances[media.inst].server = Owner
      BY <1>5 DEF IsOwner
    <3> QED
      BY <2>1, <3>1, <3>2
  <2>3. /\ notices' \subseteq [server : Servers, sure : BOOLEAN]
        /\ \A notice \in notices' : notice.sure => notice.server = Owner
    BY <2>1, <2>2
  <2> QED
    BY <1>1, <2>3 DEF LibInv, SettingsInv
<1>9. ScanInv' /\ PassInv'
  <2>1. RecordMoves
    <3>1. recorded' = recorded \/ (job.new # NoProbe /\ recorded' = job.new.ver)
      BY DEF RecordFinish
    <3> QED
      BY <1>4, <3>1 DEF RecordMoves, Knows
  <2> QED
    BY <1>1, <1>2, <2>1, ScanKept, PassKept DEF LibInv
<1> QED
  BY <1>6, <1>7, <1>8, <1>9 DEF LibInv

(* A call makes the owner look at the file, or nothing. *)
LEMMA NotifyStep ==
  ASSUME LibInv, NEW notice \in notices, NEW ok \in BOOLEAN, Notify(notice, ok)
  PROVE  LibInv'
<1>1. /\ notices' \subseteq notices /\ arr' \in {arr, file}
      /\ UNCHANGED <<setup, file, media, job, scan, workflows, instances, index, pass,
                     recorded, deletions>>
  BY DEF Notify
<1>2. Ticks
  BY HappensTicks DEF Notify, Ticks
<1>3. OwnersStay /\ PlansStay /\ FileMoves
  BY <1>1, SameInstances, SameWorkflows DEF FileMoves
<1>4. SettingsInv' /\ FileInv' /\ MediaInv'
  BY <1>1, <1>2, <1>3, SettingsKept, FileKept, MediaKept DEF LibInv
<1>5. ScanInv' /\ JobInv'
  BY <1>1, <1>3, ScanKept, SameRecord, JobKept DEF LibInv
<1>6. PassInv' /\ IndexInv'
  BY <1>1, <1>3, PassKept, IndexKept DEF LibInv
<1> QED
  BY <1>4, <1>5, <1>6 DEF LibInv

-----------------------------------------------------------------------------
(* The index pass *)

(* The instance whose turn it is is one of those that are left. *)
LEMMA NextAsked ==
  ASSUME LeftInv
  PROVE  \E entry \in pass.left : entry.id = NextInstance /\ entry.server = ServerAsked
<1> DEFINE f   == [entry \in pass.left |-> entry.id]
           ids == {entry.id : entry \in pass.left}
<1>1. ids \in SUBSET Int /\ ids # {}
  BY DEF LeftInv
<1>2. IsFiniteSet(ids)
  <2>1. f \in Surjection(pass.left, ids)
    BY DEF Surjection
  <2> HIDE DEF f, ids
  <2> QED
    BY <2>1, FS_Surjection DEF LeftInv
<1>3. NextInstance = Least(ids)
  BY DEF NextInstance
<1> HIDE DEF f
<1>4. NextInstance \in ids
  <2> HIDE DEF ids
  <2> QED
    BY <1>1, <1>2, <1>3, LeastFacts
<1>5. \E entry \in pass.left : entry.id = NextInstance
  BY <1>4
<1> QED
  BY <1>5 DEF ServerAsked

LEMMA ListingInv ==
  ASSUME SettingsInv, NEW left, IsFiniteSet(left), \A entry \in left : entry.id \in Nat,
         deletions = 0 =>
           \A entry \in left :
             entry.id \in DOMAIN instances /\ instances[entry.id].server = entry.server,
         pass' = Listing(left), UNCHANGED <<instances, deletions>>
  PROVE  PassInv'
<1>1. CASE left = {}
  BY <1>1 DEF Listing, PassInv, NoPass
<1>2. CASE left # {}
  <2>1. pass'.at = "list" /\ pass'.left = left
    BY <1>2 DEF Listing
  <2>2. LeftInv'
    BY <1>2, <2>1 DEF LeftInv
  <2> QED
    BY <2>1, <2>2 DEF PassInv
<1> QED
  BY <1>1, <1>2

LEMMA AfterThisInv ==
  ASSUME SettingsInv, LeftInv, pass' = AfterThis, UNCHANGED <<instances, deletions>>
  PROVE  PassInv'
<1> DEFINE left == {entry \in pass.left : entry.id # NextInstance}
<1>1. left \in SUBSET pass.left
  OBVIOUS
<1>2. IsFiniteSet(left)
  <2> HIDE DEF left
  <2> QED
    BY <1>1, FS_Subset DEF LeftInv
<1>3. pass' = Listing(left)
  BY DEF AfterThis
<1> HIDE DEF left
<1>4. \A entry \in left : entry \in pass.left
  BY <1>1
<1> QED
  BY <1>2, <1>3, <1>4, ListingInv DEF LeftInv

LEMMA PassStartsStep ==
  ASSUME LibInv, PassStarts
  PROVE  LibInv'
<1> DEFINE on == {i \in DOMAIN instances : Enabled(i)}
           f  == [id \in on |-> [id |-> id, server |-> instances[id].server]]
           enabled == {[id |-> id, server |-> instances[id].server] : id \in on}
<1>1. Ticks
  BY DEF PassStarts, Ticks
<1>2. pass' = Listing(enabled)
  BY DEF PassStarts
<1>3. IsFiniteSet(enabled)
  <2>1. on \in SUBSET DOMAIN instances
    OBVIOUS
  <2>2. IsFiniteSet(on)
    <3> HIDE DEF on
    <3> QED
      BY <2>1, FS_Subset DEF LibInv, SettingsInv
  <2>3. f \in Surjection(on, enabled)
    BY DEF Surjection
  <2> HIDE DEF on, f, enabled
  <2> QED
    BY <2>2, <2>3, FS_Surjection
<1>4. \A entry \in enabled :
        /\ entry.id \in Nat /\ entry.id \in DOMAIN instances
        /\ instances[entry.id].server = entry.server
  BY DEF LibInv, SettingsInv
<1> HIDE DEF enabled
<1>5. PassInv'
  BY <1>2, <1>3, <1>4, ListingInv DEF PassStarts, LibInv
<1> QED
  BY <1>1, <1>5, PassOnly DEF PassStarts

(* Rows that are read now are as fresh as the row of the file. *)
LEMMA BucketFresh ==
  ASSUME FileInv, MediaInv
  PROVE  Fresh(BucketNow)
<1>1. CASE Bucket(NextInstance) = {}
  BY <1>1 DEF BucketNow, Fresh, FileInv
<1>2. CASE Bucket(NextInstance) # {}
  <2>1. media # NoMedia /\ Bucket(NextInstance) = VideoCodecsFromProbe(media.probe)
    BY <1>2 DEF Bucket
  <2>2. Knows(media)
    BY <2>1 DEF MediaInv
  <2> QED
    BY <1>2, <2>1, <2>2 DEF BucketNow, Fresh, Knows
<1> QED
  BY <1>1, <1>2

(* So is what the owner says of the file, by its own names for codecs. *)
LEMMA AnswerFresh ==
  ASSUME FileInv, ServerAsked = Owner
  PROVE  Fresh(Answer)
<1>1. Answer = [codecs |-> CodecsReported(arr.probe), ver |-> arr.ver]
  BY DEF Answer
<1>2. CodecsReported(file.probe) = VideoCodecsFromProbe(file.probe)
  BY ReportedAsProbed DEF FileInv
<1>3. Knows(arr)
  BY DEF FileInv
<1> QED
  BY <1>1, <1>2, <1>3 DEF Fresh, Knows

LEMMA NoAnswerFresh ==
  ASSUME FileInv
  PROVE  Fresh(NoAnswer)
BY DEF FileInv, Fresh, NoAnswer

LEMMA PassBucketsStep ==
  ASSUME LibInv, PassBuckets
  PROVE  LibInv'
<1>1. Ticks
  BY DEF PassBuckets, Ticks
<1>2. /\ pass' = [at |-> "files", left |-> pass.left, recorded |-> pass.recorded,
                  bucket |-> BucketNow]
      /\ UNCHANGED <<file, instances, deletions>>
      /\ pass.at = "list"
  BY DEF PassBuckets
<1>3. Fresh(BucketNow)
  BY BucketFresh DEF LibInv
<1>4. Fresh(pass.bucket)'
  BY <1>2, <1>3 DEF Fresh
<1>5. LeftInv'
  BY <1>2 DEF LeftInv, LibInv, PassInv
<1>6. PassInv'
  BY <1>2, <1>4, <1>5 DEF PassInv
<1> QED
  BY <1>1, <1>6, PassOnly DEF PassBuckets

LEMMA HearsStep ==
  ASSUME LibInv, NEW answer \in {Answer, NoAnswer}, Hears(answer), Ticks
  PROVE  LibInv'
<1> DEFINE bucket == IF setup.kind = "sonarr" THEN pass.bucket ELSE NoAnswer
<1>1. /\ pass' = [at |-> "heard", left |-> pass.left, recorded |-> pass.recorded,
                  answer |-> answer, bucket |-> bucket]
      /\ UNCHANGED <<file, instances, deletions>>
      /\ pass.at = "files" \/ (pass.at = "list" /\ setup.kind = "radarr")
  BY DEF Hears
<1>2. Fresh(bucket)
  BY <1>1, NoAnswerFresh DEF LibInv, PassInv
<1> HIDE DEF bucket
<1>3. Fresh(pass.bucket)'
  BY <1>1, <1>2 DEF Fresh
<1>4. LeftInv'
  BY <1>1 DEF LeftInv, LibInv, PassInv
<1>5. answer.ver \in 0 .. file.ver
  BY DEF Answer, NoAnswer, LibInv, FileInv, Knows
<1>6. ServerAsked = Owner => Fresh(answer)
  BY AnswerFresh, NoAnswerFresh DEF LibInv
<1>7. ServerAsked' = ServerAsked
  BY <1>1 DEF ServerAsked, NextInstance
<1>8. ServerAsked' = Owner => Fresh(pass.answer)'
  BY <1>1, <1>6, <1>7 DEF Fresh
<1>9. PassInv'
  BY <1>1, <1>3, <1>4, <1>5, <1>8 DEF PassInv
<1> QED
  BY <1>9, PassOnly DEF Hears

LEMMA PassSkipsStep ==
  ASSUME LibInv, PassSkips
  PROVE  LibInv'
<1>1. Ticks
  BY HappensTicks DEF PassSkips
<1>2. PassInv'
  BY AfterThisInv DEF PassSkips, LibInv, PassInv
<1> QED
  BY <1>1, <1>2, PassOnly DEF PassSkips

LEMMA LeastOfTwo ==
  ASSUME NEW a \in Int, NEW b \in Int
  PROVE  Least({a, b}) = IF a <= b THEN a ELSE b
BY DEF Least

(* What is stored is as old as the older of its parts. *)
LEMMA PassStoresStep ==
  ASSUME LibInv, PassStores
  PROVE  LibInv'
<1> DEFINE bucket == IF setup.kind = "radarr" THEN BucketNow ELSE pass.bucket
           b == bucket.ver
           a == pass.answer.ver
           row == [codecs |-> bucket.codecs \cup pass.answer.codecs,
                   ver  |-> Least({p.ver : p \in {bucket, pass.answer}}),
                   late |-> \/ pass.recorded # recorded
                            \/ \E p \in {bucket, pass.answer} : p.ver < recorded]
<1>1. /\ pass.at = "heard" /\ index' = Upsert(NextInstance, row) /\ pass' = AfterThis
      /\ UNCHANGED <<setup, file, media, job, scan, workflows, instances, arr, notices,
                     recorded, deletions, events>>
  BY DEF PassStores
<1>2. /\ Fresh(bucket) /\ pass.answer.ver \in 0 .. file.ver /\ LeftInv
      /\ ServerAsked = Owner => Fresh(pass.answer)
      /\ file.ver \in Nat /\ recorded \in 0 .. file.ver /\ deletions \in Nat
  BY <1>1, BucketFresh, Counters DEF LibInv, PassInv, FileInv
<1>3. {p.ver : p \in {bucket, pass.answer}} = {b, a}
  OBVIOUS
<1>4. /\ row.ver = Least({b, a}) /\ row.codecs = bucket.codecs \cup pass.answer.codecs
      /\ row.late <=> \/ pass.recorded # recorded
                      \/ b < recorded
                      \/ a < recorded
  BY <1>3
<1>5. a \in 0 .. file.ver /\ b \in 0 .. file.ver
  BY <1>2 DEF Fresh
<1>6. b = file.ver => bucket.codecs \subseteq VideoCodecsFromProbe(file.probe)
  BY <1>2 DEF Fresh
<1>7. ServerAsked = Owner /\ a = file.ver =>
        pass.answer.codecs \subseteq VideoCodecsFromProbe(file.probe)
  BY <1>2 DEF Fresh
<1>8. /\ DOMAIN index' = DOMAIN index \cup {NextInstance}
      /\ \A id \in DOMAIN index' : index'[id] = IF id = NextInstance THEN row ELSE index[id]
  BY <1>1 DEF Upsert
<1> HIDE DEF bucket, a, b, row
<1>9. row.ver = IF b <= a THEN b ELSE a
  BY <1>4, <1>5, LeastOfTwo
<1>10. row.ver \in 0 .. file.ver
  BY <1>2, <1>5, <1>9
<1>11. ASSUME ServerAsked = Owner
       PROVE  /\ row.ver = file.ver => row.codecs \subseteq VideoCodecsFromProbe(file.probe)
              /\ row.late \/ row.ver >= recorded
  <2>1. row.ver = file.ver => a = file.ver /\ b = file.ver
    BY <1>2, <1>5, <1>9
  <2>2. row.late \/ row.ver >= recorded
    BY <1>2, <1>4, <1>5, <1>9
  <2> QED
    BY <1>4, <1>6, <1>7, <1>11, <2>1, <2>2
<1>12. OwnersStay /\ PlansStay /\ FileMoves /\ Ticks
  BY <1>1, SameInstances, SameWorkflows DEF FileMoves, Ticks
<1>13. IndexInv'
  <2>1. \A id \in DOMAIN index' : index'[id].ver \in 0 .. file'.ver
    BY <1>1, <1>8, <1>10 DEF LibInv, IndexInv
  <2>2. ASSUME deletions' = 0, NEW id \in DOMAIN index', id = NextInstance
        PROVE  id \in DOMAIN instances' /\ (instances'[id].server = Owner => RowInv(id)')
    <3>1. NextInstance \in DOMAIN instances /\ instances[NextInstance].server = ServerAsked
      BY <1>1, <1>2, <2>2, NextAsked DEF LeftInv
    <3>2. index'[id] = row
      BY <1>8, <2>2
    <3>3. ServerAsked = Owner => RowInv(id)'
      BY <1>1, <1>10, <1>11, <3>2 DEF RowInv, Fresh
    <3> QED
      BY <1>1, <2>2, <3>1, <3>3
  <2>3. ASSUME deletions' = 0, NEW id \in DOMAIN index', id # NextInstance
        PROVE  id \in DOMAIN instances' /\ (instances'[id].server = Owner => RowInv(id)')
    <3>1. id \in DOMAIN index /\ index'[id] = index[id]
      BY <1>8, <2>3
    <3>2. id \in DOMAIN instances /\ (instances[id].server = Owner => RowInv(id))
      BY <1>1, <2>3, <3>1 DEF LibInv, IndexInv
    <3> QED
      BY <1>1, <3>1, <3>2 DEF RowInv, Fresh
  <2> QED
    BY <2>1, <2>2, <2>3 DEF IndexInv
<1>14. PassInv'
  BY <1>1, <1>2, AfterThisInv DEF LibInv
<1>15. SettingsInv' /\ FileInv' /\ MediaInv'
  BY <1>1, <1>12, SettingsKept, FileKept, MediaKept DEF LibInv
<1>16. ScanInv' /\ JobInv'
  BY <1>1, <1>12, ScanKept, SameRecord, JobKept DEF LibInv
<1> QED
  BY <1>13, <1>14, <1>15, <1>16 DEF LibInv

-----------------------------------------------------------------------------
(* The server *)

LEMMA ArrScansStep ==
  ASSUME LibInv, ArrScans
  PROVE  LibInv'
<1>1. OwnersStay /\ PlansStay /\ FileMoves /\ Ticks
  BY SameInstances, SameWorkflows DEF FileMoves, Ticks, ArrScans
<1>2. FileInv'
  BY FileKept DEF ArrScans, LibInv
<1>3. SettingsInv' /\ MediaInv' /\ ScanInv'
  BY <1>1, SettingsKept, MediaKept, ScanKept, SameRecord DEF LibInv, ArrScans
<1>4. JobInv' /\ PassInv' /\ IndexInv'
  BY <1>1, JobKept, PassKept, IndexKept DEF LibInv, ArrScans
<1> QED
  BY <1>2, <1>3, <1>4 DEF LibInv

LEMMA ReplaceStep ==
  ASSUME LibInv, NEW content \in Contents, Replace(content)
  PROVE  LibInv'
<1>1. Ticks
  BY HappensTicks DEF Replace
<1>2. /\ file' = [probe |-> content, ver |-> file.ver + 1] /\ arr' = file'
      /\ UNCHANGED <<setup, media, job, scan, workflows, instances, index, pass, notices,
                     recorded, deletions>>
  BY DEF Replace
<1>3. OwnersStay /\ PlansStay /\ FileMoves
  BY <1>2, SameInstances, SameWorkflows DEF FileMoves
<1>4. FileInv'
  <2>1. IsProbe(content) /\ WellNamed(content)
    BY LibraryAssumption, NamesAssumption
  <2> QED
    BY <1>2, <2>1 DEF LibInv, FileInv, Knows
<1>5. SettingsInv' /\ MediaInv' /\ ScanInv'
  BY <1>1, <1>2, <1>3, SettingsKept, MediaKept, ScanKept, SameRecord DEF LibInv
<1>6. JobInv' /\ PassInv' /\ IndexInv'
  BY <1>2, <1>3, JobKept, PassKept, IndexKept DEF LibInv
<1> QED
  BY <1>4, <1>5, <1>6 DEF LibInv

-----------------------------------------------------------------------------
(* The settings pages *)

(* An edit marks what was decided by the workflows before. *)
LEMMA EditStep ==
  ASSUME LibInv, NEW table, IsTable(table), EditWorkflows(table)
  PROVE  LibInv'
<1>1. /\ workflows' = table
      /\ media' = IF media = NoMedia THEN media ELSE [media EXCEPT !.edited = TRUE]
      /\ job' = IF job = NoJob THEN job ELSE [job EXCEPT !.edited = TRUE]
      /\ UNCHANGED <<setup, file, scan, instances, index, pass, arr, notices,
                     recorded, deletions>>
  BY DEF EditWorkflows
<1>2. Ticks
  BY HappensTicks DEF EditWorkflows
<1>3. OwnersStay /\ FileMoves
  BY <1>1, SameInstances DEF FileMoves
<1>4. SettingsInv'
  <2>1. events' \in 0 .. setup'.most /\ deletions' \in 0 .. events'
    BY <1>1, <1>2, TicksCount DEF LibInv
  <2> QED
    BY <1>1, <2>1 DEF LibInv, SettingsInv
<1>5. MediaInv' /\ (media # NoMedia => media' # NoMedia)
  <2>1. CASE media = NoMedia
    BY <1>1, <2>1 DEF MediaInv
  <2>2. CASE media # NoMedia
    <3>1. /\ DOMAIN media = {"probe", "ver", "inst", "plan", "edited", "deletions"}
          /\ Knows(media) /\ media.deletions \in 0 .. deletions
          /\ media.deletions = deletions => IsOwner(media.inst)
      BY <2>2 DEF LibInv, MediaInv
    <3>2. /\ DOMAIN media' = DOMAIN media
          /\ media'.probe = media.probe /\ media'.ver = media.ver /\ media'.edited = TRUE
          /\ media'.inst = media.inst /\ media'.deletions = media.deletions
      BY <1>1, <2>2, <3>1
    <3>3. media' # NoMedia
      BY <3>1, <3>2 DEF NoMedia
    <3>4. Knows(media)' /\ (media'.deletions = deletions' => IsOwner(media.inst)')
      BY <1>1, <3>1, <3>2 DEF Knows, IsOwner
    <3> QED
      BY <1>1, <3>1, <3>2, <3>3, <3>4 DEF MediaInv
  <2> QED
    BY <2>1, <2>2
<1>6. JobInv'
  <2>1. CASE job = NoJob
    BY <1>1, <2>1 DEF JobInv, NoJob
  <2>2. CASE job # NoJob
    <3>1. /\ media # NoMedia /\ job.ver \in 0 .. file.ver
          /\ \/ job.state = "queued" /\ DOMAIN job = {"state", "ver", "edited", "late"}
             \/ job.state = "running" /\ DOMAIN job = {"state", "ver", "edited", "plan", "args"}
             \/ job.state = "swapped" /\ DOMAIN job = {"state", "ver", "edited", "new"}
             \/ job.state = "orphaned" /\ DOMAIN job = {"state", "ver", "edited"}
      BY <2>2 DEF LibInv, JobInv
    <3>2. /\ DOMAIN job' = DOMAIN job /\ job'.edited = TRUE
          /\ \A k \in DOMAIN job \ {"edited"} : job'[k] = job[k]
      BY <1>1, <2>2, <3>1
    <3>3. job'.state = job.state /\ job'.ver = job.ver
      BY <3>1, <3>2
    <3>4. CASE job.state = "queued"
      <4>1. job'.late = job.late /\ DOMAIN job' = {"state", "ver", "edited", "late"}
        BY <3>1, <3>2, <3>4
      <4>2. ~job.late => job.ver >= recorded
        BY <3>4 DEF LibInv, JobInv
      <4> QED
        BY <1>1, <1>5, <3>1, <3>2, <3>3, <3>4, <4>1, <4>2 DEF JobInv
    <3>5. CASE job.state = "running"
      <4>1. job'.args = job.args
        BY <3>1, <3>2, <3>5
      <4>2. \A n \in DOMAIN job.args.video :
              \/ job.args.video[n] = "copy"
              \/ Produces(job.args.video[n]) \in VideoTargets \ {"copy"}
        BY <3>5 DEF LibInv, JobInv
      <4>3. DOMAIN job' = {"state", "ver", "edited", "plan", "args"}
        BY <3>1, <3>2, <3>5
      <4> QED
        BY <1>1, <1>5, <3>1, <3>2, <3>3, <3>5, <4>1, <4>2, <4>3 DEF JobInv
    <3>6. CASE job.state = "swapped"
      <4>1. job'.new = job.new
        BY <3>1, <3>2, <3>6
      <4>2. job.new = NoProbe \/ (Knows(job.new) /\ job.new.ver > recorded)
        BY <3>6 DEF LibInv, JobInv
      <4>3. job'.new = NoProbe \/ (Knows(job.new)' /\ job'.new.ver > recorded')
        BY <1>1, <4>1, <4>2 DEF Knows
      <4>4. DOMAIN job' = {"state", "ver", "edited", "new"}
        BY <3>1, <3>2, <3>6
      <4> QED
        BY <1>1, <1>5, <3>1, <3>2, <3>3, <3>6, <4>2, <4>3, <4>4 DEF JobInv
    <3>7. CASE job.state = "orphaned"
      BY <1>1, <1>5, <3>1, <3>2, <3>3, <3>7 DEF JobInv
    <3> QED
      BY <3>1, <3>4, <3>5, <3>6, <3>7
  <2> QED
    BY <2>1, <2>2
<1>7. FileInv' /\ ScanInv' /\ PassInv' /\ IndexInv'
  BY <1>1, <1>3, FileKept, ScanKept, SameRecord, PassKept, IndexKept DEF LibInv
<1> QED
  BY <1>4, <1>5, <1>6, <1>7 DEF LibInv

(* The table of instances is another one, of the same kind. *)
LEMMA ChangeStep ==
  ASSUME LibInv, NEW table, ChangeInstances(table), OwnersStay, PlansStay, IsTable(workflows'),
         IsFiniteSet(DOMAIN table), DOMAIN table \subseteq Nat \ {0},
         \A id \in DOMAIN table : table[id] \in [server : Servers, enabled : BOOLEAN],
         \A i, j \in DOMAIN table : table[i].server = table[j].server => i = j
  PROVE  LibInv'
<1>1. /\ instances' = table /\ events < setup.most /\ events' = events + 1
      /\ UNCHANGED <<setup, file, media, job, scan, index, pass, arr, notices, recorded>>
  BY DEF ChangeInstances, Happens
<1>2. FileMoves
  BY <1>1 DEF FileMoves
<1>3. SettingsInv'
  <2>1. /\ setup.most \in Nat /\ events \in 0 .. setup.most /\ deletions \in 0 .. events
        /\ deletions' \in {deletions, deletions + 1}
    BY Counters DEF LibInv, SettingsInv, OwnersStay
  <2>2. events' \in 0 .. setup'.most /\ deletions' \in 0 .. events'
    BY <1>1, <2>1
  <2> QED
    BY <1>1, <2>2 DEF LibInv, SettingsInv
<1>4. FileInv' /\ MediaInv' /\ ScanInv'
  BY <1>1, <1>2, FileKept, MediaKept, ScanKept, SameRecord DEF LibInv
<1>5. JobInv' /\ PassInv' /\ IndexInv'
  BY <1>1, <1>2, JobKept, PassKept, IndexKept DEF LibInv
<1> QED
  BY <1>3, <1>4, <1>5 DEF LibInv

LEMMA AddInstanceStep ==
  ASSUME LibInv, NEW server \in Servers, AddInstance(server)
  PROVE  LibInv'
<1> DEFINE row   == [server |-> server, enabled |-> TRUE]
           table == Keyed(instances, row)
           k     == NextKey(instances)
<1>1. /\ IsFiniteSet(DOMAIN instances) /\ DOMAIN instances \subseteq Nat \ {0}
      /\ \A id \in DOMAIN instances : instances[id] \in [server : Servers, enabled : BOOLEAN]
      /\ \A i, j \in DOMAIN instances : instances[i].server = instances[j].server => i = j
  BY DEF LibInv, SettingsInv
<1>2. /\ DOMAIN table = DOMAIN instances \cup {k} /\ k \notin DOMAIN instances
      /\ IsFiniteSet(DOMAIN table) /\ DOMAIN table \subseteq Nat \ {0}
      /\ \A i \in DOMAIN instances : table[i] = instances[i]
      /\ table[k] = row
  BY <1>1, KeyedFacts
<1>3. /\ \A id \in DOMAIN instances : instances[id].server # server
      /\ ChangeInstances(table) /\ UNCHANGED <<workflows, deletions>>
  BY DEF AddInstance
<1>4. row \in [server : Servers, enabled : BOOLEAN] /\ row.server = server
  OBVIOUS
<1> HIDE DEF row, table, k
<1>5. OwnersStay /\ PlansStay
  BY <1>2, <1>3, SameWorkflows DEF OwnersStay, ChangeInstances
<1>6. \A id \in DOMAIN table : table[id] \in [server : Servers, enabled : BOOLEAN]
  BY <1>1, <1>2, <1>4
<1>7. \A i, j \in DOMAIN table : table[i].server = table[j].server => i = j
  BY <1>1, <1>2, <1>3, <1>4
<1>8. IsTable(workflows')
  BY <1>3 DEF LibInv, SettingsInv
<1> QED
  BY <1>2, <1>3, <1>5, <1>6, <1>7, <1>8, ChangeStep

LEMMA EditInstanceStep ==
  ASSUME LibInv, NEW id \in DOMAIN instances, EditInstance(id)
  PROVE  LibInv'
<1> DEFINE table == [instances EXCEPT ![id].enabled = ~@]
<1>1. /\ IsFiniteSet(DOMAIN instances) /\ DOMAIN instances \subseteq Nat \ {0}
      /\ \A i \in DOMAIN instances : instances[i] \in [server : Servers, enabled : BOOLEAN]
      /\ \A i, j \in DOMAIN instances : instances[i].server = instances[j].server => i = j
  BY DEF LibInv, SettingsInv
<1>2. ChangeInstances(table) /\ UNCHANGED <<workflows, deletions>>
  BY DEF EditInstance
<1>3. /\ DOMAIN table = DOMAIN instances
      /\ \A i \in DOMAIN table : /\ table[i] \in [server : Servers, enabled : BOOLEAN]
                                 /\ table[i].server = instances[i].server
  <2>1. DOMAIN table = DOMAIN instances
    OBVIOUS
  <2>2. ASSUME NEW i \in DOMAIN instances
        PROVE  /\ table[i] \in [server : Servers, enabled : BOOLEAN]
               /\ table[i].server = instances[i].server
    <3>1. instances[i] \in [server : Servers, enabled : BOOLEAN]
      BY <1>1
    <3>2. table[i] = IF i = id THEN [instances[i] EXCEPT !.enabled = ~@] ELSE instances[i]
      OBVIOUS
    <3> HIDE DEF table
    <3> QED
      BY <3>1, <3>2
  <2> QED
    BY <2>1, <2>2
<1> HIDE DEF table
<1>4. OwnersStay /\ PlansStay
  BY <1>2, <1>3, SameWorkflows DEF OwnersStay, ChangeInstances
<1>5. \A i, j \in DOMAIN table : table[i].server = table[j].server => i = j
  BY <1>1, <1>3
<1>6. IsTable(workflows')
  BY <1>2 DEF LibInv, SettingsInv
<1> QED
  BY <1>1, <1>2, <1>3, <1>4, <1>5, <1>6, ChangeStep

LEMMA DeleteInstanceStep ==
  ASSUME LibInv, NEW id \in DOMAIN instances, DeleteInstance(id)
  PROVE  LibInv'
<1> DEFINE table == Without(instances, id)
<1>1. /\ IsFiniteSet(DOMAIN instances) /\ DOMAIN instances \subseteq Nat \ {0}
      /\ \A i \in DOMAIN instances : instances[i] \in [server : Servers, enabled : BOOLEAN]
      /\ \A i, j \in DOMAIN instances : instances[i].server = instances[j].server => i = j
  BY DEF LibInv, SettingsInv
<1>2. ChangeInstances(table) /\ deletions' = deletions + 1 /\ workflows' = workflows
  BY DEF DeleteInstance
<1>3. /\ DOMAIN table = DOMAIN instances \ {id} /\ IsFiniteSet(DOMAIN table)
      /\ \A i \in DOMAIN table : table[i] = instances[i]
  <2>1. /\ DOMAIN table = DOMAIN instances \ {id}
        /\ \A i \in DOMAIN instances \ {id} : table[i] = instances[i]
        /\ IsFiniteSet(DOMAIN instances) => IsFiniteSet(DOMAIN table)
    BY WithoutFacts
  <2> HIDE DEF table
  <2> QED
    BY <1>1, <2>1
<1> HIDE DEF table
<1>4. OwnersStay /\ PlansStay
  BY <1>2, SameWorkflows DEF OwnersStay
<1>5. IsTable(workflows')
  BY <1>2 DEF LibInv, SettingsInv
<1> QED
  BY <1>1, <1>2, <1>3, <1>4, <1>5, ChangeStep

LEMMA EvaluateAlike ==
  ASSUME NEW probe, NEW m, NEW n, m.video = n.video, m.audio = n.audio
  PROVE  Evaluate(probe, m) = Evaluate(probe, n)
BY DEF Evaluate, ActionFor

(* The instances are the same ones under new keys, and the workflows decide
   as before. *)
LEMMA ImportBackupStep ==
  ASSUME LibInv, ImportBackup
  PROVE  LibInv'
<1> DEFINE D == DOMAIN instances
           c == Cardinality(D)
           table == InOrder(instances, D)
<1>1. /\ IsFiniteSet(D) /\ D \subseteq Nat \ {0} /\ IsTable(workflows)
      /\ \A i \in D : instances[i] \in [server : Servers, enabled : BOOLEAN]
      /\ \A i, j \in D : instances[i].server = instances[j].server => i = j
  BY DEF LibInv, SettingsInv
<1>2. /\ ChangeInstances(table) /\ workflows' = ImportRows(workflows)
      /\ deletions' = IF D = 1 .. c THEN deletions ELSE deletions + 1
  BY DEF ImportBackup, ImportedInstances
<1>3. /\ c \in Nat /\ DOMAIN table = 1 .. c
      /\ \A n \in 1 .. c : Nth(D, n - 1) \in D /\ table[n] = instances[Nth(D, n - 1)]
  <2>1. D \in SUBSET Int
    BY <1>1
  <2> HIDE DEF D
  <2> QED
    BY <1>1, <2>1, InOrderFacts
<1>4. \A m, n \in 1 .. c : Nth(D, m - 1) = Nth(D, n - 1) => m = n
  <2>1. D \in SUBSET Int
    BY <1>1
  <2> HIDE DEF D
  <2>2. \A n \in 0 .. Cardinality(D) - 1 : Ordinal(Nth(D, n), D) = n
    BY <1>1, <2>1, NthFacts
  <2>3. \A n \in 1 .. c : n - 1 \in 0 .. Cardinality(D) - 1
    BY <1>3
  <2>4. \A n \in 1 .. c : Ordinal(Nth(D, n - 1), D) = n - 1
    BY <2>2, <2>3
  <2>5. ASSUME NEW m \in 1 .. c, NEW n \in 1 .. c, Nth(D, m - 1) = Nth(D, n - 1)
        PROVE  m = n
    <3>1. m - 1 = n - 1
      BY <2>4, <2>5
    <3> QED
      BY <1>3, <3>1
  <2> QED
    BY <2>5
<1>5. D = 1 .. c => table = [n \in 1 .. c |-> instances[n]]
  BY <1>3, InOrderAll
<1>6. PlansStay
  <2>1. ASSUME NEW probe
        PROVE  Evaluate(probe, PickWorkflow(probe, ImportRows(workflows))) =
               Evaluate(probe, PickWorkflow(probe, workflows))
    BY <1>1, ImportPicks, EvaluateAlike
  <2> QED
    BY <1>2, <2>1 DEF PlansStay
<1>7. IsTable(workflows')
  BY <1>1, <1>2, ImportFacts
<1> HIDE DEF c, table
<1>8. OwnersStay
  <2>1. CASE D = 1 .. c
    <3>1. deletions' = deletions /\ instances' = [n \in 1 .. c |-> instances[n]]
      BY <1>2, <1>5, <2>1 DEF ChangeInstances
    <3> QED
      BY <2>1, <3>1 DEF OwnersStay
  <2>2. CASE D # 1 .. c
    BY <1>2, <2>2 DEF OwnersStay
  <2> QED
    BY <2>1, <2>2
<1>9. IsFiniteSet(DOMAIN table) /\ DOMAIN table \subseteq Nat \ {0}
  BY <1>3, FS_Interval
<1> HIDE DEF D
<1>10. \A id \in DOMAIN table : table[id] \in [server : Servers, enabled : BOOLEAN]
  BY <1>1, <1>3
<1>11. \A i, j \in DOMAIN table : table[i].server = table[j].server => i = j
  <2> SUFFICES ASSUME NEW i \in 1 .. c, NEW j \in 1 .. c, table[i].server = table[j].server
               PROVE  i = j
    BY <1>3
  <2>1. Nth(D, i - 1) \in D /\ Nth(D, j - 1) \in D
    BY <1>3
  <2>2. instances[Nth(D, i - 1)].server = instances[Nth(D, j - 1)].server
    BY <1>3
  <2>3. Nth(D, i - 1) = Nth(D, j - 1)
    BY <1>1, <2>1, <2>2
  <2> QED
    BY <1>4, <2>3
<1> QED
  BY <1>2, <1>6, <1>7, <1>8, <1>9, <1>10, <1>11, ChangeStep

LEMMA RestartStep ==
  ASSUME LibInv, Restart
  PROVE  LibInv'
<1>1. Ticks
  BY HappensTicks DEF Restart
<1>2. OwnersStay /\ PlansStay /\ FileMoves
  BY SameInstances, SameWorkflows DEF FileMoves, Restart
<1>3. JobInv'
  <2>1. CASE job.state \in {"running", "swapped", "orphaned"}
    <3>1. media # NoMedia /\ job.ver \in 0 .. file.ver
      BY <2>1 DEF LibInv, JobInv, NoJob
    <3>2. \/ job' = NoJob
          \/ job' = [state |-> "orphaned", ver |-> job.ver, edited |-> job.edited]
      BY <2>1 DEF Restart, Orphaned
    <3>3. UNCHANGED <<media, file>>
      BY DEF Restart
    <3> QED
      BY <3>1, <3>2, <3>3 DEF JobInv, NoJob
  <2>2. CASE job.state \notin {"running", "swapped", "orphaned"}
    <3>1. job' = job /\ media' = media /\ recorded' = recorded
      BY <2>2 DEF Restart
    <3> QED
      BY <1>2, <3>1, JobKept DEF LibInv
  <2> QED
    BY <2>1, <2>2
<1>4. ScanInv' /\ PassInv'
  BY DEF Restart, ScanInv, PassInv, NoScan, NoPass
<1>5. SettingsInv' /\ FileInv'
  BY <1>1, SettingsKept, FileKept DEF LibInv, Restart
<1>6. MediaInv' /\ IndexInv'
  BY <1>2, MediaKept, IndexKept DEF LibInv, Restart
<1> QED
  BY <1>3, <1>4, <1>5, <1>6 DEF LibInv

-----------------------------------------------------------------------------
(* The invariant is inductive *)

LEMMA LibInvInit ==
  ASSUME LibInit
  PROVE  LibInv
<1>1. /\ setup \in Setups
      /\ file = [probe |-> setup.content, ver |-> 0]
      /\ workflows = setup.table
      /\ instances = [id \in DOMAIN setup.order |->
                        [server |-> setup.order[id], enabled |-> TRUE]]
      /\ arr = file /\ media = NoMedia /\ job = NoJob /\ scan = NoScan
      /\ index = <<>> /\ pass = NoPass /\ notices = {}
      /\ recorded = 0 /\ deletions = 0 /\ events = 0
  BY DEF LibInit
<1>2. /\ IsProbe(setup.content) /\ IsTable(setup.table) /\ setup.most \in Nat
      /\ IsSeq(setup.order) /\ Values(setup.order) \subseteq Servers
      /\ \A m, n \in DOMAIN setup.order : setup.order[m] = setup.order[n] => m = n
      /\ WellNamed(setup.content)
  BY <1>1, LibraryAssumption, NamesAssumption
<1>3. /\ IsFiniteSet(DOMAIN setup.order) /\ DOMAIN setup.order \subseteq Nat \ {0}
      /\ \A id \in DOMAIN setup.order : setup.order[id] \in Servers
  <2>1. setup.order \in Seq(Values(setup.order))
    BY <1>2 DEF IsSeq
  <2>2. DOMAIN setup.order = 1 .. Len(setup.order) /\ Len(setup.order) \in Nat
    BY <2>1
  <2>3. \A id \in DOMAIN setup.order : setup.order[id] \in Servers
    BY <1>2 DEF Values
  <2>4. IsFiniteSet(1 .. Len(setup.order))
    BY <2>2, FS_Interval
  <2> QED
    BY <2>2, <2>3, <2>4
<1>4. SettingsInv
  <2>1. DOMAIN instances = DOMAIN setup.order
    BY <1>1
  <2>2. \A id \in DOMAIN instances :
          /\ instances[id] \in [server : Servers, enabled : BOOLEAN]
          /\ instances[id].server = setup.order[id]
    BY <1>1, <1>3
  <2>3. \A i, j \in DOMAIN instances : instances[i].server = instances[j].server => i = j
    BY <1>2, <2>1, <2>2
  <2> QED
    BY <1>1, <1>2, <1>3, <2>1, <2>2, <2>3 DEF SettingsInv
<1>5. FileInv
  BY <1>1, <1>2 DEF FileInv, Knows
<1>6. MediaInv /\ ScanInv /\ JobInv
  BY <1>1 DEF MediaInv, ScanInv, JobInv, NoScan, NoJob
<1>7. PassInv /\ IndexInv
  BY <1>1 DEF PassInv, IndexInv, NoPass
<1> QED
  BY <1>4, <1>5, <1>6, <1>7 DEF LibInv

LEMMA EditingStep ==
  ASSUME LibInv, Editing
  PROVE  LibInv'
<1>1. IsTable(workflows)
  BY DEF LibInv, SettingsInv
<1>2. ASSUME NEW row \in Rows, CreateWorkflow(row) \/ ImportWorkflow(row) PROVE LibInv'
  <2>1. IsRow(row) /\ IsRow(CleanWorkflow(row))
    BY <1>1, LibraryAssumption, EditedTables
  <2>2. IsTable(Keyed(workflows, row)) /\ IsTable(Keyed(workflows, CleanWorkflow(row)))
    BY <1>1, <2>1, EditedTables
  <2> QED
    BY <1>2, <2>2, EditStep DEF CreateWorkflow, ImportWorkflow
<1>3. ASSUME NEW w \in DOMAIN workflows, DeleteWorkflow(w) \/ ToggleWorkflow(w) PROVE LibInv'
  <2>1. IsTable(Without(workflows, w)) /\ IsTable([workflows EXCEPT ![w].enabled = ~@])
    BY <1>1, EditedTables
  <2> QED
    BY <1>3, <2>1, EditStep DEF DeleteWorkflow, ToggleWorkflow
<1>4. ASSUME NEW w \in DOMAIN workflows, NEW row \in Rows, UpdateWorkflow(w, row) PROVE LibInv'
  <2>1. IsRow(CleanWorkflow(row))
    BY <1>1, LibraryAssumption, EditedTables
  <2>2. IsTable([workflows EXCEPT ![w] = CleanWorkflow(row)])
    BY <1>1, <2>1, EditedTables
  <2> QED
    BY <1>4, <2>2, EditStep DEF UpdateWorkflow
<1> QED
  BY <1>2, <1>3, <1>4, AddInstanceStep, EditInstanceStep, DeleteInstanceStep, ImportBackupStep
  DEF Editing

LEMMA StutterStep ==
  ASSUME LibInv, UNCHANGED libVars
  PROVE  LibInv'
<1>1. UNCHANGED <<setup, file, media, job, scan, workflows, instances, index, pass, arr,
                  notices, recorded, deletions, events>>
  BY DEF libVars
<1>2. OwnersStay /\ PlansStay /\ FileMoves /\ Ticks
  BY <1>1, SameInstances, SameWorkflows DEF FileMoves, Ticks
<1>3. SettingsInv' /\ FileInv' /\ MediaInv' /\ ScanInv'
  BY <1>1, <1>2, SettingsKept, FileKept, MediaKept, ScanKept, SameRecord DEF LibInv
<1>4. JobInv' /\ PassInv' /\ IndexInv'
  BY <1>1, <1>2, JobKept, PassKept, IndexKept DEF LibInv
<1> QED
  BY <1>3, <1>4 DEF LibInv

LEMMA LibInvStep ==
  ASSUME LibInv, [LibNext]_libVars
  PROVE  LibInv'
<1>1. CASE Ingest
  <2>1. ASSUME NEW id \in DOMAIN instances, NEW pin, RescanSeries(id, pin) \/ RescanMovie(id, pin)
        PROVE  LibInv'
    BY <2>1, RescanStep DEF RescanSeries, RescanMovie
  <2> QED
    BY <1>1, <2>1, ScanProbesStep, ScanFailsStep, ScanStoresStep DEF Ingest
<1>2. CASE Conversion
  BY <1>2, ClaimStep, EncodeFailsStep, RecordFinishStep, NotifyStep, SwapStep DEF Conversion
<1>3. CASE IndexProgress \/ PassMisses \/ PassSkips
  <2>1. ASSUME PassHears PROVE LibInv'
    <3>1. Hears(Answer) /\ Ticks
      BY <2>1 DEF PassHears, Ticks
    <3> QED
      BY <3>1, HearsStep
  <2>2. ASSUME PassMisses PROVE LibInv'
    <3>1. Hears(NoAnswer) /\ Ticks
      BY <2>2, HappensTicks DEF PassMisses
    <3> QED
      BY <3>1, HearsStep
  <2> QED
    BY <1>3, <2>1, <2>2, PassStartsStep, PassBucketsStep, PassStoresStep, PassSkipsStep
    DEF IndexProgress
<1>4. CASE UNCHANGED libVars
  BY <1>4, StutterStep
<1> QED
  BY <1>1, <1>2, <1>3, <1>4, EditingStep, ArrScansStep, ReplaceStep, RestartStep DEF LibNext

(* What the inductive invariant says holds of the library all the time. *)
THEOREM LibInvHolds == LibSpec => []LibInv
<1>1. LibInit => LibInv
  BY LibInvInit
<1>2. LibInv /\ [LibNext]_libVars => LibInv'
  BY LibInvStep
<1> QED
  BY <1>1, <1>2, PTL DEF LibSpec

-----------------------------------------------------------------------------
(* What follows from it *)

(* The records are what handlers and loops take them for. *)
THEOREM LibraryTypeCorrect == LibSpec => []LibraryTypeOK
<1>1. ASSUME LibInv PROVE LibraryTypeOK
  <2>1. /\ setup.kind \in {"sonarr", "radarr"} /\ setup.most \in Nat
        /\ notices \subseteq [server : Servers, sure : BOOLEAN]
        /\ events \in 0 .. setup.most /\ deletions \in 0 .. events
        /\ \A id \in DOMAIN instances : instances[id] \in [server : Servers, enabled : BOOLEAN]
    BY <1>1, LibraryAssumption DEF LibInv, SettingsInv
  <2>2. /\ file.ver \in Nat /\ arr.ver \in 0 .. file.ver /\ recorded \in 0 .. file.ver
        /\ media = NoMedia \/ media.ver \in 0 .. file.ver
        /\ scan.at \in {"idle", "asked", "probed"}
    BY <1>1 DEF LibInv, FileInv, MediaInv, ScanInv, Knows
  <2>3. /\ job.state \in {"none", "queued", "running", "swapped", "orphaned"}
        /\ job # NoJob => media # NoMedia
    BY <1>1 DEF LibInv, JobInv, NoJob
  <2>4. /\ pass.at \in {"idle", "list", "files", "heard"}
        /\ pass # NoPass => pass.left # {}
    BY <1>1 DEF LibInv, PassInv, LeftInv
  <2>5. \A id \in DOMAIN index : index[id].ver \in 0 .. file.ver
    BY <1>1 DEF LibInv, IndexInv
  <2>6. deletions \in 0 .. setup.most
    BY <2>1
  <2> QED
    BY <2>1, <2>2, <2>3, <2>4, <2>5, <2>6 DEF LibraryTypeOK
<1> QED
  BY <1>1, LibInvHolds, PTL

LEMMA OneOwner ==
  ASSUME LibInv, NEW id \in DOMAIN instances, instances[id].server = Owner,
         media # NoMedia, media.deletions = deletions
  PROVE  media.inst = id
BY DEF LibInv, MediaInv, SettingsInv, IsOwner

LEMMA GridOfOwner ==
  ASSUME LibInv, deletions = 0, NEW id \in DOMAIN instances, instances[id].server = Owner,
         UpToDate(id)
  PROVE  /\ GridCodecs(id) \subseteq VideoCodecsFromProbe(file.probe)
         /\ Joined => GridCodecs(id) = VideoCodecsFromProbe(file.probe)
<1> DEFINE codecs == VideoCodecsFromProbe(file.probe)
<1>1. media # NoMedia /\ media.ver = file.ver /\ arr.ver = file.ver
  BY DEF UpToDate
<1>2. LoadEntityIndex(id) \subseteq codecs
  <2>1. id \in DOMAIN index => Fresh(index[id]) /\ index[id].ver = file.ver
    BY DEF LibInv, IndexInv, RowInv, UpToDate
  <2> QED
    BY <2>1 DEF LoadEntityIndex, Fresh
<1>3. Bucket(id) = codecs
  <2>1. media.probe = file.probe
    BY <1>1 DEF LibInv, MediaInv, Knows
  <2>2. media.deletions = deletions
    BY <1>1 DEF LibInv, MediaInv
  <2> QED
    BY <1>1, <2>1, <2>2, OneOwner DEF Bucket
<1>4. CodecsReported(arr.probe) = codecs
  <2>1. arr.probe = file.probe /\ WellNamed(file.probe)
    BY <1>1 DEF LibInv, FileInv, Knows
  <2> QED
    BY <2>1, ReportedAsProbed
<1> HIDE DEF codecs
<1> QED
  BY <1>2, <1>3, <1>4 DEF GridCodecs, codecs

(* The grid's row of a file is no older than its last conversion, and says
   what the file holds once all its sources do: as web/routes.py merges them. *)
THEOREM GridIsTruthful == LibSpec => []GridTruthful
<1>1. ASSUME LibInv PROVE GridTruthful
  <2>1. ASSUME deletions = 0, NEW id \in DOMAIN index, id \in DOMAIN instances,
               instances[id].server = Owner
        PROVE  index[id].late \/ index[id].ver >= recorded
    BY <1>1, <2>1 DEF LibInv, IndexInv, RowInv
  <2> QED
    BY <1>1, <2>1, GridOfOwner DEF GridTruthful
<1> QED
  BY <1>1, LibInvHolds, PTL

(* What a conversion has settled is converted again only if the workflows
   want it: of the jobs that ingest queues, the late ones are the exception. *)
THEOREM OnlyNeededEncodes == LibSpec => EncodeNeeded
<1>1. ASSUME LibInv
      PROVE  job.state = "queued" /\ job'.state = "running"
               /\ file.ver = recorded /\ ~job.edited /\ ~job.late
             => NeedsConversion(PlanFor(file.probe))
  <2> SUFFICES ASSUME job.state = "queued", file.ver = recorded, ~job.edited, ~job.late
               PROVE  NeedsConversion(PlanFor(file.probe))
    OBVIOUS
  <2>1. job.ver \in 0 .. file.ver /\ job.ver >= recorded /\ file.ver \in Nat
    BY <1>1 DEF LibInv, FileInv, JobInv, NoJob
  <2>2. job.ver = file.ver
    BY <2>1
  <2> QED
    BY <1>1, <2>2 DEF LibInv, JobInv
<1> QED
  BY <1>1, LibInvHolds, PTL DEF EncodeNeeded

(* Only a claim takes a job from the queue. *)
LEMMA JobSteps ==
  ASSUME LibInv, LibNext, job.state = "queued", job'.state = "running"
  PROVE  Claim
<1> DEFINE Goal == job.state = "queued" /\ job'.state = "running" => Claim
<1>1. ASSUME job'.state = job.state PROVE Goal
  BY <1>1
<1>2. ASSUME Ingest PROVE Goal
  <2>1. CASE ScanStores
    BY <2>1 DEF ScanStores, Queues, Queued
  <2>2. CASE ~ScanStores
    <3>1. job' = job
      BY <1>2, <2>2 DEF Ingest, RescanSeries, RescanMovie, Rescan, ScanProbes, ScanFails
    <3> QED
      BY <1>1, <3>1
  <2> QED
    BY <2>1, <2>2
<1>3. ASSUME Conversion PROVE Goal
  <2>1. ASSUME NEW probed \in BOOLEAN, Swap(probed) PROVE Goal
    BY <2>1 DEF Swap
  <2>2. ASSUME EncodeFails PROVE Goal
    BY <2>2 DEF EncodeFails
  <2>3. ASSUME Claim PROVE Goal
    BY <2>3 DEF Claim
  <2>4. ASSUME RecordFinish PROVE Goal
    BY <2>4 DEF RecordFinish
  <2>5. ASSUME NEW notice \in notices, NEW ok \in BOOLEAN, Notify(notice, ok) PROVE Goal
    BY <2>5 DEF Notify
  <2> QED
    BY <1>3, <2>1, <2>2, <2>3, <2>4, <2>5 DEF Conversion
<1>4. ASSUME IndexProgress \/ PassMisses \/ PassSkips PROVE Goal
  <2>1. job' = job
    BY <1>4 DEF IndexProgress, PassStarts, PassBuckets, PassHears, PassStores, PassMisses,
                PassSkips, Hears
  <2> QED
    BY <1>1, <2>1
<1>5. ASSUME NEW table, EditWorkflows(table) PROVE Goal
  <2>1. job = NoJob \/ "state" \in DOMAIN job
    BY DEF LibInv, JobInv
  <2>2. job'.state = job.state
    BY <1>5, <2>1 DEF EditWorkflows
  <2> QED
    BY <1>1, <2>2
<1>6. ASSUME NEW table, ChangeInstances(table) PROVE Goal
  <2>1. job' = job
    BY <1>6 DEF ChangeInstances
  <2> QED
    BY <1>1, <2>1
<1>7. ASSUME Editing PROVE Goal
  BY <1>5, <1>6, <1>7 DEF Editing, CreateWorkflow, UpdateWorkflow, DeleteWorkflow,
     ToggleWorkflow, ImportWorkflow, AddInstance, EditInstance, DeleteInstance, ImportBackup
<1>8. ASSUME ArrScans \/ (\E content \in Contents : Replace(content)) PROVE Goal
  <2>1. job' = job
    BY <1>8 DEF ArrScans, Replace
  <2> QED
    BY <1>1, <2>1
<1>9. ASSUME Restart PROVE Goal
  BY <1>9 DEF Restart
<1> QED
  BY <1>2, <1>3, <1>4, <1>7, <1>8, <1>9 DEF LibNext

(* What a claim dispatches is what the last look at the file decided. *)
THEOREM PlansAreKept == LibSpec => PlanKept
<1>1. ASSUME LibInv, [LibNext]_libVars
      PROVE  [job.state = "queued" /\ job'.state = "running" /\ ~media.edited
                => job'.plan = media.plan]_libVars
  <2>1. CASE UNCHANGED libVars
    BY <2>1
  <2>2. ASSUME LibNext, job.state = "queued", job'.state = "running", ~media.edited
        PROVE  job'.plan = media.plan
    <3>1. Claim
      BY <1>1, <2>2, JobSteps
    <3>2. job'.plan = PlanFor(media.probe)
      BY <3>1 DEF Claim, ClaimMatch, PlanFor
    <3>3. media # NoMedia
      BY <1>1, <2>2 DEF LibInv, JobInv, NoJob
    <3> QED
      BY <1>1, <2>2, <3>2, <3>3 DEF LibInv, MediaInv
  <2> QED
    BY <1>1, <2>1, <2>2
<1> QED
  BY <1>1, LibInvHolds, PTL DEF LibSpec, PlanKept

(* A call that record_finish has prepared goes to nobody but the server that
   has the file. *)
THEOREM OwnerIsTold == LibSpec => []NotifyReachesOwner
<1>1. LibInv => NotifyReachesOwner
  BY DEF LibInv, SettingsInv, NotifyReachesOwner
<1> QED
  BY <1>1, LibInvHolds, PTL

-----------------------------------------------------------------------------
(* The process *)

(* A process is a boot of its database and a library that lives in it: what
   is proved of either holds of the process. *)
THEOREM LifespanComposes == Spec => BootSpec /\ LibSpec
<1>1. Init => BootInit /\ LibInit
  BY DEF Init
<1>2. [Next]_vars => [BootNext]_bootVars /\ [LibNext]_libVars
  BY DEF Next, Booting, Dying, Living, vars, BootNext
<1> QED
  BY <1>1, <1>2, PTL DEF Spec, BootSpec, LibSpec
=============================================================================

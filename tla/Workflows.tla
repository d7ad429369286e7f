----------------------------- MODULE Workflows -----------------------------
(***************************************************************************)
(* The rules an operator writes, and what they decide for one file: which  *)
(* workflow applies to an ffprobe result (workflows.py), and what becomes  *)
(* of each stream (probe/policy.py).  Pure operators; the state they are   *)
(* applied to is in Library.                                               *)
(*                                                                         *)
(* A probe is a record of a container format, the suffix of the path and   *)
(* a sequence of streams.  Names of codecs are strings that are compared   *)
(* and looked up, never taken apart: that one name occurs in another is    *)
(* the relation Within.                                                    *)
(***************************************************************************)
EXTENDS Integers, Sequences, FiniteSets

CONSTANTS
  Within   (* Pairs <<t, a>>: the text t occurs in the name a.             *)

NoMatch == [id |-> 0, video |-> "copy", audio |-> "copy"]

(* Stands for the empty dict when a file has no video. *)
NoStream ==
  [type |-> "none", codec |-> "", pic |-> FALSE, deep |-> FALSE,
   height |-> 0, channels |-> 0]

Least(S)    == CHOOSE i \in S : \A j \in S : i <= j
Greatest(S) == CHOOSE i \in S : \A j \in S : j <= i

Values(seq) == {seq[i] : i \in DOMAIN seq}
IsSeq(seq)  == seq \in Seq(Values(seq))

IsStream(s) ==
  /\ DOMAIN s = {"type", "codec", "pic", "deep", "height", "channels"}
  /\ s.pic \in BOOLEAN /\ s.height \in Nat /\ s.channels \in Nat

IsProbe(probe) ==
  /\ DOMAIN probe = {"format", "suffix", "streams"}
  /\ IsSeq(probe.streams)
  /\ \A i \in DOMAIN probe.streams : IsStream(probe.streams[i])

(* The values of f at some of its keys, in the order of the keys. *)
Ordinal(i, S) == Cardinality({j \in S : j < i})    (* From 0. *)
Nth(S, n)     == CHOOSE i \in S : Ordinal(i, S) = n
InOrder(f, S) == [n \in 1 .. Cardinality(S) |-> f[Nth(S, n - 1)]]

-----------------------------------------------------------------------------
(* Mutants of the definitions below: the slips the properties must notice. *)

(* Saving forgets how a clause is joined to the one before it. *)
CleanClause_JoinsByAnd(c) == [c EXCEPT !.list = TRUE, !.or = FALSE]

-----------------------------------------------------------------------------
(* Attributes of a file *)

IsRealVideo(s) == s.type = "video" /\ ~s.pic

RealVideos(probe) == {i \in DOMAIN probe.streams : IsRealVideo(probe.streams[i])}
Audios(probe)     == {i \in DOMAIN probe.streams : probe.streams[i].type = "audio"}

PrimaryVideoStream(probe) ==
  IF RealVideos(probe) = {} THEN NoStream
  ELSE probe.streams[Least(RealVideos(probe))]

ContainerFromProbe(probe) ==
  CASE probe.format = "matroska"              -> "mkv"
    [] probe.format \in {"mov", "mp4", "m4a"} -> "mp4"
    [] probe.format = ""                      -> probe.suffix
    [] OTHER                                  -> probe.format

(* A string attribute is the set of its values, one for the scalar ones. *)
FileAttributes(probe) ==
  LET v == PrimaryVideoStream(probe)
      heard == {probe.streams[i] : i \in Audios(probe)}
  IN [video_codec    |-> {v.codec},
      container      |-> {ContainerFromProbe(probe)},
      resolution     |-> v.height,
      audio_codec    |-> {s.codec : s \in heard} \ {""},
      audio_channels |-> Greatest({0} \cup {s.channels : s \in heard})]

-----------------------------------------------------------------------------
(* Conditions: clauses joined to the one before by "and" or by "or".  The
   value of a clause is a sequence of texts, a text the sequence of names (or
   a number) that commas join in it.  Releases before lists stored one text
   ("list" is FALSE, and the value has at most one). *)

StringFields   == {"video_codec", "container", "audio_codec"}
NumberFields   == {"resolution", "audio_channels"}
WorkflowFields == StringFields \cup NumberFields
WorkflowOps    == {"equal", "notEqual", "contains", "notContains", "greater", "less"}

TextsIn == [a \in {pair[2] : pair \in Within} |->
              {pair[1] : pair \in {p \in Within : p[2] = a}}]

Occurs(t, a) == a \in DOMAIN TextsIn /\ t \in TextsIn[a]

IsClause(c) ==
  /\ DOMAIN c = {"field", "op", "value", "list", "or"}
  /\ c.list \in BOOLEAN

MatchesOne(actual, t, op) ==
  CASE op \in {"equal", "notEqual"}       -> t \in actual
    [] op \in {"contains", "notContains"} -> \E a \in actual : Occurs(t, a)

IsName(text) == text = <<text[1]>>

(* One text is split at its commas, the items of a list are not. *)
NormalizeTargets(c) ==
  IF c.list THEN Values(c.value)
  ELSE {<<name>> : name \in UNION {Values(text) : text \in Values(c.value)}}

(* No value chosen yet is no constraint; an unknown operator neither.  No
   attribute has a comma in it. *)
MatchString(actual, targets, op) ==
  LET met == {text \in targets : IsName(text) /\ MatchesOne(actual, text[1], op)}
  IN \/ targets = {}
     \/ op \notin {"equal", "contains", "notEqual", "notContains"}
     \/ op \in {"equal", "contains"} /\ met # {}
     \/ op \in {"notEqual", "notContains"} /\ met = {}

(* What is no number counts as 0. *)
MatchNumber(actual, value, op) ==
  LET target == IF value = <<>> \/ ~IsName(value[1]) THEN 0 ELSE value[1][1]
  IN CASE op = "equal"    -> actual = target
       [] op = "notEqual" -> actual # target
       [] op = "greater"  -> actual > target
       [] op = "less"     -> actual < target
       [] OTHER           -> TRUE

EvaluateClause(attrs, c) ==
  /\ c.field \in WorkflowFields
  /\ IF c.field \in NumberFields
     THEN MatchNumber(attrs[c.field], c.value, c.op)
     ELSE MatchString(attrs[c.field], NormalizeTargets(c), c.op)

(* The clauses from i to the next one that is joined by "or". *)
AndGroup(conditions, i) ==
  {j \in i .. Len(conditions) : \A k \in i + 1 .. j : ~conditions[k].or}

Matches(attrs, conditions) ==
  \/ conditions = <<>>
  \/ \E i \in DOMAIN conditions :
       /\ i = 1 \/ conditions[i].or
       /\ \A j \in AndGroup(conditions, i) : EvaluateClause(attrs, conditions[j])

-----------------------------------------------------------------------------
(* The choice of a workflow, from a table of rows under their primary keys *)

VideoTargets == {"copy", "h264", "hevc", "av1"}

IsRow(row) ==
  /\ DOMAIN row = {"enabled", "priority", "conditions", "video", "audio"}
  /\ row.enabled \in BOOLEAN /\ row.priority \in Int
  /\ row.video \in VideoTargets

(* SQLite gives keys from 1 on. *)
IsTable(table) ==
  /\ IsFiniteSet(DOMAIN table) /\ DOMAIN table \subseteq Nat \ {0}
  /\ \A w \in DOMAIN table : IsRow(table[w])

(* The rows of load_active_workflows, in the order it gives them. *)
ActiveIn(table) == {w \in DOMAIN table : table[w].enabled}

Precedes(table, v, w) ==
  \/ table[v].priority < table[w].priority
  \/ table[v].priority = table[w].priority /\ v < w

First(table, S) == CHOOSE w \in S : \A v \in S \ {w} : Precedes(table, w, v)

WfToMatch(table, w) ==
  [id |-> w, video |-> table[w].video, audio |-> table[w].audio]

PickWorkflow(probe, table) ==
  LET fits == {w \in ActiveIn(table) :
                 Matches(FileAttributes(probe), table[w].conditions)}
  IN IF fits = {} THEN NoMatch ELSE WfToMatch(table, First(table, fits))

(* The choice pinned by the rescan dialog still has to match. *)
PickWorkflowById(probe, table, w) ==
  IF w \in ActiveIn(table) /\ Matches(FileAttributes(probe), table[w].conditions)
  THEN WfToMatch(table, w) ELSE NoMatch

-----------------------------------------------------------------------------
(* The plan for a file: what becomes of each of its streams.  A file that
   no workflow matches is treated as one whose workflow says copy. *)

CodecEquivalents ==
  [c \in {"hevc", "h265", "h264", "avc", "av1"} |->
     CASE c \in {"hevc", "h265"} -> {"hevc", "h265", "x265"}
       [] c \in {"h264", "avc"}  -> {"avc", "h264", "x264"}
       [] c = "av1"              -> {"av1"}]

CodecsEquivalent(a, b) ==
  a = b \/ (a \in DOMAIN CodecEquivalents /\ b \in CodecEquivalents[a])

ActionFor(s, match) ==
  LET fine == CASE IsRealVideo(s)    -> \/ match.video = "copy"
                                        \/ CodecsEquivalent(s.codec, match.video)
                [] s.type = "audio" -> match.audio \in {"copy", s.codec}
                [] OTHER            -> TRUE
  IN IF fine THEN "copy" ELSE "reencode"

Evaluate(probe, match) ==
  [video  |-> match.video,
   audio  |-> match.audio,
   action |-> [i \in DOMAIN probe.streams |-> ActionFor(probe.streams[i], match)]]

Reencoded(plan)       == {i \in DOMAIN plan.action : plan.action[i] = "reencode"}
NeedsConversion(plan) == Reencoded(plan) # {}

(* The index of a stream among those of its type, from 0. *)
TypeIndex(probe, i) ==
  Cardinality({j \in 1 .. i - 1 : probe.streams[j].type = probe.streams[i].type})

-----------------------------------------------------------------------------
(* Saving, exporting and importing workflows *)

(* _clean_workflow_payload drops a clause it does not know, and stores the
   text of an old value as the one item of a list. *)
IsKnownClause(c) == c.field \in WorkflowFields /\ c.op \in WorkflowOps
CleanClause(c) == [c EXCEPT !.list = TRUE]
CleanWorkflow(w) ==
  LET known == InOrder(w.conditions,
                       {i \in DOMAIN w.conditions : IsKnownClause(w.conditions[i])})
  IN [w EXCEPT !.conditions = [i \in DOMAIN known |-> CleanClause(known[i])]]

(* _config_payload lists the rows in the order they are tried, and an
   import adds them in the order of the file, under keys from 1. *)
Rank(table, w) == 1 + Cardinality({v \in DOMAIN table : Precedes(table, v, w)})
ExportOrder(table) == [n \in 1 .. Cardinality(DOMAIN table) |->
                         CHOOSE w \in DOMAIN table : Rank(table, w) = n]
ImportRows(table) == [n \in DOMAIN ExportOrder(table) |-> table[ExportOrder(table)[n]]]

-----------------------------------------------------------------------------
(* Path translation (arr/paths.py).  A path is the sequence of its names, a
   mapping [remote, local] a pair of paths: "/" is the empty one. *)

IsUnder(prefix, path) ==
  Len(prefix) <= Len(path) /\ SubSeq(path, 1, Len(prefix)) = prefix

Translate(path, mappings) ==
  LET fits == {m \in DOMAIN mappings : IsUnder(mappings[m].remote, path)}
      longest == {m \in fits : \A n \in fits :
                    Len(mappings[n].remote) <= Len(mappings[m].remote)}
      best == mappings[Least(longest)]
  IN IF fits = {} THEN path
     ELSE best.local \o SubSeq(path, Len(best.remote) + 1, Len(path))
=============================================================================

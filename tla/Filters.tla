------------------------------ MODULE Filters ------------------------------
(***************************************************************************)
(* What the series and movies grids show: which names a codec goes by      *)
(* (web/filters.py, probe/codec_labels.py), the filters an operator saves, *)
(* and the sort menu (web/sort.py).  Pure operators.                       *)
(*                                                                         *)
(* An item of a grid is a record of fields: strings, numbers, Booleans,    *)
(* and sets of strings for the list fields.  Separators in the codec names *)
(* that Sonarr and Radarr report are stripped before a name gets here.     *)
(***************************************************************************)
EXTENDS Workflows

-----------------------------------------------------------------------------
(* Mutants of the definitions below: the slips the properties must notice. *)

(* "avc" has no label of its own, "h264" has. *)
CodecCanonical_NoAvc ==
  [c \in {"mpeg2video", "mpeg2", "hevc", "h265", "x265", "h264", "x264"} |->
     CASE c \in {"hevc", "h265", "x265"} -> "HEVC (H.265)"
       [] c \in {"h264", "x264"}         -> "H.264"
       [] OTHER                          -> "MPEG-2"]

(* An empty value is not turned around with the direction. *)
SortKey_Plain(v, reverse) == [late |-> v = 0, value |-> v]

-----------------------------------------------------------------------------
(* Codec names *)

CodecFamilies ==
  {{"hevc", "h265", "x265"}, {"avc", "h264", "x264"}, {"vvc", "h266", "x266"}}

CodecAliases ==
  [c \in UNION CodecFamilies |-> CHOOSE names \in CodecFamilies : c \in names]

ExpandCodecAliases(c) ==
  IF c = "" THEN {} ELSE IF c \in DOMAIN CodecAliases THEN CodecAliases[c] ELSE {c}

VideoCodecsFromProbe(probe) ==
  UNION {ExpandCodecAliases(probe.streams[i].codec) : i \in RealVideos(probe)}

(* In the order in which they are looked for. *)
KnownCodecMarkers ==
  <<"hevc", "h265", "x265", "h264", "x264", "avc", "av1", "vp9", "vp8",
    "vc1", "mpeg4", "mpeg2", "vvc", "h266", "x266">>

CodecsFromArr(name) ==
  LET found == {n \in DOMAIN KnownCodecMarkers : Occurs(KnownCodecMarkers[n], name)}
  IN IF name = "" THEN {}
     ELSE IF found = {} THEN {name}
     ELSE ExpandCodecAliases(KnownCodecMarkers[Least(found)])

CodecCanonical ==
  [c \in {"mpeg2video", "mpeg2"} \cup UNION CodecFamilies |->
     CASE c \in {"hevc", "h265", "x265"} -> "HEVC (H.265)"
       [] c \in {"avc", "h264", "x264"}  -> "H.264"
       [] c \in {"vvc", "h266", "x266"}  -> "VVC (H.266)"
       [] OTHER                          -> "MPEG-2"]

(* Other names are their own label, in capitals. *)
CanonicalCodec(c) == IF c \in DOMAIN CodecCanonical THEN CodecCanonical[c] ELSE c

(* How many entities the statistics page counts under a label: each once,
   whatever the number of its names. *)
CodecCount(entities, label) ==
  Cardinality({e \in DOMAIN entities : \E c \in entities[e] : CanonicalCodec(c) = label})

-----------------------------------------------------------------------------
(* Filters *)

BuiltinFilters == {"all", "monitored", "unmonitored", "continuing", "ended",
                   "has_file", "missing"}

BuiltinFilter(name, item) ==
  CASE name = "monitored"   -> item.monitored
    [] name = "unmonitored" -> ~item.monitored
    [] name \in {"continuing", "ended"} -> item.status = name
    [] name = "has_file"    -> item.files > 0
    [] name = "missing"     -> item.files = 0
    [] OTHER                -> TRUE

(* Some of the fields of each type. *)
FieldTypes ==
  [title |-> "string", status |-> "string", year |-> "number",
   monitored |-> "bool", format |-> "list", video_codec |-> "list"]
CustomFields == DOMAIN FieldTypes
CustomOps    == WorkflowOps

(* Unlike in a workflow, a field that is not known filters nothing out. *)
FilterClause(item, c) ==
  c.field \in CustomFields =>
    LET actual == item[c.field]
        kind   == FieldTypes[c.field]
        names  == IF kind = "list" THEN actual ELSE {actual}
    IN CASE kind \in {"list", "string"} /\ c.op \in {"equal", "contains"} ->
              MatchesOne(names, c.value, c.op)
         [] kind \in {"list", "string"} /\ c.op \in {"notEqual", "notContains"} ->
              ~MatchesOne(names, c.value, c.op)
         [] kind \in {"number", "bool"} /\ c.op = "equal"    -> actual = c.value
         [] kind \in {"number", "bool"} /\ c.op = "notEqual" -> actual # c.value
         [] kind = "number" /\ c.op = "greater" -> actual > c.value
         [] kind = "number" /\ c.op = "less"    -> actual < c.value
         [] OTHER -> TRUE

EvaluateCustom(item, clauses) ==
  \A n \in DOMAIN clauses : FilterClause(item, clauses[n])

ApplyFilter(items, spec) ==
  LET Passes(item) ==
        CASE spec.kind = "builtin" -> BuiltinFilter(spec.name, item)
          [] spec.kind = "custom"  -> EvaluateCustom(item, spec.clauses)
          [] OTHER                 -> TRUE
  IN InOrder(items, {n \in DOMAIN items : Passes(items[n])})

IsKnownFilterClause(c) == c.field \in CustomFields /\ c.op \in CustomOps
CleanFilter(clauses) ==
  InOrder(clauses, {n \in DOMAIN clauses : IsKnownFilterClause(clauses[n])})

-----------------------------------------------------------------------------
(* Sorting.  Values are numbers, 0 the empty one: what apply_sort asks of a
   string or a date is only how it compares and whether it is empty. *)

SortKey(v, reverse) == [late |-> (v = 0 <=> ~reverse), value |-> v]

KeyLess(k, l) ==
  \/ ~k.late /\ l.late
  \/ (k.late <=> l.late) /\ k.value < l.value

(* Python's sorted(items, key, reverse): items of equal keys keep their
   order, in either direction. *)
GoesBefore(items, reverse, m, n) ==
  LET k == SortKey(items[m], reverse)
      l == SortKey(items[n], reverse)
      less == IF reverse THEN KeyLess(l, k) ELSE KeyLess(k, l)
      equal == ~KeyLess(k, l) /\ ~KeyLess(l, k)
  IN less \/ (equal /\ m < n)

Place(items, reverse, n) ==
  1 + Cardinality({m \in DOMAIN items : m # n /\ GoesBefore(items, reverse, m, n)})

ApplySort(items, reverse) ==
  [p \in DOMAIN items |->
     items[CHOOSE n \in DOMAIN items : Place(items, reverse, n) = p]]

-----------------------------------------------------------------------------
(* Properties, over bounded inputs *)

(* A workflow's target, a filter and a chart agree on what one codec is:
   a file in codec c is left alone by a workflow that targets t exactly if
   a filter for t finds it, and exactly if a chart shows them as one; and
   the file is counted once, whatever the names it is stored under. *)
TablesAgree(c, t) ==
  /\ CodecsEquivalent(c, t) <=> t \in ExpandCodecAliases(c)
  /\ CodecsEquivalent(c, t) <=> CanonicalCodec(c) = CanonicalCodec(t)
  /\ \A label \in {CanonicalCodec(c), CanonicalCodec(t)} :
       CodecCount(<<ExpandCodecAliases(c)>>, label) =
         IF label = CanonicalCodec(c) THEN 1 ELSE 0

(* Empty values come last whatever the direction, and the others in it. *)
SortedWell(items, reverse) ==
  LET s == ApplySort(items, reverse)
  IN \A m, n \in DOMAIN s : m < n =>
       /\ s[m] = 0 => s[n] = 0
       /\ s[m] # 0 /\ s[n] # 0 => IF reverse THEN s[m] >= s[n] ELSE s[m] <= s[n]
=============================================================================

----------------------------- MODULE MCLifespan -----------------------------
(* Small values for Lifespan, and the bounded inputs of the pure modules.  *)
EXTENDS Lifespan, Rules, TLC

-----------------------------------------------------------------------------
(* Files *)

Stream(type, codec, n) ==
  [type |-> type, codec |-> codec, pic |-> FALSE, deep |-> FALSE,
   height |-> IF type = "video" THEN n ELSE 0,
   channels |-> IF type = "audio" THEN n ELSE 0]

Cover(codec) == [Stream("video", codec, 0) EXCEPT !.pic = TRUE]

Probe(streams) == [format |-> "matroska", suffix |-> "mkv", streams |-> streams]

Old == Probe(<<Stream("video", "av1", 1080), Stream("audio", "aac", 2)>>)
Newer == Probe(<<Stream("video", "hevc", 2160), Stream("audio", "aac", 6)>>)
Other == Probe(<<Stream("video", "vp9", 720)>>)

MCContents == {Old, Newer}

-----------------------------------------------------------------------------
(* Names in names, as far as they occur here *)

Names == {"hevc", "h265", "x265", "h264", "x264", "avc", "av1", "vp9", "vc1",
          "mpeg4", "aac", "ac3", "mkv", "mp4"}
MCWithin == {<<n, n>> : n \in Names} \cup {<<"h26", "h264">>, <<"h26", "h265">>}

MCReported == [c \in Names |-> CASE c = "hevc" -> "x265" [] c = "h264" -> "avc" [] OTHER -> c]

-----------------------------------------------------------------------------
(* Workflows *)

(* A list of texts of one name each. *)
Names1(names) == [i \in DOMAIN names |-> <<names[i]>>]

Clause(field, op, names) ==
  [field |-> field, op |-> op, value |-> Names1(names), list |-> TRUE, or |-> FALSE]

Row(priority, conditions, video) ==
  [enabled |-> TRUE, priority |-> priority, conditions |-> conditions,
   video |-> video, audio |-> "copy"]

ToHevc   == Row(100, <<>>, "hevc")
Av1First == Row(50, <<Clause("video_codec", "equal", <<"av1">>)>>, "h264")

MCRows   == {Av1First}

-----------------------------------------------------------------------------
(* Setups: what happens to movies and to series, and how often *)

Setup(kind, order, most, happening) ==
  [kind |-> kind, folder |-> <<"tv", "show">>, path |-> <<"tv", "show", "e1">>,
   mappings |-> <<>>, content |-> Old, table |-> <<ToHevc>>, order |-> order,
   most |-> most, events |-> happening]

MCSetups ==
  {[Setup("radarr", <<"a">>, 2, {"edit", "pin"}) EXCEPT
      !.table = <<ToHevc, [Av1First EXCEPT !.enabled = FALSE]>>],
   Setup("radarr", <<"a", "b">>, 3, {"servers"}),
   Setup("sonarr", <<"a">>, 2, {"die", "replace"}),
   Setup("radarr", <<"a">>, 1, {"index", "servers"}),
   Setup("radarr", <<"a">>, 1, {"index", "replace"}),
   [Setup("sonarr", <<"a">>, 1, {"index", "fail"}) EXCEPT
      !.mappings = <<[remote |-> <<>>, local |-> <<"mnt">>],
                     [remote |-> <<"tv">>, local |-> <<"media">>]>>]}

MCMachine == [nvidia |-> FALSE, renderNode |-> TRUE, encoders |-> {"hevc_vaapi", "libx265"},
              override |-> "", choice |-> "auto"]

-----------------------------------------------------------------------------
(* Inputs of EncodePlan: videos of one or two streams, with or without cover
   art before, between and after them, and audio and subtitles around. *)

Videos == {Stream("video", c, 1080) : c \in {"h264", "hevc", "av1", "vc1"}}
            \cup {[Stream("video", "h264", 1080) EXCEPT !.deep = TRUE]}
Sounds == {Stream("audio", c, 2) : c \in {"aac", "ac3"}}
Subs   == Stream("subtitle", "subrip", 0)

MCProbes ==
  {Probe(streams) : streams \in
     {<<v, a>> : v \in Videos, a \in Sounds}
       \cup {<<a, v, b, Cover("mjpeg")>> : v \in Videos, a, b \in Sounds}
       \cup {<<v, a, Subs, w>> : v, w \in Videos, a \in Sounds}
       \cup {<<Cover("mjpeg"), v, a>> : v \in Videos, a \in Sounds}}

MCTargets ==
  {[id |-> 1, video |-> v, audio |-> a] :
     v \in {"copy", "h264", "hevc", "av1"}, a \in {"copy", "aac", "ac3"}}

MCHosts ==
  [nvidia : BOOLEAN, renderNode : BOOLEAN,
   encoders : {{}, {"hevc_nvenc", "hevc_vaapi", "libx265"}, {"hevc_qsv"}, {"hevc_amf"}},
   override : {"", "hevc_vaapi"}, choice : {"auto", "hevc_vaapi", "libx265", "none"}]

-----------------------------------------------------------------------------
(* Inputs of Workflows and Filters *)

Clauses ==
  {[field |-> f, op |-> o, value |-> <<<<"hevc">>>>, list |-> l, or |-> b] :
     f \in {"video_codec", "audio_codec"}, o \in {"equal", "notContains"},
     l \in BOOLEAN, b \in BOOLEAN}
    \cup {[field |-> f, op |-> o, value |-> v, list |-> TRUE, or |-> b] :
            f \in {"video_codec", "audio_codec"}, o \in {"equal", "notContains"},
            v \in {<<>>, <<<<"av1">>, <<"aac">>>>}, b \in BOOLEAN}
    \cup {[field |-> "video_codec", op |-> "equal", value |-> <<<<"av1", "hevc">>>>,
           list |-> l, or |-> b] : l \in BOOLEAN, b \in BOOLEAN}
    \cup {[field |-> f, op |-> o, value |-> <<<<1080>>>>, list |-> l, or |-> b] :
            f \in {"resolution", "bitrate"}, o \in {"greater", "equal"},
            l \in BOOLEAN, b \in BOOLEAN}

MCConditions == {<<>>} \cup {<<c>> : c \in Clauses} \cup {<<c, d>> : c, d \in Clauses}

MCSubjects == {Old, Newer, Other}

RowsOf(conditions) ==
  {Row(p, conditions, v) : p \in {50, 100}, v \in {"hevc", "h264"}}

MCTables ==
  LET some == UNION {RowsOf(c) : c \in {<<>>, <<Clause("video_codec", "equal", <<"av1">>)>>}}
      off  == [Row(10, <<>>, "av1") EXCEPT !.enabled = FALSE]
  IN {(5 :> r) @@ (2 :> q) @@ (7 :> off) : r, q \in some}
       \cup {(3 :> r) @@ (4 :> q) @@ (9 :> t) : r, q, t \in some}

(* Items of a grid, and what a saved filter may ask of them; "rating" is a
   field that a later release took away. *)
MCGridItems ==
  [title : {"a"}, status : {"ended", "continuing"}, year : {2020}, monitored : BOOLEAN,
   files : {1}, format : {{"mkv"}}, video_codec : {{"av1"}, {"hevc", "h265", "x265"}}]

MCFilterLists ==
  LET one == [field : {"video_codec", "status", "rating"}, op : {"equal", "notContains", "like"},
              value : {"hevc", "ended"}]
  IN {<<>>} \cup {<<c>> : c \in one} \cup {<<c, d>> : c, d \in one}

MCCodecNames == {"hevc", "h265", "h264", "avc", "av1"}

MCColumns == UNION {[1 .. n -> 0 .. 3] : n \in 0 .. 4}

-----------------------------------------------------------------------------
(* Each input is a state of its own, in which nothing runs: it follows one
   in which a database that is not served has been booted. *)

MCInit == Init /\ input = NoInput

Asks ==
  /\ stage = "up" /\ disk = Release(7, "filled") /\ crashes = 0
  /\ Ask
  /\ UNCHANGED vars

MCNext == input = NoInput /\ ((Next /\ UNCHANGED input) \/ Asks)

MCSpec ==
  /\ MCInit
  /\ [][MCNext]_<<vars, input>>
  /\ WF_<<vars, input>>(input = NoInput /\ (Booting \/ Indexing) /\ UNCHANGED input)
=============================================================================

-------------------------- MODULE MigrationsProofs --------------------------
(***************************************************************************)
(* Proofs about Migrations, for any release and any number of crashes.     *)
(* The statements of Program are named by their numbers.                   *)
(***************************************************************************)
EXTENDS Migrations, TLAPS, WellFoundedInduction

-----------------------------------------------------------------------------
(* The program, statement by statement. *)

LEMMA Operations ==
  /\ Program[1].op = "add_arr" /\ Program[2].op = "add_arr"
  /\ Program[3].op = "add_arr" /\ Program[4].op = "add_arr"
  /\ Program[5].op = "add_arr" /\ Program[6].op = "backfill"
  /\ Program[7].op = "drop_url" /\ Program[8].op = "add_job"
  /\ Program[9].op = "index_if" /\ Program[10].op = "add_node"
  /\ Program[11].op = "add_node" /\ Program[12].op = "add_media"
  /\ Program[13].op = "add_media" /\ Program[14].op = "add_media"
  /\ Program[15].op = "add_job" /\ Program[16].op = "add_job"
  /\ Program[17].op = "add_job" /\ Program[18].op = "add_job"
  /\ Program[19].op = "index_if" /\ Program[20].op = "rename"
  /\ Program[21].op = "recreate" /\ Program[22].op = "copy"
  /\ Program[23].op = "drop_old" /\ Program[24].op = "index"
  /\ Program[25].op = "index" /\ Program[26].op = "index"
  /\ Program[27].op = "add_job" /\ Program[28].op = "add_job"
  /\ Program[29].op = "add_job" /\ Program[30].op = "add_job"
  /\ Program[31].op = "arr_table" /\ Program[32].op = "node_table"
  /\ Program[33].op = "media_table" /\ Program[34].op = "media_index"
  /\ Program[35].op = "job_table" /\ Program[36].op = "index"
  /\ Program[37].op = "index" /\ Program[38].op = "index"
BY DEF Program, St

(* Names, by what they are about. *)
LEMMA ArrNames ==
  /\ Program[1].name = "address" /\ Program[2].name = "port"
  /\ Program[3].name = "base_path" /\ Program[4].name = "use_ssl"
  /\ Program[5].name = "http_timeout"
BY DEF Program, St

LEMMA NodeNames == Program[10].name = "pair_url" /\ Program[11].name = "pair_api_key"
BY DEF Program, St

LEMMA MediaNames ==
  /\ Program[12].name = "arr_original_path"
  /\ Program[13].name = "season_number" /\ Program[14].name = "episode_number"
  /\ Program[34].name = "ix_media_file_path"
BY DEF Program, St

LEMMA MirrorNames ==
  /\ Program[15].name = "host_job_id" /\ Program[16].name = "display_title"
  /\ Program[17].name = "source_path" /\ Program[18].name = "node_name"
BY DEF Program, St

LEMMA CodecNames ==
  /\ Program[27].name = "source_video_codec" /\ Program[28].name = "source_audio_codec"
  /\ Program[29].name = "target_video_codec" /\ Program[30].name = "target_audio_codec"
BY DEF Program, St

LEMMA IndexNames ==
  /\ Program[8].name = "node_id" /\ Program[9].name = "node_id"
  /\ Program[19].name = "host_job_id" /\ Program[24].name = "state"
  /\ Program[25].name = "node_id" /\ Program[26].name = "host_job_id"
  /\ Program[36].name = "host_job_id" /\ Program[37].name = "node_id"
  /\ Program[38].name = "state"
BY DEF Program, St

LEMMA StagesOf ==
  /\ Program[1].stage = "arr" /\ Program[2].stage = "arr"
  /\ Program[3].stage = "arr" /\ Program[4].stage = "arr"
  /\ Program[5].stage = "arr" /\ Program[6].stage = "arr"
  /\ Program[7].stage = "arr" /\ Program[8].stage = "job_node"
  /\ Program[9].stage = "job_node" /\ Program[10].stage = "node_pair"
  /\ Program[11].stage = "node_pair" /\ Program[12].stage = "media_path"
  /\ Program[13].stage = "media_episode" /\ Program[14].stage = "media_episode"
  /\ Program[15].stage = "job_mirror" /\ Program[16].stage = "job_mirror"
  /\ Program[17].stage = "job_mirror" /\ Program[18].stage = "job_mirror"
  /\ Program[19].stage = "job_mirror" /\ Program[20].stage = "job_mirror"
  /\ Program[21].stage = "job_mirror" /\ Program[22].stage = "job_mirror"
  /\ Program[23].stage = "job_mirror" /\ Program[24].stage = "job_mirror"
  /\ Program[25].stage = "job_mirror" /\ Program[26].stage = "job_mirror"
  /\ Program[27].stage = "job_codec" /\ Program[28].stage = "job_codec"
  /\ Program[29].stage = "job_codec" /\ Program[30].stage = "job_codec"
  /\ Program[31].stage = "create_all" /\ Program[32].stage = "create_all"
  /\ Program[33].stage = "create_all" /\ Program[34].stage = "create_all"
  /\ Program[35].stage = "create_all" /\ Program[36].stage = "create_all"
  /\ Program[37].stage = "create_all" /\ Program[38].stage = "create_all"
BY DEF Program, St

LEMMA Domain == DOMAIN Program = 1 .. 38
BY DEF Program

LEMMA Numbers ==
  \A n \in 1 .. 38 :
    \/ n = 1 \/ n = 2 \/ n = 3 \/ n = 4 \/ n = 5 \/ n = 6 \/ n = 7
    \/ n = 8 \/ n = 9 \/ n = 10 \/ n = 11 \/ n = 12 \/ n = 13 \/ n = 14
    \/ n = 15 \/ n = 16 \/ n = 17 \/ n = 18 \/ n = 19 \/ n = 20 \/ n = 21
    \/ n = 22 \/ n = 23 \/ n = 24 \/ n = 25 \/ n = 26 \/ n = 27 \/ n = 28
    \/ n = 29 \/ n = 30 \/ n = 31 \/ n = 32 \/ n = 33 \/ n = 34 \/ n = 35
    \/ n = 36 \/ n = 37 \/ n = 38
OBVIOUS

(* Which statements do what. *)
LEMMA Kinds ==
  ASSUME NEW n \in 1 .. 38
  PROVE  LET op == Program[n].op
         IN /\ op = "add_arr" <=> n \in 1 .. 5
            /\ op = "backfill" <=> n = 6
            /\ op = "drop_url" <=> n = 7
            /\ op = "add_node" <=> n \in 10 .. 11
            /\ op = "add_media" <=> n \in 12 .. 14
            /\ op = "add_job" <=> n \in {8} \cup 15 .. 18 \cup 27 .. 30
            /\ op = "index_if" <=> n \in {9, 19}
            /\ op = "rename" <=> n = 20
            /\ op = "recreate" <=> n = 21
            /\ op = "copy" <=> n = 22
            /\ op = "drop_old" <=> n = 23
            /\ op = "index" <=> n \in 24 .. 26 \cup 36 .. 38
            /\ op = "arr_table" <=> n = 31
            /\ op = "node_table" <=> n = 32
            /\ op = "media_table" <=> n = 33
            /\ op = "media_index" <=> n = 34
            /\ op = "job_table" <=> n = 35
BY Operations, Numbers

(* Which migration runs which. *)
LEMMA Stages ==
  ASSUME NEW n \in 1 .. 38
  PROVE  LET migration == Program[n].stage
         IN /\ migration \in Migrating
            /\ migration = "arr" <=> n \in 1 .. 7
            /\ migration = "job_node" <=> n \in 8 .. 9
            /\ migration = "node_pair" <=> n \in 10 .. 11
            /\ migration = "media_path" <=> n = 12
            /\ migration = "media_episode" <=> n \in 13 .. 14
            /\ migration = "job_mirror" <=> n \in 15 .. 26
            /\ migration = "job_codec" <=> n \in 27 .. 30
            /\ migration = "create_all" <=> n \in 31 .. 38
BY StagesOf, Numbers DEF Migrating

(* What they add is part of the present schema. *)
LEMMA Additions ==
  /\ \A n \in 1 .. 5 : Program[n].name \in ArrNew
  /\ \A n \in 10 .. 11 : Program[n].name \in PairNew
  /\ \A n \in (12 .. 14) \cup {34} : Program[n].name \in MediaCols
  /\ \A n \in {8} \cup 15 .. 18 \cup 27 .. 30 : Program[n].name \in JobCols
  /\ \A n \in {9, 19} \cup 24 .. 26 \cup 36 .. 38 :
       Program[n].name \in JobIndexes
<1>1. \A n \in 1 .. 5 : Program[n].name \in ArrNew
  <2>1. \A n \in 1 .. 5 : n = 1 \/ n = 2 \/ n = 3 \/ n = 4 \/ n = 5
    OBVIOUS
  <2> QED
    BY <2>1, ArrNames DEF ArrNew
<1>2. \A n \in 10 .. 11 : Program[n].name \in PairNew
  <2>1. \A n \in 10 .. 11 : n = 10 \/ n = 11
    OBVIOUS
  <2> QED
    BY <2>1, NodeNames DEF PairNew
<1>3. \A n \in (12 .. 14) \cup {34} : Program[n].name \in MediaCols
  <2>1. \A n \in (12 .. 14) \cup {34} : n = 12 \/ n = 13 \/ n = 14 \/ n = 34
    OBVIOUS
  <2> QED
    BY <2>1, MediaNames DEF MediaCols, Episode
<1>4. \A n \in {8} \cup 15 .. 18 \cup 27 .. 30 : Program[n].name \in JobCols
  <2>1. Program[8].name \in JobCols
    BY IndexNames DEF JobCols
  <2>2. \A n \in 15 .. 18 : n = 15 \/ n = 16 \/ n = 17 \/ n = 18
    OBVIOUS
  <2>3. \A n \in 15 .. 18 : Program[n].name \in Mirror
    BY <2>2, MirrorNames DEF Mirror
  <2>4. \A n \in 27 .. 30 : n = 27 \/ n = 28 \/ n = 29 \/ n = 30
    OBVIOUS
  <2>5. \A n \in 27 .. 30 : Program[n].name \in Codecs
    BY <2>4, CodecNames DEF Codecs
  <2> QED
    BY <2>1, <2>3, <2>5 DEF JobCols
<1>5. \A n \in {9, 19} \cup 24 .. 26 \cup 36 .. 38 :
        Program[n].name \in JobIndexes
  <2>1. \A n \in 24 .. 26 : n = 24 \/ n = 25 \/ n = 26
    OBVIOUS
  <2>2. \A n \in 36 .. 38 : n = 36 \/ n = 37 \/ n = 38
    OBVIOUS
  <2>3. \A n \in {9, 19} : Program[n].name \in JobIndexes
    BY IndexNames DEF JobIndexes
  <2>4. \A n \in 24 .. 26 : Program[n].name \in JobIndexes
    BY <2>1, IndexNames DEF JobIndexes
  <2>5. \A n \in 36 .. 38 : Program[n].name \in JobIndexes
    BY <2>2, IndexNames DEF JobIndexes
  <2> QED
    BY <2>3, <2>4, <2>5
<1> QED
  BY <1>1, <1>2, <1>3, <1>4, <1>5

(* The next statement is the first that is left. *)
LessThan == {ss \in Nat \X Nat : ss[1] < ss[2]}

LEMMA Minimum ==
  ASSUME NEW S, S \subseteq Nat, S # {}
  PROVE  /\ (CHOOSE n \in S : \A m \in S : n <= m) \in S
         /\ \A k \in S : (CHOOSE n \in S : \A m \in S : n <= m) <= k
<1>1. OpToRel(<, Nat) = LessThan
  BY Zenon DEF OpToRel, LessThan
<1>2. IsWellFoundedOn(LessThan, Nat)
  BY <1>1, NatLessThanWellFounded
<1>3. \E n \in S : \A m \in S : ~(<<m, n>> \in LessThan)
  BY <1>2, WFMin
<1>4. \E n \in S : \A m \in S : n <= m
  <2>1. \A m, n \in Nat : m < n => <<m, n>> \in LessThan
    BY DEF LessThan
  <2>2. PICK n \in S : \A m \in S : ~(<<m, n>> \in LessThan)
    BY <1>3
  <2>3. ASSUME NEW m \in S PROVE n <= m
    <3>1. m \in Nat /\ n \in Nat /\ ~(m < n)
      BY <2>1, <2>2
    <3> QED
      BY <3>1
  <2> QED
    BY <2>3
<1>5. (CHOOSE n \in S : \A m \in S : n <= m) \in S
  BY <1>4
<1>6. \A k \in S : (CHOOSE n \in S : \A m \in S : n <= m) <= k
  BY <1>4
<1> QED
  BY <1>5, <1>6

LEMMA FirstLeft ==
  ASSUME todo \subseteq DOMAIN Program, todo # {}
  PROVE  /\ NextStatement \in todo
         /\ \A m \in todo : NextStatement <= m
<1>1. todo \subseteq Nat
  BY Domain
<1> QED
  BY <1>1, Minimum, Zenon DEF NextStatement

-----------------------------------------------------------------------------
(* What each statement leaves in the file, table by table. *)

Outcome(n, db, e) ==
  LET name == Program[n].name
  IN
  /\ n \in 1 .. 5 => e.arr = db.arr \cup {name}
  /\ n = 7 => e.arr = db.arr \ {"base_url"}
  /\ n = 31 => e.arr = ArrCols
  /\ n \notin 1 .. 5 \cup {7, 31} => e.arr = db.arr
  /\ n = 6 => e.url # "legible"
  /\ n # 6 => e.url = db.url
  /\ n \in 10 .. 11 => e.node = db.node \cup {name}
  /\ n = 32 => e.node = NodeCols
  /\ n \notin 10 .. 11 \cup {32} => e.node = db.node
  /\ n \in (12 .. 14) \cup {34} => e.media = db.media \cup {name}
  /\ n = 33 => e.media = MediaCols \ {"ix_media_file_path"}
  /\ n \notin 12 .. 14 \cup {33, 34} => e.media = db.media
  /\ n \in {8} \cup 15 .. 18 \cup 27 .. 30 => e.job = db.job \cup {name}
  /\ n = 20 => e.job = {} /\ e.rows = {} /\ e.indexes = {}
  /\ n = 21 => e.job = JobCols \ Codecs
  /\ n = 35 => e.job = JobCols
  /\ n \notin {8, 20, 21, 35} \cup 15 .. 18 \cup 27 .. 30 => e.job = db.job
  /\ n \in {21, 35} => ~e.strict
  /\ n \notin {21, 35} => e.strict = db.strict
  /\ n = 22 => e.rows = db.oldRows
  /\ n \notin {20, 22} => e.rows = db.rows
  /\ n \in 24 .. 26 \cup 36 .. 38 => e.indexes = db.indexes \cup {name}
  /\ n \in {9, 19} =>
       e.indexes = IF name \in db.oldIndexes THEN db.indexes ELSE db.indexes \cup {name}
  /\ n \notin {9, 19, 20} \cup 24 .. 26 \cup 36 .. 38 => e.indexes = db.indexes
  /\ n = 20 => e.old /\ e.oldRows = db.rows
  /\ n = 23 => ~e.old /\ e.oldRows = {} /\ e.oldIndexes = {}
  /\ n \notin {20, 23} =>
       e.old = db.old /\ e.oldRows = db.oldRows /\ e.oldIndexes = db.oldIndexes

LEMMA EffectOutcome ==
  ASSUME NEW db \in FileType, NEW n \in 1 .. 38
  PROVE  Outcome(n, db, Effect(Program[n], db)) /\ Effect(Program[n], db) \in FileType
<1> SUFFICES ASSUME NEW e, e = Effect(Program[n], db)
             PROVE  Outcome(n, db, e) /\ e \in FileType
  OBVIOUS
<1> DEFINE st == Program[n]
<1>1. CASE n \in 1 .. 5
  <2>1. st.op = "add_arr" /\ st.name \in ArrNew
    BY <1>1, Kinds, Additions
  <2>2. e = [db EXCEPT !.arr = @ \cup {st.name}]
    BY <2>1 DEF Effect
  <2>3. /\ e.arr = db.arr \cup {st.name}
        /\ e.url = db.url /\ e.node = db.node /\ e.media = db.media /\ e.job = db.job
        /\ e.strict = db.strict /\ e.rows = db.rows /\ e.indexes = db.indexes /\ e.old = db.old
        /\ e.oldRows = db.oldRows /\ e.oldIndexes = db.oldIndexes
    BY <2>2 DEF FileType
  <2>4. Outcome(n, db, e)
    BY <1>1, <2>3 DEF Outcome
  <2>5. e \in FileType
    BY <2>1, <2>2 DEF FileType, ArrCols
  <2> QED
    BY <2>4, <2>5
<1>2. CASE n = 6
  <2>1. st.op = "backfill"
    BY <1>2, Kinds
  <2>2. e = [db EXCEPT !.url = IF @ = "legible" THEN "filled" ELSE @]
    BY <2>1 DEF Effect
  <2>3. /\ e.url = IF db.url = "legible" THEN "filled" ELSE db.url
        /\ e.arr = db.arr /\ e.node = db.node /\ e.media = db.media /\ e.job = db.job
        /\ e.strict = db.strict /\ e.rows = db.rows /\ e.indexes = db.indexes /\ e.old = db.old
        /\ e.oldRows = db.oldRows /\ e.oldIndexes = db.oldIndexes
    BY <2>2 DEF FileType
  <2>4. Outcome(n, db, e)
    BY <1>2, <2>3 DEF Outcome
  <2>5. e \in FileType
    <3>1. e.url \in Urls
      BY <2>3 DEF FileType, Urls
    <3>2. e = [db EXCEPT !.url = e.url]
      BY <2>2, <2>3 DEF FileType
    <3> QED
      BY <3>1, <3>2 DEF FileType
  <2> QED
    BY <2>4, <2>5
<1>3. CASE n = 7
  <2>1. st.op = "drop_url"
    BY <1>3, Kinds
  <2>2. e = [db EXCEPT !.arr = @ \ {"base_url"}]
    BY <2>1 DEF Effect
  <2>3. /\ e.arr = db.arr \ {"base_url"}
        /\ e.url = db.url /\ e.node = db.node /\ e.media = db.media /\ e.job = db.job
        /\ e.strict = db.strict /\ e.rows = db.rows /\ e.indexes = db.indexes /\ e.old = db.old
        /\ e.oldRows = db.oldRows /\ e.oldIndexes = db.oldIndexes
    BY <2>2 DEF FileType
  <2>4. Outcome(n, db, e)
    BY <1>3, <2>3 DEF Outcome
  <2>5. e \in FileType
    BY <2>1, <2>2 DEF FileType
  <2> QED
    BY <2>4, <2>5
<1>4. CASE n \in 10 .. 11
  <2>1. st.op = "add_node" /\ st.name \in PairNew
    BY <1>4, Kinds, Additions
  <2>2. e = [db EXCEPT !.node = @ \cup {st.name}]
    BY <2>1 DEF Effect
  <2>3. /\ e.node = db.node \cup {st.name}
        /\ e.arr = db.arr /\ e.url = db.url /\ e.media = db.media /\ e.job = db.job
        /\ e.strict = db.strict /\ e.rows = db.rows /\ e.indexes = db.indexes /\ e.old = db.old
        /\ e.oldRows = db.oldRows /\ e.oldIndexes = db.oldIndexes
    BY <2>2 DEF FileType
  <2>4. Outcome(n, db, e)
    BY <1>4, <2>3 DEF Outcome
  <2>5. e \in FileType
    BY <2>1, <2>2 DEF FileType, NodeCols
  <2> QED
    BY <2>4, <2>5
<1>5. CASE n \in (12 .. 14) \cup {34}
  <2>1. st.op \in {"add_media", "media_index"} /\ st.name \in MediaCols
    BY <1>5, Kinds, Additions
  <2>2. e = [db EXCEPT !.media = @ \cup {st.name}]
    BY <2>1 DEF Effect
  <2>3. /\ e.media = db.media \cup {st.name}
        /\ e.arr = db.arr /\ e.url = db.url /\ e.node = db.node /\ e.job = db.job
        /\ e.strict = db.strict /\ e.rows = db.rows /\ e.indexes = db.indexes /\ e.old = db.old
        /\ e.oldRows = db.oldRows /\ e.oldIndexes = db.oldIndexes
    BY <2>2 DEF FileType
  <2>4. Outcome(n, db, e)
    BY <1>5, <2>3 DEF Outcome
  <2>5. e \in FileType
    BY <2>1, <2>2 DEF FileType
  <2> QED
    BY <2>4, <2>5
<1>6. CASE n \in {8} \cup 15 .. 18 \cup 27 .. 30
  <2>1. st.op = "add_job" /\ st.name \in JobCols
    BY <1>6, Kinds, Additions
  <2>2. e = [db EXCEPT !.job = @ \cup {st.name}]
    BY <2>1 DEF Effect
  <2>3. /\ e.job = db.job \cup {st.name}
        /\ e.arr = db.arr /\ e.url = db.url /\ e.node = db.node /\ e.media = db.media
        /\ e.strict = db.strict /\ e.rows = db.rows /\ e.indexes = db.indexes /\ e.old = db.old
        /\ e.oldRows = db.oldRows /\ e.oldIndexes = db.oldIndexes
    BY <2>2 DEF FileType
  <2>4. Outcome(n, db, e)
    BY <1>6, <2>3 DEF Outcome
  <2>5. e \in FileType
    BY <2>1, <2>2 DEF FileType
  <2> QED
    BY <2>4, <2>5
<1>7. CASE n \in {9, 19}
  <2>1. st.op = "index_if" /\ st.name \in JobIndexes
    BY <1>7, Kinds, Additions
  <2>2. e = IF st.name \in db.oldIndexes THEN db
            ELSE [db EXCEPT !.indexes = @ \cup {st.name}]
    BY <2>1 DEF Effect
  <2>3. /\ e.indexes = IF st.name \in db.oldIndexes THEN db.indexes
                     ELSE db.indexes \cup {st.name}
        /\ e.arr = db.arr /\ e.url = db.url /\ e.node = db.node /\ e.media = db.media
        /\ e.job = db.job /\ e.strict = db.strict /\ e.rows = db.rows /\ e.old = db.old
        /\ e.oldRows = db.oldRows /\ e.oldIndexes = db.oldIndexes
    BY <2>2 DEF FileType
  <2>4. Outcome(n, db, e)
    BY <1>7, <2>3 DEF Outcome
  <2>5. e \in FileType
    BY <2>1, <2>2 DEF FileType
  <2> QED
    BY <2>4, <2>5
<1>8. CASE n = 20
  <2>1. st.op = "rename"
    BY <1>8, Kinds
  <2>2. e = [db EXCEPT !.job = {}, !.rows = {}, !.indexes = {}, !.old = TRUE,
                       !.oldRows = db.rows, !.oldIndexes = db.indexes]
    BY <2>1 DEF Effect
  <2>3. /\ e.job = {}
        /\ e.rows = {}
        /\ e.indexes = {}
        /\ e.old = TRUE
        /\ e.oldRows = db.rows
        /\ e.oldIndexes = db.indexes
        /\ e.arr = db.arr /\ e.url = db.url /\ e.node = db.node /\ e.media = db.media
        /\ e.strict = db.strict
    BY <2>2 DEF FileType
  <2>4. Outcome(n, db, e)
    BY <1>8, <2>3 DEF Outcome
  <2>5. e \in FileType
    <3>1. e = [arr |-> db.arr, url |-> db.url, node |-> db.node, media |-> db.media,
                job |-> {}, strict |-> db.strict, rows |-> {}, indexes |-> {},
                old |-> TRUE, oldRows |-> db.rows, oldIndexes |-> db.indexes]
      BY <2>2 DEF FileType
    <3>2. /\ db.arr \subseteq ArrCols \cup {"base_url"} /\ db.url \in Urls
          /\ db.node \subseteq NodeCols /\ db.media \subseteq MediaCols
          /\ db.strict \in BOOLEAN /\ db.old \in BOOLEAN
          /\ db.rows \subseteq {"rows"} /\ db.oldRows \subseteq {"rows"}
          /\ db.indexes \subseteq JobIndexes
          /\ db.oldIndexes \subseteq JobIndexes
          /\ JobCols \ Codecs \subseteq JobCols
      BY DEF FileType
    <3> QED
      BY <3>1, <3>2 DEF FileType
  <2> QED
    BY <2>4, <2>5
<1>9. CASE n = 21
  <2>1. st.op = "recreate"
    BY <1>9, Kinds
  <2>2. e = [db EXCEPT !.job = JobCols \ Codecs, !.strict = FALSE]
    BY <2>1 DEF Effect
  <2>3. /\ e.job = JobCols \ Codecs
        /\ e.strict = FALSE
        /\ e.arr = db.arr /\ e.url = db.url /\ e.node = db.node /\ e.media = db.media
        /\ e.rows = db.rows /\ e.indexes = db.indexes /\ e.old = db.old /\ e.oldRows = db.oldRows
        /\ e.oldIndexes = db.oldIndexes
    BY <2>2 DEF FileType
  <2>4. Outcome(n, db, e)
    BY <1>9, <2>3 DEF Outcome
  <2>5. e \in FileType
    <3>1. e = [arr |-> db.arr, url |-> db.url, node |-> db.node, media |-> db.media,
                job |-> JobCols \ Codecs, strict |-> FALSE, rows |-> db.rows, indexes |-> db.indexes,
                old |-> db.old, oldRows |-> db.oldRows, oldIndexes |-> db.oldIndexes]
      BY <2>2 DEF FileType
    <3>2. /\ db.arr \subseteq ArrCols \cup {"base_url"} /\ db.url \in Urls
          /\ db.node \subseteq NodeCols /\ db.media \subseteq MediaCols
          /\ db.strict \in BOOLEAN /\ db.old \in BOOLEAN
          /\ db.rows \subseteq {"rows"} /\ db.oldRows \subseteq {"rows"}
          /\ db.indexes \subseteq JobIndexes
          /\ db.oldIndexes \subseteq JobIndexes
          /\ JobCols \ Codecs \subseteq JobCols
      BY DEF FileType
    <3> QED
      BY <3>1, <3>2 DEF FileType
  <2> QED
    BY <2>4, <2>5
<1>10. CASE n = 22
  <2>1. st.op = "copy"
    BY <1>10, Kinds
  <2>2. e = [db EXCEPT !.rows = db.oldRows]
    BY <2>1 DEF Effect, Copied
  <2>3. /\ e.rows = db.oldRows
        /\ e.arr = db.arr /\ e.url = db.url /\ e.node = db.node /\ e.media = db.media
        /\ e.job = db.job /\ e.strict = db.strict /\ e.indexes = db.indexes /\ e.old = db.old
        /\ e.oldRows = db.oldRows /\ e.oldIndexes = db.oldIndexes
    BY <2>2 DEF FileType
  <2>4. Outcome(n, db, e)
    BY <1>10, <2>3 DEF Outcome
  <2>5. e \in FileType
    BY <2>1, <2>2 DEF FileType
  <2> QED
    BY <2>4, <2>5
<1>11. CASE n = 23
  <2>1. st.op = "drop_old"
    BY <1>11, Kinds
  <2>2. e = [db EXCEPT !.old = FALSE, !.oldRows = {}, !.oldIndexes = {}]
    BY <2>1 DEF Effect
  <2>3. /\ e.old = FALSE
        /\ e.oldRows = {}
        /\ e.oldIndexes = {}
        /\ e.arr = db.arr /\ e.url = db.url /\ e.node = db.node /\ e.media = db.media
        /\ e.job = db.job /\ e.strict = db.strict /\ e.rows = db.rows /\ e.indexes = db.indexes
    BY <2>2 DEF FileType
  <2>4. Outcome(n, db, e)
    BY <1>11, <2>3 DEF Outcome
  <2>5. e \in FileType
    BY <2>1, <2>2 DEF FileType
  <2> QED
    BY <2>4, <2>5
<1>12. CASE n \in 24 .. 26 \cup 36 .. 38
  <2>1. st.op = "index" /\ st.name \in JobIndexes
    BY <1>12, Kinds, Additions
  <2>2. e = [db EXCEPT !.indexes = @ \cup {st.name}]
    BY <2>1 DEF Effect
  <2>3. /\ e.indexes = db.indexes \cup {st.name}
        /\ e.arr = db.arr /\ e.url = db.url /\ e.node = db.node /\ e.media = db.media
        /\ e.job = db.job /\ e.strict = db.strict /\ e.rows = db.rows /\ e.old = db.old
        /\ e.oldRows = db.oldRows /\ e.oldIndexes = db.oldIndexes
    BY <2>2 DEF FileType
  <2>4. Outcome(n, db, e)
    BY <1>12, <2>3 DEF Outcome
  <2>5. e \in FileType
    BY <2>1, <2>2 DEF FileType
  <2> QED
    BY <2>4, <2>5
<1>13. CASE n = 31
  <2>1. st.op = "arr_table"
    BY <1>13, Kinds
  <2>2. e = [db EXCEPT !.arr = ArrCols]
    BY <2>1 DEF Effect
  <2>3. /\ e.arr = ArrCols /\ e.url = db.url
        /\ e.node = db.node /\ e.media = db.media /\ e.job = db.job
        /\ e.strict = db.strict /\ e.rows = db.rows
        /\ e.indexes = db.indexes /\ e.old = db.old
        /\ e.oldRows = db.oldRows /\ e.oldIndexes = db.oldIndexes
    BY <2>2 DEF FileType
  <2>4. Outcome(n, db, e)
    BY <1>13, <2>3 DEF Outcome
  <2>5. e \in FileType
    BY <2>1, <2>2 DEF FileType
  <2> QED
    BY <2>4, <2>5
<1>14. CASE n = 32
  <2>1. st.op = "node_table"
    BY <1>14, Kinds
  <2>2. e = [db EXCEPT !.node = NodeCols]
    BY <2>1 DEF Effect
  <2>3. /\ e.node = NodeCols /\ e.url = db.url
        /\ e.arr = db.arr /\ e.media = db.media /\ e.job = db.job
        /\ e.strict = db.strict /\ e.rows = db.rows
        /\ e.indexes = db.indexes /\ e.old = db.old
        /\ e.oldRows = db.oldRows /\ e.oldIndexes = db.oldIndexes
    BY <2>2 DEF FileType
  <2>4. Outcome(n, db, e)
    BY <1>14, <2>3 DEF Outcome
  <2>5. e \in FileType
    BY <2>1, <2>2 DEF FileType
  <2> QED
    BY <2>4, <2>5
<1>15. CASE n = 33
  <2>1. st.op = "media_table"
    BY <1>15, Kinds
  <2>2. e = [db EXCEPT !.media = MediaCols \ {"ix_media_file_path"}]
    BY <2>1 DEF Effect
  <2>3. /\ e.media = MediaCols \ {"ix_media_file_path"} /\ e.url = db.url
        /\ e.arr = db.arr /\ e.node = db.node /\ e.job = db.job
        /\ e.strict = db.strict /\ e.rows = db.rows
        /\ e.indexes = db.indexes /\ e.old = db.old
        /\ e.oldRows = db.oldRows /\ e.oldIndexes = db.oldIndexes
    BY <2>2 DEF FileType
  <2>4. Outcome(n, db, e)
    BY <1>15, <2>3 DEF Outcome
  <2>5. e \in FileType
    BY <2>1, <2>2 DEF FileType
  <2> QED
    BY <2>4, <2>5
<1>16. CASE n = 35
  <2>1. st.op = "job_table"
    BY <1>16, Kinds
  <2>2. e = [db EXCEPT !.job = JobCols, !.strict = FALSE]
    BY <2>1 DEF Effect
  <2>3. /\ e.job = JobCols
        /\ e.strict = FALSE
        /\ e.arr = db.arr /\ e.url = db.url /\ e.node = db.node /\ e.media = db.media
        /\ e.rows = db.rows /\ e.indexes = db.indexes /\ e.old = db.old
        /\ e.oldRows = db.oldRows /\ e.oldIndexes = db.oldIndexes
    BY <2>2 DEF FileType
  <2>4. Outcome(n, db, e)
    BY <1>16, <2>3 DEF Outcome
  <2>5. e \in FileType
    BY <2>1, <2>2 DEF FileType
  <2> QED
    BY <2>4, <2>5
<1> QED
  BY <1>1, <1>2, <1>3, <1>4, <1>5, <1>6, <1>7, <1>8, <1>9, <1>10, <1>11,
     <1>12, <1>13, <1>14, <1>15, <1>16

-----------------------------------------------------------------------------
(* Types *)

LEMMA ReleaseFields ==
  ASSUME NEW n \in 0 .. 7, NEW u \in Urls, NEW db, db = Release(n, u)
  PROVE  /\ db \in FileType
         /\ db.arr = IF n >= 1 THEN ArrCols ELSE {"id", "base_url"}
         /\ n >= 1 => db.url = "filled"
         /\ db.node = IF n >= 3 THEN NodeCols ELSE IF n = 2 THEN {"id"} ELSE {}
         /\ "id" \in db.media /\ "ix_media_file_path" \in db.media
         /\ "id" \in db.job
         /\ ~db.strict => {"state", "node_id"} \subseteq db.indexes
         /\ ~db.old /\ db.oldRows = {} /\ db.oldIndexes = {}
<1>1. PICK arr \in SUBSET (ArrCols \cup {"base_url"}) :
        arr = IF n >= 1 THEN ArrCols ELSE {"id", "base_url"}
  BY DEF ArrCols
<1>2. PICK node \in SUBSET NodeCols :
        node = IF n >= 3 THEN NodeCols ELSE IF n = 2 THEN {"id"} ELSE {}
  BY DEF NodeCols
<1>3. PICK media \in SUBSET MediaCols :
        media = {"id", "ix_media_file_path"}
                \cup (IF n >= 4 THEN {"arr_original_path"} ELSE {})
                \cup (IF n >= 5 THEN Episode ELSE {})
  BY DEF MediaCols
<1>4. PICK job \in SUBSET JobCols :
        job = {"id"} \cup (IF n >= 2 THEN {"node_id"} ELSE {})
                     \cup (IF n >= 6 THEN Mirror ELSE {})
                     \cup (IF n >= 7 THEN Codecs ELSE {})
  BY DEF JobCols
<1>5. PICK indexes \in SUBSET JobIndexes :
        indexes = {"state"} \cup (IF n >= 2 THEN {"node_id"} ELSE {})
                            \cup (IF n >= 6 THEN {"host_job_id"} ELSE {})
  <2>1. (IF n >= 2 THEN {"node_id"} ELSE {}) \subseteq {"node_id"}
    OBVIOUS
  <2>2. (IF n >= 6 THEN {"host_job_id"} ELSE {}) \subseteq {"host_job_id"}
    OBVIOUS
  <2> DEFINE all == {"state"} \cup (IF n >= 2 THEN {"node_id"} ELSE {})
                              \cup (IF n >= 6 THEN {"host_job_id"} ELSE {})
  <2>3. all \in SUBSET JobIndexes
    BY <2>1, <2>2 DEF JobIndexes
  <2> QED
    BY <2>3, Zenon
<1>6. PICK url \in Urls : url = IF n >= 1 THEN "filled" ELSE u
  BY DEF Urls
<1>7. PICK strict \in BOOLEAN : strict = (n < 6)
  <2>1. (n < 6) \in BOOLEAN
    OBVIOUS
  <2> QED
    BY <2>1, Zenon
<1>8. db = [NoTables EXCEPT
        !.arr = arr, !.url = url, !.node = node, !.media = media,
        !.job = job, !.strict = strict, !.rows = {"rows"}, !.indexes = indexes]
  <2>1. db = [NoTables EXCEPT
          !.arr = arr, !.url = IF n >= 1 THEN "filled" ELSE u, !.node = node, !.media = media,
          !.job = job, !.strict = n < 6, !.rows = {"rows"}, !.indexes = indexes]
    BY <1>1, <1>2, <1>3, <1>4, <1>5 DEF Release
  <2> QED
    BY <1>6, <1>7, <2>1
<1>9. /\ db \in FileType
      /\ db.arr = arr /\ db.url = url /\ db.node = node
      /\ db.media = media /\ db.job = job
      /\ db.strict = strict /\ db.indexes = indexes
      /\ ~db.old /\ db.oldRows = {} /\ db.oldIndexes = {}
  <2>1. NoTables \in FileType
    BY DEF NoTables, FileType, Urls, JobIndexes
  <2>2. PICK half \in FileType :
          half = [NoTables EXCEPT !.arr = arr, !.url = url,
                                  !.node = node, !.media = media]
    BY <2>1 DEF FileType
  <2>3. db = [half EXCEPT !.job = job, !.strict = strict,
                          !.rows = {"rows"}, !.indexes = indexes]
    BY <1>8, <2>2
  <2>4. db \in FileType
    BY <2>2, <2>3 DEF FileType
  <2>5. /\ db.arr = arr /\ db.url = url /\ db.node = node
        /\ db.media = media /\ db.job = job
        /\ db.strict = strict /\ db.indexes = indexes
        /\ ~db.old /\ db.oldRows = {} /\ db.oldIndexes = {}
    BY <1>8 DEF NoTables
  <2> QED
    BY <2>4, <2>5
<1>10. "id" \in media /\ "ix_media_file_path" \in media /\ "id" \in job
  BY <1>3, <1>4
<1>11. ~strict => {"state", "node_id"} \subseteq indexes
  <2>1. ~strict => ~(n < 6)
    BY <1>7, Zenon
  <2>2. ~(n < 6) => n >= 2
    OBVIOUS
  <2> QED
    BY <1>5, <2>1, <2>2
<1> QED
  BY <1>1, <1>2, <1>6, <1>9, <1>10, <1>11

LEMMA FilesType == Files \subseteq FileType
<1>1. NoTables \in FileType
  BY DEF NoTables, FileType, Urls, JobIndexes
<1>2. \A n \in 0 .. 7, u \in Urls : Release(n, u) \in FileType
  BY ReleaseFields
<1> QED
  BY <1>1, <1>2 DEF Files

LEMMA BootTypeInit == BootInit => BootTypeOK
<1> SUFFICES ASSUME BootInit PROVE BootTypeOK
  OBVIOUS
<1>1. disk \in FileType /\ view = disk /\ open = FALSE
  BY FilesType DEF BootInit
<1>2. todo = {} /\ stage = "down" /\ crashes = 0 /\ torn = FALSE
  BY DEF BootInit
<1>3. crashes \in 0 .. MaxCrashes
  BY <1>2, CrashesAssumption
<1> QED
  BY <1>1, <1>2, <1>3 DEF BootTypeOK

(* A statement that runs is one of the 38, the first that is left. *)
LEMMA Running ==
  ASSUME BootTypeOK, Execute
  PROVE  /\ NextStatement \in 1 .. 38 /\ NextStatement \in todo
         /\ \A m \in todo : NextStatement <= m
         /\ Program[NextStatement].stage = stage
         /\ view' \in FileType
         /\ Outcome(NextStatement, view, view')
         /\ todo' = todo \ {NextStatement}
         /\ disk' = view' \/ disk' = disk
<1>1. todo \subseteq DOMAIN Program /\ todo # {}
  BY DEF BootTypeOK, Execute
<1>2. NextStatement \in todo /\ \A m \in todo : NextStatement <= m
  BY <1>1, FirstLeft
<1>3. NextStatement \in 1 .. 38
  BY <1>1, <1>2, Domain
<1>4. view' = Effect(Program[NextStatement], view)
  BY DEF Execute
<1>5. view \in FileType
  BY DEF BootTypeOK
<1>6. Outcome(NextStatement, view, view') /\ view' \in FileType
  BY <1>3, <1>4, <1>5, EffectOutcome
<1>7. Program[NextStatement].stage = stage
  BY <1>2 DEF BootTypeOK
<1>8. todo' = todo \ {NextStatement} /\ (disk' = view' \/ disk' = disk)
  BY DEF Execute
<1> QED
  BY <1>2, <1>3, <1>6, <1>7, <1>8

LEMMA PlanType ==
  ASSUME NEW migration, NEW db
  PROVE  /\ Plan(migration, db) \subseteq DOMAIN Program
         /\ \A n \in Plan(migration, db) : Program[n].stage = migration
BY DEF Plan

LEMMA BootTypeStep == BootTypeOK /\ [BootNext]_bootVars => BootTypeOK'
<1> SUFFICES ASSUME BootTypeOK, [BootNext]_bootVars PROVE BootTypeOK'
  OBVIOUS
<1>1. CASE Boot
  <2>1. /\ todo' \subseteq DOMAIN Program
        /\ \A n \in todo' : Program[n].stage = stage'
    BY <1>1, PlanType DEF Boot
  <2> QED
    BY <1>1, <2>1 DEF Boot, BootTypeOK, Migrating
<1>2. CASE Execute
  <2>1. disk' \in FileType /\ view' \in FileType
    BY <1>2, Running DEF BootTypeOK
  <2>2. open' \in BOOLEAN /\ (~open' => view' = disk')
    BY <1>2 DEF Execute, OpensTransaction, BootTypeOK
  <2>3. todo' \subseteq todo /\ UNCHANGED <<stage, crashes, torn>>
    BY <1>2 DEF Execute
  <2> QED
    BY <2>1, <2>2, <2>3 DEF BootTypeOK
<1>3. CASE Commit
  <2>1. stage' \in {"up"} \cup Migrating
    BY <1>3 DEF Commit, Follower, Migrating
  <2>2. /\ todo' \subseteq DOMAIN Program
        /\ \A n \in todo' : Program[n].stage = stage'
    BY <1>3, PlanType DEF Commit
  <2> QED
    BY <1>3, <2>1, <2>2 DEF Commit, BootTypeOK
<1>4. CASE BootFails
  BY <1>4 DEF BootFails, BootTypeOK
<1>5. CASE Die
  <2>1. torn' \in BOOLEAN
    BY <1>5 DEF Die, BootTypeOK, HalfDone
  <2>2. crashes' \in 0 .. MaxCrashes
    BY <1>5, CrashesAssumption DEF Die, BootTypeOK
  <2> QED
    BY <1>5, <2>1, <2>2 DEF Die, BootTypeOK
<1>6. CASE UNCHANGED bootVars
  BY <1>6 DEF bootVars, BootTypeOK
<1> QED
  BY <1>1, <1>2, <1>3, <1>4, <1>5, <1>6 DEF BootNext, BootProgress

(* Only the migration that runs has statements pending, and outside a
   transaction the process sees what is on disk. *)
THEOREM BootTypeCorrect == BootSpec => []BootTypeOK
<1>1. BootInit => BootTypeOK
  BY BootTypeInit
<1>2. BootTypeOK /\ [BootNext]_bootVars => BootTypeOK'
  BY BootTypeStep
<1> QED
  BY <1>1, <1>2, PTL DEF BootSpec

-----------------------------------------------------------------------------
(* Nothing is lost: what the statements that are left rely on. *)

(* A job table that is still to be made anew has no predecessor with rows. *)
Unreplaced(db) == db.job # {} /\ db.strict => db.oldRows = {}

(* base_url goes when the columns for it are filled in; the job table is
   renamed once, its rows are copied into an empty one, and the old one goes
   when they are in the new. *)
Prepared ==
  /\ 7 \in todo /\ 6 \notin todo => view.url # "legible"
  /\ 20 \in todo => view.oldRows = {}
  /\ 22 \in todo /\ 20 \notin todo => view.rows = {}
  /\ 23 \in todo /\ 22 \notin todo =>
       view.oldRows \subseteq view.rows /\ \A m \in todo : m >= 23
  /\ \A n \in todo \cap ({8} \cup 15 .. 18 \cup 27 .. 30) : view.job # {}
  /\ 31 \in todo => "base_url" \notin view.arr

Saved ==
  /\ Unreplaced(disk) /\ Unreplaced(view)
  /\ Held(disk) \subseteq Held(view)
  /\ Reachable(disk) => Reachable(view)
  /\ Prepared

SavedInv == BootTypeOK /\ Saved

LEMMA Decisions ==
  ASSUME NEW n \in 1 .. 38, NEW db
  PROVE  LET decided == Decided(Program[n], db)
         IN /\ n \in 1 .. 5 => (decided <=> AddsArr(Program[n], db))
            /\ n = 6 => (decided <=> "base_url" \in db.arr /\ db.url # "filled")
            /\ n = 7 => (decided <=> "base_url" \in db.arr)
            /\ n \in 10 .. 11 => (decided <=> AddsNode(Program[n], db))
            /\ n \in 12 .. 14 => (decided <=> AddsMedia(Program[n], db))
            /\ n \in {8} \cup 15 .. 18 \cup 27 .. 30 =>
                 (decided <=> AddsJob(Program[n], db))
            /\ n \in 20 .. 26 => (decided <=> db.job # {} /\ db.strict)
            /\ n \in {9, 19} => (decided <=> Indexes(Program[n], db))
            /\ n = 31 => (decided <=> db.arr = {})
            /\ n = 32 => (decided <=> db.node = {})
            /\ n \in 33 .. 34 => (decided <=> db.media = {})
            /\ n \in 35 .. 38 => (decided <=> db.job = {})
<1>1. ASSUME n \in 1 .. 5 PROVE Decided(Program[n], db) <=> AddsArr(Program[n], db)
  <2>1. Program[n].op = "add_arr"
    BY <1>1, Kinds
  <2>2. Program[n].stage = "arr"
    BY <1>1, Stages
  <2> QED
    BY <2>1, <2>2 DEF Decided
<1>2. ASSUME n = 6 PROVE Decided(Program[n], db) <=> "base_url" \in db.arr /\ db.url # "filled"
  <2>1. Program[n].op = "backfill"
    BY <1>2, Kinds
  <2>2. Program[n].stage = "arr"
    BY <1>2, Stages
  <2> QED
    BY <2>1, <2>2 DEF Decided
<1>3. ASSUME n = 7 PROVE Decided(Program[n], db) <=> "base_url" \in db.arr
  <2>1. Program[n].op = "drop_url"
    BY <1>3, Kinds
  <2>2. Program[n].stage = "arr"
    BY <1>3, Stages
  <2> QED
    BY <2>1, <2>2 DEF Decided
<1>4. ASSUME n \in 10 .. 11 PROVE Decided(Program[n], db) <=> AddsNode(Program[n], db)
  <2>1. Program[n].op = "add_node"
    BY <1>4, Kinds
  <2>2. Program[n].stage = "node_pair"
    BY <1>4, Stages
  <2> QED
    BY <2>1, <2>2 DEF Decided
<1>5. ASSUME n \in 12 .. 14 PROVE Decided(Program[n], db) <=> AddsMedia(Program[n], db)
  <2>1. Program[n].op = "add_media"
    BY <1>5, Kinds
  <2>2. Program[n].stage # "create_all" /\ Program[n].stage # "job_mirror"
    BY <1>5, Stages
  <2> QED
    BY <2>1, <2>2 DEF Decided
<1>6. ASSUME n \in {8} \cup 15 .. 18 \cup 27 .. 30 PROVE Decided(Program[n], db) <=> AddsJob(Program[n], db)
  <2>1. Program[n].op = "add_job"
    BY <1>6, Kinds
  <2>2. Program[n].stage # "create_all"
    BY <1>6, Stages
  <2> QED
    BY <2>1, <2>2 DEF Decided
<1>7. ASSUME n \in 20 .. 26 PROVE Decided(Program[n], db) <=> db.job # {} /\ db.strict
  <2>1. Program[n].op \in {"rename", "recreate", "copy", "drop_old", "index"}
    BY <1>7, Kinds
  <2>2. Program[n].stage = "job_mirror"
    BY <1>7, Stages
  <2> QED
    BY <2>1, <2>2 DEF Decided
<1>8. ASSUME n = 31 PROVE Decided(Program[n], db) <=> db.arr = {}
  <2>1. Program[n].op = "arr_table"
    BY <1>8, Kinds
  <2>2. Program[n].stage = "create_all"
    BY <1>8, Stages
  <2> QED
    BY <2>1, <2>2 DEF Decided
<1>9. ASSUME n = 32 PROVE Decided(Program[n], db) <=> db.node = {}
  <2>1. Program[n].op = "node_table"
    BY <1>9, Kinds
  <2>2. Program[n].stage = "create_all"
    BY <1>9, Stages
  <2> QED
    BY <2>1, <2>2 DEF Decided
<1>10. ASSUME n \in 33 .. 34 PROVE Decided(Program[n], db) <=> db.media = {}
  <2>1. Program[n].op \in {"media_table", "media_index"}
    BY <1>10, Kinds
  <2>2. Program[n].stage = "create_all"
    BY <1>10, Stages
  <2> QED
    BY <2>1, <2>2 DEF Decided
<1>11. ASSUME n \in 35 .. 38 PROVE Decided(Program[n], db) <=> db.job = {}
  <2>1. Program[n].op \in {"job_table", "index"}
    BY <1>11, Kinds
  <2>2. Program[n].stage = "create_all"
    BY <1>11, Stages
  <2> QED
    BY <2>1, <2>2 DEF Decided
<1>12. ASSUME n \in {9, 19} PROVE Decided(Program[n], db) <=> Indexes(Program[n], db)
  <2>1. Program[n].op = "index_if"
    BY <1>12, Kinds
  <2>2. Program[n].stage # "create_all"
    BY <1>12, Stages
  <2> QED
    BY <2>1, <2>2 DEF Decided
<1> QED
  BY <1>1, <1>2, <1>3, <1>4, <1>5, <1>6, <1>7, <1>8, <1>9, <1>10, <1>11, <1>12

(* A migration that starts plans what its statements rely on. *)
LEMMA PlannedPrepared ==
  ASSUME NEW migration, todo' = Plan(migration, view'), Unreplaced(view)'
  PROVE  Prepared'
<1>1. \A n \in todo' : /\ n \in 1 .. 38
                       /\ Program[n].stage = migration
                       /\ Decided(Program[n], view')
  BY Domain DEF Plan
<1>2. \A n \in 1 .. 38 : Program[n].stage = migration /\ Decided(Program[n], view')
                           => n \in todo'
  BY Domain DEF Plan
<1>3. 7 \in todo' /\ 6 \notin todo' => view'.url # "legible"
  <2>1. Program[6].stage = "arr" /\ Program[7].stage = "arr"
    BY Stages
  <2> QED
    BY <1>1, <1>2, <2>1, Decisions
<1>4. \A n \in todo' \cap 20 .. 26 : view'.job # {} /\ view'.strict /\ 20 .. 26 \subseteq todo'
  <2>1. \A n \in 20 .. 26 : Program[n].stage = "job_mirror"
    BY Stages
  <2> QED
    BY <1>1, <1>2, <2>1, Decisions
<1>5. 20 \in todo' => view'.oldRows = {}
  BY <1>4 DEF Unreplaced
<1>6. \A n \in todo' \cap ({8} \cup 15 .. 18 \cup 27 .. 30) : view'.job # {}
  BY <1>1, Decisions DEF AddsJob
<1>7. 31 \in todo' => "base_url" \notin view'.arr
  BY <1>1, Decisions
<1> QED
  BY <1>3, <1>4, <1>5, <1>6, <1>7 DEF Prepared

LEMMA StatementSaves ==
  ASSUME SavedInv, NEW n \in 1 .. 38, n \in todo, \A m \in todo : n <= m,
         Program[n].stage = stage, Outcome(n, view, view'), todo' = todo \ {n}
  PROVE  /\ Held(view) \subseteq Held(view')
         /\ Reachable(view) => Reachable(view')
         /\ Unreplaced(view')
         /\ Prepared'
<1>1. /\ todo \subseteq 1 .. 38
      /\ \A m \in todo : Program[m].stage = stage
  BY Domain DEF SavedInv, BootTypeOK
<1>2. Held(view) \subseteq Held(view')
  <2>1. CASE n = 20
    BY <2>1 DEF SavedInv, Saved, Prepared, Outcome, Held
  <2>2. CASE n = 22
    BY <2>2 DEF SavedInv, Saved, Prepared, Outcome, Held
  <2>3. CASE n = 23
    BY <2>3 DEF SavedInv, Saved, Prepared, Outcome, Held
  <2>4. CASE n \notin {20, 22, 23}
    BY <2>4 DEF Outcome, Held
  <2> QED
    BY <2>1, <2>2, <2>3, <2>4
<1>3. Reachable(view) => Reachable(view')
  <2>1. CASE n = 7
    BY <2>1 DEF SavedInv, Saved, Prepared, Outcome, Reachable
  <2>2. CASE n # 7
    <3>1. "base_url" \in view.arr => "base_url" \in view'.arr
      BY <2>2 DEF SavedInv, Saved, Prepared, Outcome
    <3>2. view.url # "legible" => view'.url # "legible"
      BY DEF Outcome
    <3> QED
      BY <3>1, <3>2 DEF Reachable
  <2> QED
    BY <2>1, <2>2
<1>4. Unreplaced(view')
  <2>1. CASE n \in {20, 21, 35}
    BY <2>1 DEF Outcome, Unreplaced
  <2>2. CASE n \notin {20, 21, 35}
    <3>1. view'.job # {} => view.job # {}
      BY <2>2 DEF SavedInv, Saved, Prepared, Outcome
    <3>2. view'.strict = view.strict
      BY <2>2 DEF Outcome
    <3>3. view.oldRows = {} => view'.oldRows = {}
      BY <2>2 DEF Outcome
    <3> QED
      BY <3>1, <3>2, <3>3 DEF SavedInv, Saved, Unreplaced
  <2> QED
    BY <2>1, <2>2
<1>5. 7 \in todo' /\ 6 \notin todo' => view'.url # "legible"
  BY DEF SavedInv, Saved, Prepared, Outcome
<1>6. 20 \in todo' => view'.oldRows = {}
  BY DEF SavedInv, Saved, Prepared, Outcome
<1>7. 22 \in todo' /\ 20 \notin todo' => view'.rows = {}
  BY DEF SavedInv, Saved, Prepared, Outcome
<1>8. 23 \in todo' /\ 22 \notin todo' =>
        view'.oldRows \subseteq view'.rows /\ \A m \in todo' : m >= 23
  <2> SUFFICES ASSUME 23 \in todo', 22 \notin todo'
               PROVE  view'.oldRows \subseteq view'.rows /\ \A m \in todo' : m >= 23
    OBVIOUS
  <2>1. n = 22
    <3>1. n <= 23 /\ n # 23
      OBVIOUS
    <3>2. n # 22 => 22 \notin todo
      OBVIOUS
    <3> QED
      BY <3>1, <3>2 DEF SavedInv, Saved, Prepared
  <2> QED
    BY <1>1, <2>1 DEF Outcome
<1>9. \A m \in todo' \cap ({8} \cup 15 .. 18 \cup 27 .. 30) : view'.job # {}
  <2> SUFFICES ASSUME NEW m \in todo', m \in {8} \cup 15 .. 18 \cup 27 .. 30
               PROVE  view'.job # {}
    OBVIOUS
  <2>1. m \in todo /\ m # n /\ n < m /\ m \in 1 .. 38
    BY <1>1
  <2>2. view.job # {}
    BY <2>1 DEF SavedInv, Saved, Prepared
  <2>3. n # 20
    <3>1. Program[20].stage = "job_mirror"
      BY Stages
    <3>2. m > 20 => Program[m].stage = "job_codec"
      BY Stages
    <3> QED
      BY <1>1, <2>1, <3>1, <3>2
  <2> QED
    BY <2>2, <2>3 DEF Outcome, JobCols, Codecs, Mirror
<1>10. 31 \in todo' => "base_url" \notin view'.arr
  BY Additions DEF SavedInv, Saved, Prepared, Outcome, ArrNew, ArrCols
<1> QED
  BY <1>2, <1>3, <1>4, <1>5, <1>6, <1>7, <1>8, <1>9, <1>10 DEF Prepared

(* Where no migration is under way. *)
LEMMA IdlePrepared == ASSUME todo = {} PROVE Prepared
BY DEF Prepared

LEMMA SavedStep == SavedInv /\ [BootNext]_bootVars => SavedInv'
<1> SUFFICES ASSUME SavedInv, [BootNext]_bootVars PROVE SavedInv'
  OBVIOUS
<1>1. BootTypeOK'
  BY BootTypeStep DEF SavedInv
<1>2. CASE Boot
  <2>1. Prepared'
    BY <1>2, PlannedPrepared DEF Boot, SavedInv, Saved
  <2> QED
    BY <1>1, <1>2, <2>1 DEF Boot, SavedInv, Saved
<1>3. CASE Execute
  <2> DEFINE n == NextStatement
  <2>1. /\ n \in 1 .. 38 /\ n \in todo /\ \A m \in todo : n <= m
        /\ Program[n].stage = stage
        /\ Outcome(n, view, view')
        /\ todo' = todo \ {n}
        /\ disk' = view' \/ disk' = disk
    BY <1>3, Running DEF SavedInv
  <2>2. /\ Held(view) \subseteq Held(view')
        /\ Reachable(view) => Reachable(view')
        /\ Unreplaced(view')
        /\ Prepared'
    BY <2>1, StatementSaves
  <2> QED
    BY <1>1, <2>1, <2>2 DEF SavedInv, Saved
<1>4. CASE Commit
  <2>1. Prepared'
    <3>1. CASE stage = "create_all"
      BY <1>4, <3>1 DEF Commit, Prepared
    <3>2. CASE stage # "create_all"
      BY <1>4, <3>2, PlannedPrepared DEF Commit, SavedInv, Saved
    <3> QED
      BY <3>1, <3>2
  <2> QED
    BY <1>1, <1>4, <2>1 DEF Commit, SavedInv, Saved
<1>5. CASE BootFails \/ Die
  <2>1. todo' = {} /\ view' = disk' /\ disk' = disk
    BY <1>5 DEF BootFails, Die
  <2>2. Prepared'
    BY <2>1 DEF Prepared
  <2> QED
    BY <1>1, <2>1, <2>2 DEF SavedInv, Saved
<1>6. CASE UNCHANGED bootVars
  BY <1>1, <1>6 DEF bootVars, SavedInv, Saved, Prepared
<1> QED
  BY <1>2, <1>3, <1>4, <1>5, <1>6 DEF BootNext, BootProgress

LEMMA SavedInit == BootInit => SavedInv
<1> SUFFICES ASSUME BootInit PROVE SavedInv
  OBVIOUS
<1>1. BootTypeOK
  BY BootTypeInit
<1>2. disk.oldRows = {}
  <2>1. NoTables.oldRows = {}
    BY DEF NoTables
  <2>2. \A n \in 0 .. 7, u \in Urls : Release(n, u).oldRows = {}
    BY ReleaseFields
  <2> QED
    BY <2>1, <2>2 DEF BootInit, Files
<1>3. view = disk /\ todo = {}
  BY DEF BootInit
<1> QED
  BY <1>1, <1>2, <1>3 DEF SavedInv, Saved, Unreplaced, Prepared

LEMMA KeptInStep ==
  ASSUME SavedInv, [BootNext]_bootVars
  PROVE  /\ Held(disk) \subseteq Held(disk')
         /\ Reachable(disk) => Reachable(disk')
<1>1. disk' \in {disk, view, view'}
  BY DEF BootNext, BootProgress, Boot, Execute, Commit, BootFails, Die, bootVars
<1>2. disk' = view' => /\ Held(disk) \subseteq Held(disk')
                       /\ Reachable(disk) => Reachable(disk')
  <2>1. CASE Execute
    <3> DEFINE n == NextStatement
    <3>1. /\ n \in 1 .. 38 /\ n \in todo /\ \A m \in todo : n <= m
          /\ Program[n].stage = stage
          /\ Outcome(n, view, view')
          /\ todo' = todo \ {n}
      BY <2>1, Running DEF SavedInv
    <3>2. Held(view) \subseteq Held(view') /\ (Reachable(view) => Reachable(view'))
      BY <3>1, StatementSaves
    <3> QED
      BY <3>2 DEF SavedInv, Saved
  <2>2. CASE ~Execute
    <3>1. view' \in {view, disk}
      BY <2>2 DEF BootNext, BootProgress, Boot, Commit, BootFails, Die, bootVars
    <3> QED
      BY <3>1 DEF SavedInv, Saved
  <2> QED
    BY <2>1, <2>2
<1> QED
  BY <1>1, <1>2 DEF SavedInv, Saved

(* However often a boot is cut short, and wherever, no step loses the rows
   of the job table or the address of an instance. *)
THEOREM NothingLostHolds == BootSpec => NothingLost
<1>1. BootInit => SavedInv
  BY SavedInit
<1>2. SavedInv /\ [BootNext]_bootVars => SavedInv'
  BY SavedStep
<1>3. SavedInv /\ [BootNext]_bootVars =>
        [Held(disk) \subseteq Held(disk') /\ (Reachable(disk) => Reachable(disk'))]_bootVars
  BY KeptInStep
<1> QED
  BY <1>1, <1>2, <1>3, PTL DEF BootSpec, NothingLost

-----------------------------------------------------------------------------
(* A file that was not torn is complete once the server is up. *)

(* A table that exists has its key, and indexes go with their table. *)
Rooted(db) ==
  /\ db.arr = {} \/ "id" \in db.arr
  /\ db.node = {} \/ "id" \in db.node
  /\ db.media = {} \/ "id" \in db.media
  /\ db.job = {} \/ "id" \in db.job
  /\ db.job = {} => db.indexes = {}
  /\ db.old \/ db.oldIndexes = {}
  /\ Reachable(db)

(* Columns are added to tables that exist, and what begins is planned to end. *)
Grounded ==
  /\ \A n \in todo \cap 1 .. 5 : view.arr # {}
  /\ \A n \in todo \cap 10 .. 11 : view.node # {}
  /\ \A n \in todo \cap 12 .. 14 : view.media # {}
  /\ 34 \in todo => 33 \in todo \/ view.media # {}
  /\ \A n \in todo \cap {9, 19} : view.job # {}
  /\ 6 \in todo => "base_url" \in view.arr /\ ~open
  /\ 10 \in todo => 11 \in todo
  /\ 33 \in todo => 34 \in todo
  /\ \A n \in todo \cap 20 .. 26 : n + 1 .. 26 \subseteq todo
  /\ \A n \in todo \cap 35 .. 38 : n + 1 .. 38 \subseteq todo
  /\ \A n \in todo \cap 24 .. 26 :
       20 \in todo \/ (Program[n].name \notin view.indexes /\ \A m \in todo : m > 20)
  /\ \A n \in todo \cap 36 .. 38 : Program[n].name \notin view.indexes
  /\ \A n \in todo \cap 22 .. 26 : 21 \in todo \/ view.job # {}
  /\ \A n \in todo \cap 36 .. 38 : 35 \in todo \/ view.job # {}
  /\ open => stage \in {"arr", "job_mirror"}

GroundedInv == SavedInv /\ Rooted(disk) /\ Rooted(view) /\ Grounded

(* The last statement of the migrations up to this one. *)
Last ==
  [down |-> 0, arr |-> 7, job_node |-> 9, node_pair |-> 11, media_path |-> 12,
   media_episode |-> 14, job_mirror |-> 26, job_codec |-> 30, create_all |-> 38,
   up |-> 38]

Has(table, name) == table = {} \/ name \in table

(* There is nothing left for a statement to do. *)
Done(n, db) ==
  LET name == Program[n].name
  IN
  /\ n \in 1 .. 5 => Has(db.arr, name)
  /\ n = 7 => "base_url" \notin db.arr
  /\ n \in 10 .. 11 => Has(db.node, name)
  /\ n \in 12 .. 14 => Has(db.media, name)
  /\ n \in {8} \cup 15 .. 18 \cup 27 .. 30 => Has(db.job, name)
  /\ n = 21 => ~db.strict \/ db.job = {}
  /\ n = 31 => db.arr # {}
  /\ n = 32 => db.node # {}
  /\ n = 33 => db.media # {}
  /\ n = 35 => db.job # {}

(* The statements left make the indexes that a table lacks. *)
Indexed ==
  /\ view.media # {} => 34 \in todo \/ "ix_media_file_path" \in view.media
  /\ view.job # {} /\ ~view.strict =>
       /\ 24 \in todo \/ 38 \in todo \/ "state" \in view.indexes
       /\ 25 \in todo \/ 37 \in todo \/ "node_id" \in view.indexes
  /\ view.job # {} /\ Last[stage] >= 26 =>
       \/ 19 \in todo \/ 26 \in todo \/ 36 \in todo
       \/ "host_job_id" \in view.indexes

Whole ==
  /\ Indexed
  /\ stage = "down" => ~HalfDone(disk)
  /\ \A n \in 1 .. Last[stage] : n \in todo \/ Done(n, view)
  /\ "pair_url" \in view.node => 11 \in todo \/ "pair_api_key" \in view.node
  /\ view.old => 23 \in todo /\ \A m \in todo : m > 20

BootInv == GroundedInv /\ (~torn => Whole)

LEMMA PlannedGrounded ==
  ASSUME NEW migration, todo' = Plan(migration, view'), open' = FALSE, Rooted(view')
  PROVE  Grounded'
<1>1. \A n \in todo' : /\ n \in 1 .. 38
                       /\ Program[n].stage = migration
                       /\ Decided(Program[n], view')
  BY Domain DEF Plan
<1>2. \A n \in 1 .. 38 : Program[n].stage = migration /\ Decided(Program[n], view')
                           => n \in todo'
  BY Domain DEF Plan
<1>3. \A n \in todo' \cap 1 .. 5 : view'.arr # {}
  BY <1>1, Decisions DEF AddsArr
<1>4. \A n \in todo' \cap 10 .. 11 : view'.node # {}
  BY <1>1, Decisions DEF AddsNode
<1>5. \A n \in todo' \cap 12 .. 14 : view'.media # {}
  BY <1>1, Decisions DEF AddsMedia
<1>6. 6 \in todo' => "base_url" \in view'.arr /\ ~open'
  BY <1>1, Decisions
<1>7. 10 \in todo' => 11 \in todo'
  <2>1. Program[10].stage = "node_pair" /\ Program[11].stage = "node_pair"
    BY Stages
  <2> QED
    BY <1>1, <1>2, <2>1, Decisions DEF AddsNode
<1>8. \A n \in todo' \cap 20 .. 26 : 20 .. 26 \subseteq todo'
  <2>1. \A n \in 20 .. 26 : Program[n].stage = "job_mirror"
    BY Stages
  <2> QED
    BY <1>1, <1>2, <2>1, Decisions
<1>9. \A n \in todo' \cap 35 .. 38 : 35 .. 38 \subseteq todo' /\ view'.job = {}
  <2>1. \A n \in 35 .. 38 : Program[n].stage = "create_all"
    BY Stages
  <2> QED
    BY <1>1, <1>2, <2>1, Decisions
<1>10. 33 \in todo' \/ 34 \in todo' => 33 \in todo' /\ 34 \in todo'
  <2>1. Program[33].stage = "create_all" /\ Program[34].stage = "create_all"
    BY Stages
  <2> QED
    BY <1>1, <1>2, <2>1, Decisions
<1>11. \A n \in todo' \cap {9, 19} : view'.job # {}
  BY <1>1, Decisions DEF Indexes
<1>12. \A n \in todo' \cap 36 .. 38 : Program[n].name \notin view'.indexes
  BY <1>9 DEF Rooted
<1>13. /\ \A n \in todo' \cap 20 .. 26 : 20 \in todo' /\ 21 \in todo' /\ n + 1 .. 26 \subseteq todo'
       /\ \A n \in todo' \cap 35 .. 38 : 35 \in todo' /\ n + 1 .. 38 \subseteq todo'
  BY <1>8, <1>9
<1> QED
  BY <1>3, <1>4, <1>5, <1>6, <1>7, <1>10, <1>11, <1>12, <1>13 DEF Grounded

LEMMA StatementRooted ==
  ASSUME GroundedInv, NEW n \in 1 .. 38, n \in todo, \A m \in todo : n <= m, Outcome(n, view, view'),
         Reachable(view')
  PROVE  Rooted(view')
<1>1. view'.arr = {} \/ "id" \in view'.arr
  BY DEF GroundedInv, Rooted, Grounded, Outcome, ArrCols
<1>2. view'.node = {} \/ "id" \in view'.node
  BY DEF GroundedInv, Rooted, Grounded, Outcome, NodeCols
<1>3. view'.media = {} \/ "id" \in view'.media
  BY DEF GroundedInv, Rooted, Grounded, Outcome, MediaCols
<1>4. view'.job = {} \/ "id" \in view'.job
  BY DEF GroundedInv, Rooted, SavedInv, Saved, Prepared, Outcome, JobCols, Codecs
<1>5. view'.old \/ view'.oldIndexes = {}
  BY DEF GroundedInv, Rooted, Outcome
<1>6. view'.job = {} => view'.indexes = {}
  <2> SUFFICES ASSUME view'.job = {}, n # 20 PROVE view'.indexes = {}
    BY DEF Outcome
  <2>1. n \notin {21, 35}
    BY DEF Outcome, JobCols, Codecs
  <2>2. view.job = {}
    BY <2>1 DEF Outcome
  <2>3. n \notin {9, 19} \cup 24 .. 26 \cup 36 .. 38
    <3>1. n \notin {9, 19}
      BY <2>2 DEF GroundedInv, Grounded
    <3>2. n \in 24 .. 26 => 21 \notin todo
      BY \A m \in todo : n <= m
    <3>3. n \in 36 .. 38 => 35 \notin todo
      BY \A m \in todo : n <= m
    <3> QED
      BY <2>2, <3>1, <3>2, <3>3 DEF GroundedInv, Grounded
  <2> QED
    BY <2>2, <2>3 DEF Outcome, GroundedInv, Rooted
<1> QED
  BY <1>1, <1>2, <1>3, <1>4, <1>5, <1>6 DEF Rooted

LEMMA StatementGrounded ==
  ASSUME GroundedInv, NEW n \in 1 .. 38, n \in todo, \A m \in todo : n <= m,
         Program[n].stage = stage, Outcome(n, view, view'), todo' = todo \ {n},
         stage' = stage, open' = TRUE => open \/ n \in {6, 22}, open' \in BOOLEAN
  PROVE  Grounded'
<1>1. todo \subseteq 1 .. 38
  BY Domain DEF GroundedInv, SavedInv, BootTypeOK
<1>2. \A m \in todo' \cap 1 .. 5 : view'.arr # {}
  BY <1>1 DEF GroundedInv, Grounded, Outcome
<1>3. \A m \in todo' \cap 10 .. 11 : view'.node # {}
  BY <1>1 DEF GroundedInv, Grounded, Outcome, NodeCols
<1>4. \A m \in todo' \cap 12 .. 14 : view'.media # {}
  BY <1>1 DEF GroundedInv, Grounded, Outcome, MediaCols
<1>5. 6 \in todo' => "base_url" \in view'.arr /\ ~open'
  <2>1. 6 \in todo' => n < 6 /\ n # 6 /\ 6 \in todo
    BY <1>1
  <2> QED
    BY <2>1 DEF GroundedInv, Grounded, Outcome
<1>6. 10 \in todo' => 11 \in todo'
  BY <1>1 DEF GroundedInv, Grounded
<1>7. /\ \A m \in todo' \cap 20 .. 26 : m + 1 .. 26 \subseteq todo'
      /\ \A m \in todo' \cap 35 .. 38 : m + 1 .. 38 \subseteq todo'
  <2>1. \A m \in todo' : m \in todo /\ n < m
    BY <1>1
  <2> QED
    BY <1>1, <2>1 DEF GroundedInv, Grounded
<1>8. \A m \in todo' \cap 24 .. 26 :
        20 \in todo' \/ (Program[m].name \notin view'.indexes /\ \A k \in todo' : k > 20)
  <2> SUFFICES ASSUME NEW m \in todo', m \in 24 .. 26, 20 \notin todo'
               PROVE  Program[m].name \notin view'.indexes /\ \A k \in todo' : k > 20
    OBVIOUS
  <2>1. m \in todo /\ m # n
    OBVIOUS
  <2>2. CASE n = 20
    BY <1>1, <2>2 DEF Outcome
  <2>3. CASE n # 20
    <3>1. 20 \notin todo
      BY <2>3
    <3>2. Program[m].name \notin view.indexes /\ \A k \in todo : k > 20
      BY <2>1, <3>1 DEF GroundedInv, Grounded
    <3>3. n \in 21 .. 26
      BY <2>1, <3>2
    <3>4. n \in 24 .. 26 => Program[m].name # Program[n].name
      <4>1. m = 24 \/ m = 25 \/ m = 26
        OBVIOUS
      <4>2. n \in 24 .. 26 => n = 24 \/ n = 25 \/ n = 26
        OBVIOUS
      <4>3. /\ Program[24].name = "state" /\ Program[25].name = "node_id"
            /\ Program[26].name = "host_job_id"
        BY IndexNames
      <4> QED
        BY <2>1, <4>1, <4>2, <4>3
    <3>5. Program[m].name \notin view'.indexes
      BY <3>2, <3>3, <3>4 DEF Outcome
    <3> QED
      BY <3>2, <3>5
  <2> QED
    BY <2>2, <2>3
<1>9. open' => stage' \in {"arr", "job_mirror"}
  <2>1. Program[6].stage = "arr" /\ Program[22].stage = "job_mirror"
    BY Stages
  <2> QED
    BY <2>1 DEF GroundedInv, Grounded
<1>10. /\ 34 \in todo' => 33 \in todo' \/ view'.media # {}
       /\ 33 \in todo' => 34 \in todo'
  <2>1. /\ 34 \in todo => 33 \in todo \/ view.media # {}
        /\ 33 \in todo => 34 \in todo
    BY DEF GroundedInv, Grounded
  <2>2. n = 33 => view'.media # {}
    BY DEF Outcome, MediaCols
  <2>3. n # 33 /\ view.media # {} => view'.media # {}
    BY DEF Outcome
  <2>4. 33 \in todo' => n # 34
    OBVIOUS
  <2> QED
    BY <2>1, <2>2, <2>3, <2>4
<1>11. \A m \in todo' \cap {9, 19} : view'.job # {}
  <2> SUFFICES ASSUME NEW m \in todo', m \in {9, 19} PROVE view'.job # {}
    OBVIOUS
  <2>1. m \in todo /\ n < m
    BY <1>1
  <2>2. view.job # {} /\ n # 20
    BY <2>1 DEF GroundedInv, Grounded
  <2> QED
    BY <2>2 DEF Outcome, JobCols, Codecs
<1>12. \A m \in todo' \cap 36 .. 38 :
         /\ Program[m].name \notin view'.indexes
         /\ 35 \in todo' \/ view'.job # {}
  <2> SUFFICES ASSUME NEW m \in todo', m \in 36 .. 38
               PROVE  /\ Program[m].name \notin view'.indexes
                      /\ 35 \in todo' \/ view'.job # {}
    OBVIOUS
  <2>1. m \in todo /\ n < m /\ stage = "create_all"
    BY <1>1, Stages DEF GroundedInv, SavedInv, BootTypeOK
  <2>2. n \in 31 .. 38
    BY <2>1, Stages
  <2>3. Program[m].name \notin view.indexes /\ (35 \in todo \/ view.job # {})
    BY <2>1 DEF GroundedInv, Grounded
  <2>4. n \in 36 .. 38 => Program[m].name # Program[n].name
    <3>1. m = 36 \/ m = 37 \/ m = 38
      OBVIOUS
    <3>2. n \in 36 .. 38 => n = 36 \/ n = 37 \/ n = 38
      OBVIOUS
    <3>3. /\ Program[36].name = "host_job_id" /\ Program[37].name = "node_id"
          /\ Program[38].name = "state"
      BY IndexNames
    <3> QED
      BY <2>1, <3>1, <3>2, <3>3
  <2>5. Program[m].name \notin view'.indexes
    BY <2>2, <2>3, <2>4 DEF Outcome
  <2>6. 35 \in todo' \/ view'.job # {}
    BY <2>2, <2>3 DEF Outcome, JobCols
  <2> QED
    BY <2>5, <2>6
<1>13. \A m \in todo' \cap 22 .. 26 : 21 \in todo' \/ view'.job # {}
  <2> SUFFICES ASSUME NEW m \in todo', m \in 22 .. 26, 21 \notin todo'
               PROVE  view'.job # {}
    OBVIOUS
  <2>1. m \in todo /\ n < m
    BY <1>1
  <2>2. n # 20
    <3>1. 20 \in todo => 21 \in todo
      BY DEF GroundedInv, Grounded
    <3> QED
      BY <3>1
  <2>3. n = 21 \/ view.job # {}
    BY <2>1 DEF GroundedInv, Grounded
  <2> QED
    BY <2>2, <2>3 DEF Outcome, JobCols, Codecs
<1> QED
  BY <1>2, <1>3, <1>4, <1>5, <1>6, <1>7, <1>8, <1>9, <1>10, <1>11, <1>12, <1>13 DEF Grounded

LEMMA GroundedInit == BootInit => GroundedInv
<1> SUFFICES ASSUME BootInit PROVE GroundedInv
  OBVIOUS
<1>1. SavedInv
  BY SavedInit
<1>2. Rooted(NoTables)
  BY DEF Rooted, Reachable, NoTables
<1>3. ASSUME NEW n \in 0 .. 7, NEW u \in Urls PROVE Rooted(Release(n, u))
  BY ReleaseFields DEF Rooted, Reachable, ArrCols, NodeCols
<1>4. Rooted(disk) /\ view = disk /\ todo = {} /\ open = FALSE
  BY <1>2, <1>3 DEF BootInit, Files
<1> QED
  BY <1>1, <1>4 DEF GroundedInv, Grounded

LEMMA GroundedStep == GroundedInv /\ [BootNext]_bootVars => GroundedInv'
<1> SUFFICES ASSUME GroundedInv, [BootNext]_bootVars PROVE GroundedInv'
  OBVIOUS
<1>1. SavedInv'
  BY SavedStep DEF GroundedInv
<1>2. CASE Boot
  <2>1. Grounded'
    BY <1>2, PlannedGrounded DEF Boot, GroundedInv
  <2> QED
    BY <1>1, <1>2, <2>1 DEF Boot, GroundedInv
<1>3. CASE Execute
  <2> DEFINE n == NextStatement
  <2>1. /\ n \in 1 .. 38 /\ n \in todo /\ \A m \in todo : n <= m
        /\ Program[n].stage = stage
        /\ Outcome(n, view, view')
        /\ todo' = todo \ {n}
        /\ disk' = view' \/ disk' = disk
    BY <1>3, Running DEF GroundedInv, SavedInv
  <2>2. Reachable(view')
    BY <2>1, StatementSaves DEF GroundedInv, Rooted
  <2>3. Rooted(view')
    BY <2>1, <2>2, StatementRooted
  <2>4. Grounded'
    <3>1. open' = TRUE => open \/ n \in {6, 22}
      BY <1>3, <2>1, Kinds DEF Execute, OpensTransaction
    <3>2. stage' = stage /\ open' \in BOOLEAN
      BY <1>1, <1>3 DEF Execute, SavedInv, BootTypeOK
    <3> QED
      BY <2>1, <3>1, <3>2, StatementGrounded
  <2> QED
    BY <1>1, <2>1, <2>3, <2>4 DEF GroundedInv
<1>4. CASE Commit
  <2>1. Grounded'
    <3>1. CASE stage = "create_all"
      BY <1>4, <3>1 DEF Commit, Grounded
    <3>2. CASE stage # "create_all"
      BY <1>4, <3>2, PlannedGrounded DEF Commit, GroundedInv
    <3> QED
      BY <3>1, <3>2
  <2> QED
    BY <1>1, <1>4, <2>1 DEF Commit, GroundedInv
<1>5. CASE BootFails \/ Die
  <2>1. todo' = {} /\ view' = disk' /\ disk' = disk /\ open' = FALSE
    BY <1>5 DEF BootFails, Die
  <2>2. Grounded'
    BY <2>1 DEF Grounded
  <2> QED
    BY <1>1, <2>1, <2>2 DEF GroundedInv
<1>6. CASE UNCHANGED bootVars
  BY <1>1, <1>6 DEF bootVars, GroundedInv, Grounded
<1> QED
  BY <1>2, <1>3, <1>4, <1>5, <1>6 DEF BootNext, BootProgress

LEMMA ColumnsInPlace ==
  /\ \A n \in 1 .. 5 : Program[n].name # "base_url"
  /\ \A n \in {8} \cup 15 .. 18 : Program[n].name \in JobCols \ Codecs
<1>1. \A n \in 1 .. 5 : Program[n].name # "base_url"
  BY Additions DEF ArrNew
<1>2. Program[8].name \in JobCols \ Codecs
  BY IndexNames DEF JobCols, Codecs
<1>3. \A n \in 15 .. 18 : Program[n].name \in JobCols \ Codecs
  <2>1. \A n \in 15 .. 18 : n = 15 \/ n = 16 \/ n = 17 \/ n = 18
    OBVIOUS
  <2>2. \A n \in 15 .. 18 : Program[n].name \in Mirror
    BY <2>1, MirrorNames DEF Mirror
  <2> QED
    BY <2>2 DEF JobCols, Mirror, Codecs
<1> QED
  BY <1>1, <1>2, <1>3

(* A statement does what it is there for. *)
LEMMA StatementDoes ==
  ASSUME NEW n \in 1 .. 38, Outcome(n, view, view')
  PROVE  Done(n, view')
<1>1. /\ n = 31 => view'.arr # {}
      /\ n = 32 => view'.node # {}
      /\ n = 33 => view'.media # {}
  BY DEF Outcome, ArrCols, NodeCols, MediaCols
<1>2. n = 35 => view'.job # {}
  BY DEF Outcome, JobCols
<1> QED
  BY <1>1, <1>2 DEF Outcome, Done, Has

(* It undoes nothing of the migrations before and of its own. *)
LEMMA StatementKeepsDone ==
  ASSUME GroundedInv, NEW n \in 1 .. 38, n \in todo, \A k \in todo : n <= k,
         Outcome(n, view, view'),
         Program[n].stage = stage,
         NEW m \in 1 .. 38, m <= Last[stage], Done(m, view)
  PROVE  Done(m, view')
<1>1. /\ n \in 1 .. 7 => m <= 7
      /\ n \in 15 .. 26 => m <= 26
      /\ n \in {8} \cup 27 .. 30 => m <= 30
  <2>1. n \in 1 .. 7 => stage = "arr"
    BY Stages
  <2>2. n \in 15 .. 26 => stage = "job_mirror"
    BY Stages
  <2>3. n = 8 => stage = "job_node"
    BY Stages
  <2>4. n \in 27 .. 30 => stage = "job_codec"
    BY Stages
  <2> QED
    BY <2>1, <2>2, <2>3, <2>4 DEF Last
<1>2. ASSUME m \in 1 .. 5 PROVE Has(view'.arr, Program[m].name)
  <2>1. Program[m].name \in ArrCols /\ Program[m].name # "base_url"
    BY <1>2, Additions, ColumnsInPlace DEF ArrCols
  <2>2. view.arr = {} => n \notin 1 .. 5
    BY DEF GroundedInv, Grounded
  <2> QED
    BY <1>2, <2>1, <2>2 DEF Done, Has, Outcome
<1>3. m = 7 => "base_url" \notin view'.arr
  BY ColumnsInPlace DEF Done, Outcome, ArrCols, ArrNew
<1>4. ASSUME m \in 10 .. 11 PROVE Has(view'.node, Program[m].name)
  <2>1. Program[m].name \in NodeCols
    BY <1>4, Additions DEF NodeCols
  <2>2. view.node = {} => n \notin 10 .. 11
    BY DEF GroundedInv, Grounded
  <2> QED
    BY <1>4, <2>1, <2>2 DEF Done, Has, Outcome
<1>5. ASSUME m \in 12 .. 14 PROVE Has(view'.media, Program[m].name)
  <2>1. Program[m].name \in MediaCols
    BY <1>5, Additions
  <2>2. view.media = {} => n \notin 12 .. 14
    BY DEF GroundedInv, Grounded
  <2>3. Program[m].name # "ix_media_file_path"
    <3>1. m = 12 \/ m = 13 \/ m = 14
      BY <1>5
    <3> QED
      BY <3>1, MediaNames
  <2>4. CASE n = 33
    BY <2>1, <2>3, <2>4 DEF Has, Outcome
  <2>5. CASE n = 34
    <3>1. view.media # {}
      BY <2>5, \A k \in todo : n <= k DEF GroundedInv, Grounded
    <3> QED
      BY <1>5, <2>5, <3>1 DEF Done, Has, Outcome
  <2>6. CASE n \notin {33, 34}
    BY <1>5, <2>1, <2>2, <2>6 DEF Done, Has, Outcome
  <2> QED
    BY <2>4, <2>5, <2>6
<1>6. ASSUME m \in {8} \cup 15 .. 18 \cup 27 .. 30 PROVE Has(view'.job, Program[m].name)
  <2>1. Program[m].name \in JobCols
    BY <1>6, Additions
  <2>2. n = 21 => Program[m].name \in JobCols \ Codecs
    BY <1>1, <1>6, ColumnsInPlace
  <2>3. view.job = {} => n \notin {8} \cup 15 .. 18 \cup 27 .. 30
    BY DEF GroundedInv, SavedInv, Saved, Prepared
  <2> QED
    BY <1>6, <2>1, <2>2, <2>3 DEF Done, Has, Outcome
<1>7. ASSUME m = 21 PROVE ~view'.strict \/ view'.job = {}
  <2>1. view.job = {} => n \notin {8} \cup 15 .. 18 \cup 27 .. 30
    BY DEF GroundedInv, SavedInv, Saved, Prepared
  <2> QED
    BY <1>7, <2>1 DEF Done, Outcome
<1>8. /\ m = 31 => view'.arr # {}
      /\ m = 32 => view'.node # {}
      /\ m = 33 => view'.media # {}
  <2>1. m \in 31 .. 33 => n \notin 1 .. 7
    BY <1>1
  <2> QED
    BY <2>1 DEF Done, Outcome, ArrCols, NodeCols, MediaCols
<1>9. ASSUME m = 35 PROVE view'.job # {}
  <2>1. n \notin {20, 21}
    BY <1>1, <1>9
  <2> QED
    BY <1>9, <2>1 DEF Done, Outcome, JobCols
<1> QED
  BY <1>2, <1>3, <1>4, <1>5, <1>6, <1>7, <1>8, <1>9 DEF Done

(* What a migration does not plan is not left to do. *)
LEMMA UnplannedDone ==
  ASSUME NEW migration, NEW db, NEW n \in 1 .. 38, Program[n].stage = migration,
         n \notin Plan(migration, db),
         "address" \in db.arr => ArrNew \subseteq db.arr,
         "pair_url" \in db.node => "pair_api_key" \in db.node
  PROVE  Done(n, db)
<1>1. ~Decided(Program[n], db)
  BY Domain DEF Plan
<1>2. n \in 1 .. 5 => Has(db.arr, Program[n].name)
  BY <1>1, Decisions, Additions DEF AddsArr, Has
<1>3. n \in 10 .. 11 => Has(db.node, Program[n].name)
  BY <1>1, Decisions, Additions DEF AddsNode, Has, PairNew
<1>4. n \in 12 .. 14 => Has(db.media, Program[n].name)
  BY <1>1, Decisions DEF AddsMedia, Has
<1>5. n \in {8} \cup 15 .. 18 \cup 27 .. 30 => Has(db.job, Program[n].name)
  BY <1>1, Decisions DEF AddsJob, Has
<1>6. /\ n = 7 => "base_url" \notin db.arr
      /\ n = 21 => ~db.strict \/ db.job = {}
      /\ n = 31 => db.arr # {}
      /\ n = 32 => db.node # {}
      /\ n = 33 => db.media # {}
      /\ n = 35 => db.job # {}
  BY <1>1, Decisions
<1> QED
  BY <1>2, <1>3, <1>4, <1>5, <1>6 DEF Done

(* The statements that add columns add all that are new. *)
LEMMA AllAdded ==
  ASSUME NEW table
  PROVE  /\ (\A n \in 1 .. 5 : Program[n].name \in table) => ArrNew \subseteq table
         /\ (\A n \in 10 .. 11 : Program[n].name \in table) => PairNew \subseteq table
         /\ (\A n \in 12 .. 14 : Program[n].name \in table) =>
              {"arr_original_path"} \cup Episode \subseteq table
         /\ (\A n \in 15 .. 18 : Program[n].name \in table) => Mirror \subseteq table
         /\ (\A n \in 27 .. 30 : Program[n].name \in table) => Codecs \subseteq table
<1>1. ASSUME \A n \in 1 .. 5 : Program[n].name \in table PROVE ArrNew \subseteq table
  <2>1. /\ Program[1].name \in table /\ Program[2].name \in table /\ Program[3].name \in table
        /\ Program[4].name \in table /\ Program[5].name \in table
    BY <1>1
  <2>2. /\ "address" \in table /\ "port" \in table /\ "base_path" \in table
        /\ "use_ssl" \in table /\ "http_timeout" \in table
    BY <2>1, ArrNames
  <2> QED
    BY <2>2 DEF ArrNew
<1>2. ASSUME \A n \in 10 .. 11 : Program[n].name \in table PROVE PairNew \subseteq table
  <2>1. /\ Program[10].name \in table /\ Program[11].name \in table
    BY <1>2
  <2>2. /\ "pair_url" \in table /\ "pair_api_key" \in table
    BY <2>1, NodeNames
  <2> QED
    BY <2>2 DEF PairNew
<1>3. ASSUME \A n \in 12 .. 14 : Program[n].name \in table PROVE {"arr_original_path"} \cup Episode \subseteq table
  <2>1. /\ Program[12].name \in table /\ Program[13].name \in table /\ Program[14].name \in table
    BY <1>3
  <2>2. /\ "arr_original_path" \in table /\ "season_number" \in table /\ "episode_number" \in table
    BY <2>1, MediaNames
  <2> QED
    BY <2>2 DEF Episode
<1>4. ASSUME \A n \in 15 .. 18 : Program[n].name \in table PROVE Mirror \subseteq table
  <2>1. /\ Program[15].name \in table /\ Program[16].name \in table /\ Program[17].name \in table
        /\ Program[18].name \in table
    BY <1>4
  <2>2. /\ "host_job_id" \in table /\ "display_title" \in table /\ "source_path" \in table
        /\ "node_name" \in table
    BY <2>1, MirrorNames
  <2> QED
    BY <2>2 DEF Mirror
<1>5. ASSUME \A n \in 27 .. 30 : Program[n].name \in table PROVE Codecs \subseteq table
  <2>1. /\ Program[27].name \in table /\ Program[28].name \in table /\ Program[29].name \in table
        /\ Program[30].name \in table
    BY <1>5
  <2>2. /\ "source_video_codec" \in table /\ "source_audio_codec" \in table /\ "target_video_codec" \in table
        /\ "target_audio_codec" \in table
    BY <2>1, CodecNames
  <2> QED
    BY <2>2 DEF Codecs
<1> QED
  BY <1>1, <1>2, <1>3, <1>4, <1>5

(* With the statements of its migrations done, the file is not half done. *)
LEMMA NotHalfDone ==
  ASSUME NEW db, \A n \in 1 .. 5 : Done(n, db),
         "pair_url" \in db.node => "pair_api_key" \in db.node, ~db.old,
         db.media # {} => "ix_media_file_path" \in db.media,
         db.job # {} /\ ~db.strict => {"state", "node_id"} \subseteq db.indexes
  PROVE  ~HalfDone(db)
<1>1. "address" \in db.arr => \A n \in 1 .. 5 : Program[n].name \in db.arr
  BY DEF Done, Has
<1>2. "address" \in db.arr => ArrNew \subseteq db.arr
  BY <1>1, AllAdded
<1> QED
  BY <1>2 DEF HalfDone, PairNew

(* A boot that fails leaves no half of a migration. *)
LEMMA FailureLeavesWhole ==
  ASSUME GroundedInv, Whole, BootFails
  PROVE  ~HalfDone(disk)
<1> DEFINE n == NextStatement
<1>1. /\ todo \subseteq 1 .. 38 /\ todo # {}
      /\ \A m \in todo : Program[m].stage = stage
      /\ Fails(Program[n], view)
  BY Domain DEF BootFails, GroundedInv, SavedInv, BootTypeOK
<1>2. n \in todo /\ \A m \in todo : n <= m
  BY <1>1, FirstLeft, Domain
<1>3. n \in 1 .. 38 /\ Program[n].stage = stage
  BY <1>1, <1>2
<1> HIDE DEF n
<1>4. n = 6 \/ NameTaken(Program[n], view)
  BY <1>1, <1>3, Kinds DEF Fails
<1>5. NameTaken(Program[n], view) => n \in 24 .. 26 \cup 36 .. 38
  BY <1>3, Kinds DEF NameTaken
<1>6. ~NameTaken(Program[n], view)
  <2> SUFFICES ASSUME n \in 24 .. 26 \cup 36 .. 38 PROVE ~NameTaken(Program[n], view)
    BY <1>5
  <2>1. 20 \notin todo /\ 23 \notin todo
    BY <1>2
  <2>2. Program[n].name \notin view.indexes
    BY <1>2, <2>1 DEF GroundedInv, Grounded
  <2>3. view.oldIndexes = {}
    BY <2>1 DEF Whole, GroundedInv, Rooted
  <2> QED
    BY <2>2, <2>3 DEF NameTaken
<1>7. n = 6 /\ stage = "arr"
  BY <1>3, <1>4, <1>6, Stages
<1>8. \A m \in todo : m \in 6 .. 7
  BY <1>1, <1>2, <1>7, Stages
<1>9. disk = view
  BY <1>2, <1>7 DEF GroundedInv, Grounded, SavedInv, BootTypeOK
<1>10. \A m \in 1 .. 5 : Done(m, view)
  BY <1>7, <1>8 DEF Whole, Last
<1>11. /\ "pair_url" \in view.node => "pair_api_key" \in view.node
       /\ ~view.old
       /\ view.media # {} => "ix_media_file_path" \in view.media
       /\ view.job # {} /\ ~view.strict => {"state", "node_id"} \subseteq view.indexes
  BY <1>8 DEF Whole, Indexed
<1> QED
  BY <1>9, <1>10, <1>11, NotHalfDone

LEMMA WholeInit == BootInit => Whole
<1> SUFFICES ASSUME BootInit PROVE Whole
  OBVIOUS
<1>1. ~HalfDone(NoTables)
  BY DEF HalfDone, NoTables
<1>2. ASSUME NEW n \in 0 .. 7, NEW u \in Urls PROVE ~HalfDone(Release(n, u))
  BY ReleaseFields DEF HalfDone, ArrCols, NodeCols, ArrNew
<1>3. ~HalfDone(disk)
  BY <1>1, <1>2 DEF BootInit, Files
<1>4. view = disk /\ stage = "down"
  BY DEF BootInit
<1> QED
  BY <1>3, <1>4 DEF Whole, Indexed, Last, HalfDone, PairNew

(* A table that is made has its indexes made after it. *)
LEMMA StatementIndexes ==
  ASSUME GroundedInv, Whole, NEW n \in 1 .. 38, n \in todo, \A m \in todo : n <= m,
         Program[n].stage = stage, Outcome(n, view, view'), todo' = todo \ {n},
         stage' = stage
  PROVE  Indexed'
<1>1. view'.media # {} => 34 \in todo' \/ "ix_media_file_path" \in view'.media
  <2>1. CASE n = 33
    BY <2>1 DEF GroundedInv, Grounded
  <2>2. CASE n = 34
    BY <2>2, MediaNames DEF Outcome
  <2>3. CASE n \notin {33, 34}
    <3>1. view'.media # {} => view.media # {}
      BY <2>3 DEF GroundedInv, Grounded, Outcome
    <3>2. view.media \subseteq view'.media
      BY <2>3 DEF Outcome
    <3> QED
      BY <2>3, <3>1, <3>2 DEF Whole, Indexed
  <2> QED
    BY <2>1, <2>2, <2>3
<1>2. CASE n = 20
  BY <1>1, <1>2 DEF Outcome, Indexed
<1>3. CASE n = 21
  <2>1. 24 \in todo' /\ 25 \in todo' /\ 26 \in todo'
    BY <1>3 DEF GroundedInv, Grounded
  <2> QED
    BY <1>1, <2>1 DEF Indexed
<1>4. CASE n = 35
  <2>1. 36 \in todo' /\ 37 \in todo' /\ 38 \in todo'
    BY <1>4 DEF GroundedInv, Grounded
  <2> QED
    BY <1>1, <2>1 DEF Indexed
<1>5. CASE n \notin {20, 21, 35}
  <2>1. view'.job # {} => view.job # {}
    BY <1>5 DEF GroundedInv, SavedInv, Saved, Prepared, Outcome
  <2>2. view'.strict = view.strict
    BY <1>5 DEF Outcome
  <2>3. view.indexes \subseteq view'.indexes
    BY <1>5 DEF Outcome
  <2>4. /\ n \in {24, 38} => "state" \in view'.indexes
        /\ n \in {25, 37} => "node_id" \in view'.indexes
        /\ n \in {26, 36} => "host_job_id" \in view'.indexes
    BY IndexNames DEF Outcome
  <2>5. n = 19 => "host_job_id" \in view'.indexes
    <3> SUFFICES ASSUME n = 19 PROVE "host_job_id" \in view'.indexes
      OBVIOUS
    <3>1. view.oldIndexes = {}
      BY DEF Whole, GroundedInv, Rooted
    <3> QED
      BY <3>1, IndexNames DEF Outcome
  <2> QED
    BY <1>1, <2>1, <2>2, <2>3, <2>4, <2>5 DEF Whole, Indexed
<1> QED
  BY <1>2, <1>3, <1>4, <1>5

LEMMA WholeStep ==
  ASSUME BootInv, [BootNext]_bootVars, ~torn'
  PROVE  Whole'
<1>1. GroundedInv' /\ SavedInv /\ BootTypeOK /\ BootTypeOK'
  BY GroundedStep DEF BootInv, GroundedInv, SavedInv
<1>2. ~torn /\ Whole
  BY <1>1 DEF BootInv, BootNext, BootProgress, Boot, Execute, Commit, BootFails,
              Die, bootVars, BootTypeOK
<1>3. CASE Boot
  <2>1. ~HalfDone(view') /\ stage' = "arr" /\ todo' = Plan("arr", view')
    BY <1>2, <1>3 DEF Boot, Whole
  <2>2. /\ "address" \in view'.arr => ArrNew \subseteq view'.arr
        /\ "pair_url" \in view'.node => "pair_api_key" \in view'.node
        /\ ~view'.old
        /\ Indexed'
    BY <2>1 DEF HalfDone, PairNew, Indexed, Last
  <2>3. \A n \in 1 .. 7 : n \in todo' \/ Done(n, view')
    <3>1. \A n \in 1 .. 7 : Program[n].stage = "arr"
      BY Stages
    <3> QED
      BY <2>1, <2>2, <3>1, UnplannedDone
  <2> QED
    BY <2>1, <2>2, <2>3 DEF Whole, Last
<1>4. CASE Execute
  <2> DEFINE n == NextStatement
  <2>1. /\ n \in 1 .. 38 /\ n \in todo /\ \A m \in todo : n <= m
        /\ Program[n].stage = stage
        /\ Outcome(n, view, view')
        /\ todo' = todo \ {n}
    BY <1>1, <1>4, Running
  <2>2. stage' = stage /\ stage \in Migrating
    BY <1>4 DEF Execute
  <2> HIDE DEF n
  <2>3. ASSUME NEW m \in 1 .. Last[stage], m \notin todo' PROVE Done(m, view')
    <3>1. m \in 1 .. 38 /\ m <= Last[stage]
      BY <2>2 DEF Migrating, Last
    <3>2. CASE m = n
      BY <2>1, <3>2, StatementDoes
    <3>3. CASE m # n
      <4>1. Done(m, view)
        BY <1>2, <2>1, <2>3, <3>3 DEF Whole
      <4> QED
        BY <2>1, <3>1, <4>1, StatementKeepsDone DEF BootInv
    <3> QED
      BY <3>2, <3>3
  <2>4. "pair_url" \in view'.node => 11 \in todo' \/ "pair_api_key" \in view'.node
    <3>1. CASE n = 11
      <4>1. Program[11].name = "pair_api_key"
        BY NodeNames
      <4> QED
        BY <2>1, <3>1, <4>1 DEF Outcome
    <3>2. CASE n = 10
      BY <2>1, <3>2 DEF BootInv, GroundedInv, Grounded
    <3>3. CASE n = 32
      BY <1>2, <2>1, <3>3 DEF Whole, Outcome, NodeCols, PairNew
    <3>4. CASE n \notin {10, 11, 32}
      BY <1>2, <2>1, <3>4 DEF Whole, Outcome
    <3> QED
      BY <3>1, <3>2, <3>3, <3>4
  <2>5. view'.old => 23 \in todo' /\ \A m \in todo' : m > 20
    <3>1. CASE n = 20
      <4>1. 23 \in todo
        BY <2>1, <3>1 DEF BootInv, GroundedInv, Grounded
      <4>2. \A m \in todo' : m > 20
        BY <1>1, <2>1, <3>1, Domain DEF BootTypeOK
      <4> QED
        BY <2>1, <3>1, <4>1, <4>2
    <3>2. CASE n = 23
      BY <2>1, <3>2 DEF Outcome
    <3>3. CASE n \notin {20, 23}
      BY <1>2, <2>1, <3>3 DEF Whole, Outcome
    <3> QED
      BY <3>1, <3>2, <3>3
  <2>6. Indexed'
    BY <1>2, <2>1, <2>2, StatementIndexes DEF BootInv, Whole
  <2> QED
    BY <2>2, <2>3, <2>4, <2>5, <2>6 DEF Whole, Migrating
<1>5. CASE Commit
  <2>1. todo = {} /\ view' = view /\ stage \in Migrating /\ stage' = Follower[stage]
    BY <1>5 DEF Commit
  <2>2. stage' # "down"
    BY <2>1 DEF Migrating, Follower
  <2>3. \A m \in 1 .. Last[stage] : Done(m, view)
    BY <1>2, <2>1 DEF Whole
  <2>4. \A m \in 1 .. 5 : m <= Last[stage] /\ Done(m, view)
    BY <2>1, <2>3 DEF Migrating, Last
  <2>5. /\ "address" \in view.arr => ArrNew \subseteq view.arr
        /\ "pair_url" \in view.node => "pair_api_key" \in view.node
        /\ ~view.old
    <3>1. /\ view.media # {} => "ix_media_file_path" \in view.media
          /\ view.job # {} /\ ~view.strict => {"state", "node_id"} \subseteq view.indexes
      BY <1>2, <2>1 DEF Whole, Indexed
    <3> QED
      BY <1>2, <2>1, <2>4, <3>1, NotHalfDone DEF Whole, HalfDone
  <2>6. ASSUME NEW m \in 1 .. Last[stage'], m \notin todo' PROVE Done(m, view')
    <3>1. CASE m <= Last[stage]
      BY <2>1, <2>3, <3>1
    <3>2. CASE ~(m <= Last[stage])
      <4>1. m \in 1 .. 38 /\ Program[m].stage = stage' /\ stage # "create_all"
        <5>1. m \in 1 .. 38
          BY <2>1 DEF Migrating, Follower, Last
        <5>2. stage # "create_all"
          BY <2>1, <3>2 DEF Follower, Last
        <5>3. Program[m].stage = stage'
          BY <2>1, <3>2, <5>1, Stages DEF Migrating, Follower, Last
        <5> QED
          BY <5>1, <5>2, <5>3
      <4>2. m \notin Plan(stage', view')
        BY <1>5, <2>1, <2>6, <4>1 DEF Commit
      <4> QED
        BY <2>1, <2>5, <4>1, <4>2, UnplannedDone
    <3> QED
      BY <3>1, <3>2
  <2>7. Indexed'
    <3>1. /\ view.media # {} => "ix_media_file_path" \in view.media
          /\ view.job # {} /\ ~view.strict => {"state", "node_id"} \subseteq view.indexes
          /\ view.job # {} /\ Last[stage] >= 26 => "host_job_id" \in view.indexes
      BY <1>2, <2>1 DEF Whole, Indexed
    <3>2. Last[stage'] >= 26 => Last[stage] >= 26 \/ stage = "media_episode"
      BY <2>1 DEF Migrating, Follower, Last
    <3>3. stage = "media_episode" /\ view.job # {} => 19 \in todo'
      <4> SUFFICES ASSUME stage = "media_episode", view.job # {} PROVE 19 \in todo'
        OBVIOUS
      <4>1. stage' = "job_mirror" /\ todo' = Plan("job_mirror", view)
        BY <1>5, <2>1 DEF Commit, Follower
      <4>2. Program[19].stage = "job_mirror"
        BY Stages
      <4>3. Decided(Program[19], view)
        BY <4>2, Decisions DEF Indexes
      <4> QED
        BY <4>1, <4>2, <4>3, Domain DEF Plan
    <3> QED
      BY <2>1, <3>1, <3>2, <3>3 DEF Indexed
  <2> QED
    BY <2>1, <2>2, <2>5, <2>6, <2>7 DEF Whole
<1>6. CASE BootFails \/ Die
  <2>1. /\ todo' = {} /\ view' = disk /\ disk' = disk /\ stage' = "down"
    BY <1>6 DEF BootFails, Die
  <2>2. ~HalfDone(disk)
    <3>1. CASE BootFails
      BY <1>2, <3>1, FailureLeavesWhole DEF BootInv
    <3>2. CASE Die
      BY <3>2 DEF Die
    <3> QED
      BY <1>6, <3>1, <3>2
  <2> QED
    BY <2>1, <2>2 DEF Whole, Indexed, Last, HalfDone, PairNew
<1>7. CASE UNCHANGED bootVars
  BY <1>2, <1>7 DEF bootVars, Whole, Indexed
<1> QED
  BY <1>3, <1>4, <1>5, <1>6, <1>7 DEF BootNext, BootProgress

LEMMA WholeWhenUp ==
  ASSUME BootInv
  PROVE  CompleteOnceUp
<1> SUFFICES ASSUME stage = "up", ~torn PROVE Complete(disk)
  BY DEF CompleteOnceUp
<1>1. /\ Whole /\ Rooted(view) /\ view \in FileType /\ BootTypeOK
      /\ open => stage \in {"arr", "job_mirror"}
  BY DEF BootInv, GroundedInv, Grounded, SavedInv, BootTypeOK
<1>2. todo = {}
  <2>1. \A n \in todo : n \in 1 .. 38 /\ Program[n].stage = "up"
    BY <1>1, Domain DEF BootTypeOK
  <2>2. \A n \in 1 .. 38 : Program[n].stage \in Migrating
    BY Stages
  <2> QED
    BY <2>1, <2>2 DEF Migrating
<1>3. disk = view
  BY <1>1 DEF BootTypeOK
<1>4. \A n \in 1 .. 38 : Done(n, view)
  BY <1>1, <1>2 DEF Whole, Last
<1>5. view.arr # {} /\ view.node # {} /\ view.media # {} /\ view.job # {}
  BY <1>4 DEF Done
<1>6. view.arr = ArrCols
  <2>1. \A n \in 1 .. 5 : Program[n].name \in view.arr
    BY <1>4, <1>5 DEF Done, Has
  <2>2. ArrNew \subseteq view.arr
    BY <2>1, AllAdded
  <2>3. "base_url" \notin view.arr
    BY <1>4 DEF Done
  <2>4. view.arr \subseteq ArrCols \cup {"base_url"} /\ "id" \in view.arr
    BY <1>1, <1>5 DEF Rooted, FileType
  <2> QED
    BY <2>2, <2>3, <2>4 DEF ArrCols
<1>7. view.url # "legible"
  BY <1>1, <1>6 DEF Rooted, Reachable, ArrCols, ArrNew
<1>8. view.node = NodeCols
  <2>1. \A n \in 10 .. 11 : Program[n].name \in view.node
    BY <1>4, <1>5 DEF Done, Has
  <2>2. PairNew \subseteq view.node
    BY <2>1, AllAdded
  <2>3. view.node \subseteq NodeCols /\ "id" \in view.node
    BY <1>1, <1>5 DEF Rooted, FileType
  <2> QED
    BY <2>2, <2>3 DEF NodeCols
<1>9. view.media = MediaCols
  <2>1. \A n \in 12 .. 14 : Program[n].name \in view.media
    BY <1>4, <1>5 DEF Done, Has
  <2>2. {"arr_original_path"} \cup Episode \subseteq view.media
    BY <2>1, AllAdded
  <2>3. view.media \subseteq MediaCols /\ "id" \in view.media
    BY <1>1, <1>5 DEF Rooted, FileType
  <2>4. "ix_media_file_path" \in view.media
    BY <1>1, <1>2, <1>5 DEF Whole, Indexed
  <2> QED
    BY <2>2, <2>3, <2>4 DEF MediaCols
<1>10. view.job = JobCols
  <2>1. \A n \in {8} \cup 15 .. 18 \cup 27 .. 30 : Program[n].name \in view.job
    BY <1>4, <1>5 DEF Done, Has
  <2>2. Mirror \subseteq view.job
    BY <2>1, AllAdded
  <2>3. Codecs \subseteq view.job
    BY <2>1, AllAdded
  <2>4. "node_id" \in view.job
    BY <2>1, IndexNames
  <2>5. view.job \subseteq JobCols /\ "id" \in view.job
    BY <1>1, <1>5 DEF Rooted, FileType
  <2> QED
    BY <2>2, <2>3, <2>4, <2>5 DEF JobCols
<1>11. ~view.strict /\ ~view.old
  BY <1>1, <1>2, <1>4, <1>5 DEF Done, Whole
<1>12. view.indexes = JobIndexes
  <2>1. JobIndexes \subseteq view.indexes
    BY <1>1, <1>2, <1>5, <1>11 DEF Whole, Indexed, JobIndexes, Last
  <2>2. view.indexes \subseteq JobIndexes
    BY <1>1 DEF FileType
  <2> QED
    BY <2>1, <2>2
<1> QED
  BY <1>3, <1>6, <1>7, <1>8, <1>9, <1>10, <1>11, <1>12 DEF Complete

(* Whatever release the file is of, and however often its boot was cut short
   where a later boot can tell, a server that is up has the present schema. *)
THEOREM CompleteOnceUpHolds == BootSpec => []CompleteOnceUp
<1>1. BootInit => BootInv
  BY GroundedInit, WholeInit DEF BootInv
<1>2. BootInv /\ [BootNext]_bootVars => BootInv'
  BY GroundedStep, WholeStep DEF BootInv
<1>3. BootInv => CompleteOnceUp
  BY WholeWhenUp
<1> QED
  BY <1>1, <1>2, <1>3, PTL DEF BootSpec
=============================================================================

---------------------------- MODULE Migrations -----------------------------
(***************************************************************************)
(* The database file when a process boots: init_db (db.py) brings the      *)
(* schema of an earlier release up to date, statement by statement, and a  *)
(* process that dies between two of them leaves the file as it is.         *)
(*                                                                         *)
(* Python's sqlite3 opens a transaction before an INSERT or UPDATE only: a *)
(* DDL statement is on disk at once, unless it follows one of those in the *)
(* same migration, and is then on disk with its commit.  Each migration    *)
(* reads table_info when it starts and decides then what it will do.       *)
(*                                                                         *)
(* A table is the set of those of its columns that migrations read, add or *)
(* remove, the empty set if it does not exist; that of media_file has its  *)
(* unique index among them.  The rows that the job table has at the first  *)
(* boot are one token, and one instance stands for those of arr_instance.  *)
(* Tables that no migration touches are left out.                          *)
(***************************************************************************)
EXTENDS Naturals, FiniteSets

CONSTANTS
  MaxCrashes   (* Bounds how often a process is cut short.                 *)

ASSUME CrashesAssumption == MaxCrashes \in Nat

VARIABLES
  disk,    (* What the file holds.                                         *)
  view,    (* What the booting process sees: the disk and its transaction. *)
  open,    (* Its transaction is open.                                     *)
  stage,   (* "down", the migration it is in, or "up".                     *)
  todo,    (* The statements that migration has still to run.              *)
  crashes, (* How often a process was cut short.                           *)
  torn     (* History: one was, at a point the next boot cannot tell.      *)

bootVars == <<disk, view, open, stage, todo, crashes, torn>>

(* Columns of the present schema, by table. *)
ArrNew    == {"address", "port", "base_path", "use_ssl", "http_timeout"}
PairNew   == {"pair_url", "pair_api_key"}
Episode   == {"season_number", "episode_number"}
Mirror    == {"host_job_id", "display_title", "source_path", "node_name"}
Codecs    == {"source_video_codec", "source_audio_codec",
              "target_video_codec", "target_audio_codec"}
ArrCols   == {"id"} \cup ArrNew
NodeCols  == {"id"} \cup PairNew
MediaCols == {"id", "arr_original_path", "ix_media_file_path"} \cup Episode
JobCols   == {"id", "node_id"} \cup Mirror \cup Codecs

(* The indexes of the job table. *)
JobIndexes == {"state", "node_id", "host_job_id"}

-----------------------------------------------------------------------------
(* The files a boot may find: none, or that of an earlier release.  Release
   n has what the first n migrations of init_db lead to.  "strict" is the
   NOT NULL of job.media_file_id.  "url" says of the instance that the
   columns replacing base_url are "filled" in (or there is nothing to fill),
   or else what urlparse makes of its base_url: "legible", "hostless" (no
   host in it), or "badport" (its port is no number up to 65535). *)

NoTables ==
  [arr |-> {}, url |-> "filled", node |-> {}, media |-> {}, job |-> {},
   strict |-> FALSE, rows |-> {}, indexes |-> {},
   old |-> FALSE, oldRows |-> {}, oldIndexes |-> {}]

Release(n, url) ==
  [NoTables EXCEPT
    !.arr       = IF n >= 1 THEN ArrCols ELSE {"id", "base_url"},
    !.url       = IF n >= 1 THEN "filled" ELSE url,
    !.node      = IF n >= 3 THEN NodeCols ELSE IF n = 2 THEN {"id"} ELSE {},
    !.media     = {"id", "ix_media_file_path"}
                         \cup (IF n >= 4 THEN {"arr_original_path"} ELSE {})
                         \cup (IF n >= 5 THEN Episode ELSE {}),
    !.job       = {"id"} \cup (IF n >= 2 THEN {"node_id"} ELSE {})
                         \cup (IF n >= 6 THEN Mirror ELSE {})
                         \cup (IF n >= 7 THEN Codecs ELSE {}),
    !.strict    = n < 6,
    !.rows      = {"rows"},
    !.indexes   = {"state"} \cup (IF n >= 2 THEN {"node_id"} ELSE {})
                            \cup (IF n >= 6 THEN {"host_job_id"} ELSE {})]

Urls  == {"filled", "legible", "hostless", "badport"}
Files == {NoTables} \cup {Release(n, url) : n \in 0 .. 7, url \in Urls}

-----------------------------------------------------------------------------
(* The statements of init_db in their order, each with its migration, what
   it does, and the column or index it is about.  create_all makes each
   table and then each of its indexes; SQLAlchemy keeps the indexes of a
   table in a set, and their order here is one of the orders it may take. *)

St(migration, op, name) == [stage |-> migration, op |-> op, name |-> name]

Program ==
  <<St("arr", "add_arr", "address"), St("arr", "add_arr", "port"),
    St("arr", "add_arr", "base_path"), St("arr", "add_arr", "use_ssl"),
    St("arr", "add_arr", "http_timeout"),
    St("arr", "backfill", ""), St("arr", "drop_url", ""),
    St("job_node", "add_job", "node_id"), St("job_node", "index_if", "node_id"),
    St("node_pair", "add_node", "pair_url"), St("node_pair", "add_node", "pair_api_key"),
    St("media_path", "add_media", "arr_original_path"),
    St("media_episode", "add_media", "season_number"),
    St("media_episode", "add_media", "episode_number"),
    St("job_mirror", "add_job", "host_job_id"), St("job_mirror", "add_job", "display_title"),
    St("job_mirror", "add_job", "source_path"), St("job_mirror", "add_job", "node_name"),
    St("job_mirror", "index_if", "host_job_id"),
    St("job_mirror", "rename", ""), St("job_mirror", "recreate", ""),
    St("job_mirror", "copy", ""), St("job_mirror", "drop_old", ""),
    St("job_mirror", "index", "state"), St("job_mirror", "index", "node_id"),
    St("job_mirror", "index", "host_job_id"),
    St("job_codec", "add_job", "source_video_codec"),
    St("job_codec", "add_job", "source_audio_codec"),
    St("job_codec", "add_job", "target_video_codec"),
    St("job_codec", "add_job", "target_audio_codec"),
    St("create_all", "arr_table", ""), St("create_all", "node_table", ""),
    St("create_all", "media_table", ""),
    St("create_all", "media_index", "ix_media_file_path"),
    St("create_all", "job_table", ""),
    St("create_all", "index", "host_job_id"), St("create_all", "index", "node_id"),
    St("create_all", "index", "state")>>

Migrating == {"arr", "job_node", "node_pair", "media_path", "media_episode",
              "job_mirror", "job_codec", "create_all"}

Follower ==
  [arr |-> "job_node", job_node |-> "node_pair", node_pair |-> "media_path",
   media_path |-> "media_episode", media_episode |-> "job_mirror",
   job_mirror |-> "job_codec", job_codec |-> "create_all", create_all |-> "up"]

-----------------------------------------------------------------------------
(* Mutants of the definitions below: the slips the properties must notice. *)

(* The episode columns are not looked up one by one. *)
AddsMedia_ByFirst(st, db) ==
  /\ db.media # {}
  /\ IF st.stage = "media_episode" THEN "season_number" \notin db.media
     ELSE st.name \notin db.media

(* The rows are not copied into a table that is made anew. *)
Copied_Nothing(db) == {}

(* IF NOT EXISTS is not heeded. *)
NameTaken_Strict(st, db) ==
  st.op \in {"index", "index_if"} /\ st.name \in db.indexes \cup db.oldIndexes

-----------------------------------------------------------------------------
(* What a migration decides when it has read table_info *)

(* address stands for the five columns of its migration, pair_url for two. *)
AddsArr(st, db)   == db.arr # {} /\ "address" \notin db.arr
AddsNode(st, db)  == db.node # {} /\ "pair_url" \notin db.node
AddsMedia(st, db) == db.media # {} /\ st.name \notin db.media
AddsJob(st, db)   == db.job # {} /\ st.name \notin db.job

(* ix_job_node_id is made with its column, ix_job_host_job_id in any case. *)
Indexes(st, db) ==
  /\ db.job # {}
  /\ st.stage = "job_node" => "node_id" \notin db.job

Decided(st, db) ==
  \/ st.op = "add_arr" /\ AddsArr(st, db)
  \/ st.op = "backfill" /\ "base_url" \in db.arr /\ db.url # "filled"
  \/ st.op = "drop_url" /\ "base_url" \in db.arr
  \/ st.op = "add_node" /\ AddsNode(st, db)
  \/ st.op = "add_media" /\ AddsMedia(st, db)
  \/ st.op = "add_job" /\ AddsJob(st, db)
  \/ st.op = "index_if" /\ Indexes(st, db)
  \/ st.op = "arr_table" /\ db.arr = {}
  \/ st.op = "node_table" /\ db.node = {}
  \/ st.op \in {"media_table", "media_index"} /\ db.media = {}
  \/ st.op \notin {"add_job", "index_if"} /\ st.stage = "job_mirror"
       /\ db.job # {} /\ db.strict
  \/ st.op \in {"job_table", "index"} /\ st.stage = "create_all" /\ db.job = {}

(* Mutant: what all migrations will do is decided when the first starts. *)
Plan_Ahead(migration, db) ==
  {n \in DOMAIN Program : migration = "arr" /\ Decided(Program[n], db)}

Plan(migration, db) ==
  {n \in DOMAIN Program : Program[n].stage = migration /\ Decided(Program[n], db)}

-----------------------------------------------------------------------------
(* What a statement does, and what stops it.  Names of indexes are unique
   in the file, and a table that is renamed keeps its indexes. *)

Copied(db) == db.oldRows

Effect(st, db) ==
  CASE st.op = "add_arr"   -> [db EXCEPT !.arr = @ \cup {st.name}]
    [] st.op = "backfill"  -> [db EXCEPT !.url = IF @ = "legible" THEN "filled" ELSE @]
    [] st.op = "drop_url"  -> [db EXCEPT !.arr = @ \ {"base_url"}]
    [] st.op = "add_node"  -> [db EXCEPT !.node = @ \cup {st.name}]
    [] st.op = "add_media" -> [db EXCEPT !.media = @ \cup {st.name}]
    [] st.op = "add_job"   -> [db EXCEPT !.job = @ \cup {st.name}]
    [] st.op = "index"     -> [db EXCEPT !.indexes = @ \cup {st.name}]
    [] st.op = "index_if"  ->
         IF st.name \in db.oldIndexes THEN db
         ELSE [db EXCEPT !.indexes = @ \cup {st.name}]
    [] st.op = "rename"    ->
         [db EXCEPT !.job = {}, !.rows = {}, !.indexes = {}, !.old = TRUE,
                    !.oldRows = db.rows, !.oldIndexes = db.indexes]
    [] st.op = "recreate"  -> [db EXCEPT !.job = JobCols \ Codecs, !.strict = FALSE]
    [] st.op = "copy"      -> [db EXCEPT !.rows = Copied(db)]
    [] st.op = "drop_old"  -> [db EXCEPT !.old = FALSE, !.oldRows = {}, !.oldIndexes = {}]
    [] st.op = "arr_table"  -> [db EXCEPT !.arr = ArrCols]
    [] st.op = "node_table" -> [db EXCEPT !.node = NodeCols]
    [] st.op = "media_table" -> [db EXCEPT !.media = MediaCols \ {"ix_media_file_path"}]
    [] st.op = "media_index" -> [db EXCEPT !.media = @ \cup {st.name}]
    [] st.op = "job_table"  -> [db EXCEPT !.job = JobCols, !.strict = FALSE]

NameTaken(st, db) == st.op = "index" /\ st.name \in db.indexes \cup db.oldIndexes

Fails(st, db) ==
  \/ NameTaken(st, db)
  \/ /\ st.op = "backfill"
     /\ db.url = "badport" \/ ~({"port", "base_path", "use_ssl"} \subseteq db.arr)

OpensTransaction(st) == st.op \in {"backfill", "copy"}

-----------------------------------------------------------------------------
(* A boot *)

NextStatement == CHOOSE n \in todo : \A m \in todo : n <= m

Boot ==
  /\ stage = "down"
  /\ stage' = "arr"
  /\ view' = disk
  /\ open' = FALSE
  /\ todo' = Plan("arr", disk)
  /\ UNCHANGED <<disk, crashes, torn>>

Execute ==
  LET st == Program[NextStatement]
  IN
  /\ stage \in Migrating
  /\ todo # {}
  /\ ~Fails(st, view)
  /\ view' = Effect(st, view)
  /\ open' = (open \/ OpensTransaction(st))
  /\ disk' = IF open' THEN disk ELSE view'
  /\ todo' = todo \ {NextStatement}
  /\ UNCHANGED <<stage, crashes, torn>>

(* The migration commits, and the next one looks at its table. *)
Commit ==
  /\ stage \in Migrating
  /\ todo = {}
  /\ disk' = view
  /\ open' = FALSE
  /\ stage' = Follower[stage]
  /\ todo' = IF stage = "create_all" THEN {} ELSE Plan(Follower[stage], view)
  /\ UNCHANGED <<view, crashes, torn>>

(* The exception leaves lifespan, and the process ends. *)
BootFails ==
  /\ stage \in Migrating
  /\ todo # {}
  /\ Fails(Program[NextStatement], view)
  /\ stage' = "down"
  /\ todo' = {}
  /\ view' = disk
  /\ open' = FALSE
  /\ UNCHANGED <<disk, crashes, torn>>

(* What no later boot takes up: columns that stand for others are there
   without them, a table is there without its indexes, or the job table has
   its old name.  (ix_job_host_job_id is made by any boot, and one that still
   has a table to make anew makes all of its indexes.) *)
HalfDone(db) ==
  \/ "address" \in db.arr /\ ~(ArrNew \subseteq db.arr)
  \/ "pair_url" \in db.node /\ ~(PairNew \subseteq db.node)
  \/ db.media # {} /\ "ix_media_file_path" \notin db.media
  \/ db.job # {} /\ ~db.strict /\ ~({"state", "node_id"} \subseteq db.indexes)
  \/ db.old

Die ==
  /\ stage # "down"
  /\ crashes < MaxCrashes
  /\ crashes' = crashes + 1
  /\ torn' = (torn \/ HalfDone(disk))
  /\ stage' = "down"
  /\ todo' = {}
  /\ view' = disk
  /\ open' = FALSE
  /\ UNCHANGED disk

BootInit ==
  /\ disk \in Files
  /\ view = disk
  /\ open = FALSE
  /\ stage = "down"
  /\ todo = {}
  /\ crashes = 0
  /\ torn = FALSE

BootProgress == Boot \/ Execute \/ Commit \/ BootFails
BootNext     == BootProgress \/ Die
BootSpec     == BootInit /\ [][BootNext]_bootVars

-----------------------------------------------------------------------------
(* Properties *)

FileType ==
  [arr : SUBSET (ArrCols \cup {"base_url"}), url : Urls,
   node : SUBSET NodeCols, media : SUBSET MediaCols, job : SUBSET JobCols,
   strict : BOOLEAN, rows : SUBSET {"rows"},
   indexes : SUBSET JobIndexes,
   old : BOOLEAN, oldRows : SUBSET {"rows"},
   oldIndexes : SUBSET JobIndexes]

(* Statements are pending only within the migration they belong to, and
   outside a transaction the process sees what is on disk. *)
BootTypeOK ==
  /\ disk \in FileType
  /\ view \in FileType
  /\ open \in BOOLEAN
  /\ stage \in {"down", "up"} \cup Migrating
  /\ todo \subseteq DOMAIN Program
  /\ \A n \in todo : Program[n].stage = stage
  /\ crashes \in 0 .. MaxCrashes
  /\ torn \in BOOLEAN
  /\ ~open => view = disk

Held(db)      == db.rows \cup db.oldRows
Reachable(db) == "base_url" \in db.arr \/ db.url # "legible"

(* Wherever boots are cut short, the file never loses what it held: the job
   rows are in one table or the other, and the address of an instance is in
   base_url until it is in the columns that replace it, if urlparse finds
   one there.  (A base_url without a host is dropped, and nothing kept.) *)
NothingLost ==
  [][Held(disk) \subseteq Held(disk') /\ (Reachable(disk) => Reachable(disk'))]_bootVars

Complete(db) ==
  /\ db.arr = ArrCols /\ db.url # "legible"
  /\ db.node = NodeCols /\ db.media = MediaCols /\ db.job = JobCols
  /\ db.indexes = JobIndexes
  /\ ~db.strict
  /\ ~db.old

(* Whatever release the file is of and however often its boot was cut short
   elsewhere, a server that is up has the whole present schema, its indexes
   included, with the rows where it looks for them.  It need not if one was
   cut short between the ALTERs that address or pair_url stands for, between
   the CREATE of media_file or of job and those of the indexes that go with
   it, or while the job table was being made anew: no later boot takes those
   up. *)
CompleteOnceUp == stage = "up" /\ ~torn => Complete(disk)

(* Unless it was torn, a file boots in the end; not if it has a base_url to
   read whose port is no number, on which every boot fails. *)
BootsInTheEnd ==
  (stage = "down" /\ ~torn /\ disk.url # "badport") ~> (stage = "up" \/ torn)
=============================================================================

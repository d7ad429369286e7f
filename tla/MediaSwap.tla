----------------------------- MODULE MediaSwap -----------------------------
(***************************************************************************)
(* What happens on disk to one library file: the encodes that read it      *)
(* (execute_dispatch in the host, _encode_and_finalize in a worker), the   *)
(* replacement of the original by the output (finalize_swap), and the      *)
(* cleanup of leftover outputs when a process starts.                      *)
(*                                                                         *)
(* Three names matter: the file itself ("input"), name.CONVERTARR.ext next *)
(* to it ("output"), and .convertarr-backup/name ("backup").  A name is    *)
(* linked to an inode, as rename and unlink see it: ffmpeg keeps writing   *)
(* to the inode it opened whatever becomes of its name.  Each directory    *)
(* operation is a step, since other machines share the disk, and since a   *)
(* process may die between two of them.                                    *)
(*                                                                         *)
(* Attempts to convert the file are numbered.  The task of one is over     *)
(* before the next starts, which is what OneDispatchPerJob and             *)
(* OneBusyRowPerFile of HostQueue give; its ffmpeg may outlive it.         *)
(***************************************************************************)
EXTENDS Naturals

CONSTANTS
  MaxAttempts,   (* Bounds how often the file is converted.                *)
  None           (* No inode.                                              *)

ASSUME AttemptsAssumption == MaxAttempts \in Nat
ASSUME NoneAssumption == None \notin Nat

VARIABLES
  link,     (* link[name]: the inode the name is linked to.                *)
  content,  (* content[i]: what inode i holds.                             *)
  phase,    (* phase[k]: where attempt k is.                               *)
  exitOk,   (* exitOk[k]: ffmpeg of attempt k returned 0.                  *)
  target,   (* target[k]: the inode ffmpeg of attempt k writes.            *)
  deletes,  (* deletes[k]: delete_originals in the dispatch of attempt k.  *)
  faults    (* What the environment of this behavior does; never changes.  *)

vars == <<link, content, phase, exitOk, target, deletes, faults>>

Attempts == 1 .. MaxAttempts
Source   == 0                      (* The inode of the original.           *)
Inodes   == 0 .. MaxAttempts
Names    == {"input", "output", "backup"}
Faults   == {"io",      (* a directory operation raises OSError            *)
             "crash",   (* the process of a task dies, and ffmpeg too      *)
             "orphan",  (* ... or the task goes, and ffmpeg stays          *)
             "restart"} (* a process that knows the file starts            *)

Live    == {"encode", "exited", "swap", "aside"}
Settled == {"cancelled", "failed", "swap_failed", "swapped"}
Gone    == {"crashed", "orphan"}

Exists(name) == link[name] # None
Writers(i)   == {k \in Attempts : phase[k] \in {"encode", "orphan"} /\ target[k] = i}

(* A playable version of the film is found under some name. *)
Full(i)      == content[i] \in {"source", "converted"}
FullCopyLinked == \E name \in Names : Exists(name) /\ Full(link[name])

-----------------------------------------------------------------------------
(* Mutants of the definitions below: the slips the properties must notice. *)

(* A file of some size counts as a success, whatever ffmpeg returned. *)
Succeeded_FileOnly(k) == Exists("output")

(* The original is moved over the backup of an earlier conversion. *)
MovesToBackup_Always(k) == ~deletes[k]

(* The name removed after a cancel is the wrong one. *)
LeftoverOfCancel_Input == "input"

(* The output is copied over the original instead of renamed. *)
TakeName_Links(k) ==
  /\ phase[k] = "aside"
  /\ Exists("output")
  /\ link' = [link EXCEPT !["input"] = link["output"]]
  /\ phase' = [phase EXCEPT ![k] = "swapped"]
  /\ UNCHANGED <<content, exitOk, target, deletes, faults>>

-----------------------------------------------------------------------------
(* runner.run: ffmpeg -y opens the input, then creates or truncates the
   output.  Without an input it fails and opens nothing. *)

Ready(k) ==
  /\ phase[k] = "idle"
  /\ \A e \in Attempts : e < k => phase[e] \in Settled \cup Gone

Launch(k, delete) ==
  LET i == IF Exists("output") THEN link["output"] ELSE k
      overlaps == Writers(i) # {}
  IN
  /\ Ready(k)
  /\ Exists("input")
  /\ link' = [link EXCEPT !["output"] = i]
  /\ content' = [content EXCEPT ![i] = IF overlaps THEN "mixed" ELSE "partial"]
  /\ target' = [target EXCEPT ![k] = i]
  /\ deletes' = [deletes EXCEPT ![k] = delete]
  /\ phase' = [phase EXCEPT ![k] = "encode"]
  /\ UNCHANGED <<exitOk, faults>>

LaunchFails(k) ==
  /\ Ready(k)
  /\ phase' = [phase EXCEPT ![k] = "failed"]
  /\ UNCHANGED <<link, content, exitOk, target, deletes, faults>>

(* What is in the inode when the last of the film has been written. *)
Written(k) ==
  IF content[target[k]] = "partial" THEN "converted" ELSE content[target[k]]

EncodeExits(k, ok) ==
  /\ phase[k] = "encode"
  /\ exitOk' = [exitOk EXCEPT ![k] = ok]
  /\ content' = IF ok THEN [content EXCEPT ![target[k]] = Written(k)] ELSE content
  /\ phase' = [phase EXCEPT ![k] = "exited"]
  /\ UNCHANGED <<link, target, deletes, faults>>

(* A task that is gone, its ffmpeg with it or not. *)
TaskDies(k) ==
  /\ phase[k] \in Live
  /\ \/ "crash" \in faults /\ phase' = [phase EXCEPT ![k] = "crashed"]
     \/ /\ "orphan" \in faults
        /\ phase[k] = "encode"
        /\ phase' = [phase EXCEPT ![k] = "orphan"]
  /\ UNCHANGED <<link, content, exitOk, target, deletes, faults>>

OrphanExits(k, ok) ==
  /\ phase[k] = "orphan"
  /\ content' = IF ok THEN [content EXCEPT ![target[k]] = Written(k)] ELSE content
  /\ phase' = [phase EXCEPT ![k] = "crashed"]
  /\ UNCHANGED <<link, exitOk, target, deletes, faults>>

-----------------------------------------------------------------------------
(* After ffmpeg: a cancel removes the output, or tries to; a failure leaves
   it there.  (The success test also wants a size above 0; an empty output
   is an exit that was not ok.) *)

LeftoverOfCancel == "output"

NoticeCancel(k) ==
  /\ phase[k] = "exited"
  /\ \/ link' = [link EXCEPT ![LeftoverOfCancel] = None]
     \/ "io" \in faults /\ UNCHANGED link
  /\ phase' = [phase EXCEPT ![k] = "cancelled"]
  /\ UNCHANGED <<content, exitOk, target, deletes, faults>>

Succeeded(k) == exitOk[k] /\ Exists("output")

Judge(k) ==
  /\ phase[k] = "exited"
  /\ phase' = [phase EXCEPT ![k] = IF Succeeded(k) THEN "swap" ELSE "failed"]
  /\ UNCHANGED <<link, content, exitOk, target, deletes, faults>>

-----------------------------------------------------------------------------
(* finalize_swap: the original goes away, or to the backup unless an earlier
   conversion left one there; then the output takes its name.  Nothing puts
   the original back if the second half fails. *)

MovesToBackup(k) == ~deletes[k] /\ ~Exists("backup")

SetAside(k) ==
  /\ phase[k] = "swap"
  /\ MovesToBackup(k) => Exists("input")
  /\ link' = IF MovesToBackup(k)
             THEN [link EXCEPT !["backup"] = link["input"], !["input"] = None]
             ELSE [link EXCEPT !["input"] = None]
  /\ phase' = [phase EXCEPT ![k] = "aside"]
  /\ UNCHANGED <<content, exitOk, target, deletes, faults>>

TakeName(k) ==
  /\ phase[k] = "aside"
  /\ Exists("output")
  /\ link' = [link EXCEPT !["input"] = link["output"], !["output"] = None]
  /\ phase' = [phase EXCEPT ![k] = "swapped"]
  /\ UNCHANGED <<content, exitOk, target, deletes, faults>>

(* OSError: of the disk, or because the file to be renamed is gone. *)
SwapFails(k) ==
  /\ \/ "io" \in faults /\ phase[k] \in {"swap", "aside"}
     \/ phase[k] = "swap" /\ MovesToBackup(k) /\ ~Exists("input")
     \/ phase[k] = "aside" /\ ~Exists("output")
  /\ phase' = [phase EXCEPT ![k] = "swap_failed"]
  /\ UNCHANGED <<link, content, exitOk, target, deletes, faults>>

-----------------------------------------------------------------------------
(* cleanup_orphaned_outputs, at the start of a host or worker that knows the
   file.  Tasks of other machines go on meanwhile. *)
Cleanup ==
  /\ "restart" \in faults
  /\ link' = [link EXCEPT !["output"] = None]
  /\ UNCHANGED <<content, phase, exitOk, target, deletes, faults>>

-----------------------------------------------------------------------------
Init ==
  /\ link = [name \in Names |-> IF name = "input" THEN Source ELSE None]
  /\ content = [i \in Inodes |-> IF i = Source THEN "source" ELSE "unused"]
  /\ phase = [k \in Attempts |-> "idle"]
  /\ exitOk = [k \in Attempts |-> FALSE]
  /\ target = [k \in Attempts |-> None]
  /\ deletes = [k \in Attempts |-> FALSE]
  /\ faults \in SUBSET Faults

Next ==
  \/ \E k \in Attempts :
       \/ \E delete \in BOOLEAN : Launch(k, delete)
       \/ LaunchFails(k)
       \/ \E ok \in BOOLEAN : EncodeExits(k, ok) \/ OrphanExits(k, ok)
       \/ TaskDies(k)
       \/ NoticeCancel(k) \/ Judge(k)
       \/ SetAside(k) \/ TakeName(k) \/ SwapFails(k)
  \/ Cleanup

Spec == Init /\ [][Next]_vars

-----------------------------------------------------------------------------
(* Properties. *)

(* No inode has two names, and a running ffmpeg has one to write to. *)
TypeOK ==
  /\ link \in [Names -> Inodes \cup {None}]
  /\ content \in [Inodes -> {"unused", "source", "partial", "mixed", "converted"}]
  /\ phase \in [Attempts -> {"idle"} \cup Live \cup Settled \cup Gone]
  /\ exitOk \in [Attempts -> BOOLEAN]
  /\ target \in [Attempts -> Inodes \cup {None}]
  /\ deletes \in [Attempts -> BOOLEAN]
  /\ faults \subseteq Faults
  /\ \A m, n \in Names : Exists(m) /\ link[m] = link[n] => m = n
  /\ \A k \in Attempts : phase[k] \in {"encode", "orphan"} => target[k] # None

(* With delete_originals off in every dispatch the original survives under
   its own name or in the backup folder: through failed renames, crashes in
   the middle of a swap, startup cleanups, and conversions of what already
   was converted. *)
OriginalKept ==
  (\A k \in Attempts : ~deletes[k]) => Source \in {link["input"], link["backup"]}

(* As long as no directory operation fails and no process dies or starts, a
   playable version of the film is on disk at every moment, whatever
   delete_originals says and however encodes fail or are cancelled. *)
NeverWithoutFilm == faults = {} => FullCopyLinked

(* No half-written output ever takes the name of the library file, not even
   when leftovers of dead processes are found or removed on the way; ffmpeg
   processes that outlive their task are excepted. *)
OnlyFullFilesInPlace ==
  "orphan" \notin faults /\ Exists("input") => Full(link["input"])

(* execution.py:599-600 and README.md:162: a conversion that is reported as
   failed or cancelled has left the original where it was. *)
FailureLeavesOriginal ==
  (\A k \in Attempts : phase[k] \in {"idle", "cancelled", "failed", "swap_failed"})
    => link["input"] = Source
=============================================================================

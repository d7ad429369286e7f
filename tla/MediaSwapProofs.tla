-------------------------- MODULE MediaSwapProofs --------------------------
(***************************************************************************)
(* Proofs about MediaSwap, for any number of attempts and any faults.      *)
(***************************************************************************)
EXTENDS MediaSwap, TLAPS

(* The inode of an attempt is not in the directory before the attempt. *)
Born ==
  \A name \in Names :
    Exists(name) /\ link[name] # Source => phase[link[name]] # "idle"

TypeInv == TypeOK /\ Born

LEMMA TypeInit == Init => TypeInv
<1> SUFFICES ASSUME Init PROVE TypeInv
  OBVIOUS
<1>1. Source \in Inodes /\ Source # None
  BY NoneAssumption, AttemptsAssumption DEF Source, Inodes
<1>2. link \in [Names -> Inodes \cup {None}]
  BY <1>1 DEF Init
<1>3. \A name \in Names : Exists(name) => name = "input" /\ link[name] = Source
  BY <1>1 DEF Init, Exists
<1>4. /\ content \in [Inodes -> {"unused", "source", "partial", "mixed", "converted"}]
      /\ phase \in [Attempts -> {"idle"} \cup Live \cup Settled \cup Gone]
      /\ exitOk \in [Attempts -> BOOLEAN]
      /\ target \in [Attempts -> Inodes \cup {None}]
      /\ deletes \in [Attempts -> BOOLEAN]
      /\ faults \subseteq Faults
  BY DEF Init
<1>5. \A m, n \in Names : Exists(m) /\ link[m] = link[n] => m = n
  BY <1>3 DEF Exists
<1>6. \A k \in Attempts : phase[k] \in {"encode", "orphan"} => target[k] # None
  BY DEF Init
<1> QED
  BY <1>2, <1>3, <1>4, <1>5, <1>6 DEF TypeInv, TypeOK, Born

LEMMA LaunchType ==
  ASSUME TypeInv, NEW k \in Attempts, NEW delete \in BOOLEAN, Launch(k, delete)
  PROVE  TypeInv'
<1> DEFINE i == IF Exists("output") THEN link["output"] ELSE k
<1> USE DEF TypeInv, TypeOK
<1>0. /\ link \in [Names -> Inodes \cup {None}]
      /\ phase \in [Attempts -> {"idle"} \cup Live \cup Settled \cup Gone]
      /\ "output" \in Names
      /\ phase[k] = "idle"
  BY DEF Launch, Ready, Names
<1>1. i \in Inodes /\ i # None
  BY <1>0, NoneAssumption DEF Exists, Inodes, Attempts
<1>2. /\ link' = [link EXCEPT !["output"] = i]
      /\ phase' = [phase EXCEPT ![k] = "encode"]
      /\ target' = [target EXCEPT ![k] = i]
      /\ deletes' = [deletes EXCEPT ![k] = delete]
      /\ UNCHANGED <<exitOk, faults>>
  BY DEF Launch
<1>3. content' \in [Inodes -> {"unused", "source", "partial", "mixed", "converted"}]
  BY <1>1 DEF Launch
<1>4. \A n \in Names : n # "output" /\ Exists(n) => link[n] # i
  <2>1. CASE Exists("output")
    BY <1>0, <2>1
  <2>2. CASE ~Exists("output")
    BY <1>0, <2>2 DEF Born, Source, Attempts
  <2> QED
    BY <2>1, <2>2
<1>5. \A m, n \in Names : Exists(m)' /\ link'[m] = link'[n] => m = n
  BY <1>0, <1>2, <1>4 DEF Exists
<1>6. Born'
  <2>1. i # Source => phase'[i] # "idle"
    BY <1>0, <1>1, <1>2 DEF Born, Exists, Source, Inodes, Attempts
  <2> QED
    BY <1>0, <1>1, <1>2, <2>1 DEF Born, Exists, Source, Inodes, Attempts
<1>7. /\ link' \in [Names -> Inodes \cup {None}]
      /\ phase' \in [Attempts -> {"idle"} \cup Live \cup Settled \cup Gone]
      /\ target' \in [Attempts -> Inodes \cup {None}]
      /\ deletes' \in [Attempts -> BOOLEAN]
  BY <1>0, <1>1, <1>2 DEF Live
<1>8. \A e \in Attempts : phase'[e] \in {"encode", "orphan"} => target'[e] # None
  BY <1>0, <1>1, <1>2
<1> QED
  BY <1>2, <1>3, <1>5, <1>6, <1>7, <1>8

(* A step that leaves the directory alone and starts no attempt. *)
LEMMA SameLinksType ==
  ASSUME TypeInv, UNCHANGED <<link, target, deletes, faults>>,
         NEW k \in Attempts, NEW p \in Live \cup Settled \cup Gone,
         p \in {"encode", "orphan"} => phase[k] = "encode",
         phase' = [phase EXCEPT ![k] = p],
         content' \in [Inodes -> {"unused", "source", "partial", "mixed", "converted"}],
         exitOk' \in [Attempts -> BOOLEAN]
  PROVE  TypeInv'
BY DEF TypeInv, TypeOK, Born, Exists, Names, Inodes, Attempts, Source, Live, Settled, Gone

LEMMA WrittenType ==
  ASSUME TypeInv, NEW k \in Attempts, phase[k] \in {"encode", "orphan"}
  PROVE  [content EXCEPT ![target[k]] = Written(k)]
           \in [Inodes -> {"unused", "source", "partial", "mixed", "converted"}]
BY DEF TypeInv, TypeOK, Written

(* A step that removes a name, or moves it to a name that is free or goes. *)
LEMMA UnlinkType ==
  ASSUME TypeInv, NEW n \in Names,
         link' = [link EXCEPT ![n] = None],
         UNCHANGED <<content, exitOk, target, deletes, faults>>,
         \/ UNCHANGED phase
         \/ \E k \in Attempts, p \in {"aside", "cancelled"} : phase' = [phase EXCEPT ![k] = p]
  PROVE  TypeInv'
<1>1. /\ link' \in [Names -> Inodes \cup {None}]
      /\ link'[n] = None
      /\ \A m \in Names \ {n} : link'[m] = link[m]
  BY DEF TypeInv, TypeOK
<1>2. \A l, m \in Names : Exists(l)' /\ link'[l] = link'[m] => l = m
  BY <1>1 DEF TypeInv, TypeOK, Exists
<1>3. /\ phase' \in [Attempts -> {"idle"} \cup Live \cup Settled \cup Gone]
      /\ \A e \in Attempts : phase'[e] = "idle" => phase[e] = "idle"
      /\ \A e \in Attempts : phase'[e] \in {"encode", "orphan"} => phase'[e] = phase[e]
  BY DEF TypeInv, TypeOK, Live, Settled
<1>4. Born'
  BY <1>1, <1>3 DEF TypeInv, TypeOK, Born, Exists, Inodes, Attempts, Source
<1> QED
  BY <1>1, <1>2, <1>3, <1>4 DEF TypeInv, TypeOK

LEMMA MoveType ==
  ASSUME TypeInv, NEW from \in Names, NEW to \in Names, from # to, Exists(from),
         link' = [link EXCEPT ![to] = link[from], ![from] = None],
         UNCHANGED <<content, exitOk, target, deletes, faults>>,
         NEW k \in Attempts, NEW p \in {"aside", "swapped"},
         phase' = [phase EXCEPT ![k] = p]
  PROVE  TypeInv'
<1>1. /\ link' \in [Names -> Inodes \cup {None}]
      /\ link'[to] = link[from] /\ link'[from] = None
      /\ \A n \in Names \ {from, to} : link'[n] = link[n]
  BY DEF TypeInv, TypeOK
<1>2. \A m, n \in Names : Exists(m)' /\ link'[m] = link'[n] => m = n
  BY <1>1 DEF TypeInv, TypeOK, Exists
<1>3. phase' \in [Attempts -> {"idle"} \cup Live \cup Settled \cup Gone]
  BY DEF TypeInv, TypeOK, Live, Settled
<1>4. \A e \in Attempts : phase'[e] = "idle" => phase[e] = "idle"
  BY DEF TypeInv, TypeOK
<1>5. Born'
  BY <1>1, <1>4 DEF TypeInv, TypeOK, Born, Exists, Inodes, Attempts, Source
<1>6. \A e \in Attempts : phase'[e] \in {"encode", "orphan"} => target'[e] # None
  BY DEF TypeInv, TypeOK
<1> QED
  BY <1>1, <1>2, <1>3, <1>5, <1>6 DEF TypeInv, TypeOK

LEMMA TypeStep == TypeInv /\ [Next]_vars => TypeInv'
<1> SUFFICES ASSUME TypeInv, [Next]_vars PROVE TypeInv'
  OBVIOUS
<1>1. ASSUME NEW k \in Attempts, NEW delete \in BOOLEAN, Launch(k, delete) PROVE TypeInv'
  BY <1>1, LaunchType
<1>2. ASSUME NEW k \in Attempts, LaunchFails(k) PROVE TypeInv'
  <2>1. "failed" \in Live \cup Settled \cup Gone
    BY DEF Settled
  <2> QED
    BY <1>2, <2>1, SameLinksType DEF LaunchFails, TypeInv, TypeOK
<1>3. ASSUME NEW k \in Attempts, NEW ok \in BOOLEAN, EncodeExits(k, ok) PROVE TypeInv'
  <2>1. "exited" \in Live \cup Settled \cup Gone
    BY DEF Live
  <2>2. content' \in [Inodes -> {"unused", "source", "partial", "mixed", "converted"}]
    BY <1>3, WrittenType DEF EncodeExits, TypeInv, TypeOK
  <2>3. exitOk' \in [Attempts -> BOOLEAN]
    BY <1>3 DEF EncodeExits, TypeInv, TypeOK
  <2> QED
    BY <1>3, <2>1, <2>2, <2>3, SameLinksType DEF EncodeExits
<1>4. ASSUME NEW k \in Attempts, NEW ok \in BOOLEAN, OrphanExits(k, ok) PROVE TypeInv'
  <2>1. "crashed" \in Live \cup Settled \cup Gone
    BY DEF Gone
  <2>2. content' \in [Inodes -> {"unused", "source", "partial", "mixed", "converted"}]
    BY <1>4, WrittenType DEF OrphanExits, TypeInv, TypeOK
  <2> QED
    BY <1>4, <2>1, <2>2, SameLinksType DEF OrphanExits, TypeInv, TypeOK
<1>5. ASSUME NEW k \in Attempts, TaskDies(k) PROVE TypeInv'
  <2>1. {"crashed", "orphan"} \subseteq Live \cup Settled \cup Gone
    BY DEF Gone
  <2> QED
    BY <1>5, <2>1, SameLinksType DEF TaskDies, TypeInv, TypeOK
<1>6. ASSUME NEW k \in Attempts, NoticeCancel(k) PROVE TypeInv'
  <2>1. "cancelled" \in Live \cup Settled \cup Gone
    BY DEF Settled
  <2>2. CASE UNCHANGED link
    BY <1>6, <2>1, <2>2, SameLinksType DEF NoticeCancel, TypeInv, TypeOK
  <2>3. CASE link' = [link EXCEPT !["output"] = None]
    BY <1>6, <2>3, UnlinkType DEF NoticeCancel, Names
  <2> QED
    BY <1>6, <2>2, <2>3 DEF NoticeCancel, LeftoverOfCancel
<1>7. ASSUME NEW k \in Attempts, Judge(k) PROVE TypeInv'
  <2>1. {"swap", "failed"} \subseteq Live \cup Settled \cup Gone
    BY DEF Live, Settled
  <2> QED
    BY <1>7, <2>1, SameLinksType DEF Judge, TypeInv, TypeOK
<1>8. ASSUME NEW k \in Attempts, SetAside(k) PROVE TypeInv'
  <2>1. CASE MovesToBackup(k)
    BY <1>8, <2>1, MoveType DEF SetAside, Names
  <2>2. CASE ~MovesToBackup(k)
    BY <1>8, <2>2, UnlinkType DEF SetAside, Names
  <2> QED
    BY <2>1, <2>2
<1>9. ASSUME NEW k \in Attempts, TakeName(k) PROVE TypeInv'
  BY <1>9, MoveType DEF TakeName, Names
<1>10. ASSUME NEW k \in Attempts, SwapFails(k) PROVE TypeInv'
  <2>1. "swap_failed" \in Live \cup Settled \cup Gone
    BY DEF Settled
  <2> QED
    BY <1>10, <2>1, SameLinksType DEF SwapFails, TypeInv, TypeOK
<1>11. CASE Cleanup
  BY <1>11, UnlinkType DEF Cleanup, Names
<1>12. CASE UNCHANGED vars
  BY <1>12 DEF vars, TypeInv, TypeOK, Born, Exists
<1> QED
  BY <1>1, <1>2, <1>3, <1>4, <1>5, <1>6, <1>7, <1>8, <1>9, <1>10, <1>11, <1>12 DEF Next

LEMMA TypeAlways == Spec => []TypeInv
BY TypeInit, TypeStep, PTL DEF Spec

(* No inode ever has two names in the media folder. *)
THEOREM TypeCorrect == Spec => []TypeOK
<1>1. TypeInv => TypeOK
  BY DEF TypeInv
<1> QED
  BY <1>1, TypeAlways, PTL

-----------------------------------------------------------------------------
(* Keeping originals. *)

(* Once there is a backup it is the original, and until then the original is
   in its place; a swap gets past its first half only with a backup. *)
KeepInv ==
  /\ \A k \in Attempts : phase[k] = "idle" => ~deletes[k]
  /\ (\A k \in Attempts : ~deletes[k]) =>
       /\ IF Exists("backup") THEN link["backup"] = Source ELSE link["input"] = Source
       /\ \A k \in Attempts : phase[k] = "aside" => Exists("backup")

LEMMA KeepInit == Init => KeepInv
BY NoneAssumption DEF Init, KeepInv, Exists, Names

(* Steps that neither start an attempt nor touch a name that matters. *)
LEMMA KeepQuiet ==
  ASSUME TypeInv, KeepInv, UNCHANGED deletes,
         link'["input"] = link["input"], link'["backup"] = link["backup"],
         \A k \in Attempts : phase'[k] \in {"idle", "aside"} => phase'[k] = phase[k]
  PROVE  KeepInv'
BY DEF KeepInv, Exists

LEMMA KeepStep == TypeInv /\ KeepInv /\ [Next]_vars => KeepInv'
<1> SUFFICES ASSUME TypeInv, KeepInv, [Next]_vars PROVE KeepInv'
  OBVIOUS
<1> DEFINE Keep == \A k \in Attempts : ~deletes[k]
<1>0. /\ link \in [Names -> Inodes \cup {None}]
      /\ phase \in [Attempts -> {"idle"} \cup Live \cup Settled \cup Gone]
      /\ deletes \in [Attempts -> BOOLEAN]
      /\ {"input", "output", "backup"} = Names
  BY DEF TypeInv, TypeOK, Names
<1>1. ASSUME NEW k \in Attempts, NEW delete \in BOOLEAN, Launch(k, delete) PROVE KeepInv'
  <2>1. /\ phase[k] = "idle"
        /\ link'["input"] = link["input"] /\ link'["backup"] = link["backup"]
        /\ deletes' = [deletes EXCEPT ![k] = delete]
        /\ phase' = [phase EXCEPT ![k] = "encode"]
    BY <1>0, <1>1 DEF Launch, Ready
  <2>2. Keep' => Keep
    BY <1>0, <2>1 DEF KeepInv
  <2>3. Exists("backup")' <=> Exists("backup")
    BY <2>1 DEF Exists
  <2>4. \A e \in Attempts : phase'[e] = "aside" => phase[e] = "aside"
    BY <1>0, <2>1
  <2>5. \A e \in Attempts : phase'[e] = "idle" => ~deletes'[e]
    BY <1>0, <2>1 DEF KeepInv
  <2> QED
    BY <2>1, <2>2, <2>3, <2>4, <2>5 DEF KeepInv
<1>2. ASSUME NEW k \in Attempts, NEW ok \in BOOLEAN,
             LaunchFails(k) \/ EncodeExits(k, ok) \/ OrphanExits(k, ok)
               \/ TaskDies(k) \/ Judge(k) \/ SwapFails(k)
      PROVE  KeepInv'
  BY <1>0, <1>2, KeepQuiet
     DEF LaunchFails, EncodeExits, OrphanExits, TaskDies, Judge, SwapFails
<1>3. ASSUME NEW k \in Attempts, NoticeCancel(k) PROVE KeepInv'
  BY <1>0, <1>3, KeepQuiet DEF NoticeCancel, LeftoverOfCancel
<1>4. ASSUME NEW k \in Attempts, SetAside(k) PROVE KeepInv'
  <2>1. /\ phase[k] = "swap"
        /\ phase' = [phase EXCEPT ![k] = "aside"]
        /\ UNCHANGED deletes
    BY <1>4 DEF SetAside
  <2>2. \A e \in Attempts : phase'[e] = "idle" => ~deletes'[e]
    BY <1>0, <2>1 DEF KeepInv
  <2>3. CASE MovesToBackup(k)
    <3>1. /\ link'["backup"] = link["input"]
          /\ Exists("input") /\ ~Exists("backup")
      BY <1>0, <1>4, <2>3 DEF SetAside, MovesToBackup
    <3>2. Exists("backup")'
      BY <3>1 DEF Exists
    <3>3. Keep' => link'["backup"] = Source
      BY <2>1, <3>1 DEF KeepInv
    <3> QED
      BY <2>2, <3>2, <3>3 DEF KeepInv
  <2>4. CASE ~MovesToBackup(k)
    <3>1. link'["backup"] = link["backup"]
      BY <1>0, <1>4, <2>4 DEF SetAside
    <3>2. Keep' => Exists("backup")
      BY <2>1, <2>4 DEF MovesToBackup
    <3>3. Exists("backup")' <=> Exists("backup")
      BY <3>1 DEF Exists
    <3> QED
      BY <2>1, <2>2, <3>1, <3>2, <3>3 DEF KeepInv
  <2> QED
    BY <2>3, <2>4
<1>5. ASSUME NEW k \in Attempts, TakeName(k) PROVE KeepInv'
  <2>1. /\ phase[k] = "aside"
        /\ phase' = [phase EXCEPT ![k] = "swapped"]
        /\ link'["backup"] = link["backup"]
        /\ UNCHANGED deletes
    BY <1>0, <1>5 DEF TakeName
  <2>2. Exists("backup")' <=> Exists("backup")
    BY <2>1 DEF Exists
  <2>3. \A e \in Attempts : phase'[e] \in {"idle", "aside"} => phase'[e] = phase[e]
    BY <1>0, <2>1
  <2> QED
    BY <2>1, <2>2, <2>3 DEF KeepInv
<1>6. CASE Cleanup
  BY <1>0, <1>6, KeepQuiet DEF Cleanup
<1>7. CASE UNCHANGED vars
  BY <1>0, <1>7, KeepQuiet DEF vars
<1>8. BOOLEAN # {}
  OBVIOUS
<1> QED
  BY <1>1, <1>2, <1>3, <1>4, <1>5, <1>6, <1>7, <1>8 DEF Next

(* With delete_originals off the original is never lost, whatever fails,
   dies or starts in the middle of a swap (finalize_swap). *)
THEOREM OriginalIsKept == Spec => []OriginalKept
<1>1. KeepInv => OriginalKept
  BY DEF KeepInv, OriginalKept, Source
<1> QED
  BY <1>1, KeepInit, KeepStep, TypeAlways, PTL DEF Spec

-----------------------------------------------------------------------------
(* One task at a time, and what it may rely on. *)

OneTask ==
  \A e, k \in Attempts : e < k /\ phase[k] # "idle" => phase[e] \in Settled \cup Gone

(* The inode a task writes is nobody else's, and holds what its exit code
   says; at most its name was taken away by a cleanup. *)
Undisturbed(k) ==
  /\ link["output"] \in {target[k], None}
  /\ target[k] \notin {None, link["input"], link["backup"]}
  /\ phase[k] = "encode" => content[target[k]] = "partial"
  /\ phase[k] \in {"swap", "aside"} => exitOk[k]
  /\ phase[k] # "encode" /\ exitOk[k] => content[target[k]] = "converted"

TaskInv ==
  "orphan" \notin faults =>
    /\ \A k \in Attempts : phase[k] # "orphan"
    /\ \A k \in Attempts : phase[k] \in Live => Undisturbed(k)
    /\ Exists("input") => Full(link["input"])

(* Without faults the output stays where the task put it, and the name of
   the film is free only between the two halves of a swap. *)
CalmInv ==
  faults = {} =>
    /\ \A k \in Attempts : phase[k] \in Live => link["output"] = target[k]
    /\ (\A k \in Attempts : phase[k] # "aside") => Exists("input")

FilmInv == TypeInv /\ OneTask /\ TaskInv /\ CalmInv

LEMMA FilmInit == Init => OneTask /\ TaskInv /\ CalmInv
<1> SUFFICES ASSUME Init PROVE OneTask /\ TaskInv /\ CalmInv
  OBVIOUS
<1>1. \A k \in Attempts : phase[k] = "idle"
  BY DEF Init
<1>2. link["input"] = Source /\ content[Source] = "source" /\ Source # None
  BY NoneAssumption, AttemptsAssumption DEF Init, Names, Inodes, Source
<1> QED
  BY <1>1, <1>2 DEF OneTask, TaskInv, CalmInv, Live, Exists, Full

(* Phases never go back to idle, and what is settled or gone stays so. *)
LEMMA OneTaskStep == TypeInv /\ OneTask /\ [Next]_vars => OneTask'
<1> SUFFICES ASSUME TypeInv, OneTask, [Next]_vars PROVE OneTask'
  OBVIOUS
<1>0. phase \in [Attempts -> {"idle"} \cup Live \cup Settled \cup Gone]
  BY DEF TypeInv, TypeOK
<1>1. ASSUME NEW k \in Attempts, Ready(k),
             \E p \in {"encode", "failed"} : phase' = [phase EXCEPT ![k] = p]
      PROVE  OneTask'
  BY <1>0, <1>1 DEF Ready, OneTask, Attempts, Settled, Gone, Live
<1>2. ASSUME NEW k \in Attempts, phase[k] \in Live \cup {"orphan"},
             NEW p \in Live \cup Settled \cup Gone,
             phase' = [phase EXCEPT ![k] = p],
             phase[k] = "orphan" => p \in Gone
      PROVE  OneTask'
  BY <1>0, <1>2 DEF OneTask, Live, Settled, Gone
<1>3. ASSUME UNCHANGED phase PROVE OneTask'
  BY <1>3 DEF OneTask
<1>4. ASSUME NEW k \in Attempts, NEW delete \in BOOLEAN, Launch(k, delete) PROVE OneTask'
  BY <1>4, <1>1 DEF Launch
<1>5. ASSUME NEW k \in Attempts, LaunchFails(k) PROVE OneTask'
  BY <1>5, <1>1 DEF LaunchFails
<1>6. ASSUME NEW k \in Attempts, NEW ok \in BOOLEAN,
             EncodeExits(k, ok) \/ OrphanExits(k, ok) \/ TaskDies(k) \/ NoticeCancel(k)
               \/ Judge(k) \/ SetAside(k) \/ TakeName(k) \/ SwapFails(k)
      PROVE  OneTask'
  <2>1. PICK p \in Live \cup Settled \cup Gone :
           /\ phase[k] \in Live \cup {"orphan"}
           /\ phase' = [phase EXCEPT ![k] = p]
           /\ phase[k] = "orphan" => p \in Gone
    BY <1>6 DEF EncodeExits, OrphanExits, TaskDies, NoticeCancel, Judge, SetAside,
                TakeName, SwapFails, Live, Settled, Gone
  <2> QED
    BY <1>2, <2>1
<1>7. CASE Cleanup
  BY <1>7, <1>3 DEF Cleanup
<1>8. CASE UNCHANGED vars
  BY <1>8, <1>3 DEF vars
<1> QED
  BY <1>4, <1>5, <1>6, <1>7, <1>8 DEF Next

(* While the task of k lives, no other does. *)
LEMMA OnlyLive ==
  ASSUME OneTask, NEW k \in Attempts, phase[k] \in Live,
         NEW e \in Attempts, e # k
  PROVE  phase[e] \notin Live
BY DEF OneTask, Live, Settled, Gone, Attempts

LEMMA TaskStep == FilmInv /\ [Next]_vars => TaskInv'
<1> SUFFICES ASSUME FilmInv, [Next]_vars, "orphan" \notin faults PROVE TaskInv'
  BY DEF FilmInv, TaskInv, Next, vars, Launch, LaunchFails, EncodeExits, OrphanExits,
         TaskDies, NoticeCancel, Judge, SetAside, TakeName, SwapFails, Cleanup
<1>0. /\ link \in [Names -> Inodes \cup {None}]
      /\ content \in [Inodes -> {"unused", "source", "partial", "mixed", "converted"}]
      /\ phase \in [Attempts -> {"idle"} \cup Live \cup Settled \cup Gone]
      /\ exitOk \in [Attempts -> BOOLEAN]
      /\ target \in [Attempts -> Inodes \cup {None}]
      /\ {"input", "output", "backup"} = Names
      /\ \A m, n \in Names : link[m] # None /\ link[m] = link[n] => m = n
  BY DEF FilmInv, TypeInv, TypeOK, Names, Exists
<1>t. /\ \A k \in Attempts : phase[k] # "orphan"
      /\ \A k \in Attempts : phase[k] \in Live => Undisturbed(k)
      /\ Exists("input") => Full(link["input"])
  BY DEF FilmInv, TaskInv
<1>o. \A k, e \in Attempts : phase[k] \in Live /\ e # k => phase[e] \notin Live
  BY OnlyLive DEF FilmInv
<1>f. "orphan" \notin faults'
  BY DEF Next, vars, Launch, LaunchFails, EncodeExits, OrphanExits, TaskDies,
         NoticeCancel, Judge, SetAside, TakeName, SwapFails, Cleanup
<1>1. ASSUME NEW k \in Attempts, NEW delete \in BOOLEAN, Launch(k, delete) PROVE TaskInv'
  <2> DEFINE i == IF Exists("output") THEN link["output"] ELSE k
  <2>1. /\ Ready(k) /\ phase[k] = "idle" /\ Exists("input")
        /\ link' = [link EXCEPT !["output"] = i]
        /\ content' = [content EXCEPT ![i] = IF Writers(i) # {} THEN "mixed" ELSE "partial"]
        /\ target' = [target EXCEPT ![k] = i]
        /\ phase' = [phase EXCEPT ![k] = "encode"]
        /\ UNCHANGED <<exitOk, faults>>
    BY <1>1 DEF Launch, Ready
  <2>2. \A e \in Attempts : phase[e] \notin Live
    BY <1>0, <2>1 DEF Ready, FilmInv, OneTask, Live, Settled, Gone, Attempts
  <2>3. Writers(i) = {}
    BY <1>t, <2>2 DEF Writers, Live
  <2>4. i \in Inodes /\ i # None
    BY <1>0, NoneAssumption DEF Exists, Inodes, Attempts
  <2>5. i # link["input"] /\ i # link["backup"]
    <3>1. CASE Exists("output")
      BY <1>0, <3>1 DEF Exists
    <3>2. CASE ~Exists("output")
      BY <1>0, <2>1, <2>4, <3>2 DEF FilmInv, TypeInv, Born, Exists, Source, Attempts
    <3> QED
      BY <3>1, <3>2
  <2>6. Undisturbed(k)'
    BY <1>0, <2>1, <2>3, <2>4, <2>5 DEF Undisturbed
  <2>7. \A e \in Attempts : phase'[e] \in Live => e = k
    BY <1>0, <2>1, <2>2
  <2>8. Full(link["input"])'
    BY <1>0, <1>t, <2>1, <2>4, <2>5 DEF Full, Exists
  <2>9. \A e \in Attempts : phase'[e] # "orphan"
    BY <1>0, <1>t, <2>1
  <2> QED
    BY <2>6, <2>7, <2>8, <2>9 DEF TaskInv
<1>2. ASSUME NEW k \in Attempts, NEW ok \in BOOLEAN, EncodeExits(k, ok) PROVE TaskInv'
  <2>1. /\ phase[k] = "encode" /\ phase[k] \in Live /\ Undisturbed(k)
        /\ phase' = [phase EXCEPT ![k] = "exited"]
        /\ exitOk' = [exitOk EXCEPT ![k] = ok]
        /\ UNCHANGED <<link, target>>
        /\ target[k] \in Inodes
    BY <1>0, <1>2, <1>t DEF EncodeExits, Live, Undisturbed
  <2>2. content' = IF ok THEN [content EXCEPT ![target[k]] = "converted"] ELSE content
    BY <1>2, <2>1 DEF EncodeExits, Written, Undisturbed
  <2>3. Undisturbed(k)'
    BY <1>0, <2>1, <2>2 DEF Undisturbed
  <2>4. \A e \in Attempts : phase'[e] \in Live => e = k
    BY <1>0, <1>o, <2>1
  <2>5. Exists("input")' => Full(link["input"])'
    BY <1>0, <1>t, <2>1, <2>2 DEF Exists, Full, Undisturbed
  <2>6. \A e \in Attempts : phase'[e] # "orphan"
    BY <1>0, <1>t, <2>1
  <2> QED
    BY <2>3, <2>4, <2>5, <2>6 DEF TaskInv
<1>3. ASSUME NEW k \in Attempts, NEW ok \in BOOLEAN, OrphanExits(k, ok) PROVE FALSE
  BY <1>3, <1>t DEF OrphanExits
(* Steps that end the task, and at most take the name of its output away. *)
<1>4. ASSUME NEW k \in Attempts, NEW p \in Settled \cup {"crashed"},
             phase' = [phase EXCEPT ![k] = p],
             link'["input"] = link["input"], link'["backup"] = link["backup"],
             phase[k] \in Live \cup {"idle"}, UNCHANGED <<content, exitOk, target>>,
             phase[k] = "idle" => link' = link
      PROVE  TaskInv'
  <2>1. \A e \in Attempts : phase'[e] \in Live =>
           e # k /\ phase[e] \in Live /\ phase'[e] = phase[e] /\ phase[k] = "idle"
    BY <1>0, <1>4, <1>o DEF Live, Settled
  <2>2. \A e \in Attempts : phase'[e] \in Live => Undisturbed(e)'
    BY <1>4, <1>t, <2>1 DEF Undisturbed
  <2>3. Exists("input")' => Full(link["input"])'
    BY <1>4, <1>t DEF Exists, Full
  <2>4. \A e \in Attempts : phase'[e] # "orphan"
    BY <1>0, <1>4, <1>t DEF Settled
  <2> QED
    BY <2>2, <2>3, <2>4 DEF TaskInv
<1>5. ASSUME NEW k \in Attempts,
             LaunchFails(k) \/ TaskDies(k) \/ NoticeCancel(k) \/ SwapFails(k)
      PROVE  TaskInv'
  BY <1>0, <1>4, <1>5
     DEF LaunchFails, Ready, TaskDies, NoticeCancel, LeftoverOfCancel, SwapFails, Live, Settled
<1>6. ASSUME NEW k \in Attempts, Judge(k) PROVE TaskInv'
  <2>1. CASE Succeeded(k)
    <3>1. /\ phase[k] = "exited" /\ phase[k] \in Live /\ Undisturbed(k)
          /\ phase' = [phase EXCEPT ![k] = "swap"]
          /\ UNCHANGED <<link, content, exitOk, target>>
      BY <1>6, <1>t, <2>1 DEF Judge, Live
    <3>2. Undisturbed(k)'
      BY <1>0, <2>1, <3>1 DEF Undisturbed, Succeeded
    <3>3. \A e \in Attempts : phase'[e] \in Live => e = k
      BY <1>0, <1>o, <3>1
    <3>4. \A e \in Attempts : phase'[e] # "orphan"
      BY <1>0, <1>t, <3>1
    <3> QED
      BY <1>t, <3>1, <3>2, <3>3, <3>4 DEF TaskInv, Exists, Full
  <2>2. CASE ~Succeeded(k)
    BY <1>0, <1>4, <1>6, <2>2 DEF Judge, Live, Settled
  <2> QED
    BY <2>1, <2>2
<1>7. ASSUME NEW k \in Attempts, SetAside(k) PROVE TaskInv'
  <2>1. /\ phase[k] = "swap" /\ phase[k] \in Live /\ Undisturbed(k)
        /\ phase' = [phase EXCEPT ![k] = "aside"]
        /\ UNCHANGED <<content, exitOk, target>>
        /\ link'["output"] = link["output"] /\ link'["input"] = None
        /\ link'["backup"] \in {link["input"], link["backup"]}
    BY <1>0, <1>7, <1>t DEF SetAside, Live
  <2>2. Undisturbed(k)'
    BY <1>0, <2>1 DEF Undisturbed
  <2>3. \A e \in Attempts : phase'[e] \in Live => e = k
    BY <1>0, <1>o, <2>1
  <2>4. \A e \in Attempts : phase'[e] # "orphan"
    BY <1>0, <1>t, <2>1
  <2> QED
    BY <2>1, <2>2, <2>3, <2>4 DEF TaskInv, Exists
<1>8. ASSUME NEW k \in Attempts, TakeName(k) PROVE TaskInv'
  <2>1. /\ phase[k] = "aside" /\ phase[k] \in Live /\ Undisturbed(k)
        /\ phase' = [phase EXCEPT ![k] = "swapped"]
        /\ UNCHANGED <<content, exitOk, target>>
        /\ link'["input"] = link["output"] /\ link["output"] # None
    BY <1>0, <1>8, <1>t DEF TakeName, Live, Exists
  <2>2. content[link["output"]] = "converted"
    BY <2>1 DEF Undisturbed
  <2>3. \A e \in Attempts : phase'[e] \notin Live
    BY <1>0, <1>o, <2>1 DEF Live
  <2>4. \A e \in Attempts : phase'[e] # "orphan"
    BY <1>0, <1>t, <2>1
  <2> QED
    BY <2>1, <2>2, <2>3, <2>4 DEF TaskInv, Full
<1>9. CASE Cleanup
  BY <1>0, <1>9, <1>t DEF Cleanup, TaskInv, Undisturbed, Exists, Full
<1>10. CASE UNCHANGED vars
  BY <1>10, <1>t DEF vars, TaskInv, Undisturbed, Exists, Full
<1>11. BOOLEAN # {}
  OBVIOUS
<1> QED
  BY <1>1, <1>2, <1>3, <1>5, <1>6, <1>7, <1>8, <1>9, <1>10, <1>11 DEF Next

LEMMA CalmStep == FilmInv /\ [Next]_vars => CalmInv'
<1> SUFFICES ASSUME FilmInv, [Next]_vars, faults = {} PROVE CalmInv'
  BY DEF FilmInv, CalmInv, Next, vars, Launch, LaunchFails, EncodeExits, OrphanExits,
         TaskDies, NoticeCancel, Judge, SetAside, TakeName, SwapFails, Cleanup
<1>0. /\ link \in [Names -> Inodes \cup {None}]
      /\ phase \in [Attempts -> {"idle"} \cup Live \cup Settled \cup Gone]
      /\ target \in [Attempts -> Inodes \cup {None}]
      /\ {"input", "output", "backup"} = Names
  BY DEF FilmInv, TypeInv, TypeOK, Names
<1>t. /\ \A k \in Attempts : phase[k] # "orphan"
      /\ \A k \in Attempts : phase[k] \in Live => target[k] # None /\ link["output"] = target[k]
      /\ (\A k \in Attempts : phase[k] # "aside") => Exists("input")
  BY DEF FilmInv, TaskInv, CalmInv, Undisturbed
<1>o. \A k, e \in Attempts : phase[k] \in Live /\ e # k => phase[e] \notin Live
  BY OnlyLive DEF FilmInv
<1>a. "aside" \in Live
  BY DEF Live
(* Steps that neither begin nor end the time between the halves. *)
<1>1. ASSUME NEW k \in Attempts, NEW p \in {"exited", "swap", "cancelled", "failed"},
             phase' = [phase EXCEPT ![k] = p], phase[k] \in {"encode", "exited", "idle"},
             phase[k] = "idle" => p = "failed",
             link'["input"] = link["input"], UNCHANGED target,
             p # "cancelled" => link'["output"] = link["output"],
             p = "cancelled" => phase[k] \in Live
      PROVE  CalmInv'
  <2>1. \A e \in Attempts : phase'[e] \in Live =>
           phase[e] \in Live /\ (p = "cancelled" => e # k)
    BY <1>0, <1>1 DEF Live
  <2>2. \A e \in Attempts : phase'[e] \in Live => link'["output"] = target'[e]
    BY <1>1, <1>t, <1>o, <2>1
  <2>3. \A e \in Attempts : phase[e] = "aside" => phase'[e] = "aside"
    BY <1>0, <1>1
  <2> QED
    BY <1>1, <1>t, <2>2, <2>3 DEF CalmInv, Exists
<1>2. ASSUME NEW k \in Attempts, NEW delete \in BOOLEAN, Launch(k, delete) PROVE CalmInv'
  <2>1. /\ Ready(k) /\ phase[k] = "idle" /\ Exists("input")
        /\ phase' = [phase EXCEPT ![k] = "encode"]
        /\ link'["output"] = target'[k] /\ link'["input"] = link["input"]
    BY <1>0, <1>2 DEF Launch, Ready
  <2>2. \A e \in Attempts : phase[e] \notin Live
    BY <1>0, <2>1 DEF Ready, FilmInv, OneTask, Live, Settled, Gone, Attempts
  <2> QED
    BY <1>0, <2>1, <2>2 DEF CalmInv, Exists
<1>3. ASSUME NEW k \in Attempts, NEW ok \in BOOLEAN,
             LaunchFails(k) \/ EncodeExits(k, ok) \/ NoticeCancel(k) \/ Judge(k)
      PROVE  CalmInv'
  BY <1>0, <1>1, <1>3
     DEF LaunchFails, Ready, EncodeExits, NoticeCancel, LeftoverOfCancel, Judge, Live
<1>4. ASSUME NEW k \in Attempts, NEW ok \in BOOLEAN,
             OrphanExits(k, ok) \/ TaskDies(k)
      PROVE  FALSE
  BY <1>4, <1>t DEF OrphanExits, TaskDies
<1>5. ASSUME NEW k \in Attempts, SwapFails(k) PROVE FALSE
  <2>1. CASE phase[k] = "swap"
    <3>1. \A e \in Attempts : phase[e] # "aside"
      BY <1>o, <2>1 DEF Live
    <3> QED
      BY <1>5, <1>t, <2>1, <3>1 DEF SwapFails
  <2>2. CASE phase[k] = "aside"
    BY <1>5, <1>t, <1>a, <2>2 DEF SwapFails, Exists
  <2> QED
    BY <1>5, <2>1, <2>2 DEF SwapFails
<1>6. ASSUME NEW k \in Attempts, SetAside(k) PROVE CalmInv'
  <2>1. /\ phase[k] \in Live
        /\ phase' = [phase EXCEPT ![k] = "aside"]
        /\ UNCHANGED target
        /\ link'["output"] = link["output"]
    BY <1>0, <1>6 DEF SetAside, Live
  <2>2. \A e \in Attempts : phase'[e] \in Live => phase[e] \in Live
    BY <1>0, <2>1
  <2> QED
    BY <1>0, <1>t, <2>1, <2>2 DEF CalmInv
<1>7. ASSUME NEW k \in Attempts, TakeName(k) PROVE CalmInv'
  <2>1. /\ phase[k] \in Live
        /\ phase' = [phase EXCEPT ![k] = "swapped"]
        /\ link'["input"] = link["output"] /\ Exists("output")
    BY <1>0, <1>7 DEF TakeName, Live
  <2>2. \A e \in Attempts : phase'[e] \notin Live
    BY <1>0, <1>o, <2>1 DEF Live
  <2> QED
    BY <2>1, <2>2 DEF CalmInv, Exists
<1>8. CASE UNCHANGED vars
  BY <1>8, <1>t DEF vars, CalmInv, Exists
<1>9. CASE Cleanup
  BY <1>9 DEF Cleanup
<1>10. BOOLEAN # {}
  OBVIOUS
<1> QED
  BY <1>2, <1>3, <1>4, <1>5, <1>6, <1>7, <1>8, <1>9, <1>10 DEF Next

LEMMA FilmAlways == Spec => []FilmInv
<1>1. Init => FilmInv
  BY TypeInit, FilmInit DEF FilmInv
<1>2. FilmInv /\ [Next]_vars => FilmInv'
  BY TypeStep, OneTaskStep, TaskStep, CalmStep DEF FilmInv
<1> QED
  BY <1>1, <1>2, PTL DEF Spec

(* Half-written outputs stay out of the library: the success test after
   ffmpeg and the -y of build_ffmpeg_args carry this through crashes and
   cleanups. *)
THEOREM NoPartialInPlace == Spec => []OnlyFullFilesInPlace
<1>1. FilmInv => OnlyFullFilesInPlace
  BY DEF FilmInv, TaskInv, OnlyFullFilesInPlace
<1> QED
  BY <1>1, FilmAlways, PTL

(* Without faults the film is on disk at every moment, between the two
   halves of finalize_swap included. *)
THEOREM FilmAlwaysThere == Spec => []NeverWithoutFilm
<1>1. FilmInv => NeverWithoutFilm
  <2> SUFFICES ASSUME FilmInv, faults = {} PROVE FullCopyLinked
    BY DEF NeverWithoutFilm
  <2>1. CASE \A k \in Attempts : phase[k] # "aside"
    BY <2>1 DEF FilmInv, CalmInv, TaskInv, FullCopyLinked, Names
  <2>2. ASSUME NEW k \in Attempts, phase[k] = "aside" PROVE FullCopyLinked
    <3>1. Undisturbed(k) /\ link["output"] = target[k]
      BY <2>2 DEF FilmInv, CalmInv, TaskInv, Live
    <3> QED
      BY <2>2, <3>1 DEF Undisturbed, FullCopyLinked, Full, Exists, Names
  <2> QED
    BY <2>1, <2>2
<1> QED
  BY <1>1, FilmAlways, PTL
=============================================================================

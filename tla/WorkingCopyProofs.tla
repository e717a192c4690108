-------------------------- MODULE WorkingCopyProofs --------------------------
(***************************************************************************)
(* Theorems about WorkingCopy, for any files, contents and packages that   *)
(* are checked out, any number of edits and any number of stray tasks.     *)
(***************************************************************************)
EXTENDS WorkingCopy, TLAPS

-----------------------------------------------------------------------------
(* The inductive invariant, in parts.                                      *)

Dos == {"inspect", "load", "listAdded", "listDeleted", "unlink", "copy",
        "upload", "unlinkWork", "unlinkStore", "post", "saveList", "saveFile",
        "dropAdded", "dropDeleted"}
Tasks == [do : Dos, file : Files \cup {None}, contents : Stored]
Kinds == {"idle", "readIn", "addAndDelete", "untrack", "undo", "commit"}

\* Types, also of what is in progress.  Only tasks that run together with
\* others that may fail are ever left behind.
TypeInv ==
  /\ workdir \in [Files -> Stored]
  /\ store \in [Files -> Stored]
  /\ listed \in [Files -> Stored]
  /\ toBeAdded \subseteq Files
  /\ toBeDeleted \subseteq Files
  /\ memory \in Packages \cup {NoPackage}
  /\ op \in [kind : Kinds, todo : SUBSET Tasks, result : Packages \cup {NoPackage}]
  /\ op.todo = {} => op = Idle
  /\ op.kind = "idle" => op = Idle
  /\ op.kind # "idle" => op.result \in Packages
  /\ op.kind \notin {"idle", "readIn"} => memory \in Packages \ {NoPackage}
  /\ stray \subseteq Tasks
  /\ \A t \in stray :
       t.do \in {"unlink", "copy", "upload", "unlinkWork", "unlinkStore"}
  /\ head \in [Files -> Stored]
  /\ blobs \subseteq Contents
  /\ edits \in 0 .. MaxEdits
  /\ synced \in BOOLEAN
  /\ interrupted \in BOOLEAN
  /\ behind \in BOOLEAN

\* The operation that a task belongs to.
OwnersOf(do) ==
  CASE do \in {"inspect", "load"} -> {"readIn"}
    [] do = "unlink" -> {"addAndDelete"}
    [] do = "copy" -> {"undo"}
    [] do = "listAdded" -> {"addAndDelete", "untrack"}
    [] do = "listDeleted" -> {"addAndDelete", "undo"}
    [] OTHER -> {"commit"}

\* The files that a task may be about.
FilesFor(do) ==
  CASE do = "inspect" -> Files
    [] do = "load" -> {f \in InState(op.result, {"modified"}) :
                         Task("inspect", f) \notin op.todo}
    [] do = "unlink" -> InState(op.result, {"to_be_deleted"})
    [] do = "copy" -> {f \in InState(memory, {"to_be_deleted", "missing"}) :
                         op.result[f].state = "unmodified"}
    [] do = "upload" -> InState(memory, {"modified", "to_be_added"})
    [] do \in {"unlinkWork", "unlinkStore"} -> InState(memory, {"to_be_deleted"})
    [] do = "saveFile" -> FilesOf(op.result)
    [] OTHER -> {None}

TasksFit ==
  \A t \in op.todo :
    /\ op.kind \in OwnersOf(t.do)
    /\ t.file \in FilesFor(t.do)
    /\ t.do # "upload" => t.contents = None

\* What an operation makes of the caller's object.
ResultFits ==
  CASE op.kind = "addAndDelete" ->
         \A f \in Files :
           \/ op.result[f] = memory[f]
           \/ op.result[f].state = "to_be_added" /\ memory[f].state = "untracked"
           \/ /\ op.result[f] = [memory[f] EXCEPT !.state = "to_be_deleted"]
              /\ IsTrackedFile(memory[f])
    [] op.kind = "untrack" ->
         \A f \in Files :
           \/ op.result[f] = memory[f]
           \/ /\ op.result[f] = [memory[f] EXCEPT !.state = "untracked"]
              /\ memory[f].state = "to_be_added"
    [] op.kind = "undo" ->
         /\ Whole("listDeleted") \in op.todo
         /\ \A f \in Files :
              \/ op.result[f] = memory[f]
              \/ /\ op.result[f] = [memory[f] EXCEPT !.state = "unmodified"]
                 /\ memory[f].state \in {"to_be_deleted", "missing"}
    [] op.kind = "commit" -> op.result = [f \in Files |-> Committed(memory[f])]
    [] OTHER -> TRUE

\* A commit saves after the post and nothing else.
CommitPhases ==
  op.kind = "commit" =>
    IF Saving THEN op.todo \subseteq SaveTasks(op.result)
    ELSE SaveTasks(op.result) \subseteq op.todo

\* What it saves is what the server has accepted.
SavedIsAccepted ==
  Saving =>
    /\ head = DirectoryFromModifiedPackage(memory)
    /\ \A f \in FilesOf(op.result) : op.result[f].md5 = op.result[f].contents
    /\ \/ Whole("saveList") \in op.todo
       \/ listed = [f \in Files |-> IF f \in FilesOf(op.result)
                                    THEN op.result[f].md5 ELSE None]
    /\ Whole("dropAdded") \in op.todo \/ toBeAdded = {}
    /\ Whole("dropDeleted") \in op.todo \/ toBeDeleted = {}

PartsOfTasks == TasksFit /\ ResultFits /\ CommitPhases /\ SavedIsAccepted

\* The lists name what the object plans, and what an operation that has written
\* a list plans.
PlansHold ==
  /\ memory # NoPackage /\ ~Saving =>
       /\ InState(memory, {"to_be_added"}) \subseteq toBeAdded
       /\ InState(memory, {"to_be_deleted"}) \subseteq toBeDeleted
  /\ op.kind \in {"readIn", "addAndDelete"} =>
       /\ \/ Whole("listAdded") \in op.todo
          \/ InState(op.result, {"to_be_added"}) \subseteq toBeAdded
       /\ \/ Whole("listDeleted") \in op.todo
          \/ InState(op.result, {"to_be_deleted"}) \subseteq toBeDeleted

\* Exactly the files of the checked out revision are shown as belonging to it.
InRevision == {"unmodified", "modified", "missing", "to_be_deleted"}
ListedFits(pkg) == \A f \in Files : listed[f] # None <=> pkg[f].state \in InRevision
ListedHold ==
  /\ memory # NoPackage /\ ~Saving => ListedFits(memory)
  /\ op.kind \notin {"idle", "commit"} => ListedFits(op.result)

\* .osc has all files of the revision, or a commit is about to bring them, or
\* has broken off.
Damaged == interrupted /\ ~synced
StoreHolds ==
  /\ \A t \in stray : t.do = "unlinkStore" => interrupted
  /\ op.kind # "commit" => Readable \/ Damaged
  /\ op.kind = "commit" /\ ~Saving /\ InState(memory, {"to_be_deleted"}) = {} =>
       Readable \/ Damaged
  /\ Saving =>
       \/ Damaged
       \/ \A f \in FilesOf(op.result) :
            \/ Task("saveFile", f) \in op.todo
            \/ store[f] = op.result[f].contents

\* The entry is what reading the checkout in would show.
Shows(entry, f) ==
  CASE entry.state = "absent" -> workdir[f] = None
    [] entry.state = "untracked" -> workdir[f] # None /\ f \notin toBeAdded
    [] entry.state = "to_be_added" -> workdir[f] = entry.md5 /\ f \in toBeAdded
    [] entry.state = "unmodified" ->
         workdir[f] = entry.md5 /\ listed[f] = entry.md5 /\ f \notin toBeDeleted
    [] entry.state = "modified" ->
         workdir[f] = entry.md5 /\ listed[f] # entry.md5 /\ f \notin toBeDeleted
    [] entry.state = "missing" ->
         workdir[f] = None /\ listed[f] = entry.md5 /\ f \notin toBeDeleted
    [] OTHER -> f \in toBeDeleted

\* The entry is what is in the directory, once its deletions are through.
InDirectory(entry, f) ==
  CASE entry.state \in {"absent", "to_be_deleted", "missing"} -> workdir[f] = None
    [] entry.state = "untracked" -> workdir[f] # None
    [] OTHER -> workdir[f] = entry.md5

\* While the object is in step with the directory, each file looks as it did
\* before the operation or as it will after it.
ShowsFile(f) ==
  CASE op.kind = "readIn" ->
         \/ Shows(op.result[f], f)
         \/ /\ Task("inspect", f) \in op.todo
            /\ op.result[f] = Unseen(f)
    [] op.kind = "addAndDelete" ->
         \/ op.result[f] = memory[f] /\ Shows(memory[f], f)
         \/ /\ op.result[f].state = "to_be_added"
            /\ memory[f].state = "untracked"
            /\ workdir[f] = op.result[f].md5
            /\ f \in toBeAdded <=> Whole("listAdded") \notin op.todo
         \/ /\ op.result[f].state = "to_be_deleted"
            /\ IsTrackedFile(memory[f])
            /\ IF Whole("listDeleted") \in op.todo THEN Shows(memory[f], f)
               ELSE f \in toBeDeleted
    [] op.kind = "undo" ->
         \/ op.result[f] = memory[f] /\ Shows(memory[f], f)
         \/ /\ op.result[f].state = "unmodified"
            /\ memory[f].state \in {"to_be_deleted", "missing"}
            /\ memory[f].md5 = listed[f]
            /\ f \in toBeDeleted <=> memory[f].state = "to_be_deleted"
            /\ \/ workdir[f] = listed[f]
               \/ Task("copy", f) \in op.todo /\
                  (memory[f].state = "missing" => workdir[f] = None)
    [] op.kind = "commit" ->
         IF Saving THEN InDirectory(memory[f], f)
         ELSE /\ Shows(memory[f], f)
              /\ \/ memory[f].state # "to_be_deleted"
                 \/ Task("unlinkWork", f) \in op.todo
                 \/ workdir[f] = None
    [] OTHER -> Shows(memory[f], f)

SyncHolds ==
  synced /\ (memory # NoPackage \/ op.kind = "readIn") => \A f \in Files : ShowsFile(f)

IInv == /\ TypeInv
        /\ PartsOfTasks
        /\ PlansHold
        /\ ListedHold
        /\ StoreHolds
        /\ SyncHolds

-----------------------------------------------------------------------------
(* How steps end.  A task that fails, or one that a rejected operation has *)
(* left behind, does the same to the invariant whichever task it is.       *)

(* An object of the caller has an entry or none for each file.             *)
LEMMA EntryTypes ==
  ASSUME NEW pkg \in Packages, NEW f \in Files
  PROVE  /\ pkg[f] \in Entries \cup {Absent}
         /\ pkg[f].state \in FileStates => pkg[f] \in Entries
         /\ pkg[f].state \in FileStates \cup {"absent"}
         /\ pkg[f].state = "absent" <=> pkg[f] = Absent
  BY DEF Packages, Entries, Absent, Entry, FileStates

LEMMA NewEntry ==
  ASSUME NEW state \in FileStates, NEW md5, NEW contents
  PROVE  /\ Entry(state, md5, contents).state = state
         /\ Entry(state, md5, contents).md5 = md5
         /\ Entry(state, md5, contents).contents = contents
         /\ md5 \in Contents /\ contents \in Contents =>
              Entry(state, md5, contents) \in Entries
  BY DEF Entry, Entries

LEMMA InOtherState ==
  ASSUME NEW entry \in Entries, NEW state \in FileStates
  PROVE  /\ [entry EXCEPT !.state = state] \in Entries
         /\ [entry EXCEPT !.state = state].state = state
         /\ [entry EXCEPT !.state = state].md5 = entry.md5
         /\ [entry EXCEPT !.state = state].contents = entry.contents
  BY DEF Entries

LEMMA NewTask ==
  ASSUME NEW do \in Dos, NEW f \in Files \cup {None}, NEW contents \in Stored
  PROVE  /\ Task(do, f) \in Tasks /\ Whole(do) \in Tasks /\ Put(f, contents) \in Tasks
         /\ Task(do, f).do = do /\ Whole(do).do = do /\ Put(f, contents).do = "upload"
         /\ Task(do, f).file = f /\ Whole(do).file = None /\ Put(f, contents).file = f
         /\ Task(do, f).contents = None /\ Whole(do).contents = None
         /\ Put(f, contents).contents = contents
  BY DEF Task, Whole, Put, Tasks, Dos, Stored

LEMMA IdleFields ==
  /\ Idle.kind = "idle"
  /\ Idle.todo = {}
  /\ Idle \in [kind : Kinds, todo : SUBSET Tasks, result : Packages \cup {NoPackage}]
  BY DEF Idle, Kinds

LEMMA InitHolds == Init => IInv
<1> SUFFICES ASSUME Init
             PROVE  IInv
  OBVIOUS
<1>1. memory \in Packages
  BY WorkingCopyAssumption DEF Init, Packages, Entries, Entry, Absent, FileStates, Stored
<1>2. TypeInv
  <2>1. op.todo = {} /\ op.kind = "idle" /\ op = Idle
    BY IdleFields DEF Init
  <2>2. op \in [kind : Kinds, todo : SUBSET Tasks, result : Packages \cup {NoPackage}]
    BY <2>1, IdleFields
  <2>3. blobs \subseteq Contents
    BY WorkingCopyAssumption DEF Init, Stored
  <2>4. edits \in 0 .. MaxEdits
    BY WorkingCopyAssumption DEF Init
  <2> QED
    BY <1>1, <2>1, <2>2, <2>3, <2>4, WorkingCopyAssumption DEF Init, TypeInv
<1>3. op.kind = "idle" /\ op.todo = {}
  BY IdleFields DEF Init
<1>4. PartsOfTasks
  BY <1>3 DEF PartsOfTasks, TasksFit, ResultFits, CommitPhases, SavedIsAccepted, Saving
<1>5. \A f \in Files : memory[f].state = IF CheckedOut[f] = None THEN "absent"
                                         ELSE "unmodified"
  BY DEF Init, Entry, Absent
<1>6. PlansHold
  BY <1>3, <1>5 DEF PlansHold, InState, Init
<1>7. ListedHold
  BY <1>3, <1>5 DEF ListedHold, ListedFits, Init, InRevision
<1>8. StoreHolds
  BY <1>3 DEF StoreHolds, Saving, Readable, Init
<1>9. SyncHolds
  BY <1>3, <1>5 DEF SyncHolds, ShowsFile, Shows, Init, Entry, Absent
<1> QED
  BY <1>2, <1>4, <1>6, <1>7, <1>8, <1>9 DEF IInv

LEMMA StageCases ==
  ASSUME NEW t
  PROVE  /\ Stage(t) = 2 <=> t.do \in {"post", "listAdded", "listDeleted"}
         /\ Stage(t) = 3 <=> t.do \in {"unlink", "saveList", "saveFile", "dropAdded",
                                       "dropDeleted"}
         /\ Stage(t) \in {1, 2, 3}
  BY DEF Stage

(* Which operation runs when a task is ready, and what runs beside it.     *)
LEMMA ReadyTask ==
  ASSUME IInv, NEW t, Ready(t)
  PROVE  /\ t \in op.todo
         /\ op.kind \in OwnersOf(t.do)
         /\ t.file \in FilesFor(t.do)
         /\ t \in Tasks
         /\ \A u \in op.todo : Stage(t) <= Stage(u)
  BY DEF IInv, TypeInv, PartsOfTasks, TasksFit, Ready

(* A running operation is rejected before it saves: nothing is running any *)
(* more, the object is out of step, and a damage is remembered.            *)
LEMMA RejectStep ==
  ASSUME IInv, NEW t, Ready(t), Reject(t),
         t.do \in {"inspect", "load", "unlink", "copy", "upload", "post"},
         UNCHANGED <<disk, edits>>,
         head' \in [Files -> Stored], blobs' \subseteq Contents, behind' \in BOOLEAN
  PROVE  IInv'
<1>1. /\ op' = Idle
      /\ op'.kind = "idle" /\ op'.todo = {}
      /\ memory' = memory /\ synced' = FALSE /\ ~Saving'
  BY IdleFields DEF Reject, Saving
<1>2. /\ interrupted' = (interrupted \/ Damaging)
      /\ t \in op.todo
  BY DEF Reject, Ready
<1>3. ~Saving
  <2> SUFFICES ASSUME Saving
               PROVE  FALSE
    OBVIOUS
  <2>1. t \in SaveTasks(op.result)
    BY <1>2 DEF IInv, PartsOfTasks, CommitPhases, Saving
  <2> QED
    BY <2>1 DEF SaveTasks, Task, Whole
<1>4. ASSUME NEW u \in stray'
      PROVE  /\ u \in Tasks
             /\ u.do \in {"unlink", "copy", "upload", "unlinkWork", "unlinkStore"}
             /\ u.do = "unlinkStore" => interrupted'
  <2>1. CASE u \in stray
    BY <1>2, <2>1 DEF IInv, TypeInv, StoreHolds
  <2>2. CASE u \in op.todo \ {t} /\ Ready(u) /\ u.do \notin {"inspect", "load"}
    <3>1. Stage(u) = Stage(t)
      BY <2>2, ReadyTask, StageCases
    <3>2. /\ u \in Tasks /\ t \in Tasks
          /\ op.kind \in OwnersOf(u.do) \cap OwnersOf(t.do)
          /\ u.file \in FilesFor(u.do)
          /\ u.do # "upload" => u.contents = None
          /\ t.file \in FilesFor(t.do)
          /\ t.do # "upload" => t.contents = None
      BY <2>2, <1>2 DEF IInv, TypeInv, PartsOfTasks, TasksFit
    <3>3. u.do \in {"unlink", "copy", "upload", "unlinkWork", "unlinkStore"}
      <4>1. CASE t.do = "post"
        <5>1. u.do = "post"
          BY <3>1, <3>2, <4>1, StageCases DEF OwnersOf
        <5>2. u = t
          BY <3>2, <4>1, <5>1 DEF FilesFor, Tasks
        <5> QED
          BY <2>2, <5>2
      <4>2. CASE t.do # "post"
        BY <2>2, <3>1, <3>2, <4>2, StageCases DEF OwnersOf, Tasks, Dos
      <4> QED
        BY <4>1, <4>2
    <3>4. u.do = "unlinkStore" => interrupted'
      BY <1>2, <3>2 DEF OwnersOf, FilesFor, Damaging
    <3> QED
      BY <3>2, <3>3, <3>4
  <2> QED
    BY <2>1, <2>2 DEF Reject
<1>5. TypeInv'
  <2>1. op' \in [kind : Kinds, todo : SUBSET Tasks, result : Packages \cup {NoPackage}]
    BY <1>1, IdleFields
  <2>2. interrupted' \in BOOLEAN /\ synced' \in BOOLEAN
    BY <1>1, <1>2
  <2> QED
    BY <1>1, <1>4, <2>1, <2>2 DEF IInv, TypeInv, disk
<1>6. PartsOfTasks'
  BY <1>1 DEF PartsOfTasks, TasksFit, ResultFits, CommitPhases, SavedIsAccepted, Saving
<1>7. PlansHold' /\ ListedHold'
  BY <1>1, <1>3 DEF IInv, PlansHold, ListedHold, ListedFits, InState, disk
<1>8. StoreHolds'
  <2>1. Readable' <=> Readable
    BY DEF Readable, disk
  <2>2. Readable \/ interrupted'
    BY <1>2, <1>3 DEF IInv, StoreHolds, Damaged, Damaging
  <2> QED
    BY <1>1, <1>4, <2>1, <2>2 DEF StoreHolds, Damaged
<1>9. SyncHolds'
  BY <1>1 DEF SyncHolds
<1> QED
  BY <1>5, <1>6, <1>7, <1>8, <1>9 DEF IInv

(* A task that a rejected operation has left behind is through, or the     *)
(* user has edited a file: a file of the directory has changed, one of     *)
(* .osc, or nothing.                                                       *)
LEMMA OutsideStep ==
  ASSUME IInv, stray' \subseteq stray,
         UNCHANGED <<op, memory, listed, toBeAdded, toBeDeleted, head, behind,
                     interrupted>>,
         workdir' \in [Files -> Stored], store' \in [Files -> Stored],
         blobs' \subseteq Contents, edits' \in 0 .. MaxEdits,
         \/ synced' = FALSE
         \/ synced' = synced /\ UNCHANGED <<workdir, store>>,
         store' = store \/ interrupted
  PROVE  IInv'
<1>1. TypeInv'
  BY DEF IInv, TypeInv
<1>2. /\ Saving' = Saving /\ FilesOf(op.result)' = FilesOf(op.result)
      /\ SaveTasks(op.result)' = SaveTasks(op.result)
  BY DEF Saving, FilesOf, InState, SaveTasks
<1>3. PartsOfTasks'
  BY <1>2 DEF IInv, PartsOfTasks, TasksFit, FilesFor, InState, ResultFits, CommitPhases,
              SavedIsAccepted, DirectoryFromModifiedPackage
<1>4. PlansHold' /\ ListedHold'
  BY <1>2 DEF IInv, PlansHold, ListedHold, ListedFits, InState
<1>5. StoreHolds'
  BY <1>2 DEF IInv, StoreHolds, Damaged, Readable, InState
<1>6. SyncHolds'
  <2>1. CASE synced' = FALSE
    BY <2>1 DEF SyncHolds
  <2>2. CASE synced' = synced /\ UNCHANGED <<workdir, store>>
    <3>1. \A f \in Files : Unseen(f)' = Unseen(f)
      BY <2>2 DEF Unseen
    <3>2. ASSUME NEW f \in Files, ShowsFile(f)
          PROVE  ShowsFile(f)'
      BY <1>2, <2>2, <3>1, <3>2 DEF ShowsFile, Shows, InDirectory, IsTrackedFile
    <3> QED
      BY <2>2, <3>2 DEF IInv, SyncHolds
  <2> QED
    BY <2>1, <2>2
<1> QED
  BY <1>1, <1>3, <1>4, <1>5, <1>6 DEF IInv

(* An object is there or not; one of a package with files is not NoPackage. *)
LEMMA SomeFile ==
  ASSUME NEW pkg \in Packages, NEW other \in Packages, pkg # NoPackage
  PROVE  other # NoPackage
<1>1. Files # {}
  BY DEF Packages, NoPackage
<1> QED
  BY <1>1 DEF Packages, NoPackage

(* The caller may start an operation: nothing is in progress and its       *)
(* object is there.                                                        *)
LEMMA Starting ==
  ASSUME IInv, CanStart
  PROVE  /\ op = Idle /\ op.kind = "idle" /\ op.todo = {} /\ ~Saving
         /\ memory \in Packages /\ memory # NoPackage
  BY IdleFields DEF IInv, TypeInv, CanStart, CanRead, Saving

(* A task is done: either it was the last one and its object becomes the   *)
(* caller's, or the operation goes on with what is left.                   *)
LEMMA ProceedCases ==
  ASSUME IInv, NEW t, Ready(t), NEW next \in SUBSET Tasks, NEW r \in Packages,
         Proceed(t, next, r)
  PROVE  /\ t \in op.todo /\ op.kind # "idle"
         /\ stray' = stray /\ synced' = synced
         /\ op' \in [kind : Kinds, todo : SUBSET Tasks,
                      result : Packages \cup {NoPackage}]
         /\ memory' \in Packages \cup {NoPackage}
         /\ \/ /\ (op.todo \ {t}) \cup next = {}
               /\ op' = Idle /\ op'.kind = "idle" /\ op'.todo = {}
               /\ memory' = r /\ ~Saving'
            \/ /\ (op.todo \ {t}) \cup next # {}
               /\ op'.kind = op.kind /\ op'.todo = (op.todo \ {t}) \cup next
               /\ op'.result = r /\ memory' = memory
<1>1. /\ t \in op.todo /\ op.kind # "idle" /\ op \in [kind : Kinds, todo : SUBSET Tasks,
                      result : Packages \cup {NoPackage}]
      /\ memory \in Packages \cup {NoPackage}
  BY IdleFields DEF IInv, TypeInv, Ready
<1>2. CASE (op.todo \ {t}) \cup next = {}
  <2>1. op' = Idle /\ memory' = r /\ stray' = stray /\ synced' = synced
    BY <1>2 DEF Proceed
  <2> QED
    BY <1>1, <1>2, <2>1, IdleFields DEF Saving
<1>3. CASE (op.todo \ {t}) \cup next # {}
  <2>1. /\ op' = [op EXCEPT !.todo = (op.todo \ {t}) \cup next, !.result = r]
        /\ memory' = memory /\ stray' = stray /\ synced' = synced
    BY <1>3 DEF Proceed
  <2> QED
    BY <1>1, <1>3, <2>1
<1> QED
  BY <1>2, <1>3

(* Every operation that is in progress has a result.                       *)
LEMMA Running ==
  ASSUME IInv, NEW t, Ready(t)
  PROVE  /\ op.result \in Packages
         /\ op.kind # "readIn" => memory \in Packages \ {NoPackage}
         /\ op.kind # "commit" => ~Saving
  BY IdleFields DEF IInv, TypeInv, Ready, Saving

-----------------------------------------------------------------------------
(* readInModifiedPackageFromDir().                                         *)

LEMMA ReadInHolds ==
  ASSUME IInv, ReadInModifiedPackageFromDir
  PROVE  IInv'
<1> DEFINE present == {f \in Files : workdir[f] # None}
           unseen == [f \in Files |-> Unseen(f)]
<1>1. /\ op = Idle /\ op.kind = "idle" /\ Readable /\ synced' = TRUE
      /\ UNCHANGED <<disk, stray, server, edits, interrupted, behind>>
  BY IdleFields DEF ReadInModifiedPackageFromDir, CanRead
<1>2. ASSUME NEW f \in Files
      PROVE  /\ unseen[f] = Unseen(f)
             /\ unseen[f] \in Entries \cup {Absent}
             /\ listed[f] # None <=> unseen[f].state \in InRevision
             /\ unseen[f].state \in {"absent", "to_be_deleted", "missing"}
             /\ unseen[f].state = "to_be_deleted" => f \in toBeDeleted
             /\ unseen[f].state = "missing" =>
                  f \notin toBeDeleted /\ unseen[f].md5 = listed[f]
  BY <1>1, WorkingCopyAssumption
     DEF IInv, TypeInv, Unseen, Readable, Entries, Entry, Absent, FileStates, Stored, InRevision
<1>3. unseen \in Packages
  BY <1>2 DEF Packages
<1>4. \/ /\ present = {} /\ memory' = unseen /\ op' = op
      \/ /\ present # {} /\ memory' = memory
         /\ op' = [kind |-> "readIn", todo |-> {Task("inspect", f) : f \in present},
                   result |-> unseen]
  BY DEF ReadInModifiedPackageFromDir
<1> HIDE DEF unseen, present
<1>5. ASSUME NEW f \in present
      PROVE  Task("inspect", f) \in Tasks
  BY DEF present, Task, Tasks, Dos, Stored
<1>6. TypeInv'
  <2>1. CASE op' = op /\ memory' = unseen
    BY <1>1, <1>3, <2>1 DEF IInv, TypeInv, disk, server
  <2>2. CASE /\ present # {} /\ memory' = memory
             /\ op' = [kind |-> "readIn", todo |-> {Task("inspect", f) : f \in present},
                       result |-> unseen]
    <3>1. /\ op' \in [kind : Kinds, todo : SUBSET Tasks, result : Packages \cup {NoPackage}]
          /\ op'.todo # {} /\ op'.kind = "readIn" /\ op'.result \in Packages
      BY <1>3, <1>5, <2>2 DEF Kinds
    <3> QED
      BY <1>1, <2>2, <3>1 DEF IInv, TypeInv, disk, server
  <2> QED
    BY <1>4, <2>1, <2>2
<1>7. /\ op'.kind \in {"idle", "readIn"} /\ ~Saving /\ ~Saving'
      /\ \/ /\ memory' = unseen /\ op'.kind = "idle" /\ op'.todo = {} /\ present = {}
         \/ /\ memory' = memory /\ op'.kind = "readIn" /\ op'.result = unseen
            /\ op'.todo = {Task("inspect", f) : f \in present}
  BY <1>1, <1>4, IdleFields DEF Saving
<1>8. PartsOfTasks'
  <2>1. TasksFit'
    BY <1>7 DEF TasksFit, OwnersOf, FilesFor, Task, present
  <2> QED
    BY <1>7, <2>1 DEF PartsOfTasks, ResultFits, CommitPhases, SavedIsAccepted, Saving
<1>9. PlansHold'
  BY <1>1, <1>2, <1>7 DEF IInv, PlansHold, InState, disk
<1>10. ListedHold'
  BY <1>1, <1>2, <1>7 DEF IInv, ListedHold, ListedFits, disk
<1>11. StoreHolds'
  <2>1. Readable'
    BY <1>1 DEF Readable, disk
  <2> QED
    BY <1>1, <1>7, <2>1 DEF IInv, StoreHolds
<1>12. SyncHolds'
  <2> SUFFICES ASSUME NEW f \in Files
               PROVE  ShowsFile(f)'
    BY DEF SyncHolds
  <2>1. /\ unseen[f] = Unseen(f)'
        /\ workdir' = workdir /\ toBeDeleted' = toBeDeleted /\ listed' = listed
    BY <1>1, <1>2 DEF Unseen, disk
  <2>2. CASE op'.kind = "idle"
    <3>1. workdir[f] = None /\ memory' = unseen
      BY <1>7, <2>2 DEF present
    <3>2. Shows(memory[f], f)'
      BY <1>2, <2>1, <3>1 DEF Shows
    <3> QED
      BY <2>2, <3>2 DEF ShowsFile
  <2>3. CASE op'.kind = "readIn" /\ workdir[f] = None
    <3>1. op'.result = unseen
      BY <1>7, <2>3
    <3>2. Shows(op.result[f], f)'
      BY <1>2, <2>1, <2>3, <3>1 DEF Shows
    <3> QED
      BY <2>3, <3>2 DEF ShowsFile
  <2>4. CASE op'.kind = "readIn" /\ workdir[f] # None
    <3>1. Task("inspect", f) \in op'.todo /\ op'.result = unseen
      BY <1>7, <2>4 DEF present
    <3> QED
      BY <2>1, <2>4, <3>1 DEF ShowsFile
  <2> QED
    BY <1>7, <2>2, <2>3, <2>4
<1> QED
  BY <1>6, <1>8, <1>9, <1>10, <1>11, <1>12 DEF IInv

(* A file has been looked at: the object that is put together still fits   *)
(* the lists and the directory.                                            *)
LEMMA ReadingGoesOn ==
  ASSUME IInv, NEW t, Ready(t), op.kind = "readIn",
         NEW next \in SUBSET Tasks, NEW r \in Packages, Proceed(t, next, r),
         UNCHANGED <<disk, server, edits, interrupted, behind>>,
         \A u \in (op.todo \ {t}) \cup next :
           /\ op.kind \in OwnersOf(u.do)
           /\ u.file \in Files
           /\ u.do # "upload" => u.contents = None
           /\ u.do = "load" =>
                /\ r[u.file].state = "modified"
                /\ Task("inspect", u.file) \notin (op.todo \ {t}) \cup next,
         InState(r, {"to_be_added"}) \subseteq toBeAdded,
         InState(r, {"to_be_deleted"}) \subseteq toBeDeleted,
         ListedFits(r),
         synced =>
           \A f \in Files :
             \/ Shows(r[f], f)
             \/ Task("inspect", f) \in op.todo \ {t} /\ r[f] = Unseen(f)
  PROVE  IInv'
<1> DEFINE left == (op.todo \ {t}) \cup next
<1>1. /\ stray' = stray /\ synced' = synced
      /\ op' \in [kind : Kinds, todo : SUBSET Tasks, result : Packages \cup {NoPackage}]
      /\ memory' \in Packages \cup {NoPackage}
      /\ ~Saving
  BY ProceedCases, Running
<1>2. \/ /\ left = {} /\ op' = Idle /\ op'.kind = "idle" /\ op'.todo = {}
         /\ memory' = r /\ ~Saving'
      \/ /\ left # {} /\ op'.kind = "readIn" /\ op'.todo = left
         /\ op'.result = r /\ memory' = memory /\ ~Saving'
  BY ProceedCases DEF Saving
<1> HIDE DEF left
<1>3. TypeInv'
  BY <1>1, <1>2 DEF IInv, TypeInv, disk, server
<1>4. PartsOfTasks'
  <2>1. TasksFit'
    <3>1. CASE op'.todo = {}
      BY <3>1 DEF TasksFit
    <3>2. CASE op'.kind = "readIn" /\ op'.todo = left /\ op'.result = r
      <4> SUFFICES ASSUME NEW u \in left
                   PROVE  /\ op'.kind \in OwnersOf(u.do)
                          /\ u.file \in FilesFor(u.do)'
                          /\ u.do # "upload" => u.contents = None
        BY <3>2 DEF TasksFit
      <4>1. u.do \in {"inspect", "load"}
        BY DEF left, OwnersOf
      <4>2. u.file \in FilesFor(u.do)'
        BY <3>2, <4>1 DEF left, FilesFor, InState
      <4> QED
        BY <3>2, <4>2 DEF left
    <3> QED
      BY <1>2, <3>1, <3>2
  <2> QED
    BY <1>2, <2>1 DEF PartsOfTasks, ResultFits, CommitPhases, SavedIsAccepted, Saving
<1>5. PlansHold' /\ ListedHold'
  BY <1>1, <1>2 DEF IInv, PlansHold, ListedHold, ListedFits, InState, disk
<1>6. StoreHolds'
  BY <1>1, <1>2 DEF IInv, StoreHolds, Readable, Damaged, disk
<1>7. SyncHolds'
  <2> SUFFICES ASSUME synced, NEW f \in Files
               PROVE  ShowsFile(f)'
    BY <1>1 DEF SyncHolds
  <2>1. Unseen(f)' = Unseen(f)
    BY DEF Unseen, disk
  <2>2. CASE op'.kind = "idle" /\ memory' = r /\ left = {}
    <3>1. Shows(r[f], f)
      BY <2>2 DEF left
    <3>2. Shows(memory[f], f)'
      BY <2>2, <3>1 DEF Shows, disk
    <3> QED
      BY <2>2, <3>2 DEF ShowsFile
  <2>3. CASE op'.kind = "readIn" /\ op'.result = r /\ op'.todo = left
    <3>1. CASE Shows(r[f], f)
      <4>1. Shows(op.result[f], f)'
        BY <2>3, <3>1 DEF Shows, disk
      <4> QED
        BY <2>3, <4>1 DEF ShowsFile
    <3>2. CASE Task("inspect", f) \in op.todo \ {t} /\ r[f] = Unseen(f)
      BY <2>1, <2>3, <3>2 DEF ShowsFile, left
    <3> QED
      BY <3>1, <3>2
  <2> QED
    BY <1>2, <2>2, <2>3
<1> QED
  BY <1>3, <1>4, <1>5, <1>6, <1>7 DEF IInv

LEMMA InspectHolds ==
  ASSUME IInv, NEW f \in Files, Inspect(f)
  PROVE  IInv'
<1> DEFINE t == Task("inspect", f)
           entry == Seen(f, workdir[f], op.result[f])
           loads == IF entry.state = "modified" THEN {Task("load", f)} ELSE {}
           r == [op.result EXCEPT ![f] = entry]
<1>1. /\ Ready(t)
      /\ UNCHANGED <<disk, server, edits, behind>>
      /\ \/ workdir[f] # None /\ Proceed(t, loads, r) /\ interrupted' = interrupted
         \/ Reject(t)
  BY DEF Inspect
<1>2. t.do = "inspect" /\ t.file = f
  BY DEF Task
<1>3. CASE Reject(t)
  BY <1>1, <1>2, <1>3, RejectStep DEF IInv, TypeInv, server
<1>4. CASE workdir[f] # None /\ Proceed(t, loads, r) /\ interrupted' = interrupted
  <2>1. /\ op.kind = "readIn" /\ op.result \in Packages /\ ListedFits(op.result)
        /\ workdir[f] \in Contents
    BY <1>1, <1>2, <1>4, ReadyTask, Running DEF OwnersOf, IInv, ListedHold, TypeInv, Stored
  <2>2. /\ entry \in Entries
        /\ listed[f] # None <=> entry.state \in InRevision
        /\ entry.state = "to_be_added" => f \in toBeAdded
        /\ entry.state = "to_be_deleted" => f \in toBeDeleted
    <3>1. listed[f] # None => op.result[f].contents \in Contents
      BY <2>1, EntryTypes DEF ListedFits, InRevision, FileStates, Entries
    <3> QED
      BY <2>1, <3>1 DEF Seen, Entry, Entries, FileStates, InRevision
  <2>3. Shows(entry, f)
    BY <1>4, <2>1 DEF Seen, Entry, Shows
  <2> HIDE DEF entry
  <2>4. r \in Packages /\ r[f] = entry /\ \A g \in Files \ {f} : r[g] = op.result[g]
    BY <2>1, <2>2 DEF Packages
  <2>5. loads \in SUBSET Tasks
    BY DEF Task, Tasks, Dos, Stored
  <2> HIDE DEF r
  <2>6. ASSUME NEW u \in (op.todo \ {t}) \cup loads
        PROVE  /\ op.kind \in OwnersOf(u.do)
               /\ u.file \in Files
               /\ u.do # "upload" => u.contents = None
               /\ u.do = "load" =>
                    /\ r[u.file].state = "modified"
                    /\ Task("inspect", u.file) \notin (op.todo \ {t}) \cup loads
    <3>1. CASE u \in loads
      BY <2>1, <2>4, <3>1 DEF Task, OwnersOf
    <3>2. CASE u \in op.todo \ {t}
      <4>1. op.kind \in OwnersOf(u.do) /\ u.file \in FilesFor(u.do)
            /\ (u.do # "upload" => u.contents = None)
        BY <3>2 DEF IInv, PartsOfTasks, TasksFit
      <4>2. u.do \in {"inspect", "load"}
        BY <2>1, <4>1 DEF OwnersOf
      <4>3. u.file \in Files
        BY <4>1, <4>2 DEF FilesFor, InState
      <4>4. ASSUME u.do = "load"
            PROVE  /\ op.result[u.file].state = "modified"
                   /\ Task("inspect", u.file) \notin op.todo
        BY <4>1, <4>4 DEF FilesFor, InState
      <4>5. u.do = "load" => u.file # f
        BY <1>1, <4>4 DEF Ready
      <4>6. ASSUME NEW g
            PROVE  Task("inspect", g) \notin loads
        BY DEF Task
      <4> QED
        BY <2>4, <4>1, <4>3, <4>4, <4>5, <4>6
    <3> QED
      BY <3>1, <3>2
  <2>7. /\ InState(r, {"to_be_added"}) \subseteq toBeAdded
        /\ InState(r, {"to_be_deleted"}) \subseteq toBeDeleted
    <3>1. /\ InState(op.result, {"to_be_added"}) \subseteq toBeAdded
          /\ InState(op.result, {"to_be_deleted"}) \subseteq toBeDeleted
      <4>1. Whole("listAdded") \notin op.todo /\ Whole("listDeleted") \notin op.todo
        BY <2>1 DEF IInv, PartsOfTasks, TasksFit, OwnersOf, Whole, Task
      <4> QED
        BY <2>1, <4>1 DEF IInv, PlansHold
    <3> QED
      BY <2>2, <2>4, <3>1 DEF InState
  <2>8. ListedFits(r)
    BY <2>1, <2>2, <2>4 DEF ListedFits
  <2>9. ASSUME synced, NEW g \in Files
        PROVE  \/ Shows(r[g], g)
               \/ Task("inspect", g) \in op.todo \ {t} /\ r[g] = Unseen(g)
    <3>1. CASE g = f
      BY <2>3, <2>4, <3>1
    <3>2. CASE g # f
      BY <2>1, <2>4, <2>9, <3>2 DEF IInv, SyncHolds, ShowsFile, Task
    <3> QED
      BY <3>1, <3>2
  <2> QED
    BY <1>1, <1>4, <2>1, <2>4, <2>5, <2>6, <2>7, <2>8, <2>9, ReadingGoesOn
<1> QED
  BY <1>1, <1>3, <1>4

LEMMA LoadHolds ==
  ASSUME IInv, NEW f \in Files, Load(f)
  PROVE  IInv'
<1> DEFINE t == Task("load", f)
           r == [op.result EXCEPT ![f].contents = workdir[f]]
<1>1. /\ Ready(t)
      /\ UNCHANGED <<disk, server, edits, behind>>
      /\ \/ workdir[f] # None /\ Proceed(t, {}, r) /\ interrupted' = interrupted
         \/ Reject(t)
  BY DEF Load
<1>2. t.do = "load" /\ t.file = f
  BY DEF Task
<1>3. CASE Reject(t)
  BY <1>1, <1>2, <1>3, RejectStep DEF IInv, TypeInv, server
<1>4. CASE workdir[f] # None /\ Proceed(t, {}, r) /\ interrupted' = interrupted
  <2>1. /\ op.kind = "readIn" /\ op.result \in Packages /\ ListedFits(op.result)
        /\ workdir[f] \in Contents
        /\ op.result[f].state = "modified" /\ Task("inspect", f) \notin op.todo
    BY <1>1, <1>2, <1>4, ReadyTask, Running
       DEF OwnersOf, FilesFor, InState, IInv, ListedHold, TypeInv, Stored
  <2>2. op.result[f] \in Entries
    BY <2>1, EntryTypes DEF FileStates
  <2>3. /\ r \in Packages
        /\ r[f] = [op.result[f] EXCEPT !.contents = workdir[f]]
        /\ r[f].state = "modified" /\ r[f].md5 = op.result[f].md5
        /\ \A g \in Files \ {f} : r[g] = op.result[g]
    BY <2>1, <2>2 DEF Packages, Entries
  <2> HIDE DEF r
  <2>4. ASSUME NEW g \in Files
        PROVE  r[g].state = op.result[g].state /\ r[g].md5 = op.result[g].md5
    BY <2>1, <2>3
  <2>5. ASSUME NEW u \in (op.todo \ {t}) \cup {}
        PROVE  /\ op.kind \in OwnersOf(u.do)
               /\ u.file \in Files
               /\ u.do # "upload" => u.contents = None
               /\ u.do = "load" =>
                    /\ r[u.file].state = "modified"
                    /\ Task("inspect", u.file) \notin (op.todo \ {t}) \cup {}
    <3>1. op.kind \in OwnersOf(u.do) /\ u.file \in FilesFor(u.do)
          /\ (u.do # "upload" => u.contents = None)
      BY DEF IInv, PartsOfTasks, TasksFit
    <3>2. u.do \in {"inspect", "load"}
      BY <2>1, <3>1 DEF OwnersOf
    <3>3. u.file \in Files
      BY <3>1, <3>2 DEF FilesFor, InState
    <3> QED
      BY <2>4, <3>1, <3>3 DEF FilesFor, InState
  <2>6. /\ InState(r, {"to_be_added"}) \subseteq toBeAdded
        /\ InState(r, {"to_be_deleted"}) \subseteq toBeDeleted
    <3>1. Whole("listAdded") \notin op.todo /\ Whole("listDeleted") \notin op.todo
      BY <2>1 DEF IInv, PartsOfTasks, TasksFit, OwnersOf, Whole, Task
    <3> QED
      BY <2>1, <2>4, <3>1 DEF IInv, PlansHold, InState
  <2>7. ListedFits(r)
    BY <2>1, <2>4 DEF ListedFits
  <2>8. ASSUME synced, NEW g \in Files
        PROVE  \/ Shows(r[g], g)
               \/ Task("inspect", g) \in op.todo \ {t} /\ r[g] = Unseen(g)
    <3>1. \/ Shows(op.result[g], g)
          \/ Task("inspect", g) \in op.todo /\ op.result[g] = Unseen(g)
      BY <2>1, <2>8 DEF IInv, SyncHolds, ShowsFile
    <3>2. CASE Shows(op.result[g], g)
      BY <2>4, <3>2 DEF Shows
    <3>3. CASE Task("inspect", g) \in op.todo /\ op.result[g] = Unseen(g)
      BY <2>1, <2>3, <3>3 DEF Task
    <3> QED
      BY <3>1, <3>2, <3>3
  <2> QED
    BY <1>1, <1>4, <2>1, <2>3, <2>5, <2>6, <2>7, <2>8, ReadingGoesOn
<1> QED
  BY <1>1, <1>3, <1>4

-----------------------------------------------------------------------------
(* The operations on the two lists, and commit(), start.                   *)

(* While nothing is in progress the object of the caller fits the lists,   *)
(* the files in .osc and, while it is in step, the directory.              *)
LEMMA AtRest ==
  ASSUME IInv, CanStart
  PROVE  /\ InState(memory, {"to_be_added"}) \subseteq toBeAdded
         /\ InState(memory, {"to_be_deleted"}) \subseteq toBeDeleted
         /\ ListedFits(memory)
         /\ Readable \/ Damaged
         /\ synced => \A f \in Files : Shows(memory[f], f)
  BY Starting DEF IInv, PlansHold, ListedHold, StoreHolds, SyncHolds, ShowsFile

(* Files that are found in the directory are put into the object: nothing  *)
(* that it plans and nothing of the revision is touched, and there are     *)
(* none as long as it is in step.                                          *)
LEMMA FoundFits ==
  ASSUME IInv, CanStart, NEW names \in SUBSET Files
  PROVE  /\ Found(names) \in Packages \ {NoPackage}
         /\ \A f \in Files :
              \/ Found(names)[f] = memory[f]
              \/ /\ memory[f].state = "absent" /\ Found(names)[f].state = "untracked"
                 /\ ~synced
<1>1. /\ memory \in Packages /\ memory # NoPackage /\ workdir \in [Files -> Stored]
      /\ synced => \A f \in Files : Shows(memory[f], f)
  BY Starting, AtRest DEF IInv, TypeInv
<1>2. ASSUME NEW f \in Files
      PROVE  /\ Found(names)[f] \in Entries \cup {Absent}
             /\ \/ Found(names)[f] = memory[f]
                \/ /\ memory[f] = Absent /\ workdir[f] # None
                   /\ Found(names)[f] = Entry("untracked", workdir[f], workdir[f])
  BY <1>1, EntryTypes DEF Found, Entry, Entries, FileStates, Stored
<1>3. Found(names) \in Packages
  BY <1>2 DEF Packages, Found
<1>4. ASSUME NEW f \in Files, Found(names)[f] # memory[f]
      PROVE  /\ memory[f].state = "absent" /\ Found(names)[f].state = "untracked"
             /\ ~synced
  <2>1. /\ memory[f] = Absent /\ workdir[f] # None
        /\ Found(names)[f] = Entry("untracked", workdir[f], workdir[f])
    BY <1>2, <1>4
  <2>2. ~Shows(memory[f], f)
    BY <2>1 DEF Shows, Absent, Entry
  <2> QED
    BY <1>1, <2>1, <2>2 DEF Absent, Entry
<1> QED
  BY <1>1, <1>3, <1>4, SomeFile

LEMMA RejectedAddHolds ==
  ASSUME IInv, NEW f \in Files, RejectedAdd(f)
  PROVE  IInv'
<1>1. /\ CanStart /\ memory' = Found({f})
      /\ UNCHANGED <<disk, op, stray, server, edits, history>>
  BY DEF RejectedAdd
<1>2. /\ op.kind = "idle" /\ op.todo = {} /\ ~Saving /\ ~Saving'
      /\ memory \in Packages /\ memory # NoPackage
  BY <1>1, Starting DEF Saving
<1>3. /\ Found({f}) \in Packages \ {NoPackage}
      /\ \A g \in Files :
           \/ Found({f})[g] = memory[g]
           \/ /\ memory[g].state = "absent" /\ Found({f})[g].state = "untracked"
              /\ ~synced
  BY <1>1, FoundFits
<1>4. TypeInv'
  BY <1>1, <1>2, <1>3 DEF IInv, TypeInv, disk, server, history
<1>5. PartsOfTasks'
  BY <1>1, <1>2 DEF PartsOfTasks, TasksFit, ResultFits, CommitPhases, SavedIsAccepted
<1>6. PlansHold' /\ ListedHold'
  BY <1>1, <1>2, <1>3, AtRest
     DEF PlansHold, ListedHold, ListedFits, InState, InRevision, disk
<1>7. StoreHolds'
  BY <1>1, <1>2 DEF IInv, StoreHolds, Readable, Damaged, disk, history
<1>8. SyncHolds'
  <2> SUFFICES ASSUME synced, NEW g \in Files
               PROVE  ShowsFile(g)'
    BY <1>1 DEF SyncHolds, history
  <2>1. memory'[g] = memory[g] /\ Shows(memory[g], g)
    BY <1>1, <1>3, AtRest
  <2>2. Shows(memory[g], g)'
    BY <1>1, <2>1 DEF Shows, disk
  <2> QED
    BY <1>1, <1>2, <2>2 DEF ShowsFile
<1> QED
  BY <1>4, <1>5, <1>6, <1>7, <1>8 DEF IInv

LEMMA AddAndDeleteHolds ==
  ASSUME IInv, NEW names \in SUBSET Files, NEW others \in SUBSET Files,
         AddAndDeleteFilesFromPackage(names, others)
  PROVE  IInv'
<1> DEFINE found == Found(others)
           todo == {Whole("listAdded"), Whole("listDeleted")} \cup
                   {Task("unlink", f) : f \in names}
           r == [f \in Files |->
                   CASE f \in others -> Entry("to_be_added", workdir[f], workdir[f])
                     [] f \in names -> [memory[f] EXCEPT !.state = "to_be_deleted"]
                     [] OTHER -> memory[f]]
<1>1. /\ CanStart /\ others \cap names = {}
      /\ \A f \in others : found[f].state = "untracked" /\ workdir[f] # None
      /\ \A f \in names : IsTrackedFile(memory[f])
      /\ memory' = found
      /\ op' = [kind |-> "addAndDelete", todo |-> todo, result |-> r]
      /\ UNCHANGED <<disk, stray, server, edits, history>>
  BY DEF AddAndDeleteFilesFromPackage
<1>2. /\ op.kind = "idle" /\ op.todo = {} /\ ~Saving /\ ~Saving'
      /\ memory \in Packages /\ memory # NoPackage
      /\ workdir \in [Files -> Stored]
      /\ op'.kind = "addAndDelete" /\ op'.todo = todo /\ op'.result = r
  BY <1>1, Starting DEF Saving, IInv, TypeInv
<1>3. /\ found \in Packages \ {NoPackage}
      /\ \A f \in Files :
           \/ found[f] = memory[f]
           \/ /\ memory[f].state = "absent" /\ found[f].state = "untracked"
              /\ ~synced
      /\ \A f \in Files \ others : found[f] = memory[f]
  BY <1>1, FoundFits DEF Found
<1> HIDE DEF found
<1>4. ASSUME NEW f \in Files
      PROVE  \/ /\ f \in others /\ r[f] = Entry("to_be_added", workdir[f], workdir[f])
                /\ found[f].state = "untracked" /\ workdir[f] \in Contents
             \/ /\ f \in names \ others
                /\ r[f] = [found[f] EXCEPT !.state = "to_be_deleted"]
                /\ IsTrackedFile(found[f]) /\ found[f] \in Entries
             \/ f \notin others \cup names /\ r[f] = found[f]
  <2>1. CASE f \in others
    BY <1>1, <1>2, <2>1 DEF Stored
  <2>2. CASE f \notin others /\ f \in names
    BY <1>1, <1>2, <1>3, <2>2, EntryTypes DEF IsTrackedFile, FileStates
  <2>3. CASE f \notin others /\ f \notin names
    BY <1>3, <2>3
  <2> QED
    BY <2>1, <2>2, <2>3
<1>5. ASSUME NEW f \in Files
      PROVE  r[f] \in Entries \cup {Absent}
  <2>1. CASE /\ r[f] = Entry("to_be_added", workdir[f], workdir[f])
             /\ workdir[f] \in Contents
    BY <2>1 DEF Entry, Entries, FileStates
  <2>2. CASE /\ r[f] = [found[f] EXCEPT !.state = "to_be_deleted"]
             /\ found[f] \in Entries
    BY <2>2 DEF Entries, FileStates
  <2>3. CASE r[f] = found[f]
    BY <1>3, <2>3, EntryTypes
  <2> QED
    BY <1>4, <2>1, <2>2, <2>3
<1>6. r \in Packages /\ \A f \in names : r[f].state = "to_be_deleted"
  <2>1. r \in Packages
    BY <1>5 DEF Packages
  <2>2. ASSUME NEW f \in names
        PROVE  r[f].state = "to_be_deleted"
    BY <1>1, <1>4 DEF Entries
  <2> QED
    BY <2>1, <2>2
<1> HIDE DEF r
<1>7. todo \in SUBSET Tasks /\ todo # {}
  <2>1. None \in Stored /\ {"listAdded", "listDeleted", "unlink"} \subseteq Dos
    BY DEF Stored, Dos
  <2>2. /\ Whole("listAdded") \in Tasks /\ Whole("listDeleted") \in Tasks
        /\ \A f \in names : Task("unlink", f) \in Tasks
    BY <2>1, NewTask
  <2> QED
    BY <2>2
<1>8. TypeInv'
  <2>1. op' \in [kind : Kinds, todo : SUBSET Tasks, result : Packages \cup {NoPackage}]
    BY <1>1, <1>6, <1>7 DEF Kinds
  <2> QED
    BY <1>1, <1>2, <1>3, <1>6, <1>7, <2>1 DEF IInv, TypeInv, disk, server, history
<1>9. PartsOfTasks'
  <2>1. TasksFit'
    <3> SUFFICES ASSUME NEW u \in todo
                 PROVE  /\ op'.kind \in OwnersOf(u.do)
                        /\ u.file \in FilesFor(u.do)'
                        /\ u.do # "upload" => u.contents = None
      BY <1>2 DEF TasksFit
    <3>1. CASE u \in {Whole("listAdded"), Whole("listDeleted")}
      BY <1>2, <3>1 DEF OwnersOf, FilesFor, Whole, Task
    <3>2. CASE \E f \in names : u = Task("unlink", f)
      BY <1>2, <1>6, <3>2 DEF OwnersOf, FilesFor, InState, Task
    <3> QED
      BY <3>1, <3>2
  <2>2. ResultFits'
    <3>1. ASSUME NEW f \in Files, f \in others
          PROVE  r[f].state = "to_be_added" /\ found[f].state = "untracked"
      <4>1. /\ r[f] = Entry("to_be_added", workdir[f], workdir[f])
            /\ found[f].state = "untracked"
        BY <1>4, <3>1
      <4> QED
        BY <4>1 DEF Entry
    <3> QED
      BY <1>1, <1>2, <1>4, <3>1 DEF ResultFits
  <2> QED
    BY <1>2, <2>1, <2>2 DEF PartsOfTasks, CommitPhases, SavedIsAccepted
<1>10. PlansHold'
  BY <1>1, <1>2, <1>3, AtRest DEF PlansHold, InState, disk
<1>11. ListedHold'
  <2>1. ListedFits(memory)'
    BY <1>1, <1>3, AtRest DEF ListedFits, InRevision, disk
  <2>2. ListedFits(op.result)'
    <3> SUFFICES ASSUME NEW f \in Files
                 PROVE  listed'[f] # None <=> r[f].state \in InRevision
      BY <1>2 DEF ListedFits
    <3>1. listed'[f] # None <=> found[f].state \in InRevision
      BY <1>1, <2>1 DEF ListedFits
    <3>2. r[f].state \in InRevision <=> found[f].state \in InRevision
      <4>1. CASE f \in others
        <5>1. r[f].state = "to_be_added" /\ found[f].state = "untracked"
          <6>1. /\ r[f] = Entry("to_be_added", workdir[f], workdir[f])
                /\ found[f].state = "untracked"
            BY <1>4, <4>1
          <6> QED
            BY <6>1 DEF Entry

        <5> QED
          BY <5>1 DEF InRevision
      <4>2. CASE f \in names
        <5>1. r[f].state = "to_be_deleted" /\ IsTrackedFile(found[f])
          BY <1>1, <1>4, <1>6, <4>2
        <5> QED
          BY <5>1 DEF InRevision, IsTrackedFile
      <4> QED
        BY <1>4, <4>1, <4>2

    <3> QED
      BY <3>1, <3>2

  <2> QED
    BY <2>1, <2>2 DEF ListedHold
<1>12. StoreHolds'
  BY <1>1, <1>2 DEF IInv, StoreHolds, Readable, Damaged, disk, history
<1>13. SyncHolds'
  <2> SUFFICES ASSUME synced, NEW f \in Files
               PROVE  ShowsFile(f)'
    BY <1>1 DEF SyncHolds, history
  <2>1. found[f] = memory[f] /\ Shows(found[f], f)
    BY <1>1, <1>3, AtRest
  <2>2. Shows(memory[f], f)'
    BY <1>1, <2>1 DEF Shows, disk
  <2>3. Whole("listAdded") \in op'.todo /\ Whole("listDeleted") \in op'.todo
    BY <1>2
  <2>4. CASE r[f] = found[f]
    BY <1>1, <1>2, <2>2, <2>4 DEF ShowsFile
  <2>5. CASE /\ r[f] = Entry("to_be_added", workdir[f], workdir[f])
             /\ found[f].state = "untracked"
    <3>1. f \notin toBeAdded
      BY <2>1, <2>5 DEF Shows
    <3> QED
      BY <1>1, <1>2, <2>3, <2>5, <3>1 DEF ShowsFile, Entry, disk
  <2>6. CASE /\ r[f] = [found[f] EXCEPT !.state = "to_be_deleted"]
             /\ IsTrackedFile(found[f]) /\ found[f] \in Entries
    BY <1>1, <1>2, <2>2, <2>3, <2>6 DEF ShowsFile, Entries, IsTrackedFile
  <2> QED
    BY <1>4, <2>4, <2>5, <2>6
<1> QED
  BY <1>8, <1>9, <1>10, <1>11, <1>12, <1>13 DEF IInv

(* An operation starts that changes nothing but what is in progress.       *)
LEMMA StartTypes ==
  ASSUME IInv, CanStart, NEW kind \in Kinds, NEW todo \in SUBSET Tasks,
         NEW r \in Packages, todo # {}, kind # "idle",
         op' = [kind |-> kind, todo |-> todo, result |-> r], synced' \in BOOLEAN,
         UNCHANGED <<disk, memory, stray, server, edits, interrupted, behind>>
  PROVE  /\ TypeInv'
         /\ op'.kind = kind /\ op'.todo = todo /\ op'.result = r
<1>1. op' \in [kind : Kinds, todo : SUBSET Tasks, result : Packages \cup {NoPackage}]
  OBVIOUS
<1> QED
  BY <1>1, Starting DEF IInv, TypeInv, disk, server

LEMMA UntrackHolds ==
  ASSUME IInv, NEW names \in SUBSET Files, UntrackFiles(names)
  PROVE  IInv'
<1> DEFINE r == [f \in Files |-> IF f \in names
                                 THEN [memory[f] EXCEPT !.state = "untracked"]
                                 ELSE memory[f]]
<1>1. /\ CanStart
      /\ \A f \in names : memory[f].state = "to_be_added"
      /\ op' = [kind |-> "untrack", todo |-> {Whole("listAdded")}, result |-> r]
      /\ UNCHANGED <<disk, memory, stray, server, edits, history>>
  BY DEF UntrackFiles, InState
<1>2. /\ op.kind = "idle" /\ ~Saving
      /\ memory \in Packages
  BY <1>1, Starting
<1>3. /\ r \in Packages
      /\ \A f \in Files \ names : r[f] = memory[f]
      /\ \A f \in names : /\ r[f] = [memory[f] EXCEPT !.state = "untracked"]
                          /\ r[f].state = "untracked"
  <2>1. ASSUME NEW f \in names
        PROVE  /\ r[f] = [memory[f] EXCEPT !.state = "untracked"]
               /\ r[f].state = "untracked" /\ r[f] \in Entries
    <3>1. memory[f] \in Entries
      BY <1>1, <1>2, EntryTypes DEF FileStates
    <3>2. r[f] = [memory[f] EXCEPT !.state = "untracked"]
      OBVIOUS
    <3> QED
      BY <3>1, <3>2, InOtherState DEF FileStates
  <2>2. ASSUME NEW f \in Files \ names
        PROVE  r[f] = memory[f] /\ r[f] \in Entries \cup {Absent}
    BY <1>2, EntryTypes
  <2>3. \A f \in Files : r[f] \in Entries \cup {Absent}
    BY <2>1, <2>2
  <2>4. r \in Packages
    BY <2>3 DEF Packages
  <2> QED
    BY <2>1, <2>2, <2>4
<1> HIDE DEF r
<1>4. TypeInv' /\ op'.kind = "untrack" /\ op'.todo = {Whole("listAdded")} /\ op'.result = r
  <2>1. {Whole("listAdded")} \in SUBSET Tasks
    BY NewTask DEF Dos, Stored
  <2>2. "untrack" \in Kinds /\ "untrack" # "idle" /\ synced' \in BOOLEAN
    BY <1>1 DEF Kinds, history, IInv, TypeInv
  <2> QED
    BY <1>1, <1>3, <2>1, <2>2, StartTypes DEF history
<1>5. ~Saving'
  BY <1>4 DEF Saving
<1>6. PartsOfTasks'
  <2>1. TasksFit'
    BY <1>4 DEF TasksFit, OwnersOf, FilesFor, Whole, Task
  <2>2. ResultFits'
    BY <1>1, <1>3, <1>4 DEF ResultFits
  <2> QED
    BY <1>4, <1>5, <2>1, <2>2 DEF PartsOfTasks, CommitPhases, SavedIsAccepted
<1>7. PlansHold'
  BY <1>1, <1>4, AtRest DEF PlansHold, InState, disk
<1>8. ListedHold'
  BY <1>1, <1>3, <1>4, AtRest DEF ListedHold, ListedFits, InRevision, disk
<1>9. StoreHolds'
  BY <1>1, <1>2, <1>4, <1>5 DEF IInv, StoreHolds, Readable, Damaged, disk, history
<1>10. SyncHolds'
  <2> SUFFICES ASSUME synced, NEW f \in Files
               PROVE  ShowsFile(f)'
    BY <1>1 DEF SyncHolds, history
  <2>1. Shows(memory[f], f)'
    BY <1>1, AtRest DEF Shows, disk
  <2> QED
    BY <1>4, <2>1 DEF ShowsFile
<1> QED
  BY <1>4, <1>6, <1>7, <1>8, <1>9, <1>10 DEF IInv

LEMMA UndoHolds ==
  ASSUME IInv, NEW names \in SUBSET Files, UndoFileDeletion(names)
  PROVE  IInv'
<1> DEFINE todo == {Task("copy", f) : f \in names} \cup {Whole("listDeleted")}
           r == [f \in Files |-> IF f \in names
                                 THEN [memory[f] EXCEPT !.state = "unmodified"]
                                 ELSE memory[f]]
<1>1. /\ CanStart
      /\ \A f \in names : memory[f].state \in {"to_be_deleted", "missing"}
      /\ op' = [kind |-> "undo", todo |-> todo, result |-> r]
      /\ synced' = (synced /\ \A f \in names : memory[f].md5 = store[f])
      /\ UNCHANGED <<disk, memory, stray, server, edits, interrupted, behind>>
  BY DEF UndoFileDeletion, InState
<1>2. /\ op.kind = "idle" /\ ~Saving
      /\ memory \in Packages
  BY <1>1, Starting
<1>3. /\ r \in Packages
      /\ \A f \in Files \ names : r[f] = memory[f]
      /\ \A f \in names : /\ r[f] = [memory[f] EXCEPT !.state = "unmodified"]
                          /\ r[f].state = "unmodified"
  <2>1. ASSUME NEW f \in names
        PROVE  /\ r[f] = [memory[f] EXCEPT !.state = "unmodified"]
               /\ r[f].state = "unmodified" /\ r[f] \in Entries
    <3>1. memory[f] \in Entries
      BY <1>1, <1>2, EntryTypes DEF FileStates
    <3>2. r[f] = [memory[f] EXCEPT !.state = "unmodified"]
      OBVIOUS
    <3> QED
      BY <3>1, <3>2, InOtherState DEF FileStates
  <2>2. ASSUME NEW f \in Files \ names
        PROVE  r[f] = memory[f] /\ r[f] \in Entries \cup {Absent}
    BY <1>2, EntryTypes
  <2>3. \A f \in Files : r[f] \in Entries \cup {Absent}
    BY <2>1, <2>2
  <2>4. r \in Packages
    BY <2>3 DEF Packages
  <2> QED
    BY <2>1, <2>2, <2>4
<1> HIDE DEF r
<1>4. TypeInv' /\ op'.kind = "undo" /\ op'.todo = todo /\ op'.result = r
  <2>1. {"copy", "listDeleted"} \subseteq Dos /\ None \in Stored
    BY DEF Dos, Stored
  <2>2. todo \in SUBSET Tasks /\ todo # {}
    BY <2>1, NewTask
  <2>3. "undo" \in Kinds /\ "undo" # "idle" /\ synced' \in BOOLEAN
    BY <1>1 DEF Kinds, IInv, TypeInv
  <2> QED
    BY <1>1, <1>3, <2>2, <2>3, StartTypes
<1>5. ~Saving'
  BY <1>4 DEF Saving
<1>6. PartsOfTasks'
  <2>1. TasksFit'
    <3> SUFFICES ASSUME NEW u \in todo
                 PROVE  /\ op'.kind \in OwnersOf(u.do)
                        /\ u.file \in FilesFor(u.do)'
                        /\ u.do # "upload" => u.contents = None
      BY <1>4 DEF TasksFit
    <3>1. CASE u = Whole("listDeleted")
      BY <1>4, <3>1 DEF OwnersOf, FilesFor, Whole, Task
    <3>2. CASE \E f \in names : u = Task("copy", f)
      <4> PICK f \in names : u = Task("copy", f)
        BY <3>2
      <4>1. u.do = "copy" /\ u.file = f /\ u.contents = None
        BY DEF Task
      <4>2. op'.result[f].state = "unmodified" /\ memory' = memory
        BY <1>1, <1>3, <1>4
      <4> QED
        BY <1>1, <1>4, <4>1, <4>2 DEF OwnersOf, FilesFor, InState
    <3> QED
      BY <3>1, <3>2
  <2>2. ResultFits'
    BY <1>1, <1>3, <1>4 DEF ResultFits
  <2> QED

    BY <1>4, <1>5, <2>1, <2>2 DEF PartsOfTasks, CommitPhases, SavedIsAccepted
<1>7. PlansHold'
  BY <1>1, <1>4, AtRest DEF PlansHold, InState, disk
<1>8. ListedHold'
  BY <1>1, <1>3, <1>4, AtRest DEF ListedHold, ListedFits, InRevision, disk
<1>9. StoreHolds'
  BY <1>1, <1>2, <1>4, <1>5 DEF IInv, TypeInv, StoreHolds, Readable, Damaged, disk
<1>10. SyncHolds'
  <2> SUFFICES ASSUME synced, \A f \in names : memory[f].md5 = store[f], NEW f \in Files
               PROVE  ShowsFile(f)'
    BY <1>1 DEF SyncHolds
  <2>1. Shows(memory[f], f) /\ Shows(memory[f], f)'
    BY <1>1, AtRest DEF Shows, disk
  <2>2. CASE f \notin names
    BY <1>1, <1>3, <1>4, <2>1, <2>2 DEF ShowsFile
  <2>3. CASE f \in names
    <3>1. listed[f] # None
      BY <1>1, <2>3, AtRest DEF ListedFits, InRevision
    <3>2. memory[f].md5 = listed[f]
      BY <1>1, <2>3, <3>1, AtRest DEF Readable, Damaged
    <3>3. f \in toBeDeleted <=> memory[f].state = "to_be_deleted"
      BY <1>1, <2>1, <2>3 DEF Shows
    <3>4. memory[f].state = "missing" => workdir[f] = None
      BY <2>1 DEF Shows
    <3> QED
      BY <1>1, <1>3, <1>4, <2>3, <3>2, <3>3, <3>4 DEF ShowsFile, disk
  <2> QED
    BY <2>2, <2>3
<1> QED
  BY <1>4, <1>6, <1>7, <1>8, <1>9, <1>10 DEF IInv

LEMMA CommitHolds ==
  ASSUME IInv, Commit
  PROVE  IInv'
<1> DEFINE r == [f \in Files |-> Committed(memory[f])]
           uploads == {Put(f, memory[f].contents) :
                         f \in InState(memory, {"modified", "to_be_added"})}
           unlinks == {Task(do, f) : do \in {"unlinkWork", "unlinkStore"},
                                     f \in InState(memory, {"to_be_deleted"})}
           todo == uploads \cup unlinks \cup {Whole("post")} \cup SaveTasks(r)
<1>1. /\ CanStart
      /\ op' = [kind |-> "commit", todo |-> todo, result |-> r]
      /\ UNCHANGED <<disk, memory, stray, server, edits, history>>
  BY DEF Commit
<1>2. /\ op.kind = "idle" /\ ~Saving
      /\ memory \in Packages
  BY <1>1, Starting
<1>3. r \in Packages
  <2>1. ASSUME NEW f \in Files
        PROVE  Committed(memory[f]) \in Entries \cup {Absent}
    BY <1>2, EntryTypes, InOtherState DEF Committed, FileStates
  <2> QED
    BY <2>1 DEF Packages
<1> HIDE DEF r
<1>4. todo \in SUBSET Tasks
  <2>1. Dos \subseteq Dos /\ None \in Stored /\ FilesOf(r) \subseteq Files
        /\ {"unlinkWork", "unlinkStore", "post", "saveList", "saveFile", "dropAdded",
            "dropDeleted"} \subseteq Dos
    BY DEF Dos, Stored, FilesOf, InState
  <2>2. ASSUME NEW f \in InState(memory, {"modified", "to_be_added"})
        PROVE  Put(f, memory[f].contents) \in Tasks
    <3>1. f \in Files /\ memory[f].contents \in Stored
      BY <1>2, EntryTypes DEF InState, FileStates, Entries, Stored
    <3> QED
      BY <2>1, <3>1, NewTask DEF Dos
  <2>3. ASSUME NEW do \in {"unlinkWork", "unlinkStore"},
               NEW f \in InState(memory, {"to_be_deleted"})
        PROVE  Task(do, f) \in Tasks
    BY <2>1, NewTask DEF InState
  <2>4. Whole("post") \in Tasks /\ SaveTasks(r) \subseteq Tasks
    BY <2>1, NewTask DEF SaveTasks
  <2>5. uploads \subseteq Tasks
    BY <2>2
  <2>6. unlinks \subseteq Tasks
    BY <2>3
  <2> QED
    BY <2>4, <2>5, <2>6
<1>5. TypeInv' /\ op'.kind = "commit" /\ op'.todo = todo /\ op'.result = r
  <2>1. "commit" \in Kinds /\ "commit" # "idle" /\ synced' \in BOOLEAN /\ todo # {}
    BY <1>1 DEF Kinds, history, IInv, TypeInv
  <2> QED
    BY <1>1, <1>3, <1>4, <2>1, StartTypes DEF history
<1>6. ~Saving'
  BY <1>5 DEF Saving
<1>7. PartsOfTasks'
  <2>1. TasksFit'
    <3> SUFFICES ASSUME NEW u \in todo
                 PROVE  /\ op'.kind \in OwnersOf(u.do)
                        /\ u.file \in FilesFor(u.do)'
                        /\ u.do # "upload" => u.contents = None
      BY <1>5 DEF TasksFit
    <3>1. CASE u \in uploads
      BY <1>1, <1>5, <3>1 DEF OwnersOf, FilesFor, InState, Put
    <3>2. CASE u \in unlinks
      BY <1>1, <1>5, <3>2 DEF OwnersOf, FilesFor, InState, Task
    <3>3. CASE u = Whole("post")
      BY <1>5, <3>3 DEF OwnersOf, FilesFor, Whole, Task
    <3>4. CASE u \in SaveTasks(r)
      BY <1>5, <3>4 DEF SaveTasks, OwnersOf, FilesFor, FilesOf, InState, Whole, Task
    <3> QED
      BY <3>1, <3>2, <3>3, <3>4
  <2>2. ResultFits'
    BY <1>1, <1>5 DEF ResultFits, r
  <2>3. CommitPhases'
    BY <1>5, <1>6 DEF CommitPhases, SaveTasks, FilesOf, InState
  <2> QED
    BY <1>6, <2>1, <2>2, <2>3 DEF PartsOfTasks, SavedIsAccepted
<1>8. PlansHold' /\ ListedHold'
  BY <1>1, <1>5, AtRest DEF PlansHold, ListedHold, ListedFits, InState, disk
<1>9. StoreHolds'
  BY <1>1, <1>5, <1>6, AtRest DEF IInv, StoreHolds, Readable, Damaged, disk, history
<1>10. SyncHolds'
  <2> SUFFICES ASSUME synced, NEW f \in Files
               PROVE  ShowsFile(f)'
    BY <1>1 DEF SyncHolds, history
  <2>1. Shows(memory[f], f)'
    BY <1>1, AtRest DEF Shows, disk
  <2>2. memory[f].state = "to_be_deleted" => Task("unlinkWork", f) \in op'.todo
    BY <1>5 DEF InState
  <2> QED
    BY <1>1, <1>5, <1>6, <2>1, <2>2 DEF ShowsFile
<1> QED
  BY <1>5, <1>7, <1>8, <1>9, <1>10 DEF IInv

-----------------------------------------------------------------------------
(* The operations on the two lists go on and are resolved.                 *)

(* A task is done and leaves nothing new to do.                            *)
LEMMA TaskDone ==
  ASSUME IInv, NEW t, Ready(t), Proceed(t, {}, op.result),
         workdir' \in [Files -> Stored], store' \in [Files -> Stored],
         listed' \in [Files -> Stored], toBeAdded' \subseteq Files,
         toBeDeleted' \subseteq Files, head' \in [Files -> Stored],
         blobs' \subseteq Contents, edits' = edits, interrupted' = interrupted,
         behind' \in BOOLEAN
  PROVE  /\ TypeInv' /\ TasksFit'
         /\ stray' = stray /\ synced' = synced
         /\ \/ /\ op.todo = {t}
               /\ op'.kind = "idle" /\ op'.todo = {} /\ memory' = op.result /\ ~Saving'
            \/ /\ op'.kind = op.kind /\ op'.todo = op.todo \ {t} /\ op'.todo # {}
               /\ op'.result = op.result /\ memory' = memory
<1>1. op.result \in Packages /\ {} \in SUBSET Tasks
  BY Running
<1>2. /\ t \in op.todo /\ op.kind # "idle" /\ stray' = stray /\ synced' = synced
      /\ op' \in [kind : Kinds, todo : SUBSET Tasks, result : Packages \cup {NoPackage}]
      /\ memory' \in Packages \cup {NoPackage}
      /\ \/ /\ (op.todo \ {t}) \cup {} = {}
            /\ op' = Idle /\ op'.kind = "idle" /\ op'.todo = {}
            /\ memory' = op.result /\ ~Saving'
         \/ /\ (op.todo \ {t}) \cup {} # {}
            /\ op'.kind = op.kind /\ op'.todo = (op.todo \ {t}) \cup {}
            /\ op'.result = op.result /\ memory' = memory
  BY <1>1, ProceedCases
<1>3. \/ /\ op.todo = {t} /\ op' = Idle
         /\ op'.kind = "idle" /\ op'.todo = {} /\ memory' = op.result /\ ~Saving'
      \/ /\ op'.kind = op.kind /\ op'.todo = op.todo \ {t} /\ op'.todo # {}
         /\ op'.result = op.result /\ memory' = memory
  BY <1>2
<1>4. TypeInv'
  <2>1. CASE op' = Idle /\ op'.kind = "idle" /\ op'.todo = {}
    BY <1>2, <2>1 DEF IInv, TypeInv
  <2>2. CASE /\ op'.kind = op.kind /\ op'.todo = op.todo \ {t} /\ op'.todo # {}
             /\ op'.result = op.result /\ memory' = memory
    BY <1>1, <1>2, <2>2 DEF IInv, TypeInv
  <2> QED
    BY <1>3, <2>1, <2>2
<1>5. TasksFit'
  <2>1. CASE op'.todo = {}
    BY <2>1 DEF TasksFit
  <2>2. CASE /\ op'.kind = op.kind /\ op'.todo = op.todo \ {t}
             /\ op'.result = op.result /\ memory' = memory
    <3> SUFFICES ASSUME NEW u \in op.todo \ {t}
                 PROVE  /\ op'.kind \in OwnersOf(u.do)
                        /\ u.file \in FilesFor(u.do)'
                        /\ u.do # "upload" => u.contents = None
      BY <2>2 DEF TasksFit
    <3>1. /\ op.kind \in OwnersOf(u.do)
          /\ u.file \in FilesFor(u.do)
          /\ u.do # "upload" => u.contents = None
      BY DEF IInv, PartsOfTasks, TasksFit
    <3>2. u.file \in FilesFor(u.do)'
      BY <2>2, <3>1 DEF FilesFor, FilesOf, InState
    <3> QED
      BY <2>2, <3>1, <3>2
  <2> QED
    BY <1>3, <2>1, <2>2
<1> QED
  BY <1>2, <1>3, <1>4, <1>5

LEMMA WriteAddedHolds ==
  ASSUME IInv, WriteAdded
  PROVE  IInv'
<1> DEFINE t == Whole("listAdded")
<1>1. /\ Ready(t) /\ Proceed(t, {}, op.result)
      /\ toBeAdded' = InState(op.result, {"to_be_added"})
      /\ UNCHANGED <<workdir, store, listed, toBeDeleted, server, edits, interrupted,
                     behind>>
  BY DEF WriteAdded, ListSource
<1>2. /\ t \in op.todo /\ op.kind \in {"addAndDelete", "untrack"} /\ ~Saving
      /\ op.result \in Packages /\ memory \in Packages \ {NoPackage}
  BY <1>1, ReadyTask, Running DEF OwnersOf, Whole, Task
<1>3. /\ TypeInv' /\ TasksFit'
      /\ stray' = stray /\ synced' = synced
      /\ \/ /\ op.todo = {t}
            /\ op'.kind = "idle" /\ op'.todo = {} /\ memory' = op.result /\ ~Saving'
         \/ /\ op'.kind = op.kind /\ op'.todo = op.todo \ {t} /\ op'.todo # {}
            /\ op'.result = op.result /\ memory' = memory
  BY <1>1, TaskDone DEF IInv, TypeInv, server, InState
<1>4. op.kind = "untrack" => op'.kind = "idle" /\ memory' = op.result
  <2> SUFFICES ASSUME op.kind = "untrack", NEW u \in op.todo
               PROVE  u = t
    BY <1>2, <1>3
  <2>1. /\ u \in Tasks /\ u.do = "listAdded" /\ u.file = None /\ u.contents = None
    <3>1. /\ u \in Tasks /\ op.kind \in OwnersOf(u.do) /\ u.file \in FilesFor(u.do)
          /\ u.do # "upload" => u.contents = None
      BY DEF IInv, TypeInv, PartsOfTasks, TasksFit
    <3>2. u.do = "listAdded"
      BY <3>1 DEF OwnersOf
    <3> QED
      BY <3>1, <3>2 DEF FilesFor
  <2> QED
    BY <2>1 DEF Tasks, Whole, Task
<1>5. ~Saving'
  BY <1>2, <1>3 DEF Saving
<1>6. PartsOfTasks'
  <2>1. ResultFits'
    BY <1>2, <1>3, <1>4 DEF IInv, PartsOfTasks, ResultFits
  <2> QED
    BY <1>2, <1>3, <1>5, <2>1 DEF PartsOfTasks, CommitPhases, SavedIsAccepted
<1>7. PlansHold'
  <2>1. InState(memory, {"to_be_added"}) \subseteq toBeAdded
        /\ InState(memory, {"to_be_deleted"}) \subseteq toBeDeleted
    BY <1>2 DEF IInv, PlansHold
  <2>2. CASE op.kind = "untrack"
    <3>1. InState(op.result, {"to_be_deleted"}) \subseteq InState(memory, {"to_be_deleted"})
      <4> SUFFICES ASSUME NEW f \in Files, op.result[f].state = "to_be_deleted"
                   PROVE  memory[f].state = "to_be_deleted"
        BY DEF InState
      <4>1. \/ op.result[f] = memory[f]
            \/ /\ op.result[f] = [memory[f] EXCEPT !.state = "untracked"]
               /\ memory[f].state = "to_be_added"
        BY <2>2 DEF IInv, PartsOfTasks, ResultFits
      <4>2. memory[f].state = "to_be_added" => memory[f] \in Entries
        BY <1>2, EntryTypes DEF FileStates
      <4> QED
        BY <4>1, <4>2, InOtherState DEF FileStates
    <3> QED

      BY <1>1, <1>4, <2>1, <2>2, <3>1 DEF PlansHold, InState
  <2>3. CASE op.kind = "addAndDelete"
    <3>1. Whole("listDeleted") \in op.todo
          \/ InState(op.result, {"to_be_deleted"}) \subseteq toBeDeleted
      BY <2>3 DEF IInv, PlansHold
    <3>2. InState(memory, {"to_be_added"}) \subseteq InState(op.result, {"to_be_added"})
      BY <2>3 DEF IInv, PartsOfTasks, ResultFits, InState, IsTrackedFile
    <3>3. t # Whole("listDeleted")
      BY DEF Whole, Task
    <3> QED
      BY <1>1, <1>3, <2>1, <2>3, <3>1, <3>2, <3>3 DEF PlansHold, InState
  <2> QED
    BY <1>2, <2>2, <2>3
<1>8. ListedHold'
  BY <1>1, <1>2, <1>3, <1>5 DEF IInv, ListedHold, ListedFits
<1>9. StoreHolds'
  BY <1>1, <1>2, <1>3, <1>5 DEF IInv, StoreHolds, Readable, Damaged
<1>10. SyncHolds'
  <2> SUFFICES ASSUME synced, NEW f \in Files
               PROVE  ShowsFile(f)'
    BY <1>3 DEF SyncHolds
  <2>1. ShowsFile(f)
    BY <1>2 DEF IInv, SyncHolds
  <2>2. f \in toBeAdded' <=> op.result[f].state = "to_be_added"
    BY <1>1 DEF InState
  <2>3. t # Whole("listDeleted")
    BY DEF Whole, Task
  <2>4. CASE op.kind = "untrack"
    <3>1. Shows(memory[f], f)
      BY <2>1, <2>4 DEF ShowsFile
    <3>2. \/ op.result[f] = memory[f]
          \/ /\ op.result[f] = [memory[f] EXCEPT !.state = "untracked"]
             /\ memory[f].state = "to_be_added" /\ memory[f] \in Entries
             /\ op.result[f].state = "untracked"
      <4>1. \/ op.result[f] = memory[f]
            \/ /\ op.result[f] = [memory[f] EXCEPT !.state = "untracked"]
               /\ memory[f].state = "to_be_added"
        BY <2>4 DEF IInv, PartsOfTasks, ResultFits
      <4>2. memory[f].state = "to_be_added" => memory[f] \in Entries
        BY <1>2, EntryTypes DEF FileStates
      <4> QED
        BY <4>1, <4>2 DEF Entries
    <3>3. CASE op.result[f] = memory[f]
      <4>1. Shows(memory[f], f)'
        BY <1>1, <1>4, <2>2, <2>4, <3>1, <3>3 DEF Shows
      <4> QED
        BY <1>4, <2>4, <4>1 DEF ShowsFile
    <3>4. CASE /\ memory[f].state = "to_be_added" /\ memory[f] \in Entries
               /\ op.result[f].state = "untracked"
      <4>1. workdir[f] # None
        BY <3>1, <3>4, WorkingCopyAssumption DEF Shows, Entries
      <4>2. Shows(memory[f], f)'
        BY <1>1, <1>4, <2>2, <2>4, <3>4, <4>1 DEF Shows
      <4> QED
        BY <1>4, <2>4, <4>2 DEF ShowsFile
    <3> QED
      BY <3>2, <3>3, <3>4
  <2>5. CASE op.kind = "addAndDelete"
    <3>1. \/ op.result[f] = memory[f] /\ Shows(memory[f], f)
          \/ /\ op.result[f].state = "to_be_added"
             /\ memory[f].state = "untracked"
             /\ workdir[f] = op.result[f].md5
          \/ /\ op.result[f].state = "to_be_deleted"
             /\ IsTrackedFile(memory[f])
             /\ IF Whole("listDeleted") \in op.todo THEN Shows(memory[f], f)
                ELSE f \in toBeDeleted
      BY <2>1, <2>5 DEF ShowsFile
    <3>2. CASE op'.kind = "idle" /\ op.todo = {t} /\ memory' = op.result
      <4>1. Shows(memory[f], f)'
        BY <1>1, <2>2, <2>3, <3>1, <3>2 DEF Shows
      <4> QED
        BY <3>2, <4>1 DEF ShowsFile
    <3>3. CASE /\ op'.kind = op.kind /\ op'.todo = op.todo \ {t}
               /\ op'.result = op.result /\ memory' = memory
      <4>1. CASE op.result[f] = memory[f] /\ Shows(memory[f], f)
        <5>1. Shows(memory[f], f)'
          BY <1>1, <2>2, <3>3, <4>1 DEF Shows
        <5> QED
          BY <2>5, <3>3, <4>1, <5>1 DEF ShowsFile
      <4>2. CASE /\ op.result[f].state = "to_be_added"
                 /\ memory[f].state = "untracked"
                 /\ workdir[f] = op.result[f].md5
        BY <1>1, <2>2, <2>5, <3>3, <4>2 DEF ShowsFile
      <4>3. CASE /\ op.result[f].state = "to_be_deleted"
                 /\ IsTrackedFile(memory[f])
                 /\ IF Whole("listDeleted") \in op.todo THEN Shows(memory[f], f)
                    ELSE f \in toBeDeleted
        <5>1. Shows(memory[f], f) => Shows(memory[f], f)'
          BY <1>1, <3>3, <4>3 DEF Shows, IsTrackedFile
        <5>2. IsTrackedFile(memory[f])'
          BY <3>3, <4>3 DEF IsTrackedFile
        <5> QED
          BY <1>1, <2>3, <2>5, <3>3, <4>3, <5>1, <5>2 DEF ShowsFile
      <4> QED
        BY <3>1, <4>1, <4>2, <4>3
    <3> QED
      BY <1>3, <3>2, <3>3
  <2> QED
    BY <1>2, <2>4, <2>5
<1> QED
  BY <1>3, <1>6, <1>7, <1>8, <1>9, <1>10 DEF IInv

LEMMA WriteDeletedHolds ==
  ASSUME IInv, WriteDeleted
  PROVE  IInv'
<1> DEFINE t == Whole("listDeleted")
<1>1. /\ Ready(t) /\ Proceed(t, {}, op.result)
      /\ toBeDeleted' = InState(op.result, {"to_be_deleted"})
      /\ UNCHANGED <<workdir, store, listed, toBeAdded, server, edits, interrupted,
                     behind>>
  BY DEF WriteDeleted, ListSource
<1>2. /\ t \in op.todo /\ op.kind \in {"addAndDelete", "undo"} /\ ~Saving
      /\ op.result \in Packages /\ memory \in Packages \ {NoPackage}
      /\ \A u \in op.todo : Stage(t) <= Stage(u)
      /\ t.do = "listDeleted" /\ t.file = None /\ t.contents = None
  BY <1>1, ReadyTask, Running DEF OwnersOf, Whole, Task
<1>3. /\ TypeInv' /\ TasksFit'
      /\ stray' = stray /\ synced' = synced
      /\ \/ /\ op.todo = {t}
            /\ op'.kind = "idle" /\ op'.todo = {} /\ memory' = op.result /\ ~Saving'
         \/ /\ op'.kind = op.kind /\ op'.todo = op.todo \ {t} /\ op'.todo # {}
            /\ op'.result = op.result /\ memory' = memory
  BY <1>1, TaskDone DEF IInv, TypeInv, server, InState
<1>4. op.kind = "undo" => op.todo = {t} /\ op'.kind = "idle" /\ memory' = op.result
  <2> SUFFICES ASSUME op.kind = "undo", NEW u \in op.todo
               PROVE  u = t
    BY <1>2, <1>3
  <2>1. /\ u \in Tasks /\ op.kind \in OwnersOf(u.do) /\ u.file \in FilesFor(u.do)
        /\ u.do # "upload" => u.contents = None
    BY DEF IInv, TypeInv, PartsOfTasks, TasksFit
  <2>2. u.do \in {"copy", "listDeleted"}
    BY <2>1 DEF OwnersOf
  <2>3. u.do = "listDeleted"
    BY <1>2, <2>2, StageCases
  <2>4. u.file = None /\ u.contents = None
    BY <2>1, <2>3 DEF FilesFor
  <2> QED
    BY <2>1, <2>3, <2>4 DEF Tasks, Whole, Task
<1>5. ~Saving'
  BY <1>2, <1>3 DEF Saving
<1>6. PartsOfTasks'
  <2>1. ResultFits'
    BY <1>2, <1>3, <1>4 DEF IInv, PartsOfTasks, ResultFits
  <2> QED
    BY <1>2, <1>3, <1>5, <2>1 DEF PartsOfTasks, CommitPhases, SavedIsAccepted
<1>7. PlansHold'
  <2>1. InState(memory, {"to_be_added"}) \subseteq toBeAdded
        /\ InState(memory, {"to_be_deleted"}) \subseteq toBeDeleted
    BY <1>2 DEF IInv, PlansHold
  <2>2. CASE op.kind = "undo"
    <3>1. InState(op.result, {"to_be_added"}) \subseteq InState(memory, {"to_be_added"})
      <4> SUFFICES ASSUME NEW f \in Files, op.result[f].state = "to_be_added"
                   PROVE  memory[f].state = "to_be_added"
        BY DEF InState
      <4>1. \/ op.result[f] = memory[f]
            \/ /\ op.result[f] = [memory[f] EXCEPT !.state = "unmodified"]
               /\ memory[f].state \in {"to_be_deleted", "missing"}
        BY <2>2 DEF IInv, PartsOfTasks, ResultFits
      <4>2. memory[f].state \in {"to_be_deleted", "missing"} => memory[f] \in Entries
        BY <1>2, EntryTypes DEF FileStates
      <4> QED
        BY <4>1, <4>2, InOtherState DEF FileStates
    <3> QED
      BY <1>1, <1>4, <2>1, <2>2, <3>1 DEF PlansHold, InState
  <2>3. CASE op.kind = "addAndDelete"
    <3>1. Whole("listAdded") \in op.todo
          \/ InState(op.result, {"to_be_added"}) \subseteq toBeAdded
      BY <2>3 DEF IInv, PlansHold
    <3>2. InState(memory, {"to_be_deleted"}) \subseteq InState(op.result, {"to_be_deleted"})
      BY <2>3 DEF IInv, PartsOfTasks, ResultFits, InState, IsTrackedFile
    <3>3. t # Whole("listAdded")
      BY DEF Whole, Task
    <3> QED
      BY <1>1, <1>3, <2>1, <2>3, <3>1, <3>2, <3>3 DEF PlansHold, InState
  <2> QED
    BY <1>2, <2>2, <2>3
<1>8. ListedHold'
  BY <1>1, <1>2, <1>3, <1>5 DEF IInv, ListedHold, ListedFits
<1>9. StoreHolds'
  BY <1>1, <1>2, <1>3, <1>5 DEF IInv, StoreHolds, Readable, Damaged
<1>10. SyncHolds'
  <2> SUFFICES ASSUME synced, NEW f \in Files
               PROVE  ShowsFile(f)'
    BY <1>3 DEF SyncHolds
  <2>1. ShowsFile(f)
    BY <1>2 DEF IInv, SyncHolds
  <2>2. /\ f \in toBeDeleted' <=> op.result[f].state = "to_be_deleted"
        /\ op.result[f].state \in FileStates \cup {"absent"}
    BY <1>1, <1>2, EntryTypes DEF InState
  <2>3. t # Whole("listAdded")
    BY DEF Whole, Task
  <2>4. CASE op.kind = "undo"
    <3>1. \/ op.result[f] = memory[f] /\ Shows(memory[f], f)
          \/ /\ op.result[f].state = "unmodified"
             /\ memory[f].state \in {"to_be_deleted", "missing"}
             /\ memory[f].md5 = listed[f]
             /\ workdir[f] = listed[f]
      <4>1. Task("copy", f) \notin op.todo
        BY <1>4, <2>4 DEF Whole, Task
      <4> QED
        BY <2>1, <2>4, <4>1 DEF ShowsFile
    <3>2. CASE op.result[f] = memory[f] /\ Shows(memory[f], f)
      <4>1. Shows(memory[f], f)'
        BY <1>1, <1>4, <2>2, <2>4, <3>2 DEF Shows, FileStates
      <4> QED
        BY <1>4, <2>4, <4>1 DEF ShowsFile
    <3>3. CASE /\ op.result[f].state = "unmodified"
               /\ memory[f].state \in {"to_be_deleted", "missing"}
               /\ memory[f].md5 = listed[f]
               /\ workdir[f] = listed[f]
      <4>1. memory[f] \in Entries
        BY <1>2, <3>3, EntryTypes DEF FileStates
      <4>2. op.result[f].md5 = memory[f].md5
        <5>1. \/ op.result[f] = memory[f]
              \/ op.result[f] = [memory[f] EXCEPT !.state = "unmodified"]
          BY <2>4 DEF IInv, PartsOfTasks, ResultFits
        <5> QED
          BY <4>1, <5>1 DEF Entries
      <4>3. Shows(memory[f], f)'
        BY <1>1, <1>4, <2>2, <2>4, <3>3, <4>2 DEF Shows
      <4> QED
        BY <1>4, <2>4, <4>3 DEF ShowsFile
    <3> QED
      BY <3>1, <3>2, <3>3
  <2>5. CASE op.kind = "addAndDelete"
    <3>1. \/ op.result[f] = memory[f] /\ Shows(memory[f], f)
          \/ /\ op.result[f].state = "to_be_added"
             /\ memory[f].state = "untracked"
             /\ workdir[f] = op.result[f].md5
             /\ f \in toBeAdded <=> Whole("listAdded") \notin op.todo
          \/ /\ op.result[f].state = "to_be_deleted"
             /\ IsTrackedFile(memory[f])
      BY <2>1, <2>5 DEF ShowsFile
    <3>2. CASE op'.kind = "idle" /\ op.todo = {t} /\ memory' = op.result
      <4>1. Shows(memory[f], f)'
        BY <1>1, <2>2, <2>3, <3>1, <3>2 DEF Shows, FileStates
      <4> QED
        BY <3>2, <4>1 DEF ShowsFile
    <3>3. CASE /\ op'.kind = op.kind /\ op'.todo = op.todo \ {t}
               /\ op'.result = op.result /\ memory' = memory
      <4>1. CASE op.result[f] = memory[f] /\ Shows(memory[f], f)
        <5>1. Shows(memory[f], f)'
          BY <1>1, <2>2, <3>3, <4>1 DEF Shows, FileStates
        <5> QED
          BY <2>5, <3>3, <4>1, <5>1 DEF ShowsFile
      <4>2. CASE /\ op.result[f].state = "to_be_added"
                 /\ memory[f].state = "untracked"
                 /\ workdir[f] = op.result[f].md5
                 /\ f \in toBeAdded <=> Whole("listAdded") \notin op.todo
        BY <1>1, <2>3, <2>5, <3>3, <4>2 DEF ShowsFile
      <4>3. CASE op.result[f].state = "to_be_deleted" /\ IsTrackedFile(memory[f])
        <5>1. IsTrackedFile(memory[f])' /\ t \notin op'.todo
          BY <3>3, <4>3 DEF IsTrackedFile
        <5> QED
          BY <2>2, <2>5, <3>3, <4>3, <5>1 DEF ShowsFile
      <4> QED
        BY <3>1, <4>1, <4>2, <4>3
    <3> QED
      BY <1>3, <3>2, <3>3
  <2> QED
    BY <1>2, <2>4, <2>5
<1> QED
  BY <1>3, <1>6, <1>7, <1>8, <1>9, <1>10 DEF IInv

(* The unlink of a file to be deleted runs after both lists are written.   *)
LEMMA UnlinkIsLast ==
  ASSUME IInv, NEW f \in Files, Ready(Task("unlink", f))
  PROVE  /\ op.kind = "addAndDelete" /\ op.result[f].state = "to_be_deleted"
         /\ Whole("listAdded") \notin op.todo /\ Whole("listDeleted") \notin op.todo
         /\ f \in toBeDeleted
<1> DEFINE t == Task("unlink", f)
<1>1. t.do = "unlink" /\ t.file = f
  BY DEF Task
<1>2. /\ op.kind \in OwnersOf(t.do) /\ t.file \in FilesFor(t.do)
      /\ \A u \in op.todo : Stage(t) <= Stage(u)
  BY ReadyTask
<1> HIDE DEF t
<1>3. /\ op.kind = "addAndDelete" /\ op.result[f].state = "to_be_deleted"
      /\ \A u \in op.todo : 3 <= Stage(u)
  BY <1>1, <1>2, StageCases DEF OwnersOf, FilesFor, InState
<1>4. Whole("listAdded") \notin op.todo /\ Whole("listDeleted") \notin op.todo
  BY <1>3 DEF Stage, Whole, Task
<1> QED
  BY <1>3, <1>4 DEF IInv, PlansHold, InState

LEMMA UnlinkHolds ==
  ASSUME IInv, NEW f \in Files, Unlink(f)
  PROVE  IInv'
<1> DEFINE t == Task("unlink", f)
<1>1. /\ UNCHANGED <<store, listed, toBeAdded, toBeDeleted, server, edits, behind>>
      /\ \/ /\ workdir' = [workdir EXCEPT ![f] = None] /\ interrupted' = interrupted
            /\ Done(t)
         \/ workdir' = workdir /\ Failed(t)
      /\ t.do = "unlink" /\ t.file = f
  BY DEF Unlink, Task
<1>2. /\ workdir' \in [Files -> Stored] /\ store' \in [Files -> Stored]
      /\ listed' \in [Files -> Stored] /\ head' \in [Files -> Stored]
      /\ toBeAdded' \subseteq Files /\ toBeDeleted' \subseteq Files
      /\ blobs' \subseteq Contents /\ behind' \in BOOLEAN /\ edits' \in 0 .. MaxEdits
      /\ synced \in BOOLEAN
  BY <1>1 DEF IInv, TypeInv, server, Stored
<1>3. CASE /\ t \in stray /\ stray' = stray \ {t}
           /\ UNCHANGED <<op, memory, interrupted>>
           /\ synced' = FALSE \/ (synced' = synced /\ workdir' = workdir)
  BY <1>1, <1>2, <1>3, OutsideStep DEF server
<1>4. CASE workdir' = workdir /\ Ready(t) /\ Reject(t)
  BY <1>1, <1>2, <1>4, RejectStep DEF disk
<1>5. CASE /\ workdir' = [workdir EXCEPT ![f] = None] /\ interrupted' = interrupted
           /\ Ready(t) /\ Proceed(t, {}, op.result)
  <2>1. /\ op.kind = "addAndDelete" /\ op.result[f].state = "to_be_deleted"
        /\ Whole("listAdded") \notin op.todo /\ Whole("listDeleted") \notin op.todo
        /\ f \in toBeDeleted
    BY <1>5, UnlinkIsLast
  <2>2. /\ op.result \in Packages /\ memory \in Packages \ {NoPackage} /\ ~Saving
    BY <1>5, <2>1, Running
  <2>3. /\ TypeInv' /\ TasksFit'
        /\ stray' = stray /\ synced' = synced
        /\ \/ /\ op.todo = {t}
              /\ op'.kind = "idle" /\ op'.todo = {} /\ memory' = op.result /\ ~Saving'
           \/ /\ op'.kind = op.kind /\ op'.todo = op.todo \ {t} /\ op'.todo # {}
              /\ op'.result = op.result /\ memory' = memory
    BY <1>1, <1>2, <1>5, TaskDone
  <2>4. ~Saving'
    BY <2>1, <2>3 DEF Saving
  <2>5. PartsOfTasks'
    <3>1. ResultFits'
      BY <2>1, <2>3 DEF IInv, PartsOfTasks, ResultFits
    <3> QED
      BY <2>1, <2>3, <2>4, <3>1 DEF PartsOfTasks, CommitPhases, SavedIsAccepted
  <2>6. PlansHold'
    BY <1>1, <2>1, <2>2, <2>3, <2>4 DEF IInv, PlansHold, InState
  <2>7. ListedHold'
    BY <1>1, <2>1, <2>2, <2>3, <2>4 DEF IInv, ListedHold, ListedFits
  <2>8. StoreHolds'
    BY <1>1, <1>5, <2>1, <2>2, <2>3, <2>4 DEF IInv, StoreHolds, Readable, Damaged
  <2>9. SyncHolds'
    <3> SUFFICES ASSUME synced, NEW g \in Files
                 PROVE  ShowsFile(g)'
      BY <2>3 DEF SyncHolds
    <3>1. \/ op.result[g] = memory[g] /\ Shows(memory[g], g)
          \/ /\ op.result[g].state = "to_be_added"
             /\ memory[g].state = "untracked"
             /\ workdir[g] = op.result[g].md5
             /\ g \in toBeAdded
          \/ /\ op.result[g].state = "to_be_deleted"
             /\ IsTrackedFile(memory[g])
             /\ g \in toBeDeleted
      BY <2>1, <2>2 DEF IInv, SyncHolds, ShowsFile
    <3>2. op.result[g].state = "to_be_deleted" \/ workdir'[g] = workdir[g]
      BY <1>2, <1>5, <2>1
    <3>3. CASE op'.kind = "idle" /\ memory' = op.result
      <4>1. Shows(memory[g], g)'
        BY <1>1, <3>1, <3>2, <3>3 DEF Shows
      <4> QED
        BY <3>3, <4>1 DEF ShowsFile
    <3>4. CASE /\ op'.kind = op.kind /\ op'.todo = op.todo \ {t}
               /\ op'.result = op.result /\ memory' = memory
      <4>1. CASE op.result[g] = memory[g] /\ Shows(memory[g], g)
        <5>1. Shows(memory[g], g)'
          BY <1>1, <3>2, <3>4, <4>1 DEF Shows
        <5> QED
          BY <2>1, <3>4, <4>1, <5>1 DEF ShowsFile
      <4>2. CASE /\ op.result[g].state = "to_be_added"
                 /\ memory[g].state = "untracked"
                 /\ workdir[g] = op.result[g].md5
                 /\ g \in toBeAdded
        BY <1>1, <2>1, <3>2, <3>4, <4>2 DEF ShowsFile
      <4>3. CASE /\ op.result[g].state = "to_be_deleted"
                 /\ IsTrackedFile(memory[g])
                 /\ g \in toBeDeleted
        BY <1>1, <2>1, <3>4, <4>3 DEF ShowsFile, IsTrackedFile
      <4> QED
        BY <3>1, <4>1, <4>2, <4>3
    <3> QED
      BY <2>3, <3>3, <3>4
  <2> QED
    BY <2>3, <2>5, <2>6, <2>7, <2>8, <2>9 DEF IInv
<1> QED
  BY <1>1, <1>3, <1>4, <1>5 DEF Done, Failed

LEMMA CopyHolds ==
  ASSUME IInv, NEW f \in Files, Copy(f)
  PROVE  IInv'
<1> DEFINE t == Task("copy", f)
<1>1. /\ UNCHANGED <<store, listed, toBeAdded, toBeDeleted, server, edits, behind>>
      /\ \/ /\ workdir[f] = None /\ workdir' = [workdir EXCEPT ![f] = store[f]]
            /\ interrupted' = interrupted /\ Done(t)
         \/ workdir' = workdir /\ Failed(t)
      /\ t.do = "copy" /\ t.file = f
  BY DEF Copy, CanCopy, Task
<1>2. /\ workdir' \in [Files -> Stored] /\ store' \in [Files -> Stored]
      /\ listed' \in [Files -> Stored] /\ head' \in [Files -> Stored]
      /\ toBeAdded' \subseteq Files /\ toBeDeleted' \subseteq Files
      /\ blobs' \subseteq Contents /\ behind' \in BOOLEAN /\ edits' \in 0 .. MaxEdits
      /\ synced \in BOOLEAN
  BY <1>1 DEF IInv, TypeInv, server, Stored
<1>3. CASE /\ t \in stray /\ stray' = stray \ {t}
           /\ UNCHANGED <<op, memory, interrupted>>
           /\ synced' = FALSE \/ (synced' = synced /\ workdir' = workdir)
  BY <1>1, <1>2, <1>3, OutsideStep DEF server
<1>4. CASE workdir' = workdir /\ Ready(t) /\ Reject(t)
  BY <1>1, <1>2, <1>4, RejectStep DEF disk
<1>5. CASE /\ workdir[f] = None /\ workdir' = [workdir EXCEPT ![f] = store[f]]
           /\ interrupted' = interrupted
           /\ Ready(t) /\ Proceed(t, {}, op.result)
  <2>1. /\ op.kind = "undo" /\ t.file \in FilesFor(t.do) /\ t \in op.todo
        /\ Whole("listDeleted") \in op.todo
    BY <1>1, <1>5, ReadyTask DEF OwnersOf, IInv, PartsOfTasks, ResultFits
  <2>2. /\ memory[f].state \in {"to_be_deleted", "missing"}
        /\ op.result[f].state = "unmodified"
    BY <1>1, <2>1 DEF FilesFor, InState
  <2>3. /\ op.result \in Packages /\ memory \in Packages \ {NoPackage} /\ ~Saving
    BY <1>5, <2>1, Running
  <2>4. /\ TypeInv' /\ TasksFit'
        /\ stray' = stray /\ synced' = synced
        /\ op'.kind = op.kind /\ op'.todo = op.todo \ {t}
        /\ op'.result = op.result /\ memory' = memory
    <3>1. Whole("listDeleted") # t
      BY DEF Whole, Task
    <3> QED
      BY <1>1, <1>2, <1>5, <2>1, <3>1, TaskDone
  <2>5. ~Saving'
    BY <2>1, <2>4 DEF Saving
  <2>6. PartsOfTasks'
    <3>1. Whole("listDeleted") # t
      BY DEF Whole, Task
    <3>2. ResultFits'
      BY <2>1, <2>4, <3>1 DEF IInv, PartsOfTasks, ResultFits
    <3> QED
      BY <2>1, <2>4, <2>5, <3>2 DEF PartsOfTasks, CommitPhases, SavedIsAccepted
  <2>7. PlansHold' /\ ListedHold'
    BY <1>1, <2>1, <2>3, <2>4, <2>5 DEF IInv, PlansHold, ListedHold, ListedFits, InState
  <2>8. StoreHolds'
    BY <1>1, <1>5, <2>1, <2>3, <2>4, <2>5 DEF IInv, StoreHolds, Readable, Damaged
  <2>9. SyncHolds'
    <3> SUFFICES ASSUME synced, NEW g \in Files
                 PROVE  ShowsFile(g)'
      BY <2>4 DEF SyncHolds
    <3>1. ShowsFile(g)
      BY <2>3 DEF IInv, SyncHolds
    <3>2. CASE g # f
      <4>1. workdir'[g] = workdir[g] /\ Task("copy", g) # t
        BY <1>5, <3>2 DEF IInv, TypeInv, Task
      <4>2. Shows(memory[g], g) => Shows(memory[g], g)'
        BY <1>1, <2>4, <4>1 DEF Shows
      <4> QED
        BY <1>1, <2>1, <2>4, <3>1, <4>1, <4>2 DEF ShowsFile
    <3>3. CASE g = f
      <4>1. /\ memory[f].md5 = listed[f]
            /\ f \in toBeDeleted <=> memory[f].state = "to_be_deleted"
        BY <2>1, <2>2, <3>1, <3>3 DEF ShowsFile
      <4>2. listed[f] # None
        BY <2>2, <2>3 DEF IInv, ListedHold, ListedFits, InRevision
      <4>3. store[f] = listed[f]
        BY <2>1, <4>2 DEF IInv, StoreHolds, Readable, Damaged
      <4>4. workdir'[f] = listed'[f]
        BY <1>1, <1>5, <4>3 DEF IInv, TypeInv
      <4> QED
        BY <1>1, <2>1, <2>2, <2>4, <3>3, <4>1, <4>4 DEF ShowsFile
    <3> QED
      BY <3>2, <3>3
  <2> QED
    BY <2>4, <2>6, <2>7, <2>8, <2>9 DEF IInv
<1> QED
  BY <1>1, <1>3, <1>4, <1>5 DEF Done, Failed

-----------------------------------------------------------------------------
(* commit() goes on and is resolved.                                       *)

(* Before the post nothing of what commit() saves has begun, so the        *)
(* operation goes on, with the object of the caller as it was.             *)
LEMMA BeforePost ==
  ASSUME IInv, NEW t, Ready(t), Proceed(t, {}, op.result),
         t.do \in {"upload", "unlinkWork", "unlinkStore"},
         workdir' \in [Files -> Stored], store' \in [Files -> Stored],
         blobs' \subseteq Contents,
         UNCHANGED <<listed, toBeAdded, toBeDeleted, head, edits, interrupted, behind>>
  PROVE  /\ op.kind = "commit" /\ ~Saving /\ ~Saving'
         /\ t.file \in FilesFor(t.do)
         /\ memory \in Packages \ {NoPackage} /\ memory' = memory
         /\ synced' = synced /\ stray' = stray
         /\ op'.kind = "commit" /\ op'.todo = op.todo \ {t} /\ op'.result = op.result
         /\ TypeInv' /\ PartsOfTasks' /\ PlansHold' /\ ListedHold'
<1>1. op.kind = "commit" /\ t \in op.todo /\ t.file \in FilesFor(t.do)
  BY ReadyTask DEF OwnersOf
<1>2. t \notin SaveTasks(op.result) /\ t # Whole("post")
  BY DEF SaveTasks, Whole, Task
<1>3. /\ ~Saving /\ Whole("post") \in op.todo
      /\ SaveTasks(op.result) \subseteq op.todo
  BY <1>1, <1>2 DEF IInv, PartsOfTasks, CommitPhases, Saving
<1>4. /\ TypeInv' /\ TasksFit'
      /\ stray' = stray /\ synced' = synced
      /\ op'.kind = op.kind /\ op'.todo = op.todo \ {t}
      /\ op'.result = op.result /\ memory' = memory
  <2>1. behind' \in BOOLEAN /\ listed' \in [Files -> Stored] /\ head' \in [Files -> Stored]
        /\ toBeAdded' \subseteq Files /\ toBeDeleted' \subseteq Files
    BY DEF IInv, TypeInv
  <2> QED
    BY <1>2, <1>3, <2>1, TaskDone
<1>5. memory \in Packages \ {NoPackage}
  BY <1>1, Running
<1>6. ~Saving'
  BY <1>2, <1>3, <1>4 DEF Saving
<1>7. PartsOfTasks'
  <2>1. ResultFits'
    BY <1>1, <1>4 DEF IInv, PartsOfTasks, ResultFits
  <2>2. SaveTasks(op.result)' = SaveTasks(op.result)
    BY <1>4 DEF SaveTasks, FilesOf, InState
  <2>3. CommitPhases'
    BY <1>2, <1>3, <1>4, <1>6, <2>2 DEF CommitPhases
  <2> QED
    BY <1>4, <1>6, <2>1, <2>3 DEF PartsOfTasks, SavedIsAccepted
<1>8. PlansHold' /\ ListedHold'
  BY <1>1, <1>3, <1>4, <1>6 DEF IInv, PlansHold, ListedHold, ListedFits, InState
<1> QED
  BY <1>1, <1>3, <1>4, <1>5, <1>6, <1>7, <1>8

LEMMA UploadHolds ==
  ASSUME IInv, NEW f \in Files, NEW contents \in Contents, UploadFileContents(f, contents)
  PROVE  IInv'
<1> DEFINE t == Put(f, contents)
<1>1. /\ UNCHANGED <<disk, head, edits, behind>>
      /\ blobs' \subseteq Contents
      /\ \/ Done(t) /\ interrupted' = interrupted
         \/ Failed(t)
      /\ t.do = "upload" /\ t.file = f
  BY DEF UploadFileContents, Put, IInv, TypeInv
<1>2. /\ workdir' \in [Files -> Stored] /\ store' \in [Files -> Stored]
      /\ head' \in [Files -> Stored] /\ behind' \in BOOLEAN /\ edits' \in 0 .. MaxEdits
      /\ synced \in BOOLEAN
  BY <1>1 DEF IInv, TypeInv, disk
<1>3. CASE /\ t \in stray /\ stray' = stray \ {t}
           /\ UNCHANGED <<op, memory, interrupted>>
           /\ synced' = FALSE \/ synced' = synced
  BY <1>1, <1>2, <1>3, OutsideStep DEF disk
<1>4. CASE Ready(t) /\ Reject(t)
  BY <1>1, <1>2, <1>4, RejectStep
<1>5. CASE Ready(t) /\ Proceed(t, {}, op.result) /\ interrupted' = interrupted
  <2>1. /\ op.kind = "commit" /\ ~Saving /\ ~Saving'
        /\ memory \in Packages \ {NoPackage} /\ memory' = memory
        /\ synced' = synced /\ stray' = stray
        /\ op'.kind = "commit" /\ op'.todo = op.todo \ {t} /\ op'.result = op.result
        /\ TypeInv' /\ PartsOfTasks' /\ PlansHold' /\ ListedHold'
    BY <1>1, <1>2, <1>5, BeforePost DEF disk
  <2>2. StoreHolds'
    BY <1>1, <1>5, <2>1 DEF IInv, StoreHolds, Readable, Damaged, InState, disk
  <2>3. SyncHolds'
    <3> SUFFICES ASSUME synced, NEW g \in Files
                 PROVE  ShowsFile(g)'
      BY <2>1 DEF SyncHolds
    <3>1. /\ Shows(memory[g], g)
          /\ \/ memory[g].state # "to_be_deleted"
             \/ Task("unlinkWork", g) \in op.todo
             \/ workdir[g] = None
      BY <2>1 DEF IInv, SyncHolds, ShowsFile
    <3>2. Shows(memory[g], g)'
      BY <1>1, <2>1, <3>1 DEF Shows, disk
    <3>3. Task("unlinkWork", g) # t
      BY DEF Task, Put
    <3> QED
      BY <1>1, <2>1, <3>1, <3>2, <3>3 DEF ShowsFile, disk
  <2> QED
    BY <2>1, <2>2, <2>3 DEF IInv
<1> QED
  BY <1>1, <1>3, <1>4, <1>5 DEF Done, Failed

LEMMA UnlinkWorkHolds ==
  ASSUME IInv, NEW f \in Files, UnlinkWork(f)
  PROVE  IInv'
<1> DEFINE t == Task("unlinkWork", f)
<1>1. /\ UNCHANGED <<store, listed, toBeAdded, toBeDeleted, server, edits, interrupted,
                     behind>>
      /\ workdir' = [workdir EXCEPT ![f] = None]
      /\ Done(t)
      /\ t.do = "unlinkWork" /\ t.file = f
  BY DEF UnlinkWork, Task
<1>2. /\ workdir' \in [Files -> Stored] /\ store' \in [Files -> Stored]
      /\ blobs' \subseteq Contents /\ edits' \in 0 .. MaxEdits
  BY <1>1 DEF IInv, TypeInv, server, Stored
<1>3. CASE /\ t \in stray /\ stray' = stray \ {t}
           /\ UNCHANGED <<op, memory>> /\ synced' = FALSE
  BY <1>1, <1>2, <1>3, OutsideStep DEF server
<1>4. CASE Ready(t) /\ Proceed(t, {}, op.result)
  <2>1. /\ op.kind = "commit" /\ ~Saving /\ ~Saving'
        /\ t.file \in FilesFor(t.do)
        /\ memory \in Packages \ {NoPackage} /\ memory' = memory
        /\ synced' = synced /\ stray' = stray
        /\ op'.kind = "commit" /\ op'.todo = op.todo \ {t} /\ op'.result = op.result
        /\ TypeInv' /\ PartsOfTasks' /\ PlansHold' /\ ListedHold'
    BY <1>1, <1>2, <1>4, BeforePost DEF server
  <2>2. memory[f].state = "to_be_deleted"
    BY <1>1, <2>1 DEF FilesFor, InState
  <2>3. StoreHolds'
    BY <1>1, <2>1 DEF IInv, StoreHolds, Readable, Damaged, InState
  <2>4. SyncHolds'
    <3> SUFFICES ASSUME synced, NEW g \in Files
                 PROVE  ShowsFile(g)'
      BY <2>1 DEF SyncHolds
    <3>1. /\ Shows(memory[g], g)
          /\ \/ memory[g].state # "to_be_deleted"
             \/ Task("unlinkWork", g) \in op.todo
             \/ workdir[g] = None
      BY <2>1 DEF IInv, SyncHolds, ShowsFile
    <3>2. memory[g].state = "to_be_deleted" \/ workdir'[g] = workdir[g]
      BY <1>1, <2>2 DEF IInv, TypeInv
    <3>3. Shows(memory[g], g)'
      BY <1>1, <2>1, <3>1, <3>2 DEF Shows
    <3>4. /\ g # f => Task("unlinkWork", g) # t
          /\ workdir[g] = None \/ g = f => workdir'[g] = None
      BY <1>1 DEF Task, IInv, TypeInv
    <3> QED
      BY <1>1, <2>1, <3>1, <3>3, <3>4 DEF ShowsFile
  <2> QED
    BY <2>1, <2>3, <2>4 DEF IInv
<1> QED
  BY <1>1, <1>3, <1>4 DEF Done

LEMMA UnlinkStoreHolds ==
  ASSUME IInv, NEW f \in Files, UnlinkStore(f)
  PROVE  IInv'
<1> DEFINE t == Task("unlinkStore", f)
<1>1. /\ UNCHANGED <<workdir, listed, toBeAdded, toBeDeleted, server, edits, interrupted,
                     behind>>
      /\ store' = [store EXCEPT ![f] = None]
      /\ Done(t)
      /\ t.do = "unlinkStore" /\ t.file = f
  BY DEF UnlinkStore, Task
<1>2. /\ workdir' \in [Files -> Stored] /\ store' \in [Files -> Stored]
      /\ blobs' \subseteq Contents /\ edits' \in 0 .. MaxEdits
  BY <1>1 DEF IInv, TypeInv, server, Stored
<1>3. CASE /\ t \in stray /\ stray' = stray \ {t}
           /\ UNCHANGED <<op, memory>> /\ synced' = FALSE
  <2>1. interrupted
    BY <1>1, <1>3 DEF IInv, StoreHolds
  <2> QED
    BY <1>1, <1>2, <1>3, <2>1, OutsideStep DEF server
<1>4. CASE Ready(t) /\ Proceed(t, {}, op.result)
  <2>1. /\ op.kind = "commit" /\ ~Saving /\ ~Saving'
        /\ t.file \in FilesFor(t.do)
        /\ memory \in Packages \ {NoPackage} /\ memory' = memory
        /\ synced' = synced /\ stray' = stray
        /\ op'.kind = "commit" /\ op'.todo = op.todo \ {t} /\ op'.result = op.result
        /\ TypeInv' /\ PartsOfTasks' /\ PlansHold' /\ ListedHold'
    BY <1>1, <1>2, <1>4, BeforePost DEF server
  <2>2. f \in InState(memory, {"to_be_deleted"})'
    BY <1>1, <2>1 DEF FilesFor, InState
  <2>3. StoreHolds'
    BY <1>1, <2>1, <2>2 DEF IInv, StoreHolds
  <2>4. SyncHolds'
    <3> SUFFICES ASSUME synced, NEW g \in Files
                 PROVE  ShowsFile(g)'
      BY <2>1 DEF SyncHolds
    <3>1. /\ Shows(memory[g], g)
          /\ \/ memory[g].state # "to_be_deleted"
             \/ Task("unlinkWork", g) \in op.todo
             \/ workdir[g] = None
      BY <2>1 DEF IInv, SyncHolds, ShowsFile
    <3>2. Shows(memory[g], g)'
      BY <1>1, <2>1, <3>1 DEF Shows
    <3>3. Task("unlinkWork", g) # t
      BY DEF Task
    <3> QED
      BY <1>1, <2>1, <3>1, <3>2, <3>3 DEF ShowsFile
  <2> QED
    BY <2>1, <2>3, <2>4 DEF IInv
<1> QED
  BY <1>1, <1>3, <1>4 DEF Done

(* What the entries of a commit become.                                    *)
LEMMA CommittedEntry ==
  ASSUME IInv, op.kind = "commit", memory \in Packages, NEW f \in Files
  PROVE  /\ op.result[f] \in Entries \cup {Absent}
         /\ f \in FilesOf(op.result) <=>
              memory[f].state \in {"unmodified", "modified", "to_be_added", "missing"}
         /\ f \in FilesOf(op.result) =>
              /\ op.result[f].md5 = memory[f].md5
              /\ op.result[f].contents = memory[f].contents
              /\ op.result[f].md5 \in Contents
         /\ CASE memory[f].state = "missing" -> op.result[f].state = "missing"
              [] memory[f].state \in {"unmodified", "modified", "to_be_added"} ->
                   op.result[f].state = "unmodified"
              [] memory[f].state = "untracked" -> op.result[f].state = "untracked"
              [] OTHER -> op.result[f].state = "absent"
<1>1. op.result[f] = Committed(memory[f])
  BY DEF IInv, PartsOfTasks, ResultFits
<1>2. /\ memory[f].state \in FileStates \cup {"absent"}
      /\ memory[f].state \in FileStates => memory[f] \in Entries
      /\ memory[f].state = "absent" => memory[f] = Absent
  BY EntryTypes
<1>3. CASE memory[f].state \in {"to_be_deleted", "absent"}
  <2>1. op.result[f] = Absent
    BY <1>1, <1>2, <1>3 DEF Committed
  <2> QED
    BY <1>3, <2>1 DEF Absent, Entry, FilesOf, InState
<1>4. CASE memory[f].state \in {"modified", "to_be_added"}
  <2>1. memory[f] \in Entries /\ op.result[f] = [memory[f] EXCEPT !.state = "unmodified"]
    BY <1>1, <1>2, <1>4 DEF Committed, FileStates
  <2> QED
    BY <1>4, <2>1 DEF Entries, FileStates, FilesOf, InState
<1>5. CASE memory[f].state \in {"unmodified", "missing", "untracked"}
  <2>1. memory[f] \in Entries /\ op.result[f] = memory[f]
    BY <1>1, <1>2, <1>5 DEF Committed, FileStates
  <2> QED
    BY <1>5, <2>1 DEF Entries, FilesOf, InState
<1> QED
  BY <1>2, <1>3, <1>4, <1>5 DEF FileStates

(* When the post is sent everything before it is through.                  *)
LEMMA PostIsAlone ==
  ASSUME IInv, Ready(Whole("post"))
  PROVE  /\ op.kind = "commit" /\ ~Saving /\ Whole("post") \in op.todo
         /\ memory \in Packages \ {NoPackage}
         /\ SaveTasks(op.result) \subseteq op.todo
         /\ op.todo \ {Whole("post")} \subseteq SaveTasks(op.result)
<1> DEFINE t == Whole("post")
<1>1. t.do = "post"
  BY DEF Whole, Task
<1>2. /\ op.kind = "commit" /\ t \in op.todo
      /\ \A u \in op.todo : Stage(t) <= Stage(u)
  BY <1>1, ReadyTask DEF OwnersOf
<1>3. ~Saving /\ SaveTasks(op.result) \subseteq op.todo
  BY <1>2 DEF IInv, PartsOfTasks, CommitPhases, Saving
<1>4. memory \in Packages \ {NoPackage}
  BY <1>2, Running
<1>5. ASSUME NEW u \in op.todo, u # t
      PROVE  u \in SaveTasks(op.result)
  <2>1. /\ u \in Tasks /\ op.kind \in OwnersOf(u.do) /\ u.file \in FilesFor(u.do)
        /\ u.do # "upload" => u.contents = None
    BY DEF IInv, TypeInv, PartsOfTasks, TasksFit
  <2>2. u.do \in {"post", "saveList", "saveFile", "dropAdded", "dropDeleted"}
    <3>1. Stage(u) \in {2, 3}
      BY <1>1, <1>2, StageCases
    <3> QED
      BY <1>2, <2>1, <3>1, StageCases DEF OwnersOf
  <2>3. u = Task(u.do, u.file)
    BY <2>1, <2>2 DEF Tasks, Task
  <2>4. CASE u.do = "saveFile"
    BY <2>1, <2>3, <2>4 DEF FilesFor, SaveTasks
  <2>5. CASE u.do # "saveFile"
    <3>1. u.file = None
      BY <2>1, <2>2, <2>5 DEF FilesFor
    <3>2. u = Whole(u.do)
      BY <2>3, <3>1 DEF Whole
    <3> QED
      BY <1>5, <2>2, <2>5, <3>2 DEF SaveTasks
  <2> QED
    BY <2>4, <2>5
<1> QED
  BY <1>2, <1>3, <1>4, <1>5

LEMMA PostHolds ==
  ASSUME IInv, PostFileList
  PROVE  IInv'
<1> DEFINE t == Whole("post")
<1>1. /\ Ready(t) /\ t.do = "post"
      /\ UNCHANGED <<disk, blobs, edits>>
      /\ \/ /\ Accepts(memory) /\ head' = DirectoryFromModifiedPackage(memory)
            /\ behind' = TRUE
            /\ Proceed(t, {}, op.result) /\ interrupted' = interrupted
         \/ /\ head' \in {head, DirectoryFromModifiedPackage(memory)}
            /\ behind' \in {behind, TRUE}
            /\ Reject(t)
  BY DEF PostFileList, Whole, Task
<1>2. /\ op.kind = "commit" /\ ~Saving /\ t \in op.todo
      /\ memory \in Packages \ {NoPackage}
      /\ SaveTasks(op.result) \subseteq op.todo
      /\ op.todo \ {t} \subseteq SaveTasks(op.result)
  BY <1>1, PostIsAlone
<1>3. DirectoryFromModifiedPackage(memory) \in [Files -> Stored]
  <2>1. ASSUME NEW f \in Files
        PROVE  memory[f].md5 \in Stored
    BY <1>2, EntryTypes DEF Entries, Absent, Entry, Stored, FileStates
  <2> QED
    BY <2>1 DEF DirectoryFromModifiedPackage, Stored
<1>4. CASE Reject(t) /\ head' \in {head, DirectoryFromModifiedPackage(memory)}
           /\ behind' \in {behind, TRUE}
  <2>1. head' \in [Files -> Stored] /\ behind' \in BOOLEAN /\ blobs' \subseteq Contents
    BY <1>1, <1>3, <1>4 DEF IInv, TypeInv
  <2> QED
    BY <1>1, <1>4, <2>1, RejectStep
<1>5. CASE /\ Accepts(memory) /\ head' = DirectoryFromModifiedPackage(memory)
           /\ behind' = TRUE
           /\ Proceed(t, {}, op.result) /\ interrupted' = interrupted
  <2>1. Whole("saveList") \in op.todo /\ Whole("saveList") # t
    BY <1>2 DEF SaveTasks, Whole, Task
  <2>2. /\ TypeInv' /\ TasksFit'
        /\ stray' = stray /\ synced' = synced
        /\ op'.kind = "commit" /\ op'.todo = op.todo \ {t}
        /\ op'.result = op.result /\ memory' = memory
    <3>1. /\ workdir' \in [Files -> Stored] /\ store' \in [Files -> Stored]
          /\ listed' \in [Files -> Stored] /\ toBeAdded' \subseteq Files
          /\ toBeDeleted' \subseteq Files /\ head' \in [Files -> Stored]
          /\ blobs' \subseteq Contents /\ behind' \in BOOLEAN
      BY <1>1, <1>3, <1>5 DEF IInv, TypeInv, disk
    <3> QED
      BY <1>1, <1>2, <1>5, <2>1, <3>1, TaskDone
  <2>3. /\ Saving'
        /\ SaveTasks(op.result)' = SaveTasks(op.result)
        /\ FilesOf(op.result)' = FilesOf(op.result)
        /\ op'.todo = SaveTasks(op.result)
    <3>1. t \notin SaveTasks(op.result)
      BY DEF SaveTasks, Whole, Task
    <3> QED
      BY <1>2, <2>2, <3>1 DEF Saving, SaveTasks, FilesOf, InState
  <2>4. PartsOfTasks'
    <3>1. ResultFits'
      BY <1>2, <2>2 DEF IInv, PartsOfTasks, ResultFits
    <3>2. CommitPhases'
      BY <2>3 DEF CommitPhases
    <3>3. ASSUME NEW f \in FilesOf(op.result)
          PROVE  op.result[f].md5 = op.result[f].contents
      <4>1. /\ f \in Files
            /\ memory[f].state \in {"unmodified", "modified", "to_be_added", "missing"}
            /\ op.result[f].md5 = memory[f].md5
            /\ op.result[f].contents = memory[f].contents
            /\ op.result[f].md5 \in Contents
        BY <1>2, CommittedEntry DEF FilesOf, InState
      <4>2. DirectoryFromModifiedPackage(memory)[f] = memory[f].md5
        BY <4>1 DEF DirectoryFromModifiedPackage
      <4>3. memory[f].md5 = memory[f].contents
        BY <1>5, <4>1, <4>2, WorkingCopyAssumption DEF Accepts
      <4> QED
        BY <4>1, <4>3
    <3>4. /\ Whole("saveList") \in op'.todo /\ Whole("dropAdded") \in op'.todo
          /\ Whole("dropDeleted") \in op'.todo
      BY <2>3 DEF SaveTasks
    <3>5. SavedIsAccepted'
      <4>1. head' = DirectoryFromModifiedPackage(memory)'
        BY <1>5, <2>2 DEF DirectoryFromModifiedPackage
      <4> QED
        BY <2>2, <2>3, <3>3, <3>4, <4>1 DEF SavedIsAccepted
    <3> QED
      BY <2>2, <3>1, <3>2, <3>5 DEF PartsOfTasks
  <2>5. PlansHold' /\ ListedHold'
    BY <2>2, <2>3 DEF PlansHold, ListedHold
  <2>6. StoreHolds'
    BY <1>5, <2>2, <2>3 DEF IInv, StoreHolds, SaveTasks
  <2>7. SyncHolds'
    <3> SUFFICES ASSUME synced, NEW f \in Files
                 PROVE  InDirectory(memory[f], f)'
      BY <2>2, <2>3 DEF SyncHolds, ShowsFile
    <3>1. /\ Shows(memory[f], f)
          /\ \/ memory[f].state # "to_be_deleted"
             \/ Task("unlinkWork", f) \in op.todo
             \/ workdir[f] = None
      BY <1>2 DEF IInv, SyncHolds, ShowsFile
    <3>2. Task("unlinkWork", f) \notin op.todo
      <4>1. Task("unlinkWork", f) \notin SaveTasks(op.result) \cup {t}
        BY DEF SaveTasks, Whole, Task
      <4> QED
        BY <1>2, <4>1
    <3>3. memory[f].state \in FileStates \cup {"absent"}
      BY <1>2, EntryTypes
    <3> QED
      BY <1>1, <2>2, <3>1, <3>2, <3>3 DEF Shows, InDirectory, FileStates, disk
  <2> QED
    BY <2>2, <2>4, <2>5, <2>6, <2>7 DEF IInv
<1> QED
  BY <1>1, <1>4, <1>5

(* The listing that a commit records.                                      *)
Recorded(pkg) == [f \in Files |-> IF f \in FilesOf(pkg) THEN pkg[f].md5 ELSE None]

(* A task of a commit that is being saved is through; after the last one   *)
(* .osc and the lists are those of the new revision.                       *)
LEMMA SaveHolds ==
  ASSUME IInv, NEW t, Save(t),
         t.do \in {"saveList", "saveFile", "dropAdded", "dropDeleted"},
         listed' = IF t = Whole("saveList") THEN Recorded(op.result) ELSE listed,
         toBeAdded' = IF t = Whole("dropAdded") THEN {} ELSE toBeAdded,
         toBeDeleted' = IF t = Whole("dropDeleted") THEN {} ELSE toBeDeleted,
         store' \in [Files -> Stored],
         \A f \in Files : store'[f] = IF t = Task("saveFile", f)
                                      THEN op.result[f].contents ELSE store[f]
  PROVE  IInv'
<1>1. /\ Ready(t) /\ Proceed(t, {}, op.result) /\ behind' \in BOOLEAN
      /\ UNCHANGED <<workdir, server, edits, interrupted>>
  BY DEF Save
<1>2. /\ op.kind = "commit" /\ t \in op.todo /\ Saving
  <2>1. /\ op.kind = "commit" /\ t \in op.todo
        /\ \A u \in op.todo : 3 <= Stage(u)
    BY <1>1, ReadyTask, StageCases DEF OwnersOf
  <2>2. Whole("post") \notin op.todo
    BY <2>1 DEF Stage, Whole, Task
  <2> QED
    BY <2>1, <2>2 DEF Saving
<1>3. /\ memory \in Packages \ {NoPackage} /\ op.result \in Packages
  BY <1>1, <1>2, Running
<1>4. Recorded(op.result) \in [Files -> Stored]
  BY <1>2, <1>3, CommittedEntry DEF Recorded, Stored
<1>5. /\ TypeInv' /\ TasksFit'
      /\ stray' = stray /\ synced' = synced
      /\ \/ /\ op.todo = {t}
            /\ op'.kind = "idle" /\ op'.todo = {} /\ memory' = op.result /\ ~Saving'
         \/ /\ op'.kind = op.kind /\ op'.todo = op.todo \ {t} /\ op'.todo # {}
            /\ op'.result = op.result /\ memory' = memory
  <2>1. /\ workdir' \in [Files -> Stored] /\ listed' \in [Files -> Stored]
        /\ toBeAdded' \subseteq Files /\ toBeDeleted' \subseteq Files
        /\ head' \in [Files -> Stored] /\ blobs' \subseteq Contents
    BY <1>1, <1>4 DEF IInv, TypeInv, server
  <2> QED
    BY <1>1, <2>1, TaskDone
<1>6. /\ op.todo \subseteq SaveTasks(op.result)
      /\ head = DirectoryFromModifiedPackage(memory)
      /\ \A f \in FilesOf(op.result) : op.result[f].md5 = op.result[f].contents
      /\ Whole("saveList") \in op.todo \/ listed = Recorded(op.result)
      /\ Whole("dropAdded") \in op.todo \/ toBeAdded = {}
      /\ Whole("dropDeleted") \in op.todo \/ toBeDeleted = {}
  BY <1>2 DEF IInv, PartsOfTasks, CommitPhases, SavedIsAccepted, Recorded
<1>7. /\ Whole("saveList") \in op.todo \ {t} \/ listed' = Recorded(op.result)
      /\ Whole("dropAdded") \in op.todo \ {t} \/ toBeAdded' = {}
      /\ Whole("dropDeleted") \in op.todo \ {t} \/ toBeDeleted' = {}
  BY <1>6
<1>8. \/ Damaged
      \/ \A f \in FilesOf(op.result) :
           Task("saveFile", f) \in op.todo \ {t} \/ store'[f] = op.result[f].contents
  <2>1. ASSUME NEW f \in FilesOf(op.result), ~Damaged,
               Task("saveFile", f) \notin op.todo \ {t}
        PROVE  store'[f] = op.result[f].contents
    BY <1>2, <2>1 DEF IInv, StoreHolds, FilesOf, InState
  <2> QED
    BY <2>1
<1>9. Damaged' = Damaged
  BY <1>1, <1>5 DEF Damaged
<1>10. \A u \in stray' : u.do = "unlinkStore" => interrupted'
  BY <1>1, <1>5 DEF IInv, StoreHolds
<1>11. ASSUME synced, NEW f \in Files
       PROVE  InDirectory(memory[f], f)
  BY <1>2, <1>3, <1>11 DEF IInv, SyncHolds, ShowsFile
<1>12. CASE /\ op'.kind = op.kind /\ op'.todo = op.todo \ {t} /\ op'.todo # {}
            /\ op'.result = op.result /\ memory' = memory
  <2>1. /\ Saving'
        /\ SaveTasks(op.result)' = SaveTasks(op.result)
        /\ FilesOf(op.result)' = FilesOf(op.result)
        /\ Recorded(op.result)' = Recorded(op.result)
        /\ DirectoryFromModifiedPackage(memory)' = DirectoryFromModifiedPackage(memory)
    BY <1>2, <1>12 DEF Saving, SaveTasks, FilesOf, InState, Recorded,
                       DirectoryFromModifiedPackage
  <2>2. ResultFits'
    BY <1>2, <1>12 DEF IInv, PartsOfTasks, ResultFits
  <2>3. CommitPhases'
    BY <1>6, <1>12, <2>1 DEF CommitPhases
  <2>4. SavedIsAccepted'
    BY <1>1, <1>6, <1>7, <1>12, <2>1 DEF SavedIsAccepted, Recorded, server
  <2>5. PlansHold' /\ ListedHold'
    BY <1>2, <1>12, <2>1 DEF PlansHold, ListedHold
  <2>6. StoreHolds'
    BY <1>2, <1>8, <1>9, <1>10, <1>12, <2>1 DEF StoreHolds
  <2>7. SyncHolds'
    <3> SUFFICES ASSUME synced, NEW f \in Files
                 PROVE  InDirectory(memory[f], f)'
      BY <1>2, <1>5, <1>12, <2>1 DEF SyncHolds, ShowsFile
    <3> QED
      BY <1>1, <1>11, <1>12 DEF InDirectory
  <2> QED
    BY <1>5, <2>2, <2>3, <2>4, <2>5, <2>6, <2>7 DEF IInv, PartsOfTasks
<1>13. CASE /\ op.todo = {t}
            /\ op'.kind = "idle" /\ op'.todo = {} /\ memory' = op.result /\ ~Saving'
  <2>1. listed' = Recorded(op.result) /\ toBeAdded' = {} /\ toBeDeleted' = {}
    BY <1>7, <1>13
  <2>2. ASSUME NEW f \in Files
        PROVE  /\ f \in FilesOf(op.result) =>
                    /\ listed'[f] = op.result[f].md5 /\ listed'[f] # None
                    /\ memory[f].state \in {"unmodified", "modified", "to_be_added",
                                            "missing"}
                    /\ op.result[f].md5 = memory[f].md5
                    /\ op.result[f].md5 = op.result[f].contents
                    /\ op.result[f].state = IF memory[f].state = "missing"
                                            THEN "missing" ELSE "unmodified"
               /\ f \notin FilesOf(op.result) =>
                    /\ listed'[f] = None
                    /\ memory[f].state \in {"untracked", "absent", "to_be_deleted"}
                    /\ op.result[f].state = IF memory[f].state = "untracked"
                                            THEN "untracked" ELSE "absent"
    <3>1. /\ op.result[f].md5 # None \/ f \notin FilesOf(op.result)
          /\ listed'[f] = IF f \in FilesOf(op.result) THEN op.result[f].md5 ELSE None
      BY <1>2, <1>3, <2>1, CommittedEntry, WorkingCopyAssumption DEF Recorded
    <3>2. memory[f].state \in FileStates \cup {"absent"}
      BY <1>3, EntryTypes
    <3> QED
      BY <1>2, <1>3, <1>6, <3>1, <3>2, CommittedEntry DEF FileStates
  <2>3. PartsOfTasks'
    BY <1>5, <1>13 DEF PartsOfTasks, ResultFits, CommitPhases, SavedIsAccepted
  <2>4. PlansHold'
    <3>1. ASSUME NEW f \in Files
          PROVE  op.result[f].state \notin {"to_be_added", "to_be_deleted"}
      BY <2>2
    <3> QED
      BY <1>13, <3>1 DEF PlansHold, InState
  <2>5. ListedHold'
    BY <1>13, <2>2 DEF ListedHold, ListedFits, InRevision
  <2>6. StoreHolds'
    <3>1. CASE Damaged
      BY <1>9, <1>10, <1>13, <3>1 DEF StoreHolds
    <3>2. CASE ~Damaged
      <4>1. Readable'
        <5> SUFFICES ASSUME NEW f \in Files, listed'[f] # None
                     PROVE  store'[f] = listed'[f]
          BY DEF Readable
        <5>1. f \in FilesOf(op.result)
          BY <2>2
        <5> QED
          BY <1>8, <1>13, <2>2, <3>2, <5>1
      <4> QED
        BY <1>10, <1>13, <4>1 DEF StoreHolds
    <3> QED
      BY <3>1, <3>2
  <2>7. SyncHolds'
    <3> SUFFICES ASSUME synced, NEW f \in Files
                 PROVE  Shows(memory[f], f)'
      BY <1>5, <1>13 DEF SyncHolds, ShowsFile
    <3>1. InDirectory(memory[f], f)
      BY <1>11
    <3> QED
      BY <1>1, <1>13, <2>1, <2>2, <3>1 DEF InDirectory, Shows
  <2> QED
    BY <1>5, <2>3, <2>4, <2>5, <2>6, <2>7 DEF IInv
<1> QED
  BY <1>5, <1>12, <1>13

LEMMA SavesHold ==
  ASSUME IInv, \/ SaveList \/ DropAdded \/ DropDeleted
               \/ \E f \in Files : SaveFile(f)
  PROVE  IInv'
<1>1. /\ Whole("saveList").do = "saveList" /\ Whole("dropAdded").do = "dropAdded"
      /\ Whole("dropDeleted").do = "dropDeleted"
      /\ \A f : Task("saveFile", f).do = "saveFile"
  BY DEF Whole, Task
<1>2. store \in [Files -> Stored]
  BY DEF IInv, TypeInv
<1>3. CASE SaveList
  BY <1>1, <1>2, <1>3, SaveHolds DEF SaveList, Recorded
<1>4. CASE DropAdded
  BY <1>1, <1>2, <1>4, SaveHolds DEF DropAdded
<1>5. CASE DropDeleted
  BY <1>1, <1>2, <1>5, SaveHolds DEF DropDeleted
<1>6. CASE \E f \in Files : SaveFile(f)
  <2> PICK f \in Files : SaveFile(f)
    BY <1>6
  <2>1. /\ Save(Task("saveFile", f))
        /\ store' = [store EXCEPT ![f] = op.result[f].contents]
        /\ UNCHANGED <<listed, toBeAdded, toBeDeleted>>
    BY DEF SaveFile
  <2>2. op.result[f].contents \in Stored
    <3>1. op.result \in Packages
      BY <2>1, Running DEF Save
    <3> QED
      BY <3>1, EntryTypes DEF Entries, Absent, Entry, Stored
  <2>3. /\ store' \in [Files -> Stored]
        /\ \A g \in Files : store'[g] = IF Task("saveFile", f) = Task("saveFile", g)
                                        THEN op.result[g].contents ELSE store[g]
    BY <1>2, <2>1, <2>2 DEF Task
  <2>4. /\ Task("saveFile", f) # Whole("saveList") /\ Task("saveFile", f) # Whole("dropAdded")
        /\ Task("saveFile", f) # Whole("dropDeleted")
    BY DEF Whole, Task
  <2> QED
    BY <1>1, <2>1, <2>3, <2>4, SaveHolds
<1> QED
  BY <1>3, <1>4, <1>5, <1>6

-----------------------------------------------------------------------------
(* The user, the process, and all steps.                                   *)

LEMMA EditHolds ==
  ASSUME IInv, NEW f \in Files, NEW contents \in Stored, Edit(f, contents)
  PROVE  IInv'
<1>1. edits' \in 0 .. MaxEdits
  BY WorkingCopyAssumption DEF Edit, IInv, TypeInv
<1>2. workdir' \in [Files -> Stored] /\ store' \in [Files -> Stored] /\ blobs' \subseteq Contents
  BY DEF Edit, IInv, TypeInv, server
<1> QED
  BY <1>1, <1>2, OutsideStep DEF Edit, server

LEMMA CrashHolds ==
  ASSUME IInv, Crash
  PROVE  IInv'
<1>1. /\ memory' = NoPackage /\ op' = Idle /\ stray' = {} /\ synced' = FALSE
      /\ interrupted' = (interrupted \/ Damaging)
      /\ UNCHANGED <<disk, server, edits, behind>>
      /\ op'.kind = "idle" /\ op'.todo = {} /\ ~Saving'
  BY IdleFields DEF Crash, Saving
<1>2. TypeInv'
  <2>1. op' \in [kind : Kinds, todo : SUBSET Tasks, result : Packages \cup {NoPackage}]
    BY <1>1, IdleFields
  <2>2. interrupted' \in BOOLEAN
    BY <1>1
  <2> QED
    BY <1>1, <2>1, <2>2 DEF IInv, TypeInv, disk, server
<1>3. PartsOfTasks'
  BY <1>1 DEF PartsOfTasks, TasksFit, ResultFits, CommitPhases, SavedIsAccepted
<1>4. PlansHold' /\ ListedHold' /\ SyncHolds'
  BY <1>1 DEF PlansHold, ListedHold, SyncHolds
<1>5. StoreHolds'
  <2>1. Readable' <=> Readable
    BY <1>1 DEF Readable, disk
  <2>2. CASE Saving
    <3>1. \A u \in op.todo : u \in SaveTasks(op.result) /\ op.kind = "commit"
      BY <2>2 DEF IInv, PartsOfTasks, CommitPhases, Saving
    <3>2. \A u \in op.todo : Stage(u) = 3
      BY <3>1, StageCases DEF SaveTasks, Whole, Task
    <3> QED
      BY <1>1, <2>2, <3>2 DEF Damaging, StoreHolds, Saving, Damaged
  <2>3. CASE ~Saving
    BY <1>1, <2>1, <2>3 DEF Damaging, IInv, StoreHolds, Damaged
  <2> QED
    BY <2>2, <2>3
<1> QED
  BY <1>2, <1>3, <1>4, <1>5 DEF IInv

LEMMA StutterHolds ==
  ASSUME IInv, UNCHANGED vars
  PROVE  IInv'
<1>1. /\ UNCHANGED <<workdir, store, listed, toBeAdded, toBeDeleted, memory, op, stray>>
      /\ UNCHANGED <<head, blobs, edits, synced, interrupted, behind>>
  BY DEF vars, disk, server, history
<1>2. workdir' \in [Files -> Stored] /\ store' \in [Files -> Stored]
      /\ blobs' \subseteq Contents /\ edits' \in 0 .. MaxEdits
  BY <1>1 DEF IInv, TypeInv
<1> QED
  BY <1>1, <1>2, OutsideStep

LEMMA NextHolds == IInv /\ [Next]_vars => IInv'
<1> SUFFICES ASSUME IInv, [Next]_vars
             PROVE  IInv'
  OBVIOUS
<1>1. CASE ReadInModifiedPackageFromDir
  BY <1>1, ReadInHolds
<1>2. CASE Unreadable
  BY <1>2, StutterHolds DEF Unreadable
<1>3. CASE \E names, others \in SUBSET Files : AddAndDeleteFilesFromPackage(names, others)
  BY <1>3, AddAndDeleteHolds
<1>4. CASE \E names \in SUBSET Files : UntrackFiles(names)
  BY <1>4, UntrackHolds
<1>5. CASE \E names \in SUBSET Files : UndoFileDeletion(names)
  BY <1>5, UndoHolds
<1>6. CASE Commit
  BY <1>6, CommitHolds
<1>7. ASSUME NEW f \in Files
      PROVE  /\ RejectedAdd(f) => IInv'
             /\ Inspect(f) => IInv'
             /\ Load(f) => IInv'
             /\ Unlink(f) => IInv'
             /\ Copy(f) => IInv'
             /\ UnlinkWork(f) => IInv'
             /\ UnlinkStore(f) => IInv'
             /\ SaveFile(f) => IInv'
  BY RejectedAddHolds, InspectHolds, LoadHolds, UnlinkHolds, CopyHolds, UnlinkWorkHolds,
     UnlinkStoreHolds, SavesHold
<1>8. CASE \E f \in Files, contents \in Contents : UploadFileContents(f, contents)
  BY <1>8, UploadHolds
<1>9. CASE WriteAdded \/ WriteDeleted
  BY <1>9, WriteAddedHolds, WriteDeletedHolds
<1>10. CASE PostFileList
  BY <1>10, PostHolds
<1>11. CASE SaveList \/ DropAdded \/ DropDeleted
  BY <1>11, SavesHold
<1>12. CASE \E f \in Files, contents \in Stored : Edit(f, contents)
  BY <1>12, EditHolds
<1>13. CASE Crash
  BY <1>13, CrashHolds
<1>14. CASE UNCHANGED vars
  BY <1>14, StutterHolds
<1> QED
  BY <1>1, <1>2, <1>3, <1>4, <1>5, <1>6, <1>7, <1>8, <1>9, <1>10, <1>11, <1>12, <1>13,
     <1>14 DEF Next

(* The conjunction of what holds in every state of a checked out package.  *)
THEOREM Invariance == Spec => []IInv
  BY InitHolds, NextHolds, PTL DEF Spec

-----------------------------------------------------------------------------
(* The invariants that the run checks.                                     *)

(* Every variable has its type, and an operation is in progress exactly as *)
(* long as it has tasks.                                                   *)
THEOREM TypeCorrect == Spec => []TypeOK
<1>1. IInv => TypeOK
  <2> SUFFICES ASSUME IInv
               PROVE  TypeOK
    OBVIOUS
  <2>1. op = Idle <=> op.todo = {}
    BY IdleFields DEF IInv, TypeInv
  <2>2. op.kind \in Kinds
    BY DEF IInv, TypeInv
  <2> QED
    BY <2>1, <2>2 DEF IInv, TypeInv, TypeOK, Kinds, history
<1> QED
  BY <1>1, Invariance, PTL

(* Whatever fails, dies or is edited, the checkout can be read in again,   *)
(* unless a commit broke off.                                              *)
THEOREM CheckoutStaysReadable == Spec => []StaysReadable
<1>1. IInv => StaysReadable
  BY DEF IInv, StoreHolds, Damaged, StaysReadable
<1> QED
  BY <1>1, Invariance, PTL

(* No addition and no deletion that the caller's object plans is lost by a *)
(* crash.                                                                  *)
THEOREM PlansSurvive == Spec => []PlansAreRecorded
<1>1. IInv => PlansAreRecorded
  BY DEF IInv, PlansHold, PlansAreRecorded, Saving
<1> QED
  BY <1>1, Invariance, PTL

(* The operations on the lists are atomic for whoever reads the checkout   *)
(* in again.                                                               *)
THEOREM ListsAreAtomic == Spec => []StatesAgree
<1>1. IInv => StatesAgree
  <2> SUFFICES ASSUME IInv, synced, memory # NoPackage,
                      op.kind \notin {"readIn", "commit"}, NEW f \in Files
               PROVE  LET found == IF workdir[f] = None THEN Unseen(f)
                                   ELSE Seen(f, workdir[f], Unseen(f))
                      IN \/ found.state = memory[f].state
                         \/ op # Idle /\ found.state = op.result[f].state
    BY DEF StatesAgree
  <2> DEFINE found == IF workdir[f] = None THEN Unseen(f)
                      ELSE Seen(f, workdir[f], Unseen(f))
  <2> SUFFICES \/ found.state = memory[f].state
               \/ op # Idle /\ found.state = op.result[f].state
    OBVIOUS
  <2>1. /\ ShowsFile(f) /\ ~Saving
        /\ memory \in Packages /\ ListedFits(memory)
        /\ op.kind # "idle" => op # Idle /\ op.result \in Packages /\ ListedFits(op.result)
    BY IdleFields DEF IInv, TypeInv, SyncHolds, ListedHold, Saving
  <2>2. found.state = IF listed[f] = None
                      THEN IF workdir[f] = None THEN "absent"
                           ELSE IF f \in toBeAdded THEN "to_be_added" ELSE "untracked"
                      ELSE IF f \in toBeDeleted THEN "to_be_deleted"
                           ELSE IF workdir[f] = None THEN "missing"
                           ELSE IF workdir[f] = listed[f] THEN "unmodified"
                           ELSE "modified"
    BY DEF Unseen, Seen, Absent, Entry
  <2> HIDE DEF found
  <2>3. ASSUME NEW pkg \in Packages, ListedFits(pkg), Shows(pkg[f], f)
        PROVE  found.state = pkg[f].state
    <3>1. /\ pkg[f].state \in FileStates \cup {"absent"}
          /\ pkg[f].state \in FileStates => pkg[f].md5 \in Contents
          /\ listed[f] # None <=> pkg[f].state \in InRevision
      BY <2>3, EntryTypes DEF Entries, ListedFits
    <3> QED
      BY <2>2, <2>3, <3>1, WorkingCopyAssumption DEF Shows, FileStates, InRevision
  <2>4. CASE op.kind = "addAndDelete"
    <3>1. CASE op.result[f] = memory[f] /\ Shows(memory[f], f)
      BY <2>1, <2>3, <3>1
    <3>2. CASE /\ op.result[f].state = "to_be_added"
               /\ memory[f].state = "untracked"
               /\ workdir[f] = op.result[f].md5
      <4>1. listed[f] = None /\ op.result[f].md5 \in Contents
        BY <2>1, <2>4, <3>2, EntryTypes DEF ListedFits, InRevision, Entries, FileStates
      <4> QED
        BY <2>1, <2>2, <2>4, <3>2, <4>1, WorkingCopyAssumption
    <3>3. CASE /\ op.result[f].state = "to_be_deleted"
               /\ IsTrackedFile(memory[f])
               /\ IF Whole("listDeleted") \in op.todo THEN Shows(memory[f], f)
                  ELSE f \in toBeDeleted
      <4>1. listed[f] # None
        BY <2>1, <2>4, <3>3 DEF ListedFits, InRevision
      <4> QED
        BY <2>1, <2>2, <2>3, <2>4, <3>3, <4>1
    <3> QED
      BY <2>1, <2>4, <3>1, <3>2, <3>3 DEF ShowsFile
  <2>5. CASE op.kind = "undo"
    <3>1. CASE op.result[f] = memory[f] /\ Shows(memory[f], f)
      BY <2>1, <2>3, <3>1
    <3>2. CASE /\ op.result[f].state = "unmodified"
               /\ memory[f].state \in {"to_be_deleted", "missing"}
               /\ f \in toBeDeleted <=> memory[f].state = "to_be_deleted"
               /\ \/ workdir[f] = listed[f]
                  \/ memory[f].state = "missing" => workdir[f] = None
      <4>1. listed[f] # None
        BY <2>1, <3>2 DEF ListedFits, InRevision
      <4> QED
        BY <2>1, <2>2, <2>5, <3>2, <4>1
    <3> QED
      BY <2>1, <2>5, <3>1, <3>2 DEF ShowsFile
  <2>6. CASE op.kind \in {"idle", "untrack"}
    BY <2>1, <2>3, <2>6 DEF ShowsFile
  <2> QED
    BY <2>4, <2>5, <2>6 DEF IInv, TypeInv, Kinds

<1> QED
  BY <1>1, Invariance, PTL

-----------------------------------------------------------------------------
(* What a commit does to HEAD, and what becomes of the user's files.       *)

(* What a commit records is what the server has accepted.                  *)
LEMMA RecordedIsHead ==
  ASSUME IInv, Saving, memory \in Packages
  PROVE  Recorded(op.result) = head
<1>1. op.kind = "commit" /\ head = DirectoryFromModifiedPackage(memory)
  BY DEF IInv, PartsOfTasks, SavedIsAccepted, Saving
<1>2. ASSUME NEW f \in Files
      PROVE  Recorded(op.result)[f] = DirectoryFromModifiedPackage(memory)[f]
  <2>1. memory[f].state \in FileStates \cup {"absent"}
    BY EntryTypes
  <2> QED
    BY <1>1, <2>1, CommittedEntry
       DEF Recorded, DirectoryFromModifiedPackage, FileStates
<1> QED
  BY <1>1, <1>2 DEF Recorded, DirectoryFromModifiedPackage

(* The last task of a commit leaves .osc at the revision it has created;   *)
(* before it the client does not claim so.                                 *)
LEMMA SaveKeepsHead ==
  ASSUME IInv, RecordsHead, NEW t, Save(t), t.do # "post",
         op.kind = "commit", Saving,
         listed' = IF t = Whole("saveList") THEN Recorded(op.result) ELSE listed
  PROVE  RecordsHead'
<1>1. /\ Ready(t) /\ Proceed(t, {}, op.result)
      /\ behind' = (op' # Idle) /\ head' = head
  BY DEF Save, server
<1>2. op.result \in Packages /\ memory \in Packages
  BY <1>1, Running
<1>3. \/ op.todo = {t}
      \/ op'.kind = op.kind
  <2>1. \/ (op.todo \ {t}) \cup {} = {} /\ t \in op.todo
        \/ op'.kind = op.kind
    BY <1>1, <1>2, ProceedCases
  <2> QED
    BY <2>1
<1>4. CASE op'.kind = op.kind
  BY <1>1, <1>4, IdleFields DEF RecordsHead
<1>5. CASE op.todo = {t}
  <2>1. listed' = Recorded(op.result)
    BY <1>5 DEF IInv, PartsOfTasks, SavedIsAccepted, Recorded
  <2> QED
    BY <1>1, <1>2, <2>1, RecordedIsHead DEF RecordsHead
<1> QED
  BY <1>3, <1>4, <1>5

(* A task of the last stage of a commit is ready when the post is through. *)
LEMMA SavingNow ==
  ASSUME IInv, NEW t, Ready(t), op.kind = "commit", Stage(t) = 3
  PROVE  Saving
<1>1. \A u \in op.todo : 3 <= Stage(u)
  BY ReadyTask
<1>2. Whole("post") \notin op.todo
  BY <1>1 DEF Stage, Whole, Task
<1> QED
  BY <1>2 DEF Saving

LEMMA HeadStep == IInv /\ RecordsHead /\ [Next]_vars => RecordsHead'
<1> SUFFICES ASSUME IInv, RecordsHead, [Next]_vars
             PROVE  RecordsHead'
  OBVIOUS
<1>1. CASE behind' = TRUE
  BY <1>1 DEF RecordsHead
<1>2. CASE UNCHANGED <<listed, head, behind>>
  BY <1>2 DEF RecordsHead
<1>3. ASSUME NEW t, Save(t),
             t.do \in {"saveList", "saveFile", "dropAdded", "dropDeleted"},
             listed' = IF t = Whole("saveList") THEN Recorded(op.result) ELSE listed
      PROVE  RecordsHead'
  <2>1. Ready(t) /\ t.do # "post" /\ Stage(t) = 3
    BY <1>3, StageCases DEF Save
  <2>2. op.kind = "commit"
    BY <1>3, <2>1, ReadyTask DEF OwnersOf
  <2> QED
    BY <1>3, <2>1, <2>2, SavingNow, SaveKeepsHead
<1>4. CASE SaveList \/ DropAdded \/ DropDeleted \/ \E f \in Files : SaveFile(f)
  <2>1. /\ Whole("saveList").do = "saveList" /\ Whole("dropAdded").do = "dropAdded"
        /\ Whole("dropDeleted").do = "dropDeleted"
        /\ \A f : Task("saveFile", f).do = "saveFile"
    BY DEF Whole, Task
  <2> QED
    BY <1>3, <1>4, <2>1 DEF SaveList, DropAdded, DropDeleted, SaveFile, Recorded
<1>5. CASE PostFileList
  BY <1>1, <1>2, <1>5 DEF PostFileList, disk
<1>6. CASE UNCHANGED vars
  BY <1>2, <1>6 DEF vars, disk, server, history
<1>7. ASSUME NEW f \in Files, \/ RejectedAdd(f) \/ Inspect(f) \/ Load(f) \/ Unlink(f)
                              \/ Copy(f) \/ UnlinkWork(f) \/ UnlinkStore(f)
      PROVE  UNCHANGED <<listed, head, behind>>
  BY <1>7 DEF RejectedAdd, Inspect, Load, Unlink, Copy, UnlinkWork, UnlinkStore,
              disk, server, history
<1>8. ASSUME \/ ReadInModifiedPackageFromDir \/ Unreadable
             \/ \E names, others \in SUBSET Files :
                  AddAndDeleteFilesFromPackage(names, others)
             \/ \E names \in SUBSET Files : UntrackFiles(names)
             \/ \E names \in SUBSET Files : UndoFileDeletion(names)
             \/ Commit \/ WriteAdded \/ WriteDeleted \/ Crash
             \/ \E f \in Files, contents \in Contents : UploadFileContents(f, contents)
             \/ \E f \in Files, contents \in Stored : Edit(f, contents)
      PROVE  UNCHANGED <<listed, head, behind>>
  BY <1>8 DEF ReadInModifiedPackageFromDir, Unreadable, AddAndDeleteFilesFromPackage,
              UntrackFiles, UndoFileDeletion, Commit, WriteAdded, WriteDeleted, Crash,
              UploadFileContents, Edit, vars, disk, server, history
<1> QED
  BY <1>2, <1>4, <1>5, <1>6, <1>7, <1>8 DEF Next

(* Once a commit is resolved, .osc describes the revision it has created.  *)
THEOREM CommitIsRecorded == Spec => []RecordsHead
<1>1. Init => RecordsHead
  BY DEF Init, RecordsHead
<1>2. IInv /\ RecordsHead /\ [Next]_vars => RecordsHead'
  BY HeadStep
<1> QED
  BY <1>1, <1>2, Invariance, PTL DEF Spec

(* The running operation never overwrites a file in the directory, and     *)
(* removes one only after its deletion was recorded in .osc.               *)
THEOREM NoFileIsLost == Spec => UserFilesAreSafe
<1>1. ASSUME IInv, [Next]_vars, NEW f \in Files,
             workdir[f] # None, workdir'[f] # workdir[f], edits' = edits, stray' = stray
      PROVE  workdir'[f] = None /\ f \in toBeDeleted
  <2>1. workdir' # workdir /\ workdir \in [Files -> Stored]
    BY <1>1 DEF IInv, TypeInv
  <2>2. ASSUME NEW g \in Files, Unlink(g)
        PROVE  workdir'[f] = None /\ f \in toBeDeleted
    <3> DEFINE t == Task("unlink", g)
    <3>1. Done(t) /\ workdir' = [workdir EXCEPT ![g] = None]
      BY <2>1, <2>2 DEF Unlink
    <3>2. Ready(t) /\ g = f
      BY <1>1, <2>1, <3>1 DEF Done
    <3> QED
      BY <1>1, <2>1, <3>1, <3>2, UnlinkIsLast
  <2>3. ASSUME NEW g \in Files
        PROVE  ~Copy(g)
    BY <1>1, <2>1 DEF Copy, CanCopy
  <2>4. ASSUME NEW g \in Files, UnlinkWork(g)
        PROVE  workdir'[f] = None /\ f \in toBeDeleted
    <3> DEFINE t == Task("unlinkWork", g)
    <3>1. /\ Done(t) /\ workdir' = [workdir EXCEPT ![g] = None]
          /\ t.do = "unlinkWork" /\ t.file = g
      BY <2>4 DEF UnlinkWork, Task
    <3>2. Ready(t) /\ g = f
      BY <1>1, <2>1, <3>1 DEF Done
    <3>3. op.kind = "commit" /\ g \in InState(memory, {"to_be_deleted"}) /\ t \in op.todo
      BY <1>1, <3>1, <3>2, ReadyTask DEF OwnersOf, FilesFor
    <3>4. t \notin SaveTasks(op.result)
      BY <3>1 DEF SaveTasks, Whole, Task
    <3>5. ~Saving
      BY <1>1, <3>3, <3>4 DEF IInv, PartsOfTasks, CommitPhases
    <3>6. memory \in Packages \ {NoPackage}
      BY <1>1, <3>2, <3>3, Running
    <3>7. f \in toBeDeleted
      BY <1>1, <3>2, <3>3, <3>5, <3>6 DEF IInv, PlansHold
    <3> QED
      BY <2>1, <3>1, <3>2, <3>7
  <2>5. ASSUME NEW g \in Files, NEW contents
        PROVE  ~Edit(g, contents)
    BY <1>1 DEF Edit, IInv, TypeInv
  <2>6. ASSUME NEW g \in Files
        PROVE  /\ RejectedAdd(g) \/ Inspect(g) \/ Load(g) => workdir' = workdir
               /\ UnlinkStore(g) \/ SaveFile(g) => workdir' = workdir
               /\ \A contents : UploadFileContents(g, contents) => workdir' = workdir
    BY DEF RejectedAdd, Inspect, Load, UnlinkStore, SaveFile, Save, UploadFileContents,
           disk
  <2>7. ASSUME \/ \E names, others \in SUBSET Files :
                    AddAndDeleteFilesFromPackage(names, others)
               \/ \E names \in SUBSET Files : UntrackFiles(names)
               \/ \E names \in SUBSET Files : UndoFileDeletion(names)
        PROVE  workdir' = workdir
    BY <2>7 DEF AddAndDeleteFilesFromPackage, UntrackFiles, UndoFileDeletion, disk
  <2>8. ASSUME \/ ReadInModifiedPackageFromDir \/ Unreadable
               \/ Commit \/ WriteAdded \/ WriteDeleted \/ Crash \/ UNCHANGED vars
               \/ PostFileList \/ SaveList \/ DropAdded \/ DropDeleted
        PROVE  workdir' = workdir
    BY <2>8 DEF ReadInModifiedPackageFromDir, Unreadable, Commit, WriteAdded, WriteDeleted,
                Crash, PostFileList, SaveList, DropAdded, DropDeleted, Save, vars, disk
  <2> QED
    BY <1>1, <2>1, <2>2, <2>3, <2>4, <2>5, <2>6, <2>7, <2>8 DEF Next
<1>2. IInv /\ [Next]_vars =>
        \A f \in Files :
          /\ workdir[f] # None
          /\ workdir'[f] # workdir[f]
          /\ edits' = edits
          /\ stray' = stray
          => workdir'[f] = None /\ f \in toBeDeleted
  BY <1>1
<1> QED
  BY <1>2, Invariance, PTL DEF Spec, UserFilesAreSafe

(* A commit adds to HEAD and removes from it what the lists in .osc name.  *)
THEOREM CommitFollowsLists == Spec => HeadFollowsLists
<1>1. ASSUME IInv, RecordsHead, [Next]_vars, ~behind, NEW f \in Files
      PROVE  /\ head[f] = None /\ head'[f] # None => f \in toBeAdded
             /\ head[f] # None /\ head'[f] = None => f \in toBeDeleted
  <2>1. CASE head' = head
    BY <2>1
  <2>2. CASE PostFileList /\ head' # head
    <3>1. Ready(Whole("post")) /\ head' = DirectoryFromModifiedPackage(memory)
      BY <2>2 DEF PostFileList
    <3>2. ~Saving /\ memory \in Packages \ {NoPackage} /\ op.kind = "commit"
      BY <1>1, <3>1, PostIsAlone
    <3>3. /\ head[f] = listed[f]
          /\ listed[f] # None <=> memory[f].state \in InRevision
          /\ memory[f].state = "to_be_added" => f \in toBeAdded
          /\ memory[f].state = "to_be_deleted" => f \in toBeDeleted
      BY <1>1, <3>2 DEF RecordsHead, IInv, ListedHold, ListedFits, PlansHold, InState
    <3>4. /\ memory[f].state \in FileStates \cup {"absent"}
          /\ memory[f].state \in FileStates => memory[f].md5 \in Contents
      BY <3>2, EntryTypes DEF Entries
    <3>5. head'[f] = IF memory[f].state \in {"untracked", "to_be_deleted", "absent"}
                     THEN None ELSE memory[f].md5
      BY <3>1 DEF DirectoryFromModifiedPackage
    <3> QED
      BY <3>3, <3>4, <3>5, WorkingCopyAssumption DEF FileStates, InRevision
  <2>3. PostFileList \/ head' = head
    <3>1. ASSUME NEW g \in Files
          PROVE  /\ RejectedAdd(g) \/ Inspect(g) \/ Load(g) \/ Unlink(g) => head' = head
                 /\ Copy(g) \/ UnlinkWork(g) \/ UnlinkStore(g) \/ SaveFile(g)
                      => head' = head
                 /\ \A contents : UploadFileContents(g, contents) \/ Edit(g, contents)
                      => head' = head
      BY DEF RejectedAdd, Inspect, Load, Unlink, Copy, UnlinkWork, UnlinkStore, SaveFile,
             Save, UploadFileContents, Edit, server
    <3>2. ASSUME \/ ReadInModifiedPackageFromDir \/ Unreadable
                 \/ \E names, others \in SUBSET Files :
                      AddAndDeleteFilesFromPackage(names, others)
                 \/ \E names \in SUBSET Files : UntrackFiles(names)
                 \/ \E names \in SUBSET Files : UndoFileDeletion(names)
                 \/ Commit \/ WriteAdded \/ WriteDeleted \/ Crash \/ UNCHANGED vars
                 \/ SaveList \/ DropAdded \/ DropDeleted
          PROVE  head' = head
      BY <3>2 DEF ReadInModifiedPackageFromDir, Unreadable, AddAndDeleteFilesFromPackage,
                  UntrackFiles, UndoFileDeletion, Commit, WriteAdded, WriteDeleted, Crash,
                  SaveList, DropAdded, DropDeleted, Save, vars, server
    <3> QED
      BY <1>1, <3>1, <3>2 DEF Next
  <2> QED
    BY <2>1, <2>2, <2>3
<1>2. IInv /\ RecordsHead /\ [Next]_vars =>
        (~behind =>
           \A f \in Files :
             /\ head[f] = None /\ head'[f] # None => f \in toBeAdded
             /\ head[f] # None /\ head'[f] = None => f \in toBeDeleted)
  BY <1>1
<1> QED
  BY <1>2, Invariance, CommitIsRecorded, PTL DEF Spec, HeadFollowsLists

-----------------------------------------------------------------------------
(* The staging area.                                                       *)

\* A reading has found every deletion that is recorded; of an operation that has
\* written a list, the list is exactly what it plans; what is being saved is not
\* recorded yet.
RecordHolds ==
  /\ op.kind = "readIn" =>
       \A f \in toBeDeleted : listed[f] # None => op.result[f].state = "to_be_deleted"
  /\ op.kind = "addAndDelete" =>
       /\ \/ Whole("listAdded") \in op.todo
          \/ toBeAdded = InState(op.result, {"to_be_added"})
       /\ \/ Whole("listDeleted") \in op.todo
          \/ toBeDeleted = InState(op.result, {"to_be_deleted"})
  /\ Saving => behind

AreaStep == RecordHolds' /\ [Area!Next]_(Area!vars)

(* An object of a package is never mistaken for none.                      *)
LEMMA ObjectIsThere ==
  ASSUME NEW pkg \in Packages
  PROVE  pkg # NoPackage
  BY WorkingCopyAssumption DEF Packages, NoPackage

(* The staging area of an open session, and of one that reads nothing.     *)
LEMMA SessionIsOpen ==
  ASSUME memory # NoPackage, ~Saving
  PROVE  /\ Session = Area!Plan(InState(memory, {"to_be_added"}),
                                InState(memory, {"to_be_deleted"}))
         /\ Session.phase = "open"
         /\ Session.added = InState(memory, {"to_be_added"})
         /\ Session.deleted = InState(memory, {"to_be_deleted"})
  BY DEF Session, SessionOf, Area!Plan

LEMMA SessionBecomes ==
  ASSUME memory' \in Packages, ~Saving', NEW A, NEW D,
         InState(memory', {"to_be_added"}) = A, InState(memory', {"to_be_deleted"}) = D
  PROVE  Session' = Area!Plan(A, D)
<1>1. memory' # NoPackage
  BY ObjectIsThere
<1>2. Session' = SessionOf(memory')
  BY <1>1 DEF Session, SessionOf, InState
<1> QED
  BY <1>2 DEF SessionOf, Area!Plan

LEMMA SameSession ==
  ASSUME memory' = memory, Saving' <=> Saving
  PROVE  Session' = Session
  BY DEF Session, SessionOf, InState

LEMMA NothingIsRead ==
  /\ op.kind # "readIn" => Reading = {}
  /\ op'.kind # "readIn" => Reading' = {}
  BY DEF Reading

LEMMA NotSettling ==
  ASSUME ~Saving
  PROVE  Session.phase # "settling"
  BY DEF Session, SessionOf

(* A step that the staging area does not see.                              *)
LEMMA AreaStutters ==
  ASSUME UNCHANGED <<workdir, listed, toBeAdded, toBeDeleted, head, behind>>,
         Session' = Session, Reading' = Reading
  PROVE  [Area!Next]_(Area!vars)
<1>1. Present' = Present
  BY DEF Present
<1> QED
  BY <1>1 DEF Area!vars

(* A step that it sees in the directory only.                              *)
LEMMA AreaIsTouched ==
  ASSUME UNCHANGED <<listed, toBeAdded, toBeDeleted, head, behind>>,
         Session' = Session, Reading' = Reading
  PROVE  [Area!Next]_(Area!vars)
<1>1. Present' \subseteq Files
  BY DEF Present
<1> QED
  BY <1>1 DEF Area!Touch, Area!Next

(* A stray task is through, or the user has edited a file.                 *)
LEMMA OutsideIsTouch ==
  ASSUME RecordHolds,
         UNCHANGED <<op, memory, listed, toBeAdded, toBeDeleted, head, behind>>
  PROVE  AreaStep
<1>1. Saving' <=> Saving
  BY DEF Saving
<1>2. Session' = Session /\ Reading' = Reading
  BY <1>1, SameSession DEF Reading
<1>3. RecordHolds'
  BY <1>1 DEF RecordHolds, InState
<1> QED
  BY <1>2, <1>3, AreaIsTouched DEF AreaStep

(* A task that may fail runs before anything is saved.                     *)
LEMMA NotYetSaving ==
  ASSUME IInv, NEW t, Ready(t),
         t.do \in {"inspect", "load", "unlink", "copy", "upload", "unlinkWork",
                   "unlinkStore", "post"}
  PROVE  ~Saving
<1> SUFFICES ASSUME Saving
             PROVE  FALSE
  OBVIOUS
<1>1. t \in SaveTasks(op.result)
  BY DEF IInv, PartsOfTasks, CommitPhases, Saving, Ready
<1> QED
  BY <1>1 DEF SaveTasks, Task, Whole

(* A rejected operation leaves the plan and what is recorded as they are.  *)
LEMMA RejectIsSeen ==
  ASSUME IInv, RecordHolds, NEW t, Ready(t), Reject(t),
         t.do \in {"inspect", "load", "unlink", "copy", "upload", "post"},
         UNCHANGED <<workdir, listed, toBeAdded, toBeDeleted, head, behind>>
  PROVE  AreaStep
<1>1. /\ op'.kind = "idle" /\ memory' = memory /\ ~Saving /\ ~Saving'
  BY NotYetSaving, IdleFields DEF Reject, Saving
<1>2. Session' = Session /\ Reading' = {}
  BY <1>1, SameSession, NothingIsRead
<1>3. RecordHolds'
  BY <1>1 DEF RecordHolds
<1>4. CASE Reading = {}
  BY <1>2, <1>3, <1>4, AreaStutters DEF AreaStep
<1>5. CASE Reading # {}
  <2>1. Present' = Present
    BY DEF Present
  <2>2. Area!GiveUpReading
    BY <1>2, <1>5, <2>1 DEF Area!GiveUpReading
  <2> QED
    BY <1>3, <2>2 DEF AreaStep, Area!Next
<1> QED
  BY <1>4, <1>5

(* An operation starts, which plans nothing yet.                           *)
LEMMA StartIsUnseen ==
  ASSUME IInv, CanStart, op'.kind \notin {"idle", "readIn"},
         op'.kind = "commit" => Whole("post") \in op'.todo,
         op'.kind = "addAndDelete" =>
           Whole("listAdded") \in op'.todo /\ Whole("listDeleted") \in op'.todo,
         memory' \in Packages,
         InState(memory', {"to_be_added"}) = InState(memory, {"to_be_added"}),
         InState(memory', {"to_be_deleted"}) = InState(memory, {"to_be_deleted"}),
         UNCHANGED <<workdir, listed, toBeAdded, toBeDeleted, head, behind>>
  PROVE  AreaStep
<1>1. op.kind = "idle" /\ ~Saving /\ ~Saving' /\ memory # NoPackage
  BY Starting DEF Saving
<1>2. Reading' = Reading
  BY <1>1, NothingIsRead
<1>3. Session' = Session
  BY <1>1, SessionIsOpen, SessionBecomes
<1>4. RecordHolds'
  BY <1>1 DEF RecordHolds
<1> QED
  BY <1>2, <1>3, <1>4, AreaStutters DEF AreaStep

LEMMA FoundPlansNothing ==
  ASSUME IInv, CanStart, NEW names \in SUBSET Files
  PROVE  /\ Found(names) \in Packages
         /\ InState(Found(names), {"to_be_added"}) = InState(memory, {"to_be_added"})
         /\ InState(Found(names), {"to_be_deleted"}) = InState(memory, {"to_be_deleted"})
<1>1. /\ Found(names) \in Packages
      /\ \A f \in Files :
           \/ Found(names)[f] = memory[f]
           \/ memory[f].state = "absent" /\ Found(names)[f].state = "untracked"
  BY FoundFits
<1> QED
  BY <1>1 DEF InState

LEMMA StartsAreUnseen ==
  ASSUME IInv,
         \/ \E names, others \in SUBSET Files :
              AddAndDeleteFilesFromPackage(names, others)
         \/ \E names \in SUBSET Files : UntrackFiles(names)
         \/ \E names \in SUBSET Files : UndoFileDeletion(names)
         \/ Commit
  PROVE  AreaStep
<1>1. ASSUME NEW names \in SUBSET Files, NEW others \in SUBSET Files,
             AddAndDeleteFilesFromPackage(names, others)
      PROVE  AreaStep
  <2>1. /\ CanStart /\ memory' = Found(others)
        /\ op'.kind = "addAndDelete"
        /\ Whole("listAdded") \in op'.todo /\ Whole("listDeleted") \in op'.todo
        /\ UNCHANGED <<workdir, listed, toBeAdded, toBeDeleted, head, behind>>
    BY <1>1 DEF AddAndDeleteFilesFromPackage, disk, server, history
  <2> QED
    BY <2>1, FoundPlansNothing, StartIsUnseen
<1>2. ASSUME NEW names \in SUBSET Files, UntrackFiles(names)
      PROVE  AreaStep
  <2>1. /\ CanStart /\ memory' = memory /\ op'.kind = "untrack"
        /\ UNCHANGED <<workdir, listed, toBeAdded, toBeDeleted, head, behind>>
    BY <1>2 DEF UntrackFiles, disk, server, history
  <2> QED
    BY <2>1, Starting, StartIsUnseen
<1>3. ASSUME NEW names \in SUBSET Files, UndoFileDeletion(names)
      PROVE  AreaStep
  <2>1. /\ CanStart /\ memory' = memory /\ op'.kind = "undo"
        /\ UNCHANGED <<workdir, listed, toBeAdded, toBeDeleted, head, behind>>
    BY <1>3 DEF UndoFileDeletion, disk, server
  <2> QED
    BY <2>1, Starting, StartIsUnseen
<1>4. CASE Commit
  <2>1. /\ CanStart /\ memory' = memory /\ op'.kind = "commit"
        /\ Whole("post") \in op'.todo
        /\ UNCHANGED <<workdir, listed, toBeAdded, toBeDeleted, head, behind>>
    BY <1>4 DEF Commit, disk, server, history
  <2> QED
    BY <2>1, Starting, StartIsUnseen
<1> QED
  BY <1>1, <1>2, <1>3, <1>4

LEMMA RejectedAddIsUnseen ==
  ASSUME IInv, RecordHolds, NEW f \in Files, RejectedAdd(f)
  PROVE  AreaStep
<1>1. /\ CanStart /\ memory' = Found({f}) /\ op' = op
      /\ UNCHANGED <<workdir, listed, toBeAdded, toBeDeleted, head, behind>>
  BY DEF RejectedAdd, disk, server, history
<1>2. op.kind = "idle" /\ ~Saving /\ ~Saving' /\ memory # NoPackage
  BY <1>1, Starting DEF Saving
<1>3. Reading' = Reading
  BY <1>1, <1>2, NothingIsRead
<1>4. Session' = Session
  BY <1>1, <1>2, FoundPlansNothing, SessionIsOpen, SessionBecomes
<1>5. RecordHolds'
  BY <1>1, <1>2 DEF RecordHolds
<1> QED
  BY <1>1, <1>3, <1>4, <1>5, AreaStutters DEF AreaStep

LEMMA CrashIsSeen ==
  ASSUME Crash
  PROVE  AreaStep
<1>1. /\ memory' = NoPackage /\ op'.kind = "idle"
      /\ UNCHANGED <<workdir, listed, toBeAdded, toBeDeleted, head, behind>>
  BY IdleFields DEF Crash, disk, server
<1>2. Session' = Area!Closed /\ Reading' = {} /\ Present' = Present
  BY <1>1 DEF Session, Area!Closed, Reading, Present
<1>3. RecordHolds'
  BY <1>1 DEF RecordHolds, Saving
<1> QED
  BY <1>1, <1>2, <1>3 DEF AreaStep, Area!Next, Area!Crash

-----------------------------------------------------------------------------
(* Reading in.                                                             *)

LEMMA ReadInIsSeen ==
  ASSUME IInv, ReadInModifiedPackageFromDir
  PROVE  AreaStep
<1> DEFINE unseen == [f \in Files |-> Unseen(f)]
<1>1. /\ op = Idle /\ op.kind = "idle" /\ ~Saving /\ Readable
      /\ UNCHANGED <<workdir, listed, toBeAdded, toBeDeleted, head, behind>>
      /\ \/ Present = {} /\ memory' = unseen /\ op' = op
         \/ /\ memory' = memory /\ op'.kind = "readIn" /\ op'.result = unseen
            /\ op'.todo = {Task("inspect", f) : f \in Present}
  BY IdleFields DEF ReadInModifiedPackageFromDir, CanRead, Saving, Present, disk, server
<1>2. ASSUME NEW f \in Files
      PROVE  /\ unseen[f] = Unseen(f)
             /\ unseen[f] \in Entries \cup {Absent}
             /\ unseen[f].state # "to_be_added"
             /\ unseen[f].state = "to_be_deleted" <=>
                  f \in toBeDeleted /\ listed[f] # None
  BY <1>1, WorkingCopyAssumption
     DEF IInv, TypeInv, Unseen, Readable, Entries, Entry, Absent, FileStates, Stored
<1>3. unseen \in Packages
  BY <1>2 DEF Packages
<1>4. /\ InState(unseen, {"to_be_added"}) = {}
      /\ InState(unseen, {"to_be_deleted"}) = toBeDeleted \cap Area!FilesIn(listed)
  BY <1>2 DEF IInv, TypeInv, InState, Area!FilesIn
<1> HIDE DEF unseen
<1>5. Reading = {} /\ ~Saving' /\ Session.phase # "settling" /\ Present' = Present
  BY <1>1, NotSettling DEF Reading, Saving, Present
<1>6. RecordHolds'
  BY <1>1, <1>2, <1>5 DEF IInv, TypeInv, RecordHolds
<1>7. Area!Found = {f \in toBeAdded : f \in Present /\ listed[f] = None}
  BY DEF Area!Found, Area!FilesIn, Present
<1>8. CASE Present = {} /\ memory' = unseen /\ op' = op
  <2>1. Reading' = {} /\ Area!Found = {}
    BY <1>1, <1>7, <1>8 DEF Reading
  <2>2. Session' = Area!Plan({}, toBeDeleted \cap Area!FilesIn(listed))
    BY <1>3, <1>4, <1>5, <1>8, SessionBecomes
  <2>3. Area!FinishReading
    BY <1>1, <1>5, <2>1, <2>2 DEF Area!FinishReading, Area!AtRest
  <2> QED
    BY <1>6, <2>3 DEF AreaStep, Area!Next
<1>9. CASE /\ memory' = memory /\ op'.kind = "readIn" /\ op'.result = unseen
           /\ op'.todo = {Task("inspect", f) : f \in Present}
  <2>1. Session' = Session
    BY <1>1, <1>5, <1>9, SameSession
  <2>2. ASSUME NEW f \in toBeAdded
        PROVE  /\ Task("inspect", f) \in op'.todo <=> f \in Present
               /\ op'.result[f].state # "to_be_added"
    BY <1>2, <1>9 DEF IInv, TypeInv, Task
  <2>3. Reading' = {Area!Found}
    <3>1. Reading' = {{f \in toBeAdded : listed[f] = None /\ f \in Present}}
      BY <1>1, <1>9, <2>2 DEF Reading
    <3>2. {f \in toBeAdded : listed[f] = None /\ f \in Present} = Area!Found
      BY <1>7
    <3> QED
      BY <3>1, <3>2
  <2>4. Area!StartReading
    BY <1>1, <1>5, <2>1, <2>3 DEF Area!StartReading, Area!AtRest
  <2> QED
    BY <1>6, <2>4 DEF AreaStep, Area!Next
<1> QED
  BY <1>1, <1>8, <1>9

(* The object that is being put together plans what is recorded.           *)
LEMMA ReadingFits ==
  ASSUME IInv, RecordHolds, op.kind = "readIn", NEW f \in Files
  PROVE  /\ op.result[f].state = "to_be_added" => f \in toBeAdded /\ listed[f] = None
         /\ op.result[f].state = "to_be_deleted" <=> f \in toBeDeleted /\ listed[f] # None
<1>1. Whole("listAdded") \notin op.todo /\ Whole("listDeleted") \notin op.todo
  BY DEF IInv, PartsOfTasks, TasksFit, OwnersOf, Whole, Task
<1>2. /\ InState(op.result, {"to_be_added"}) \subseteq toBeAdded
      /\ InState(op.result, {"to_be_deleted"}) \subseteq toBeDeleted
  BY <1>1 DEF IInv, PlansHold
<1>3. listed[f] # None <=> op.result[f].state \in InRevision
  BY DEF IInv, ListedHold, ListedFits
<1> QED
  BY <1>2, <1>3 DEF InState, InRevision, RecordHolds

(* A file has been looked at: the additions that are found or going to be  *)
(* found stay the same, and in the end they are the plan.                  *)
LEMMA ReadingIsSeen ==
  ASSUME IInv, NEW t, Ready(t), op.kind = "readIn",
         NEW next \in SUBSET Tasks, NEW r \in Packages, Proceed(t, next, r),
         UNCHANGED <<workdir, listed, toBeAdded, toBeDeleted, head, behind>>,
         \A f \in Files :
           /\ r[f].state = "to_be_added" => f \in toBeAdded /\ listed[f] = None
           /\ r[f].state = "to_be_deleted" <=> f \in toBeDeleted /\ listed[f] # None,
         \A f \in toBeAdded :
           listed[f] = None =>
             (\/ Task("inspect", f) \in op.todo
              \/ op.result[f].state = "to_be_added")
             <=> (\/ Task("inspect", f) \in (op.todo \ {t}) \cup next
                  \/ r[f].state = "to_be_added")
  PROVE  AreaStep
<1> DEFINE found == {f \in toBeAdded : /\ listed[f] = None
                                      /\ \/ Task("inspect", f) \in op.todo
                                         \/ op.result[f].state = "to_be_added"}
<1>1. Reading = {found} /\ toBeAdded \subseteq Files /\ toBeDeleted \subseteq Files
  BY DEF Reading, IInv, TypeInv
<1>2. found = {f \in toBeAdded : /\ listed[f] = None
                                /\ \/ Task("inspect", f) \in (op.todo \ {t}) \cup next
                                   \/ r[f].state = "to_be_added"}
  OBVIOUS
<1> HIDE DEF found
<1>3. ~Saving /\ Session.phase # "settling" /\ Present' = Present
  BY NotSettling DEF Saving, Present
<1>4. CASE op'.kind = "idle" /\ op'.todo = {} /\ memory' = r /\ ~Saving'
           /\ (op.todo \ {t}) \cup next = {}
  <2>1. /\ InState(r, {"to_be_added"}) = found
        /\ InState(r, {"to_be_deleted"}) = toBeDeleted \cap Area!FilesIn(listed)
    BY <1>1, <1>2, <1>4 DEF InState, Area!FilesIn
  <2>2. Session' = Area!Plan(found, toBeDeleted \cap Area!FilesIn(listed)) /\ Reading' = {}
    BY <1>4, <2>1, SessionBecomes, NothingIsRead
  <2>3. Area!FinishReading
    BY <1>1, <1>3, <2>2 DEF Area!FinishReading, Area!AtRest
  <2>4. RecordHolds'
    BY <1>4 DEF RecordHolds
  <2> QED
    BY <2>3, <2>4 DEF AreaStep, Area!Next
<1>5. CASE op'.kind = op.kind /\ op'.todo = (op.todo \ {t}) \cup next
           /\ op'.result = r /\ memory' = memory
  <2>1. Session' = Session
    BY <1>3, <1>5, SameSession DEF Saving
  <2>2. Reading' = {found}
    <3>1. Reading' = {{f \in toBeAdded : /\ listed[f] = None
                                        /\ \/ Task("inspect", f) \in op'.todo
                                           \/ op'.result[f].state = "to_be_added"}}
      BY <1>5 DEF Reading
    <3> QED
      BY <1>2, <1>5, <3>1
  <2>3. RecordHolds'
    BY <1>1, <1>5 DEF RecordHolds, Saving
  <2> QED
    BY <1>1, <2>1, <2>2, <2>3, AreaStutters DEF AreaStep
<1>6. \/ /\ op'.kind = "idle" /\ op'.todo = {} /\ memory' = r /\ ~Saving'
         /\ (op.todo \ {t}) \cup next = {}
      \/ /\ op'.kind = op.kind /\ op'.todo = (op.todo \ {t}) \cup next
         /\ op'.result = r /\ memory' = memory
  BY ProceedCases, Zenon
<1> QED
  BY <1>4, <1>5, <1>6

LEMMA InspectIsSeen ==
  ASSUME IInv, RecordHolds, NEW f \in Files, Inspect(f)
  PROVE  AreaStep
<1> DEFINE t == Task("inspect", f)
           entry == Seen(f, workdir[f], op.result[f])
           loads == IF entry.state = "modified" THEN {Task("load", f)} ELSE {}
           r == [op.result EXCEPT ![f] = entry]
<1>1. /\ Ready(t)
      /\ UNCHANGED <<workdir, listed, toBeAdded, toBeDeleted, head, behind>>
      /\ \/ workdir[f] # None /\ Proceed(t, loads, r)
         \/ Reject(t)
  BY DEF Inspect, disk, server
<1>2. t.do = "inspect" /\ t.file = f
  BY DEF Task
<1>3. CASE Reject(t)
  BY <1>1, <1>2, <1>3, RejectIsSeen
<1>4. CASE workdir[f] # None /\ Proceed(t, loads, r)
  <2>1. /\ op.kind = "readIn" /\ op.result \in Packages /\ ListedFits(op.result)
        /\ workdir[f] \in Contents
    BY <1>1, <1>2, <1>4, ReadyTask, Running DEF OwnersOf, IInv, ListedHold, TypeInv, Stored
  <2>2. /\ entry \in Entries
        /\ entry.state = "to_be_added" <=> f \in toBeAdded /\ listed[f] = None
        /\ entry.state = "to_be_deleted" <=> f \in toBeDeleted /\ listed[f] # None
    <3>1. listed[f] # None => op.result[f].contents \in Contents
      BY <2>1, EntryTypes DEF ListedFits, InRevision, FileStates, Entries
    <3> QED
      BY <2>1, <3>1 DEF Seen, Entry, Entries, FileStates
  <2>3. loads \in SUBSET Tasks /\ \A g : Task("inspect", g) \notin loads
    BY DEF Task, Tasks, Dos, Stored
  <2> HIDE DEF entry
  <2>4. r \in Packages /\ r[f] = entry /\ \A g \in Files \ {f} : r[g] = op.result[g]
    BY <2>1, <2>2 DEF Packages
  <2> HIDE DEF r, loads
  <2>5. t \in op.todo /\ \A g \in Files \ {f} : Task("inspect", g) # t
    BY <1>1 DEF Ready, Task
  <2>6. ASSUME NEW g \in Files
        PROVE  /\ r[g].state = "to_be_added" => g \in toBeAdded /\ listed[g] = None
               /\ r[g].state = "to_be_deleted" <=> g \in toBeDeleted /\ listed[g] # None
    BY <2>1, <2>2, <2>4, ReadingFits
  <2>7. ASSUME NEW g \in toBeAdded, listed[g] = None
        PROVE  (\/ Task("inspect", g) \in op.todo
                \/ op.result[g].state = "to_be_added")
               <=> (\/ Task("inspect", g) \in (op.todo \ {t}) \cup loads
                    \/ r[g].state = "to_be_added")
    <3>1. g \in Files
      BY DEF IInv, TypeInv
    <3> QED
      BY <2>2, <2>3, <2>4, <2>5, <2>7, <3>1
  <2> QED
    BY <1>1, <1>4, <2>1, <2>3, <2>4, <2>6, <2>7, ReadingIsSeen
<1> QED
  BY <1>1, <1>3, <1>4

LEMMA LoadIsSeen ==
  ASSUME IInv, RecordHolds, NEW f \in Files, Load(f)
  PROVE  AreaStep
<1> DEFINE t == Task("load", f)
           r == [op.result EXCEPT ![f].contents = workdir[f]]
<1>1. /\ Ready(t)
      /\ UNCHANGED <<workdir, listed, toBeAdded, toBeDeleted, head, behind>>
      /\ \/ workdir[f] # None /\ Proceed(t, {}, r)
         \/ Reject(t)
  BY DEF Load, disk, server
<1>2. t.do = "load" /\ t.file = f
  BY DEF Task
<1>3. CASE Reject(t)
  BY <1>1, <1>2, <1>3, RejectIsSeen
<1>4. CASE workdir[f] # None /\ Proceed(t, {}, r)
  <2>1. /\ op.kind = "readIn" /\ op.result \in Packages /\ workdir[f] \in Contents
        /\ op.result[f].state = "modified"
    BY <1>1, <1>2, <1>4, ReadyTask, Running
       DEF OwnersOf, FilesFor, InState, IInv, TypeInv, Stored
  <2>2. op.result[f] \in Entries
    BY <2>1, EntryTypes DEF FileStates
  <2>3. r \in Packages /\ \A g \in Files : r[g].state = op.result[g].state
    BY <2>1, <2>2 DEF Packages, Entries
  <2> HIDE DEF r
  <2>4. \A g \in Files : Task("inspect", g) # t
    BY DEF Task
  <2>5. ASSUME NEW g \in Files
        PROVE  /\ r[g].state = "to_be_added" => g \in toBeAdded /\ listed[g] = None
               /\ r[g].state = "to_be_deleted" <=> g \in toBeDeleted /\ listed[g] # None
    BY <2>1, <2>3, ReadingFits
  <2>6. ASSUME NEW g \in toBeAdded, listed[g] = None
        PROVE  (\/ Task("inspect", g) \in op.todo
                \/ op.result[g].state = "to_be_added")
               <=> (\/ Task("inspect", g) \in (op.todo \ {t}) \cup {}
                    \/ r[g].state = "to_be_added")
    <3>1. g \in Files
      BY DEF IInv, TypeInv
    <3> QED
      BY <2>3, <2>4, <3>1
  <2> QED
    BY <1>1, <1>4, <2>1, <2>3, <2>5, <2>6, ReadingIsSeen
<1> QED
  BY <1>1, <1>3, <1>4

-----------------------------------------------------------------------------
(* The tasks of the operations.                                            *)

(* A task is done: it was the last one, or the operation goes on.          *)
LEMMA DoneCases ==
  ASSUME IInv, NEW t, Ready(t), Proceed(t, {}, op.result)
  PROVE  /\ t \in op.todo /\ op.kind # "idle" /\ op.result \in Packages
         /\ \/ /\ op.todo = {t} /\ op'.kind = "idle"
               /\ memory' = op.result /\ ~Saving'
            \/ /\ op'.kind = op.kind /\ op'.todo = op.todo \ {t}
               /\ op'.result = op.result /\ memory' = memory
<1>1. op.result \in Packages /\ {} \in SUBSET Tasks
  BY Running
<1>2. /\ t \in op.todo /\ op.kind # "idle"
      /\ stray' = stray /\ synced' = synced
      /\ op' \in [kind : Kinds, todo : SUBSET Tasks, result : Packages \cup {NoPackage}]
      /\ memory' \in Packages \cup {NoPackage}
      /\ \/ /\ (op.todo \ {t}) \cup {} = {}
            /\ op' = Idle /\ op'.kind = "idle" /\ op'.todo = {}
            /\ memory' = op.result /\ ~Saving'
         \/ /\ (op.todo \ {t}) \cup {} # {}
            /\ op'.kind = op.kind /\ op'.todo = (op.todo \ {t}) \cup {}
            /\ op'.result = op.result /\ memory' = memory
  BY <1>1, ProceedCases
<1> QED
  BY <1>1, <1>2

(* A task is done and others of the operation are left.                    *)
LEMMA TaskIsTouch ==
  ASSUME RecordHolds, ~Saving, op.kind # "readIn", NEW t,
         op'.kind = op.kind, op'.todo = op.todo \ {t}, op'.result = op.result,
         memory' = memory,
         t \notin {Whole("post"), Whole("listAdded"), Whole("listDeleted")},
         UNCHANGED <<listed, toBeAdded, toBeDeleted, head, behind>>
  PROVE  AreaStep
<1>1. ~Saving' /\ Reading' = Reading
  BY NothingIsRead DEF Saving
<1>2. Session' = Session
  BY <1>1, SameSession
<1>3. RecordHolds'
  BY <1>1 DEF RecordHolds, InState
<1> QED
  BY <1>1, <1>2, <1>3, AreaIsTouched DEF AreaStep

LEMMA UnlinkIsSeen ==
  ASSUME IInv, RecordHolds, NEW f \in Files, Unlink(f)
  PROVE  AreaStep
<1> DEFINE t == Task("unlink", f)
<1>1. /\ UNCHANGED <<listed, toBeAdded, toBeDeleted, head, behind>>
      /\ \/ workdir' = [workdir EXCEPT ![f] = None] /\ Done(t)
         \/ workdir' = workdir /\ Failed(t)
      /\ t.do = "unlink"
      /\ t \notin {Whole("post"), Whole("listAdded"), Whole("listDeleted")}
  BY DEF Unlink, Task, Whole, server
<1>2. CASE UNCHANGED <<op, memory>>
  BY <1>1, <1>2, OutsideIsTouch
<1>3. CASE workdir' = workdir /\ Ready(t) /\ Reject(t)
  BY <1>1, <1>3, RejectIsSeen
<1>4. CASE workdir' = [workdir EXCEPT ![f] = None] /\ Ready(t) /\ Proceed(t, {}, op.result)
  <2>1. /\ op.kind = "addAndDelete" /\ f \in toBeDeleted
        /\ Whole("listAdded") \notin op.todo /\ Whole("listDeleted") \notin op.todo
    BY <1>4, UnlinkIsLast
  <2>2. memory \in Packages /\ memory # NoPackage /\ ~Saving
    BY <1>4, <2>1, Running
  <2>3. CASE /\ op'.kind = op.kind /\ op'.todo = op.todo \ {t}
             /\ op'.result = op.result /\ memory' = memory
    BY <1>1, <2>1, <2>2, <2>3, TaskIsTouch
  <2>4. CASE op'.kind = "idle" /\ memory' = op.result /\ ~Saving' /\ op.result \in Packages
    <3>1. /\ toBeAdded = InState(op.result, {"to_be_added"})
          /\ toBeDeleted = InState(op.result, {"to_be_deleted"})
      BY <2>1 DEF RecordHolds
    <3>2. Session' = Area!Plan(toBeAdded, toBeDeleted)
      BY <2>4, <3>1, SessionBecomes
    <3>3. /\ Session.phase = "open" /\ Session.added \subseteq toBeAdded
          /\ Session.deleted \subseteq toBeDeleted
      BY <2>2, SessionIsOpen DEF IInv, PlansHold
    <3>4. Reading = {} /\ Reading' = {}
      BY <2>1, <2>4, NothingIsRead
    <3>5. /\ toBeAdded \subseteq Files \ Area!FilesIn(listed)
          /\ toBeDeleted \subseteq Area!FilesIn(listed)
      BY <2>1, <3>1 DEF IInv, ListedHold, ListedFits, InState, InRevision, Area!FilesIn
    <3>6. Present' \subseteq Present /\ Present \ Present' \subseteq toBeDeleted
      BY <1>4, <2>1 DEF IInv, TypeInv, Present
    <3>7. Area!PlanMore
      BY <1>1, <3>2, <3>3, <3>4, <3>5, <3>6 DEF Area!PlanMore, Area!IsOpen
    <3>8. RecordHolds'
      BY <2>4 DEF RecordHolds
    <3> QED
      BY <3>7, <3>8 DEF AreaStep, Area!Next
  <2>5. /\ op.result \in Packages
        /\ \/ op'.kind = "idle" /\ memory' = op.result /\ ~Saving'
           \/ /\ op'.kind = op.kind /\ op'.todo = op.todo \ {t}
              /\ op'.result = op.result /\ memory' = memory
    BY <1>4, DoneCases
  <2> QED
    BY <2>3, <2>4, <2>5
<1>5. \/ UNCHANGED <<op, memory>>
      \/ workdir' = workdir /\ Ready(t) /\ Reject(t)
      \/ workdir' = [workdir EXCEPT ![f] = None] /\ Ready(t) /\ Proceed(t, {}, op.result)
  BY <1>1 DEF Done, Failed
<1> QED
  BY <1>2, <1>3, <1>4, <1>5

LEMMA CopyIsSeen ==
  ASSUME IInv, RecordHolds, NEW f \in Files, Copy(f)
  PROVE  AreaStep
<1> DEFINE t == Task("copy", f)
<1>1. /\ UNCHANGED <<listed, toBeAdded, toBeDeleted, head, behind>>
      /\ Done(t) \/ (workdir' = workdir /\ Failed(t))
      /\ t.do = "copy"
      /\ t \notin {Whole("post"), Whole("listAdded"), Whole("listDeleted")}
  BY DEF Copy, Task, Whole, server
<1>2. CASE UNCHANGED <<op, memory>>
  BY <1>1, <1>2, OutsideIsTouch
<1>3. CASE workdir' = workdir /\ Ready(t) /\ Reject(t)
  BY <1>1, <1>3, RejectIsSeen
<1>4. CASE Ready(t) /\ Proceed(t, {}, op.result)
  <2>1. op.kind = "undo" /\ ~Saving
    BY <1>1, <1>4, ReadyTask, Running DEF OwnersOf
  <2>2. Whole("listDeleted") \in op.todo
    BY <2>1 DEF IInv, PartsOfTasks, ResultFits
  <2>3. /\ op'.kind = op.kind /\ op'.todo = op.todo \ {t}
        /\ op'.result = op.result /\ memory' = memory
    BY <1>1, <1>4, <2>2, DoneCases
  <2> QED
    BY <1>1, <2>1, <2>3, TaskIsTouch
<1> QED
  BY <1>1, <1>2, <1>3, <1>4 DEF Done, Failed

(* What a commit does before it is posted.                                 *)
LEMMA PreparationIsTouch ==
  ASSUME IInv, RecordHolds, NEW t, Ready(t), Proceed(t, {}, op.result),
         t.do \in {"upload", "unlinkWork", "unlinkStore"},
         UNCHANGED <<listed, toBeAdded, toBeDeleted, head, behind>>
  PROVE  AreaStep
<1>1. /\ op.kind = "commit" /\ ~Saving
      /\ t \notin {Whole("post"), Whole("listAdded"), Whole("listDeleted")}
  BY ReadyTask, NotYetSaving DEF OwnersOf, Whole, Task
<1>2. Whole("post") \in op.todo
  BY <1>1 DEF Saving
<1>3. /\ op'.kind = op.kind /\ op'.todo = op.todo \ {t}
      /\ op'.result = op.result /\ memory' = memory
  BY <1>1, <1>2, DoneCases
<1> QED
  BY <1>1, <1>3, TaskIsTouch

LEMMA PreparationsAreSeen ==
  ASSUME IInv, RecordHolds, NEW f \in Files,
         UnlinkWork(f) \/ UnlinkStore(f) \/ \E contents : UploadFileContents(f, contents)
  PROVE  AreaStep
<1>1. CASE UnlinkWork(f)
  <2>1. /\ Done(Task("unlinkWork", f)) /\ Task("unlinkWork", f).do = "unlinkWork"
        /\ UNCHANGED <<listed, toBeAdded, toBeDeleted, head, behind>>
    BY <1>1 DEF UnlinkWork, Task, server
  <2> QED
    BY <2>1, OutsideIsTouch, PreparationIsTouch DEF Done
<1>2. CASE UnlinkStore(f)
  <2>1. /\ Done(Task("unlinkStore", f)) /\ Task("unlinkStore", f).do = "unlinkStore"
        /\ UNCHANGED <<listed, toBeAdded, toBeDeleted, head, behind>>
    BY <1>2 DEF UnlinkStore, Task, server
  <2> QED
    BY <2>1, OutsideIsTouch, PreparationIsTouch DEF Done
<1>3. ASSUME NEW contents, UploadFileContents(f, contents)
      PROVE  AreaStep
  <2> DEFINE t == Put(f, contents)
  <2>1. /\ Done(t) \/ Failed(t)
        /\ t.do = "upload"
        /\ UNCHANGED <<workdir, listed, toBeAdded, toBeDeleted, head, behind>>
    BY <1>3 DEF UploadFileContents, Put, disk
  <2> HIDE DEF t
  <2>2. CASE UNCHANGED <<op, memory>>
    BY <2>1, <2>2, OutsideIsTouch
  <2>3. CASE Ready(t) /\ Reject(t)
    BY <2>1, <2>3, RejectIsSeen
  <2>4. CASE Ready(t) /\ Proceed(t, {}, op.result)
    BY <2>1, <2>4, PreparationIsTouch
  <2> QED
    BY <2>1, <2>2, <2>3, <2>4 DEF Done, Failed
<1> QED
  BY <1>1, <1>2, <1>3

-----------------------------------------------------------------------------
(* The lists are written.                                                  *)

LEMMA WriteAddedIsSeen ==
  ASSUME IInv, RecordHolds, WriteAdded
  PROVE  AreaStep
<1> DEFINE t == Whole("listAdded")
           added == InState(op.result, {"to_be_added"})
<1>1. /\ Ready(t) /\ Proceed(t, {}, op.result) /\ toBeAdded' = added
      /\ UNCHANGED <<workdir, listed, toBeDeleted, head, behind>>
      /\ t.do = "listAdded" /\ t.file = None /\ t.contents = None
      /\ t # Whole("listDeleted") /\ t # Whole("post")
  BY DEF WriteAdded, ListSource, server, Whole, Task
<1>2. /\ op.kind \in {"addAndDelete", "untrack"} /\ ~Saving
      /\ memory \in Packages /\ memory # NoPackage
  BY <1>1, ReadyTask, Running DEF OwnersOf
<1>3. /\ Session.phase = "open" /\ Reading = {} /\ Reading' = {} /\ Present' = Present
      /\ Session = Area!Plan(InState(memory, {"to_be_added"}),
                             InState(memory, {"to_be_deleted"}))
      /\ Session.added = InState(memory, {"to_be_added"})
      /\ Session.deleted = InState(memory, {"to_be_deleted"})
      /\ Session.added \subseteq toBeAdded /\ Session.deleted \subseteq toBeDeleted
  <2>1. op'.kind # "readIn"
    BY <1>1, <1>2, DoneCases
  <2> QED
    BY <1>1, <1>2, <2>1, SessionIsOpen, NothingIsRead DEF IInv, PlansHold, Present
<1>4. /\ added \subseteq Files \ Area!FilesIn(listed)
      /\ InState(op.result, {"to_be_deleted"}) \subseteq Area!FilesIn(listed)
  BY <1>2 DEF IInv, ListedHold, ListedFits, InState, InRevision, Area!FilesIn
<1>5. CASE op.kind = "untrack"
  <2>1. ASSUME NEW u \in op.todo
        PROVE  u = t
    BY <1>1, <1>5, <2>1 DEF IInv, TypeInv, PartsOfTasks, TasksFit, OwnersOf, FilesFor,
                            Tasks, Dos, Whole, Task
  <2>2. op'.kind = "idle" /\ memory' = op.result /\ ~Saving' /\ op.result \in Packages
    <3>1. op.todo = {t} /\ op.todo \ {t} = {}
      BY <1>1, <2>1, DoneCases
    <3>2. op' = Idle /\ memory' = op.result
      BY <1>1, <3>1 DEF Proceed
    <3> QED
      BY <1>1, <3>2, IdleFields, Running DEF Saving
  <2>3. /\ added \subseteq Session.added
        /\ InState(op.result, {"to_be_deleted"}) = Session.deleted
    <3>1. ASSUME NEW f \in Files
          PROVE  \/ op.result[f] = memory[f]
                 \/ op.result[f].state = "untracked" /\ memory[f].state = "to_be_added"
      <4>1. \/ op.result[f] = memory[f]
            \/ /\ op.result[f] = [memory[f] EXCEPT !.state = "untracked"]
               /\ memory[f].state = "to_be_added"
        BY <1>5 DEF IInv, PartsOfTasks, ResultFits
      <4>2. memory[f].state = "to_be_added" => memory[f] \in Entries
        BY <1>2, EntryTypes DEF FileStates
      <4> QED
        BY <4>1, <4>2 DEF Entries
    <3> QED
      BY <1>3, <3>1 DEF InState
  <2>4. Session' = Area!Plan(added, Session.deleted)
    BY <2>2, <2>3, SessionBecomes
  <2>5. Area!PlanLess
    BY <1>1, <1>3, <2>3, <2>4 DEF Area!PlanLess, Area!IsOpen
  <2>6. RecordHolds'
    BY <2>2 DEF RecordHolds
  <2> QED
    BY <2>5, <2>6 DEF AreaStep, Area!Next
<1>6. CASE op.kind = "addAndDelete"
  <2>1. Session.added \subseteq added
    BY <1>3, <1>6 DEF IInv, PartsOfTasks, ResultFits, InState, IsTrackedFile
  <2>2. CASE op.todo = {t} /\ op'.kind = "idle" /\ memory' = op.result /\ ~Saving'
    <3>1. toBeDeleted = InState(op.result, {"to_be_deleted"})
      BY <1>1, <1>6, <2>2 DEF RecordHolds
    <3>2. Session' = Area!Plan(added, toBeDeleted)
      BY <1>1, <2>2, <3>1, DoneCases, SessionBecomes
    <3>3. Area!PlanMore
      BY <1>1, <1>3, <1>4, <2>1, <3>1, <3>2 DEF Area!PlanMore, Area!IsOpen
    <3>4. RecordHolds'
      BY <2>2 DEF RecordHolds
    <3> QED
      BY <3>3, <3>4 DEF AreaStep, Area!Next
  <2>3. CASE /\ op'.kind = op.kind /\ op'.todo = op.todo \ {t}
             /\ op'.result = op.result /\ memory' = memory
    <3>1. Session' = Session /\ ~Saving'
      BY <1>2, <1>6, <2>3, SameSession DEF Saving
    <3>2. Area!PlanMore
      BY <1>1, <1>3, <1>4, <2>1, <3>1 DEF Area!PlanMore, Area!IsOpen
    <3>3. RecordHolds'
      BY <1>1, <1>6, <2>3, <3>1 DEF RecordHolds, InState
    <3> QED
      BY <3>2, <3>3 DEF AreaStep, Area!Next
  <2>4. \/ op.todo = {t} /\ op'.kind = "idle" /\ memory' = op.result /\ ~Saving'
        \/ /\ op'.kind = op.kind /\ op'.todo = op.todo \ {t}
           /\ op'.result = op.result /\ memory' = memory
    BY <1>1, DoneCases
  <2> QED
    BY <2>2, <2>3, <2>4
<1> QED
  BY <1>2, <1>5, <1>6

LEMMA WriteDeletedIsSeen ==
  ASSUME IInv, RecordHolds, WriteDeleted
  PROVE  AreaStep
<1> DEFINE t == Whole("listDeleted")
           deleted == InState(op.result, {"to_be_deleted"})
<1>1. /\ Ready(t) /\ Proceed(t, {}, op.result) /\ toBeDeleted' = deleted
      /\ UNCHANGED <<workdir, listed, toBeAdded, head, behind>>
      /\ t.do = "listDeleted" /\ t.file = None /\ t.contents = None
      /\ t # Whole("listAdded") /\ t # Whole("post") /\ Stage(t) = 2
  BY StageCases DEF WriteDeleted, ListSource, server, Whole, Task
<1>2. /\ op.kind \in {"addAndDelete", "undo"} /\ ~Saving
      /\ memory \in Packages /\ memory # NoPackage
      /\ \A u \in op.todo : 2 <= Stage(u)
  BY <1>1, ReadyTask, Running DEF OwnersOf
<1>3. /\ Session.phase = "open" /\ Reading = {} /\ Reading' = {} /\ Present' = Present
      /\ Session = Area!Plan(InState(memory, {"to_be_added"}),
                             InState(memory, {"to_be_deleted"}))
      /\ Session.added = InState(memory, {"to_be_added"})
      /\ Session.deleted = InState(memory, {"to_be_deleted"})
      /\ Session.added \subseteq toBeAdded /\ Session.deleted \subseteq toBeDeleted
  <2>1. op'.kind # "readIn"
    BY <1>1, <1>2, DoneCases
  <2> QED
    BY <1>1, <1>2, <2>1, SessionIsOpen, NothingIsRead DEF IInv, PlansHold, Present
<1>4. /\ deleted \subseteq Area!FilesIn(listed)
      /\ InState(op.result, {"to_be_added"}) \subseteq Files \ Area!FilesIn(listed)
  BY <1>2 DEF IInv, ListedHold, ListedFits, InState, InRevision, Area!FilesIn
<1>5. CASE op.kind = "undo"
  <2>1. ASSUME NEW u \in op.todo
        PROVE  u = t
    <3>1. u.do \in {"copy", "listDeleted"}
      BY <1>5 DEF IInv, TypeInv, PartsOfTasks, TasksFit, OwnersOf, Tasks, Dos
    <3>2. u.do = "listDeleted"
      BY <1>2, <3>1 DEF Stage
    <3> QED
      BY <1>1, <3>2 DEF IInv, TypeInv, PartsOfTasks, TasksFit, FilesFor, Tasks, Whole, Task
  <2>2. op'.kind = "idle" /\ memory' = op.result /\ ~Saving' /\ op.result \in Packages
    <3>1. op.todo = {t} /\ op.todo \ {t} = {}
      BY <1>1, <2>1, DoneCases
    <3>2. op' = Idle /\ memory' = op.result
      BY <1>1, <3>1 DEF Proceed
    <3> QED
      BY <1>1, <3>2, IdleFields, Running DEF Saving
  <2>3. /\ deleted \subseteq Session.deleted
        /\ InState(op.result, {"to_be_added"}) = Session.added
    <3>1. ASSUME NEW f \in Files
          PROVE  \/ op.result[f] = memory[f]
                 \/ /\ op.result[f].state = "unmodified"
                    /\ memory[f].state \in {"to_be_deleted", "missing"}
      <4>1. \/ op.result[f] = memory[f]
            \/ /\ op.result[f] = [memory[f] EXCEPT !.state = "unmodified"]
               /\ memory[f].state \in {"to_be_deleted", "missing"}
        BY <1>5 DEF IInv, PartsOfTasks, ResultFits
      <4>2. memory[f].state \in {"to_be_deleted", "missing"} => memory[f] \in Entries
        BY <1>2, EntryTypes DEF FileStates
      <4> QED
        BY <4>1, <4>2 DEF Entries
    <3> QED
      BY <1>3, <3>1 DEF InState
  <2>4. Session' = Area!Plan(Session.added, deleted)
    BY <2>2, <2>3, SessionBecomes
  <2>5. Area!PlanLess
    BY <1>1, <1>3, <2>3, <2>4 DEF Area!PlanLess, Area!IsOpen
  <2>6. RecordHolds'
    BY <2>2 DEF RecordHolds
  <2> QED
    BY <2>5, <2>6 DEF AreaStep, Area!Next
<1>6. CASE op.kind = "addAndDelete"
  <2>1. Session.deleted \subseteq deleted
    BY <1>3, <1>6 DEF IInv, PartsOfTasks, ResultFits, InState, IsTrackedFile
  <2>2. CASE op.todo = {t} /\ op'.kind = "idle" /\ memory' = op.result /\ ~Saving'
    <3>1. toBeAdded = InState(op.result, {"to_be_added"})
      BY <1>1, <1>6, <2>2 DEF RecordHolds
    <3>2. Session' = Area!Plan(toBeAdded, deleted)
      BY <1>1, <2>2, <3>1, DoneCases, SessionBecomes
    <3>3. Area!PlanMore
      BY <1>1, <1>3, <1>4, <2>1, <3>1, <3>2 DEF Area!PlanMore, Area!IsOpen
    <3>4. RecordHolds'
      BY <2>2 DEF RecordHolds
    <3> QED
      BY <3>3, <3>4 DEF AreaStep, Area!Next
  <2>3. CASE /\ op'.kind = op.kind /\ op'.todo = op.todo \ {t}
             /\ op'.result = op.result /\ memory' = memory
    <3>1. Session' = Session /\ ~Saving'
      BY <1>2, <1>6, <2>3, SameSession DEF Saving
    <3>2. Area!PlanMore
      BY <1>1, <1>3, <1>4, <2>1, <3>1 DEF Area!PlanMore, Area!IsOpen
    <3>3. RecordHolds'
      BY <1>1, <1>6, <2>3, <3>1 DEF RecordHolds, InState
    <3> QED
      BY <3>2, <3>3 DEF AreaStep, Area!Next
  <2>4. \/ op.todo = {t} /\ op'.kind = "idle" /\ memory' = op.result /\ ~Saving'
        \/ /\ op'.kind = op.kind /\ op'.todo = op.todo \ {t}
           /\ op'.result = op.result /\ memory' = memory
    BY <1>1, DoneCases
  <2> QED
    BY <2>2, <2>3, <2>4
<1> QED
  BY <1>2, <1>5, <1>6

-----------------------------------------------------------------------------
(* The commit.                                                             *)

(* The listing that is posted has the files of the revision that is checked *)
(* out with the additions and without the deletions of the object.         *)
LEMMA PostedIsPlanned ==
  ASSUME IInv, memory \in Packages, ~Saving
  PROVE  /\ DirectoryFromModifiedPackage(memory) \in Area!Packages
         /\ Area!FilesIn(DirectoryFromModifiedPackage(memory))
              = (Area!FilesIn(listed) \cup InState(memory, {"to_be_added"}))
                \ InState(memory, {"to_be_deleted"})
<1>1. ListedFits(memory)
  BY ObjectIsThere DEF IInv, ListedHold
<1>2. ASSUME NEW f \in Files
      PROVE  /\ DirectoryFromModifiedPackage(memory)[f] \in Contents \cup {None}
             /\ DirectoryFromModifiedPackage(memory)[f] # None <=>
                  /\ listed[f] # None \/ memory[f].state = "to_be_added"
                  /\ memory[f].state # "to_be_deleted"
  <2>1. /\ memory[f].state \in FileStates \cup {"absent"}
        /\ memory[f].state \in FileStates => memory[f].md5 \in Contents
    BY EntryTypes DEF Entries
  <2>2. listed[f] # None <=> memory[f].state \in InRevision
    BY <1>1 DEF ListedFits
  <2>3. DirectoryFromModifiedPackage(memory)[f] =
          IF memory[f].state \in {"untracked", "to_be_deleted", "absent"}
          THEN None ELSE memory[f].md5
    BY DEF DirectoryFromModifiedPackage
  <2> QED
    BY <2>1, <2>2, <2>3, WorkingCopyAssumption DEF FileStates, InRevision
<1>3. DirectoryFromModifiedPackage(memory) \in Area!Packages
  BY <1>2 DEF DirectoryFromModifiedPackage, Area!Packages
<1> HIDE DEF DirectoryFromModifiedPackage
<1> QED
  BY <1>2, <1>3 DEF Area!FilesIn, InState

LEMMA PostIsSeen ==
  ASSUME IInv, RecordHolds, PostFileList
  PROVE  AreaStep
<1> DEFINE t == Whole("post")
<1>1. /\ Ready(t) /\ t.do = "post"
      /\ UNCHANGED <<workdir, listed, toBeAdded, toBeDeleted>>
      /\ \/ /\ head' = DirectoryFromModifiedPackage(memory) /\ behind' = TRUE
            /\ Proceed(t, {}, op.result) \/ Reject(t)
         \/ Reject(t) /\ UNCHANGED <<head, behind>>
  BY DEF PostFileList, Whole, Task, disk
<1>2. /\ op.kind = "commit" /\ ~Saving /\ t \in op.todo
      /\ memory \in Packages /\ memory # NoPackage
      /\ SaveTasks(op.result) \subseteq op.todo
  BY <1>1, PostIsAlone
<1>3. CASE Reject(t) /\ UNCHANGED <<head, behind>>
  BY <1>1, <1>3, RejectIsSeen
<1>4. CASE /\ head' = DirectoryFromModifiedPackage(memory) /\ behind' = TRUE
           /\ Proceed(t, {}, op.result) \/ Reject(t)
  <2>1. /\ Session.phase = "open" /\ Reading = {} /\ Present' = Present
        /\ Session.added = InState(memory, {"to_be_added"})
        /\ Session.deleted = InState(memory, {"to_be_deleted"})
    BY <1>1, <1>2, SessionIsOpen, NothingIsRead DEF Present
  <2>2. /\ head' \in Area!Packages
        /\ Area!FilesIn(head') = (Area!FilesIn(listed) \cup Session.added) \ Session.deleted
    BY <1>2, <1>4, <2>1, PostedIsPlanned
  <2>3. Reading' = {} /\ Session' \in {Session, Area!Settling} /\ RecordHolds'
    <3>1. CASE Reject(t)
      <4>1. op'.kind = "idle" /\ memory' = memory /\ ~Saving'
        BY <3>1, IdleFields DEF Reject, Saving
      <4> QED
        BY <1>2, <4>1, SameSession, NothingIsRead DEF RecordHolds
    <3>2. CASE Proceed(t, {}, op.result)
      <4>1. Whole("saveList") \in op.todo /\ Whole("saveList") # t
        BY <1>2 DEF SaveTasks, Whole, Task
      <4>2. op'.kind = "commit" /\ op'.todo = op.todo \ {t} /\ memory' = memory
        BY <1>1, <1>2, <3>2, <4>1, DoneCases
      <4>3. Saving' /\ Reading' = {}
        BY <4>2, NothingIsRead DEF Saving
      <4>4. Session' = Area!Settling
        BY <1>2, <4>2, <4>3 DEF Session, Area!Settling
      <4> QED
        BY <1>4, <4>2, <4>3, <4>4 DEF RecordHolds
    <3> QED
      BY <1>4, <3>1, <3>2
  <2>4. Area!Commit
    BY <1>1, <1>4, <2>1, <2>2, <2>3 DEF Area!Commit, Area!IsOpen
  <2> QED
    BY <2>3, <2>4 DEF AreaStep, Area!Next
<1> QED
  BY <1>1, <1>3, <1>4

(* What was committed is saved, and with the last task nothing is planned. *)
LEMMA SaveIsSeen ==
  ASSUME IInv, RecordHolds, NEW t, Save(t), t # Whole("post"), op.kind = "commit", Saving,
         listed' = IF t = Whole("saveList") THEN Recorded(op.result) ELSE listed,
         toBeAdded' = IF t = Whole("dropAdded") THEN {} ELSE toBeAdded,
         toBeDeleted' = IF t = Whole("dropDeleted") THEN {} ELSE toBeDeleted
  PROVE  AreaStep
<1>1. /\ Ready(t) /\ Proceed(t, {}, op.result) /\ behind' = (op' # Idle)
      /\ head' = head /\ Present' = Present
  BY DEF Save, server, Present
<1>2. memory \in Packages /\ memory # NoPackage
  BY <1>1, Running
<1>3. Recorded(op.result) = head
  BY <1>2, RecordedIsHead
<1>4. Session = Area!Settling /\ Session.phase = "settling" /\ Reading = {} /\ behind = TRUE
  BY <1>2, NothingIsRead DEF Session, Area!Settling, RecordHolds, IInv, TypeInv
<1>5. CASE op.todo = {t} /\ op'.kind = "idle" /\ memory' = op.result /\ ~Saving'
  <2>1. /\ InState(op.result, {"to_be_added"}) = {}
        /\ InState(op.result, {"to_be_deleted"}) = {}
    <3>1. ASSUME NEW f \in Files
          PROVE  op.result[f].state \notin {"to_be_added", "to_be_deleted"}
      BY <1>2, CommittedEntry, EntryTypes DEF FileStates
    <3> QED
      BY <3>1 DEF InState
  <2>2. Session' = Area!NothingPlanned /\ Reading' = {}
    BY <1>1, <1>5, <2>1, DoneCases, SessionBecomes, NothingIsRead DEF Area!NothingPlanned
  <2>3. listed' = head /\ toBeAdded' = {} /\ toBeDeleted' = {}
    BY <1>3, <1>5 DEF IInv, PartsOfTasks, SavedIsAccepted, Recorded
  <2>4. behind' = FALSE
    <3>1. op.todo \ {t} = {}
      BY <1>5
    <3> QED
      BY <1>1, <3>1 DEF Proceed
  <2>5. Area!Settle
    BY <1>1, <1>4, <2>2, <2>3, <2>4 DEF Area!Settle
  <2>6. RecordHolds'
    BY <1>5 DEF RecordHolds
  <2> QED
    BY <2>5, <2>6 DEF AreaStep, Area!Next
<1>6. CASE /\ op'.kind = op.kind /\ op'.todo = op.todo \ {t} /\ memory' = memory
  <2>1. Saving' /\ Reading' = {} /\ behind' = TRUE
    BY <1>1, <1>6, NothingIsRead, IdleFields DEF Saving
  <2>2. Session' = Session
    BY <1>6, <2>1, SameSession
  <2>3. Area!Settle
    BY <1>1, <1>3, <1>4, <2>1, <2>2 DEF Area!Settle
  <2>4. RecordHolds'
    BY <1>6, <2>1 DEF RecordHolds
  <2> QED
    BY <2>3, <2>4 DEF AreaStep, Area!Next
<1>7. \/ op.todo = {t} /\ op'.kind = "idle" /\ memory' = op.result /\ ~Saving'
      \/ op'.kind = op.kind /\ op'.todo = op.todo \ {t} /\ memory' = memory
  BY <1>1, DoneCases
<1> QED
  BY <1>5, <1>6, <1>7

LEMMA SavesAreSeen ==
  ASSUME IInv, RecordHolds,
         SaveList \/ DropAdded \/ DropDeleted \/ \E f \in Files : SaveFile(f)
  PROVE  AreaStep
<1>1. ASSUME NEW t, Save(t), t.do \in {"saveList", "saveFile", "dropAdded", "dropDeleted"},
             listed' = IF t = Whole("saveList") THEN Recorded(op.result) ELSE listed,
             toBeAdded' = IF t = Whole("dropAdded") THEN {} ELSE toBeAdded,
             toBeDeleted' = IF t = Whole("dropDeleted") THEN {} ELSE toBeDeleted
      PROVE  AreaStep
  <2>1. Ready(t) /\ t # Whole("post") /\ Stage(t) = 3
    BY <1>1, StageCases DEF Save, Whole, Task
  <2>2. op.kind = "commit"
    BY <1>1, <2>1, ReadyTask DEF OwnersOf
  <2> QED
    BY <1>1, <2>1, <2>2, SavingNow, SaveIsSeen
<1>2. /\ Whole("saveList").do = "saveList" /\ Whole("dropAdded").do = "dropAdded"
      /\ Whole("dropDeleted").do = "dropDeleted"
      /\ \A f : Task("saveFile", f).do = "saveFile"
  BY DEF Whole, Task
<1> QED
  BY <1>1, <1>2 DEF SaveList, DropAdded, DropDeleted, SaveFile, Recorded

-----------------------------------------------------------------------------

LEMMA NextIsSeen == IInv /\ RecordHolds /\ [Next]_vars => AreaStep
<1> SUFFICES ASSUME IInv, RecordHolds, [Next]_vars
             PROVE  AreaStep
  OBVIOUS
<1>1. CASE ReadInModifiedPackageFromDir
  BY <1>1, ReadInIsSeen
<1>2. CASE Unreadable \/ UNCHANGED vars
  BY <1>2, OutsideIsTouch DEF Unreadable, vars, disk, server, history
<1>3. CASE \/ \E names, others \in SUBSET Files :
                AddAndDeleteFilesFromPackage(names, others)
           \/ \E names \in SUBSET Files : UntrackFiles(names)
           \/ \E names \in SUBSET Files : UndoFileDeletion(names)
           \/ Commit
  BY <1>3, StartsAreUnseen
<1>4. ASSUME NEW f \in Files
      PROVE  /\ RejectedAdd(f) => AreaStep
             /\ Inspect(f) => AreaStep
             /\ Load(f) => AreaStep
             /\ Unlink(f) => AreaStep
             /\ Copy(f) => AreaStep
             /\ UnlinkWork(f) => AreaStep
             /\ UnlinkStore(f) => AreaStep
             /\ \A contents : UploadFileContents(f, contents) => AreaStep
             /\ SaveFile(f) => AreaStep
  BY RejectedAddIsUnseen, InspectIsSeen, LoadIsSeen, UnlinkIsSeen, CopyIsSeen,
     PreparationsAreSeen, SavesAreSeen
<1>5. CASE WriteAdded \/ WriteDeleted
  BY <1>5, WriteAddedIsSeen, WriteDeletedIsSeen
<1>6. CASE PostFileList
  BY <1>6, PostIsSeen
<1>7. CASE SaveList \/ DropAdded \/ DropDeleted
  BY <1>7, SavesAreSeen
<1>8. ASSUME NEW f \in Files, NEW contents, Edit(f, contents)
      PROVE  AreaStep
  BY <1>8, OutsideIsTouch DEF Edit, server
<1>9. CASE Crash
  BY <1>9, CrashIsSeen
<1> QED
  BY <1>1, <1>2, <1>3, <1>4, <1>5, <1>6, <1>7, <1>8, <1>9 DEF Next

(* A checkout is a staging area: plans are recorded before they are made and *)
(* found again after a crash, an operation changes a list or the plan as a *)
(* whole, and an accepted commit has the files of the revision that was    *)
(* checked out with exactly the changes that the object plans.             *)
THEOREM CheckoutIsStagingArea == Spec => ImplementsStagingArea
<1>1. Init => RecordHolds
  BY IdleFields DEF Init, RecordHolds, Saving
<1>2. Init => Area!Init
  <2> SUFFICES ASSUME Init
               PROVE  Area!Init
    OBVIOUS
  <2>1. op.kind = "idle" /\ ~Saving
    BY IdleFields DEF Init, Saving
  <2>2. ASSUME NEW f \in Files
        PROVE  /\ memory[f] \in Entries \cup {Absent}
               /\ memory[f].state \in {"absent", "unmodified"}
    BY WorkingCopyAssumption DEF Init, Entries, Entry, Absent, FileStates, Stored
  <2>3. /\ InState(memory, {"to_be_added"}) = {}
        /\ InState(memory, {"to_be_deleted"}) = {}
    BY <2>2 DEF InState
  <2>4. memory # NoPackage
    BY <2>2, ObjectIsThere DEF Init, Packages
  <2>5. Session = Area!NothingPlanned /\ Reading = {}
    BY <2>1, <2>3, <2>4, SessionIsOpen, NothingIsRead DEF Area!NothingPlanned
  <2> QED
    BY <2>5, WorkingCopyAssumption
       DEF Init, Area!Init, Area!Packages, Area!FilesIn, Present, Stored
<1>3. IInv /\ RecordHolds /\ [Next]_vars => RecordHolds' /\ [Area!Next]_(Area!vars)
  BY NextIsSeen DEF AreaStep
<1> QED
  BY <1>1, <1>2, <1>3, Invariance, PTL DEF Spec, ImplementsStagingArea, Area!Spec

=============================================================================

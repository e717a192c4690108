---------------------------- MODULE WorkingCopy ----------------------------
(***************************************************************************)
(* A checked out package (src/vcs.ts): the files in its directory, the     *)
(* bookkeeping below .osc, the ModifiedPackage object of the caller, the   *)
(* operations that take that object to a new one, and the package on the   *)
(* server.  The user edits the directory at any time, any operation may    *)
(* fail half way, and the process may die between any two steps.           *)
(*                                                                         *)
(* An operation is a set of tasks, the file system calls and requests it   *)
(* awaits.  Tasks of one stage run concurrently (Promise.all), a stage     *)
(* starts when the one before it is through.  The caller awaits an         *)
(* operation before it starts the next; of one that is rejected the other  *)
(* tasks already started go on in the background.                          *)
(***************************************************************************)
EXTENDS Naturals, FiniteSets

CONSTANTS
  Files,        \* names of files
  Contents,     \* contents of files; two contents differ iff their md5 does
  None,         \* no such file
  CheckedOut,   \* contents of the files of the package that is checked out
  MaxEdits,     \* bound on what the user does to the files of the directory
  MaxStray      \* bound on the tasks left behind when an operation starts

Stored == Contents \cup {None}

ASSUME WorkingCopyAssumption ==
  /\ Files # {} /\ IsFiniteSet(Files)
  /\ None \notin Contents
  /\ CheckedOut \in [Files -> Stored]
  /\ MaxEdits \in Nat
  /\ MaxStray \in Nat

VARIABLES
  workdir,      \* the files in the directory of the package
  store,        \* the files of the same name in .osc
  listed,       \* .osc/_files: the md5 of each file at the checked out revision
  toBeAdded,    \* .osc/_to_be_added
  toBeDeleted,  \* .osc/_to_be_deleted
  memory,       \* filesInWorkdir of the caller's ModifiedPackage, or NoPackage
  op,           \* the operation in progress: its tasks and its result
  stray,        \* tasks that a rejected operation has left behind
  head,         \* the package on the server
  blobs,        \* contents that were uploaded to the server
  edits,        \* edits of the user so far
  synced,       \* history: memory still describes the directory
  interrupted,  \* history: a commit broke off and may have left .osc damaged
  behind        \* history: a commit was accepted but not recorded locally

disk == <<workdir, store, listed, toBeAdded, toBeDeleted>>
server == <<head, blobs>>
history == <<synced, interrupted, behind>>
vars == <<disk, memory, op, stray, server, edits, history>>

FileStates == {"unmodified", "modified", "to_be_deleted", "to_be_added",
               "untracked", "missing"}
IsTrackedFile(entry) == entry.state \in {"unmodified", "modified", "missing"}

Entry(state, md5, contents) ==
  [state |-> state, md5 |-> md5, contents |-> contents]
Entries == [state : FileStates, md5 : Contents, contents : Contents]
Absent == Entry("absent", None, None)   \* no element of filesInWorkdir
Packages == [Files -> Entries \cup {Absent}]
NoPackage == [f \in {} |-> Absent]

Task(do, f) == [do |-> do, file |-> f, contents |-> None]
\* A task that is not about a single file.
Whole(do) == Task(do, None)
\* A request that carries the contents memory had when it was made.
Put(f, contents) == [do |-> "upload", file |-> f, contents |-> contents]

\* Faulty: files are unlinked before their deletion is recorded.
StageUnlinkFirst(t) ==
  CASE t.do \in {"post", "listAdded", "listDeleted"} -> 2
    [] t.do \in {"saveList", "saveFile", "dropAdded", "dropDeleted"} -> 3
    [] OTHER -> 1
\* The awaits of an operation, in the order in which they follow each other.
Stage(t) ==
  CASE t.do \in {"post", "listAdded", "listDeleted"} -> 2
    [] t.do \in {"unlink", "saveList", "saveFile", "dropAdded",
                 "dropDeleted"} -> 3
    [] OTHER -> 1

Idle == [kind |-> "idle", todo |-> {}, result |-> NoPackage]

InState(pkg, states) == {f \in Files : pkg[f].state \in states}

Init ==
  /\ workdir = CheckedOut
  /\ store = CheckedOut
  /\ listed = CheckedOut
  /\ toBeAdded = {}
  /\ toBeDeleted = {}
  /\ memory = [f \in Files |->
                 IF CheckedOut[f] = None THEN Absent
                 ELSE Entry("unmodified", CheckedOut[f], CheckedOut[f])]
  /\ op = Idle
  /\ stray = {}
  /\ head = CheckedOut
  /\ blobs = {CheckedOut[f] : f \in Files} \ {None}
  /\ edits = 0
  /\ synced = TRUE
  /\ interrupted = FALSE
  /\ behind = FALSE

-----------------------------------------------------------------------------
(* How an operation starts, goes on, is resolved and is rejected.          *)

CanRead == op = Idle /\ Cardinality(stray) <= MaxStray
CanStart == CanRead /\ memory # NoPackage

Ready(t) == t \in op.todo /\ \A u \in op.todo : Stage(t) <= Stage(u)

\* A task is done and leaves the tasks in next to be done.
Proceed(t, next, result) ==
  LET left == (op.todo \ {t}) \cup next IN
  /\ IF left = {}
     THEN op' = Idle /\ memory' = result
     ELSE /\ op' = [op EXCEPT !.todo = left, !.result = result]
          /\ UNCHANGED memory
  /\ UNCHANGED <<stray, synced>>

\* A commit that breaks off before it is recorded leaves .osc damaged if it
\* may have deleted files of .osc or was about to write them.
Damaging ==
  /\ op.kind = "commit"
  /\ \/ InState(memory, {"to_be_deleted"}) # {}
     \/ \A t \in op.todo : Stage(t) = 3

\* The operation is rejected: the caller keeps the object it had.
Reject(t) ==
  /\ op' = Idle
  /\ stray' = stray \cup
       {u \in op.todo \ {t} : Ready(u) /\ u.do \notin {"inspect", "load"}}
  /\ synced' = FALSE
  /\ interrupted' = (interrupted \/ Damaging)
  /\ UNCHANGED memory

\* t is done for the operation in progress or for one that was rejected.
Done(t) ==
  \/ Ready(t) /\ Proceed(t, {}, op.result)
  \/ /\ t \in stray
     /\ stray' = stray \ {t}
     /\ synced' = FALSE
     /\ UNCHANGED <<op, memory>>

\* The same for a task that fails; nobody hears of a stray one.
Failed(t) ==
  \/ Ready(t) /\ Reject(t)
  \/ /\ t \in stray
     /\ stray' = stray \ {t}
     /\ UNCHANGED <<op, memory, synced, interrupted>>

-----------------------------------------------------------------------------
(* readInModifiedPackageFromDir()                                          *)

\* What readInCheckedOutPackage() insists on.
Readable == \A f \in Files : listed[f] # None => store[f] = listed[f]

\* The entry of a file that is not in the directory.
Unseen(f) ==
  IF listed[f] = None THEN Absent
  ELSE Entry(IF f \in toBeDeleted THEN "to_be_deleted" ELSE "missing",
             listed[f], store[f])

\* The entry of a file that was found in the directory, given the one it
\* would have otherwise.
Seen(f, found, unseen) ==
  IF listed[f] = None
  THEN Entry(IF f \in toBeAdded THEN "to_be_added" ELSE "untracked",
             found, found)
  ELSE Entry(IF f \in toBeDeleted THEN "to_be_deleted"
             ELSE IF found = listed[f] THEN "unmodified" ELSE "modified",
             found, unseen.contents)

\* Everything in .osc is read, then the directory is listed.  A checkout that
\* is not Readable is rejected, which changes nothing.
ReadInModifiedPackageFromDir ==
  /\ CanRead
  /\ Readable
  /\ LET present == {f \in Files : workdir[f] # None}
         unseen == [f \in Files |-> Unseen(f)]
     IN IF present = {}
        THEN memory' = unseen /\ UNCHANGED op
        ELSE /\ op' = [kind |-> "readIn",
                       todo |-> {Task("inspect", f) : f \in present},
                       result |-> unseen]
             /\ UNCHANGED memory
  /\ synced' = TRUE
  /\ UNCHANGED <<disk, stray, server, edits, interrupted, behind>>

\* The contents of a modified file are read after its md5 was computed.
Inspect(f) ==
  LET t == Task("inspect", f)
      entry == Seen(f, workdir[f], op.result[f])
      loads == IF entry.state = "modified" THEN {Task("load", f)} ELSE {}
  IN
  /\ \/ /\ Ready(t)
        /\ workdir[f] # None
        /\ Proceed(t, loads, [op.result EXCEPT ![f] = entry])
        /\ UNCHANGED interrupted
     \/ Ready(t) /\ workdir[f] = None /\ Reject(t)
  /\ UNCHANGED <<disk, server, edits, behind>>

Load(f) ==
  LET t == Task("load", f) IN
  /\ \/ /\ Ready(t)
        /\ workdir[f] # None
        /\ Proceed(t, {}, [op.result EXCEPT ![f].contents = workdir[f]])
        /\ UNCHANGED interrupted
     \/ Ready(t) /\ workdir[f] = None /\ Reject(t)
  /\ UNCHANGED <<disk, server, edits, behind>>

-----------------------------------------------------------------------------
(* The operations on the two lists.                                        *)

\* Faulty: the lists are written from the object before the operation.
ListSourceStale == memory
\* The object whose states the lists are written from.
ListSource == op.result

\* writeFileListToDir()
WriteAdded ==
  /\ Ready(Whole("listAdded"))
  /\ Proceed(Whole("listAdded"), {}, op.result)
  /\ toBeAdded' = InState(ListSource, {"to_be_added"})
  /\ UNCHANGED <<workdir, store, listed, toBeDeleted, server, edits,
                 interrupted, behind>>

WriteDeleted ==
  /\ Ready(Whole("listDeleted"))
  /\ Proceed(Whole("listDeleted"), {}, op.result)
  /\ toBeDeleted' = InState(ListSource, {"to_be_deleted"})
  /\ UNCHANGED <<workdir, store, listed, toBeAdded, server, edits,
                 interrupted, behind>>

\* Faulty: it is not checked that a file exists.
FoundUnchecked(names) ==
  [f \in Files |->
     IF f \in names /\ memory[f] = Absent
     THEN Entry("untracked", workdir[f], workdir[f]) ELSE memory[f]]
\* Names that memory does not know and that exist are put into the caller's
\* object as untracked, also when the call is rejected in the end.
Found(names) ==
  [f \in Files |->
     IF f \in names /\ memory[f] = Absent /\ workdir[f] # None
     THEN Entry("untracked", workdir[f], workdir[f]) ELSE memory[f]]

\* The contents of the files to add are read before anything is written.
AddAndDeleteFilesFromPackage(filesToDelete, filesToAdd) ==
  LET found == Found(filesToAdd) IN
  /\ CanStart
  /\ filesToAdd \cap filesToDelete = {}
  /\ \A f \in filesToAdd : found[f].state = "untracked" /\ workdir[f] # None
  /\ \A f \in filesToDelete : IsTrackedFile(memory[f])
  /\ memory' = found
  /\ op' = [kind |-> "addAndDelete",
            todo |-> {Whole("listAdded"), Whole("listDeleted")} \cup
                     {Task("unlink", f) : f \in filesToDelete},
            result |->
              [f \in Files |->
                 CASE f \in filesToAdd ->
                        Entry("to_be_added", workdir[f], workdir[f])
                   [] f \in filesToDelete ->
                        [memory[f] EXCEPT !.state = "to_be_deleted"]
                   [] OTHER -> memory[f]]]
  /\ UNCHANGED <<disk, stray, server, edits, history>>

\* The call is rejected after it has come across an unknown file f.
RejectedAdd(f) ==
  /\ CanStart
  /\ Found({f}) # memory
  /\ memory' = Found({f})
  /\ UNCHANGED <<disk, op, stray, server, edits, history>>

Unlink(f) ==
  LET t == Task("unlink", f) IN
  /\ \/ /\ workdir[f] # None
        /\ Done(t)
        /\ workdir' = [workdir EXCEPT ![f] = None]
        /\ UNCHANGED interrupted
     \/ /\ workdir[f] = None
        /\ Failed(t)
        /\ UNCHANGED workdir
  /\ UNCHANGED <<store, listed, toBeAdded, toBeDeleted, server, edits, behind>>

UntrackFiles(filesToUntrack) ==
  /\ CanStart
  /\ filesToUntrack \subseteq InState(memory, {"to_be_added"})
  /\ op' = [kind |-> "untrack",
            todo |-> {Whole("listAdded")},
            result |->
              [f \in Files |->
                 IF f \in filesToUntrack
                 THEN [memory[f] EXCEPT !.state = "untracked"] ELSE memory[f]]]
  /\ UNCHANGED <<disk, memory, stray, server, edits, history>>

\* The entries keep the md5 and the contents they have in memory, whichever
\* contents are copied back.
UndoFileDeletion(filesToUndelete) ==
  /\ CanStart
  /\ filesToUndelete # {}
  /\ filesToUndelete \subseteq InState(memory, {"to_be_deleted", "missing"})
  /\ op' = [kind |-> "undo",
            todo |-> {Task("copy", f) : f \in filesToUndelete} \cup
                     {Whole("listDeleted")},
            result |->
              [f \in Files |->
                 IF f \in filesToUndelete
                 THEN [memory[f] EXCEPT !.state = "unmodified"]
                 ELSE memory[f]]]
  /\ synced' = (synced /\ \A f \in filesToUndelete : memory[f].md5 = store[f])
  /\ UNCHANGED <<disk, memory, stray, server, edits, interrupted, behind>>

\* Faulty: the file in the directory is overwritten.
CanCopyOver(f) == store[f] # None
\* copyFile() is called with COPYFILE_EXCL.
CanCopy(f) == store[f] # None /\ workdir[f] = None

Copy(f) ==
  LET t == Task("copy", f) IN
  /\ \/ /\ CanCopy(f)
        /\ Done(t)
        /\ workdir' = [workdir EXCEPT ![f] = store[f]]
        /\ UNCHANGED interrupted
     \/ /\ ~CanCopy(f)
        /\ Failed(t)
        /\ UNCHANGED workdir
  /\ UNCHANGED <<store, listed, toBeAdded, toBeDeleted, server, edits, behind>>

-----------------------------------------------------------------------------
(* commit()                                                                *)

\* Faulty: untracked files are committed, too.
DirectoryWithUntracked(pkg) ==
  [f \in Files |->
     IF pkg[f].state \in {"to_be_deleted", "absent"} THEN None ELSE pkg[f].md5]
\* The files that shall be at HEAD.
DirectoryFromModifiedPackage(pkg) ==
  [f \in Files |->
     IF pkg[f].state \in {"untracked", "to_be_deleted", "absent"}
     THEN None ELSE pkg[f].md5]

\* What becomes of an entry that was committed.
Committed(entry) ==
  CASE entry.state = "to_be_deleted" -> Absent
    [] entry.state \in {"modified", "to_be_added"} ->
         [entry EXCEPT !.state = "unmodified"]
    [] OTHER -> entry

\* Faulty: the files that are missing in the directory are left out.
FilesOfPresentOnly(pkg) == InState(pkg, {"unmodified"})
\* The property files of the result.
FilesOf(pkg) == InState(pkg, {"unmodified", "missing"})

\* Faulty: the files in .osc are not updated.
SaveTasksListOnly(pkg) ==
  {Whole("saveList"), Whole("dropAdded"), Whole("dropDeleted")}
\* writePackageUnderscoreFiles() and the removal of the two lists.
SaveTasks(pkg) ==
  {Whole("saveList"), Whole("dropAdded"), Whole("dropDeleted")} \cup
  {Task("saveFile", f) : f \in FilesOf(pkg)}

Commit ==
  LET result == [f \in Files |-> Committed(memory[f])] IN
  /\ CanStart
  /\ op' = [kind |-> "commit",
            todo |->
              {Put(f, memory[f].contents) :
                 f \in InState(memory, {"modified", "to_be_added"})} \cup
              {Task(do, f) : do \in {"unlinkWork", "unlinkStore"},
                             f \in InState(memory, {"to_be_deleted"})} \cup
              {Whole("post")} \cup SaveTasks(result),
            result |-> result]
  /\ UNCHANGED <<disk, memory, stray, server, edits, history>>

\* uploadFileContents(): the request may fail, before or after it has been
\* processed.
UploadFileContents(f, contents) ==
  LET t == Put(f, contents) IN
  /\ \/ /\ blobs' = blobs \cup {contents}
        /\ \/ Done(t) /\ UNCHANGED interrupted
           \/ Failed(t)
     \/ Failed(t) /\ UNCHANGED blobs
  /\ UNCHANGED <<disk, head, edits, behind>>

\* The files to be deleted are removed from both places, if they are there.
UnlinkWork(f) ==
  /\ Done(Task("unlinkWork", f))
  /\ workdir' = [workdir EXCEPT ![f] = None]
  /\ UNCHANGED <<store, listed, toBeAdded, toBeDeleted, server, edits,
                 interrupted, behind>>

UnlinkStore(f) ==
  /\ Done(Task("unlinkStore", f))
  /\ store' = [store EXCEPT ![f] = None]
  /\ UNCHANGED <<workdir, listed, toBeAdded, toBeDeleted, server, edits,
                 interrupted, behind>>

\* The server takes a listing, which names every file by its md5 and its
\* sha256, if it knows the contents that both stand for.
Accepts(pkg) ==
  \A f \in Files :
    DirectoryFromModifiedPackage(pkg)[f] # None =>
      pkg[f].md5 = pkg[f].contents /\ pkg[f].md5 \in blobs

\* The POST request: accepted, accepted although the caller is told of an
\* error, or not accepted.
PostFileList ==
  /\ Ready(Whole("post"))
  /\ \/ /\ Accepts(memory)
        /\ head' = DirectoryFromModifiedPackage(memory)
        /\ behind' = TRUE
        /\ \/ Proceed(Whole("post"), {}, op.result) /\ UNCHANGED interrupted
           \/ Reject(Whole("post"))
     \/ /\ Reject(Whole("post"))
        /\ UNCHANGED <<head, behind>>
  /\ UNCHANGED <<disk, blobs, edits>>

\* The last task to be saved ends the commit.
Save(t) ==
  /\ Ready(t)
  /\ Proceed(t, {}, op.result)
  /\ behind' = (op' # Idle)
  /\ UNCHANGED <<workdir, server, edits, interrupted>>

SaveList ==
  /\ Save(Whole("saveList"))
  /\ listed' = [f \in Files |-> IF f \in FilesOf(op.result)
                                THEN op.result[f].md5 ELSE None]
  /\ UNCHANGED <<store, toBeAdded, toBeDeleted>>

SaveFile(f) ==
  /\ Save(Task("saveFile", f))
  /\ store' = [store EXCEPT ![f] = op.result[f].contents]
  /\ UNCHANGED <<listed, toBeAdded, toBeDeleted>>

DropAdded ==
  /\ Save(Whole("dropAdded"))
  /\ toBeAdded' = {}
  /\ UNCHANGED <<store, listed, toBeDeleted>>

DropDeleted ==
  /\ Save(Whole("dropDeleted"))
  /\ toBeDeleted' = {}
  /\ UNCHANGED <<store, listed, toBeAdded>>

-----------------------------------------------------------------------------
(* The user and the process.                                               *)

Edit(f, contents) ==
  /\ edits < MaxEdits
  /\ workdir[f] # contents
  /\ workdir' = [workdir EXCEPT ![f] = contents]
  /\ edits' = edits + 1
  /\ synced' = FALSE
  /\ UNCHANGED <<store, listed, toBeAdded, toBeDeleted, memory, op, stray,
                 server, interrupted, behind>>

\* The process dies: what was in memory is gone.
Crash ==
  /\ memory # NoPackage
  /\ memory' = NoPackage
  /\ op' = Idle
  /\ stray' = {}
  /\ synced' = FALSE
  /\ interrupted' = (interrupted \/ Damaging)
  /\ UNCHANGED <<disk, server, edits, behind>>

\* A checkout that cannot be read in stays as it is.
Unreadable == ~Readable /\ op = Idle /\ UNCHANGED vars

Next ==
  \/ ReadInModifiedPackageFromDir
  \/ Unreadable
  \/ \E names, others \in SUBSET Files :
       AddAndDeleteFilesFromPackage(names, others)
  \/ \E names \in SUBSET Files : UntrackFiles(names)
  \/ \E names \in SUBSET Files : UndoFileDeletion(names)
  \/ Commit
  \/ \E f \in Files :
       \/ RejectedAdd(f)
       \/ Inspect(f)
       \/ Load(f)
       \/ Unlink(f)
       \/ Copy(f)
       \/ UnlinkWork(f)
       \/ UnlinkStore(f)
       \/ SaveFile(f)
  \/ \E f \in Files, contents \in Contents : UploadFileContents(f, contents)
  \/ WriteAdded
  \/ WriteDeleted
  \/ PostFileList
  \/ SaveList
  \/ DropAdded
  \/ DropDeleted
  \/ \E f \in Files, contents \in Stored : Edit(f, contents)
  \/ Crash

Spec == Init /\ [][Next]_vars

-----------------------------------------------------------------------------
(* Properties.                                                             *)

TypeOK ==
  /\ workdir \in [Files -> Stored]
  /\ store \in [Files -> Stored]
  /\ listed \in [Files -> Stored]
  /\ toBeAdded \subseteq Files
  /\ toBeDeleted \subseteq Files
  /\ memory \in Packages \cup {NoPackage}
  /\ op.kind \in {"idle", "readIn", "addAndDelete", "untrack", "undo", "commit"}
  /\ op.kind \notin {"idle", "readIn"} => op.result \in Packages
  /\ op = Idle <=> op.todo = {}
  /\ head \in [Files -> Stored]
  /\ blobs \subseteq Contents
  /\ edits \in 0..MaxEdits
  /\ history \in BOOLEAN \X BOOLEAN \X BOOLEAN

\* Only a commit that breaks off can leave a checkout that cannot be read in
\* any more: no sequence of the other operations, of failures, crashes and
\* edits separates .osc/_files from the files in .osc.
StaysReadable == Readable \/ interrupted \/ op.kind = "commit"

\* Every addition and every deletion that the caller's object plans is recorded
\* in .osc, so that a crash loses none of them, whichever operations failed
\* before; only the commit that carries them out crosses them off.
PlansAreRecorded ==
  memory # NoPackage /\ op.kind # "commit" =>
    /\ InState(memory, {"to_be_added"}) \subseteq toBeAdded
    /\ InState(memory, {"to_be_deleted"}) \subseteq toBeDeleted

\* An operation on the lists is atomic: whenever the process dies, reading the
\* checkout in again shows each file as it was before the operation or as it
\* is after it, and between operations as the caller's object shows it.
StatesAgree ==
  synced /\ memory # NoPackage /\ op.kind \notin {"readIn", "commit"} =>
    \A f \in Files :
      LET found == IF workdir[f] = None THEN Unseen(f)
                   ELSE Seen(f, workdir[f], Unseen(f))
      IN \/ found.state = memory[f].state
         \/ op # Idle /\ found.state = op.result[f].state

\* Once a commit is resolved, .osc describes the revision it has created.
RecordsHead == ~behind => listed = head

\* The running operation removes a file of the user only after its deletion
\* was recorded, and never overwrites one.
UserFilesAreSafe ==
  [][\A f \in Files :
       /\ workdir[f] # None
       /\ workdir'[f] # workdir[f]
       /\ edits' = edits
       /\ stray' = stray
       => workdir'[f] = None /\ f \in toBeDeleted]_vars

\* A commit adds to HEAD and removes from it what the lists in .osc name and
\* nothing else, unless an earlier commit was accepted without the client
\* getting to know.
HeadFollowsLists ==
  [][~behind =>
       \A f \in Files :
         /\ head[f] = None /\ head'[f] # None => f \in toBeAdded
         /\ head[f] # None /\ head'[f] = None => f \in toBeDeleted]_vars

\* The server has accepted the commit, .osc is being written.
Saving == op.kind = "commit" /\ Whole("post") \notin op.todo

\* What the staging area sees of the directory, of the caller's object, and of a
\* reading in progress: the additions that it has found or is going to find.
Present == {f \in Files : workdir[f] # None}
SessionOf(pkg) ==
  [phase |-> "open", added |-> InState(pkg, {"to_be_added"}),
   deleted |-> InState(pkg, {"to_be_deleted"})]
Session ==
  IF memory = NoPackage THEN [phase |-> "closed", added |-> {}, deleted |-> {}]
  ELSE IF Saving THEN [phase |-> "settling", added |-> {}, deleted |-> {}]
  ELSE SessionOf(memory)
Reading ==
  IF op.kind # "readIn" THEN {}
  ELSE {{f \in toBeAdded : /\ listed[f] = None
                           /\ \/ Task("inspect", f) \in op.todo
                              \/ op.result[f].state = "to_be_added"}}

Area == INSTANCE StagingArea
          WITH base <- listed, level <- ~behind,
               added <- toBeAdded, deleted <- toBeDeleted,
               present <- Present, session <- Session, reading <- Reading

\* Whatever fails, is interleaved or dies: plans are recorded before they are made
\* and found again when the checkout is read in, each step of an operation changes
\* the record or the plan as a whole, and an accepted commit has the files of the
\* revision that was checked out with the additions and without the deletions of
\* the caller's object, not more and not less (vcs.ts).
ImplementsStagingArea == Area!Spec

\* "Tracked and unmodified" (line 50), "reverted back to their unmodified
\* state" (line 303): what the object shows as unmodified is at HEAD.
UnmodifiedIsAtHead ==
  op = Idle /\ memory # NoPackage /\ ~behind =>
    \A f \in InState(memory, {"unmodified"}) : memory[f].md5 = listed[f]

\* "The packages files at the checked out revision are saved in .osc"
\* (package.ts, line 723): as long as the process lives, its checkout can be
\* read in between operations.
FilesAreSaved == op = Idle /\ memory # NoPackage => Readable

=============================================================================

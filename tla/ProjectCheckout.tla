---------------------------- MODULE ProjectCheckout ----------------------------
(***************************************************************************)
(* A directory into which a project is checked out (src/project.ts, and    *)
(* from src/package.ts what fetches a package and writes it to disk).      *)
(* Several callers work on the same directory, the packages on the server  *)
(* change meanwhile, a caller may cancel, any request may fail, and the    *)
(* process may die.  One step is what happens between two awaits.          *)
(***************************************************************************)
EXTENDS Naturals, FiniteSets

CONSTANTS
  Names,       \* names of packages
  Files,       \* names of the files of a package
  Settings,    \* the files of .osc that hold one setting each: _apiurl, _project
  Callers,     \* calls that may be in progress at the same time
  MaxCalls,    \* bound on the calls made
  MaxChanges   \* bound on what others do to the project on the server

ASSUME ProjectAssumption ==
  /\ IsFiniteSet(Names)
  /\ IsFiniteSet(Files)
  /\ IsFiniteSet(Callers)
  /\ IsFiniteSet(Settings)
  /\ Settings \cap {"_packages", "_project_meta.json"} = {}
  /\ MaxCalls \in Nat
  /\ MaxChanges \in Nat

VARIABLES
  obs,        \* the revision of each package on the server, 0 if there is none
  changes,    \* how often the packages on the server were changed
  path,       \* does the directory exist?
  osc,        \* does its subdirectory .osc exist?
  plugin,     \* does its subdirectory .osc_obs_ts exist?
  under,      \* the underscore files in these two
  pkgdirs,    \* the directories of the packages
  calls,      \* how many calls were made
  cancel,     \* the cancellation token of each caller
  op,         \* what each caller is doing
  overlap,    \* history: callers whose call has met another one
  torn,       \* history: a write or a removal was cut short or met another one
  known       \* history: the packages that _packages named last

disk == <<path, osc, plugin, under, pkgdirs>>
server == <<obs, changes>>
asking == <<calls, cancel>>
history == <<overlap, torn, known>>
vars == <<server, disk, asking, op, history>>

Revisions == 1 .. MaxChanges + 1

\* The files of .osc, and the one of .osc_obs_ts.
OscFiles == Settings \cup {"_packages"}
Underscore == OscFiles \cup {"_project_meta.json"}
Home(u) == IF u \in OscFiles THEN ".osc" ELSE ".osc_obs_ts"
Gone == [is |-> "gone", names |-> {}]
Empty == [is |-> "empty", names |-> {}]
Garbled == [is |-> "garbled", names |-> {}]
Written(names) == [is |-> "written", names |-> names]
Content(u, names) == Written(IF u = "_packages" THEN names ELSE {})

NoDir == [f \in Files |-> 0]
\* The directory with its .osc, the files of neither are complete.
NewDir == [f \in {} |-> 0]

\* pc: where the call is, or "true" or "false" if it was a check-out that
\* ended so; asked and want: the packages to be checked out, all and what is left;
\* all: it was not restricted to some packages; stored: the list read from
\* disk; names: the list to be written; tasks: what it awaits concurrently;
\* pkg, rev, got: the package being fetched, its revision, its files; late, a
\* history: it made .osc while a clean-up was still at work.
Idle == [pc |-> "idle", kind |-> "none", all |-> TRUE, asked |-> {},
         want |-> {}, stored |-> {}, names |-> {}, tasks |-> {}, pkg |-> "none", rev |-> 0,
         got |-> NoDir, late |-> FALSE]

\* The directory does not exist, or a project was checked out into it, perhaps
\* with less packages than the server has now.
Init ==
  /\ obs = [n \in Names |-> 1]
  /\ changes = 0
  /\ path \in BOOLEAN
  /\ osc = path
  /\ plugin = path
  /\ known \in IF path THEN SUBSET Names ELSE {{}}
  /\ under = [u \in Underscore |-> IF path THEN Content(u, known) ELSE Gone]
  /\ pkgdirs = [n \in Names |-> IF n \in known THEN [f \in Files |-> 1] ELSE NoDir]
  /\ calls = 0
  /\ cancel = [c \in Callers |-> FALSE]
  /\ op = [c \in Callers |-> Idle]
  /\ overlap = {}
  /\ torn = FALSE

Ended == {"idle", "true", "false"}
Busy == {c \in Callers : op[c].pc \notin Ended}
EmptyDir == ~osc /\ ~plugin /\ \A n \in Names : pkgdirs[n] = NoDir
Listing == {n \in Names : obs[n] > 0}
There(d) == IF d = ".osc" THEN osc ELSE plugin
In(d) == {u \in Underscore : Home(u) = d /\ under[u] # Gone}
\* A caller that is writing the underscore files or cleaning up, one that is
\* about to write them, and one of which removals are under way.
AtWork(c) == op[c].pc \in {"mkplugin", "write", "removing"}
Changing(c) == op[c].pc = "prepare" \/ AtWork(c)
Removal == {"readdir", "unlink", "rmdir", "empty", "rmpkg"}
Sweeping(c) == \E t \in op[c].tasks : t[1] \in Removal

-----------------------------------------------------------------------------
(* Starting, going on, resolving and rejecting.                            *)

Start(c, call) ==
  /\ op[c].pc \in Ended
  /\ calls < MaxCalls
  /\ calls' = calls + 1
  /\ op' = [op EXCEPT ![c] = call]
  /\ cancel' = [cancel EXCEPT ![c] = FALSE]
  /\ overlap' = IF Busy = {} THEN overlap \ {c} ELSE overlap \cup Busy \cup {c}
  /\ UNCHANGED <<server, disk, torn, known>>

Go(c, pc) == op' = [op EXCEPT ![c].pc = pc]
Resolve(c, result) == op' = [op EXCEPT ![c] = [Idle EXCEPT !.pc = result]]

\* The promise is rejected: what is on disk stays as it is.
Reject(c) ==
  /\ op' = [op EXCEPT ![c] = Idle]
  /\ torn' = (torn \/ Changing(c))
  /\ UNCHANGED <<server, disk, asking, overlap, known>>

\* The same when one of several writes or removals fails: the others go on in
\* the background, and whoever has made the call may have made another one (c is
\* that of nobody else until they are through).
Rest(call, left) ==
  IF left = {} THEN Idle
  ELSE [Idle EXCEPT !.pc = "rejected", !.names = call.names, !.tasks = left]
Fail(c, tasks) ==
  /\ op' = [op EXCEPT ![c] = Rest(@, @.tasks \ tasks)]
  /\ torn' = TRUE
  /\ UNCHANGED <<server, disk, asking, overlap, known>>

Same == UNCHANGED <<server, asking, history>>

-----------------------------------------------------------------------------
(* checkOutProject(): the directory, the project, the underscore files     *)

StartCheckOut(c) ==
  \/ Start(c, [Idle EXCEPT !.kind = "checkOut", !.pc = "stat"])
  \/ \E list \in SUBSET Names :
       Start(c, [Idle EXCEPT !.kind = "checkOut", !.pc = "stat",
                             !.all = FALSE, !.want = list])

Stat(c) ==
  /\ op[c].pc = "stat"
  /\ Go(c, IF path THEN "readdir" ELSE "mkdir")
  /\ UNCHANGED disk /\ Same

MkDir(c) ==
  /\ op[c].pc = "mkdir"
  /\ \/ ~path /\ path' = TRUE /\ Go(c, "fetchMeta")
        /\ UNCHANGED <<osc, plugin, under, pkgdirs>> /\ Same
     \/ path /\ Reject(c)

ReadDir(c) ==
  /\ op[c].pc = "readdir"
  /\ \/ path /\ EmptyDir /\ Go(c, "fetchMeta") /\ UNCHANGED disk /\ Same
     \/ ~(path /\ EmptyDir) /\ Reject(c)

FetchProjectMeta(c) ==
  /\ op[c].pc = "fetchMeta"
  /\ \/ Go(c, "fetchList") /\ UNCHANGED disk /\ Same
     \/ Reject(c)

\* Faulty: a refresh adopts every package of the server.
ListedAnew(call) ==
  [call EXCEPT !.pc = IF call.kind = "refresh" THEN "prepare" ELSE "mkosc",
               !.names = Listing, !.want = IF call.all THEN Listing ELSE call.want]
\* What a call does with the list of packages on the server.
Listed(call) ==
  CASE call.kind = "checkOut" ->
         LET asked == IF call.all THEN Listing ELSE call.want IN
         [call EXCEPT !.pc = "mkosc", !.all = TRUE, !.names = Listing,
                      !.asked = asked, !.want = asked]
    [] call.kind = "refresh" ->
         [call EXCEPT !.pc = "prepare", !.stored = {},
                      !.names = IF call.stored = {} THEN Listing
                                ELSE call.stored \cap Listing]

FetchPackageList(c) ==
  /\ op[c].pc = "fetchList"
  /\ \/ /\ op[c].want \subseteq Listing
        /\ op' = [op EXCEPT ![c] = Listed(op[c])]
        /\ UNCHANGED disk /\ Same
     \/ Reject(c)

HavingOsc(call) ==
  [call EXCEPT !.pc = "prepare", !.late = \E d \in Callers : Sweeping(d)]
\* Faulty: a directory .osc that exists already is taken over.
MakeOscRecursive(c) ==
  /\ op[c].pc = "mkosc"
  /\ path /\ osc' = TRUE /\ op' = [op EXCEPT ![c] = HavingOsc(@)]
  /\ UNCHANGED <<path, plugin, under, pkgdirs>> /\ Same
\* Faulty: it waits until the other check-out has gone.
MakeOscPatiently(c) ==
  /\ op[c].pc = "mkosc"
  /\ path /\ ~osc /\ osc' = TRUE /\ op' = [op EXCEPT ![c] = HavingOsc(@)]
  /\ UNCHANGED <<path, plugin, under, pkgdirs>> /\ Same
MakeOsc(c) ==
  /\ op[c].pc = "mkosc"
  /\ \/ /\ path /\ ~osc /\ osc' = TRUE /\ op' = [op EXCEPT ![c] = HavingOsc(@)]
        /\ UNCHANGED <<path, plugin, under, pkgdirs>> /\ Same
     \/ ~(path /\ ~osc) /\ Reject(c)

\* writeProjectUnderscoreFiles(): the directory must exist ...
Saved(call) ==
  IF call.kind = "applyNoMeta" THEN Underscore \ {"_project_meta.json"} ELSE Underscore
AboutToWrite(call) ==
  [call EXCEPT !.pc = "write", !.tasks = {<<"open", u>> : u \in Saved(call)}]
Prepare(c) ==
  /\ op[c].pc = "prepare"
  /\ \/ /\ path
        /\ op' = [op EXCEPT ![c] = IF @.kind = "applyNoMeta" THEN AboutToWrite(@)
                                   ELSE [@ EXCEPT !.pc = "mkplugin"]]
        /\ torn' = (torn \/ \E d \in Callers \ {c} : AtWork(d))
        /\ UNCHANGED <<server, disk, asking, overlap, known>>
     \/ ~path /\ Reject(c)

\* ... .osc_obs_ts is made when there is a meta to be saved, and the directory
\* with it if somebody has removed that meanwhile.
MakePlugin(c) ==
  /\ op[c].pc = "mkplugin"
  /\ path' = TRUE /\ plugin' = TRUE
  /\ op' = [op EXCEPT ![c] = AboutToWrite(@)]
  /\ UNCHANGED <<osc, under, pkgdirs>> /\ Same

\* writeFile() truncates the file when it opens it ...
OpenFile(c, u) ==
  /\ <<"open", u>> \in op[c].tasks
  /\ \/ /\ There(Home(u))
        /\ under' = [under EXCEPT ![u] = Empty]
        /\ op' = [op EXCEPT ![c].tasks = (@ \ {<<"open", u>>}) \cup {<<"fill", u>>}]
        /\ UNCHANGED <<path, osc, plugin, pkgdirs>> /\ Same
     \/ ~There(Home(u)) /\ Fail(c, {<<"open", u>>})

\* Faulty: the call goes on as soon as one file is written.
AfterAnyWrite(call, left) ==
  IF call.kind = "checkOut" /\ call.pc = "write"
  THEN [call EXCEPT !.tasks = {}, !.pc = "check"] ELSE Idle
\* Promise.all() over the files: the call goes on when all are written.
AfterWrite(call, left) ==
  IF left # {} THEN [call EXCEPT !.tasks = left]
  ELSE IF call.kind = "checkOut" /\ call.pc = "write"
  THEN [call EXCEPT !.tasks = {}, !.pc = "check", !.names = {}]
  ELSE Idle

\* ... and writes it later.  Two writers of different contents may garble it,
\* and one whose file was removed meanwhile writes into nothing.
FillFile(c, u) ==
  LET value == Content(u, op[c].names) IN
  \E task \in op[c].tasks \cap {<<"fill", u>>, <<"lost", u>>} :
    LET left == op[c].tasks \ {task}
        kept == task[1] = "fill"
    IN
    /\ \E written \in IF ~kept THEN {under[u]}
                       ELSE IF under[u] \in {Empty, value} THEN {value}
                       ELSE {value, Garbled} :
         under' = [under EXCEPT ![u] = written]
    /\ known' = IF kept /\ u = "_packages" THEN op[c].names ELSE known
    /\ op' = [op EXCEPT ![c] = AfterWrite(@, left)]
    /\ UNCHANGED <<server, path, osc, plugin, pkgdirs, asking, overlap, torn>>

-----------------------------------------------------------------------------
(* checkOutProject(): one package after the other                          *)

\* After the underscore files and after each package, whose callback may throw:
\* cancelled, done, or on.
CheckCancelled(c) ==
  /\ op[c].pc = "check"
  /\ \/ /\ cancel[c]
        /\ op' = [op EXCEPT ![c] = [Idle EXCEPT !.kind = "checkOut", !.pc = "cleanup"]]
        /\ UNCHANGED disk /\ Same
     \/ ~cancel[c] /\ op[c].want = {} /\ Resolve(c, "true") /\ UNCHANGED disk /\ Same
     \/ /\ ~cancel[c]
        /\ \E n \in op[c].want :
             op' = [op EXCEPT ![c].pc = "fetch", ![c].pkg = n, ![c].got = NoDir,
                              ![c].tasks = {<<"list", n>>, <<"meta", n>>}]
        /\ UNCHANGED disk /\ Same
     \/ op[c].want # op[c].asked /\ Reject(c)

\* fetchPackage(): file list and meta are fetched concurrently.
Fetched(c, task, more, call) ==
  LET left == (op[c].tasks \ {task}) \cup more IN
  op' = [op EXCEPT ![c] = [call EXCEPT !.tasks = left,
                                       !.pc = IF left = {} THEN "place" ELSE "fetch"]]

FetchPackageMeta(c) ==
  LET n == op[c].pkg IN
  /\ op[c].pc = "fetch" /\ <<"meta", n>> \in op[c].tasks
  /\ \/ obs[n] > 0 /\ Fetched(c, <<"meta", n>>, {}, op[c]) /\ UNCHANGED disk /\ Same
     \/ Reject(c)

\* Faulty: the revision after the one that is listed is taken.
FetchNextFileList(c) ==
  LET n == op[c].pkg IN
  /\ op[c].pc = "fetch" /\ <<"list", n>> \in op[c].tasks
  /\ \/ /\ obs[n] > 0
        /\ Fetched(c, <<"list", n>>, {<<"file", f>> : f \in Files},
                   [op[c] EXCEPT !.rev = obs[n] + 1])
        /\ UNCHANGED disk /\ Same
     \/ Reject(c)
FetchFileList(c) ==
  LET n == op[c].pkg IN
  /\ op[c].pc = "fetch" /\ <<"list", n>> \in op[c].tasks
  /\ \/ /\ obs[n] > 0
        /\ Fetched(c, <<"list", n>>, {<<"file", f>> : f \in Files},
                   [op[c] EXCEPT !.rev = obs[n]])
        /\ UNCHANGED disk /\ Same
     \/ Reject(c)

\* Faulty: the file is fetched from HEAD.
FetchFromHead(c, f) ==
  /\ op[c].pc = "fetch" /\ <<"file", f>> \in op[c].tasks
  /\ \/ /\ obs[op[c].pkg] > 0
        /\ Fetched(c, <<"file", f>>, {},
                   [op[c] EXCEPT !.got[f] = obs[op[c].pkg]])
        /\ UNCHANGED disk /\ Same
     \/ Reject(c)
\* Each file is fetched at the revision of the file list, not from HEAD.
FetchFileContents(c, f) ==
  /\ op[c].pc = "fetch" /\ <<"file", f>> \in op[c].tasks
  /\ \/ /\ obs[op[c].pkg] > 0
        /\ Fetched(c, <<"file", f>>, {}, [op[c] EXCEPT !.got[f] = op[c].rev])
        /\ UNCHANGED disk /\ Same
     \/ Reject(c)

\* checkOutPackageToFs(): the directory of the package and its .osc ...
PlaceDir(c) ==
  LET n == op[c].pkg IN
  /\ op[c].pc = "place"
  /\ \/ /\ path /\ pkgdirs[n] = NoDir
        /\ pkgdirs' = [pkgdirs EXCEPT ![n] = NewDir]
        /\ Go(c, "fill")
        /\ UNCHANGED <<path, osc, plugin, under>> /\ Same
     \/ ~(path /\ pkgdirs[n] = NoDir) /\ Reject(c)

\* ... then its files, in both; a clean-up may take the directories away while
\* they are written.
PlaceFiles(c) ==
  LET n == op[c].pkg IN
  /\ op[c].pc = "fill"
  /\ \/ /\ pkgdirs[n] # NoDir
        /\ pkgdirs' = [pkgdirs EXCEPT ![n] = op[c].got]
        /\ op' = [op EXCEPT ![c].pc = "check", ![c].want = @ \ {n},
                            ![c].pkg = "none", ![c].rev = 0, ![c].got = NoDir]
        /\ UNCHANGED <<path, osc, plugin, under>> /\ Same
     \/ /\ pkgdirs[n] = NoDir \/ \E d \in Callers : <<"rmpkg", n>> \in op[d].tasks
        /\ Reject(c)

\* The callback, or anybody else who has the token, asks to cancel.
RequestCancellation(c) ==
  /\ op[c].kind = "checkOut" /\ ~cancel[c]
  /\ cancel' = [cancel EXCEPT ![c] = TRUE]
  /\ UNCHANGED <<server, disk, calls, op, history>>

\* cleanup(): rmRf() lists the directory, calls itself for what it has found
\* there, all at the same time, and waits for all of them.  (The directory is
\* there, because the .osc that this call has made is.)
AfterRemoval(call, left) ==
  IF left # {} THEN [call EXCEPT !.tasks = left]
  ELSE IF call.pc = "removing" THEN [call EXCEPT !.tasks = {}, !.pc = "rmdir"]
  ELSE Idle
Cleanup(c) ==
  LET found == {<<"readdir", d>> : d \in {h \in {".osc", ".osc_obs_ts"} : There(h)}}
               \cup {<<"empty", n>> : n \in {m \in Names : pkgdirs[m] # NoDir}} IN
  /\ op[c].pc = "cleanup"
  /\ op' = [op EXCEPT ![c] = AfterRemoval([@ EXCEPT !.pc = "removing"], found)]
  /\ torn' = (torn \/ \E d \in Callers \ {c} : AtWork(d))
  /\ UNCHANGED <<server, disk, asking, overlap, known>>

\* In .osc and in .osc_obs_ts it finds files, which it unlinks one by one ...
ListDir(c, d) ==
  /\ <<"readdir", d>> \in op[c].tasks
  /\ \/ /\ There(d)
        /\ op' = [op EXCEPT ![c].tasks = (@ \ {<<"readdir", d>>})
                    \cup {<<"unlink", u>> : u \in In(d)} \cup {<<"rmdir", d>>}]
        /\ UNCHANGED disk /\ Same
     \/ ~There(d) /\ Fail(c, {<<"readdir", d>>})

\* ... from under who has them open ...
Losing(call, u) ==
  [call EXCEPT !.tasks = {IF t = <<"fill", u>> THEN <<"lost", u>> ELSE t : t \in @}]
Unlink(c, u) ==
  /\ <<"unlink", u>> \in op[c].tasks
  /\ \/ /\ under[u] # Gone
        /\ under' = [under EXCEPT ![u] = Gone]
        /\ op' = [d \in Callers |->
                    IF d = c THEN AfterRemoval(op[c], op[c].tasks \ {<<"unlink", u>>})
                    ELSE Losing(op[d], u)]
        /\ UNCHANGED <<path, osc, plugin, pkgdirs>> /\ Same
     \/ under[u] = Gone /\ Fail(c, {<<"unlink", u>>, <<"rmdir", Home(u)>>})

\* ... before it removes the two, unless something has been put there meanwhile.
RemoveDot(c, d) ==
  /\ <<"rmdir", d>> \in op[c].tasks
  /\ \A u \in Underscore : Home(u) = d => <<"unlink", u>> \notin op[c].tasks
  /\ \/ /\ There(d) /\ In(d) = {}
        /\ osc' = (osc /\ d # ".osc") /\ plugin' = (plugin /\ d # ".osc_obs_ts")
        /\ op' = [op EXCEPT ![c] = AfterRemoval(@, @.tasks \ {<<"rmdir", d>>})]
        /\ UNCHANGED <<path, under, pkgdirs>> /\ Same
     \/ ~(There(d) /\ In(d) = {}) /\ Fail(c, {<<"rmdir", d>>})

\* The files of a package are taken away, then its directory.
EmptyPackage(c, n) ==
  /\ <<"empty", n>> \in op[c].tasks
  /\ \/ /\ pkgdirs[n] # NoDir
        /\ pkgdirs' = [pkgdirs EXCEPT ![n] = NewDir]
        /\ op' = [op EXCEPT ![c].tasks = (@ \ {<<"empty", n>>}) \cup {<<"rmpkg", n>>}]
        /\ UNCHANGED <<path, osc, plugin, under>> /\ Same
     \/ pkgdirs[n] = NoDir /\ Fail(c, {<<"empty", n>>})

RemovePackage(c, n) ==
  LET filling == \E d \in Callers : op[d].pc = "fill" /\ op[d].pkg = n IN
  /\ <<"rmpkg", n>> \in op[c].tasks
  /\ \/ /\ pkgdirs[n] = NewDir
        /\ pkgdirs' = [pkgdirs EXCEPT ![n] = NoDir]
        /\ op' = [op EXCEPT ![c] = AfterRemoval(@, @.tasks \ {<<"rmpkg", n>>})]
        /\ UNCHANGED <<path, osc, plugin, under>> /\ Same
     \/ (pkgdirs[n] # NewDir \/ filling) /\ Fail(c, {<<"rmpkg", n>>})

\* The directory itself goes last, unless something has been put into it meanwhile, ...
RemoveDir(c) ==
  /\ op[c].pc = "rmdir"
  /\ \/ /\ path /\ EmptyDir /\ path' = FALSE /\ Go(c, "remake")
        /\ UNCHANGED <<osc, plugin, under, pkgdirs>> /\ Same
     \/ ~(path /\ EmptyDir) /\ Reject(c)

\* Faulty: a directory that somebody else has made meanwhile is accepted.
RemakeDirRecursive(c) ==
  /\ op[c].pc = "remake"
  /\ path' = TRUE /\ Resolve(c, "false")
  /\ UNCHANGED <<osc, plugin, under, pkgdirs>> /\ Same
\* ... which is made anew, unless somebody else has made it.
RemakeDir(c) ==
  /\ op[c].pc = "remake"
  /\ \/ /\ ~path /\ path' = TRUE /\ Resolve(c, "false")
        /\ UNCHANGED <<osc, plugin, under, pkgdirs>> /\ Same
     \/ path /\ Reject(c)

-----------------------------------------------------------------------------
(* Projects that are checked out already                                   *)

\* What readInCheckedOutProject() insists on: the meta may be missing or
\* empty, but must parse.  (An empty _project is read without an error, as a
\* project without a name; it does not count as readable here.)
Readable ==
  /\ osc
  /\ \A u \in OscFiles : under[u].is = "written"
  /\ under["_project_meta.json"].is # "garbled"

\* readInAndUpdateCheckedoutProject() reads first ...
StartRefresh(c) ==
  /\ Readable
  /\ Start(c, [Idle EXCEPT !.kind = "refresh", !.pc = "fetchMeta",
                           !.stored = under["_packages"].names])

\* ... and so does updateCheckedOutProject(), which writes what it is given: a
\* project without packages or with some, without a meta or with one.
StartApply(c) ==
  /\ Readable
  /\ \E kind \in {"apply", "applyNoMeta"}, names \in SUBSET Names :
       Start(c, [Idle EXCEPT !.kind = kind, !.pc = "prepare", !.names = names])

-----------------------------------------------------------------------------
(* The other clients of the server, and the end of the process             *)

ChangeOnServer(n) ==
  /\ changes < MaxChanges
  /\ changes' = changes + 1
  /\ \E rev \in {0, changes + 2} : obs' = [obs EXCEPT ![n] = rev]
  /\ UNCHANGED <<disk, asking, op, history>>

Crash ==
  /\ Busy # {}
  /\ op' = [c \in Callers |-> Idle]
  /\ torn' = (torn \/ \E c \in Callers : Changing(c) \/ Sweeping(c))
  /\ UNCHANGED <<server, disk, asking, overlap, known>>

Step(c) ==
  \/ Stat(c) \/ MkDir(c) \/ ReadDir(c)
  \/ FetchProjectMeta(c) \/ FetchPackageList(c)
  \/ MakeOsc(c) \/ Prepare(c) \/ MakePlugin(c)
  \/ \E u \in Underscore : OpenFile(c, u) \/ FillFile(c, u)
  \/ CheckCancelled(c)
  \/ FetchPackageMeta(c) \/ FetchFileList(c)
  \/ \E f \in Files : FetchFileContents(c, f)
  \/ PlaceDir(c) \/ PlaceFiles(c)
  \/ Cleanup(c)
  \/ \E d \in {".osc", ".osc_obs_ts"} : ListDir(c, d) \/ RemoveDot(c, d)
  \/ \E u \in Underscore : Unlink(c, u)
  \/ \E n \in Names : EmptyPackage(c, n) \/ RemovePackage(c, n)
  \/ RemoveDir(c) \/ RemakeDir(c)

Next ==
  \/ \E c \in Callers :
       Step(c) \/ StartCheckOut(c) \/ StartRefresh(c) \/ StartApply(c)
       \/ RequestCancellation(c)
  \/ \E n \in Names : ChangeOnServer(n)
  \/ Crash

Spec == Init /\ [][Next]_vars

-----------------------------------------------------------------------------

TypeOK ==
  /\ obs \in [Names -> 0 .. MaxChanges + 1]
  /\ changes \in 0 .. MaxChanges
  /\ {path, osc, plugin, torn} \subseteq BOOLEAN
  /\ under \in [Underscore -> {Gone, Empty, Garbled}
                              \cup {Written(s) : s \in SUBSET Names}]
  /\ \A n \in Names : pkgdirs[n] \in {NewDir} \cup [Files -> 0 .. MaxChanges + 1]
  /\ calls \in 0 .. MaxCalls
  /\ cancel \in [Callers -> BOOLEAN]
  /\ overlap \subseteq Callers
  /\ known \subseteq Names
  /\ \A c \in Callers : op[c].names \subseteq Names /\ op[c].want \subseteq Names

Complete(n) == \E rev \in Revisions : pkgdirs[n] = [f \in Files |-> rev]

\* checkOutProject() resolves with true only when every package that it was to
\* check out is on disk with all its files, in a directory that is a project's.
\* Other check-outs of the same directory, cancelled ones that clean it up
\* and dead ones never make it believe so, unless one that cleans up was still
\* at it when this one made its .osc: that one may list a package's directory
\* late and empty what has been checked out anew.
SuccessIsComplete ==
  [][\A c \in Callers : op[c].pc = "check" /\ op'[c].pc = "true" /\ ~op[c].late
       => path /\ osc /\ \A n \in op[c].asked : Complete(n)]_vars

\* Whatever others commit while a package is fetched file by file, its files on
\* disk are all of the one revision whose file list was fetched.
PackagesAreSnapshots ==
  \A n \in Names : pkgdirs[n] \in {NoDir, NewDir} \/ Complete(n)

\* checkOutProject() resolves with false only when it leaves an empty directory
\* behind: cleanup() does not step on the project that somebody else checks
\* out into the directory while it is removed and made anew.
CancelledLeavesEmptyDir ==
  [][\A c \in Callers : op[c].pc # "false" /\ op'[c].pc = "false"
       => path' /\ EmptyDir']_vars

\* Between calls, a directory with an .osc is a project that can be read and
\* that names the packages written last, unless a write or a removal was cut
\* short or met another one.
SettledIsReadable ==
  Busy = {} /\ osc /\ ~torn => Readable /\ under["_packages"].names = known

\* readInAndUpdateCheckedoutProject() only forgets packages of a project that
\* has some, see its doc comment, when no other call is in progress: packages
\* that appeared on the server stay out of a partial check-out.
RefreshOnlyForgets ==
  [][\A c \in Callers \ overlap :
       op[c].kind = "refresh" /\ known # {} => known' \subseteq known]_vars

\* No call waits for what another one has left in its way: whatever is on disk,
\* it goes on or is rejected.
NobodyIsStuck == \A c \in Busy : ENABLED Step(c)

\* What project.ts:104-107 says of a project that was checked out partially:
\* _packages, from which `packages` is read, names only the packages that were
\* checked out.
PartialCheckOutIsRecorded ==
  [][\A c \in Callers \ overlap :
       op[c].pc = "check" /\ op'[c].pc = "true"
         => under["_packages"].names = op[c].asked]_vars
=============================================================================

------------------------- MODULE ProjectCheckoutProofs -------------------------
(***************************************************************************)
(* Theorems about ProjectCheckout, for any packages, files and callers,    *)
(* any number of calls and of changes on the server.                       *)
(***************************************************************************)
EXTENDS ProjectCheckout, TLAPS

-----------------------------------------------------------------------------
(* The inductive invariant, in parts.                                      *)

Places == {"idle", "true", "false", "stat", "mkdir", "readdir", "fetchMeta",
           "fetchList", "mkosc", "prepare", "mkplugin", "write", "check", "fetch",
           "place", "fill", "cleanup", "removing", "rmdir", "remake", "rejected"}
CallKinds == {"none", "checkOut", "refresh", "apply", "applyNoMeta"}
Dots == {".osc", ".osc_obs_ts"}
WriteTasks == {"open", "fill", "lost"} \X Underscore
RemoveTasks == ({"readdir", "rmdir"} \X Dots) \cup ({"unlink"} \X Underscore)
               \cup ({"empty", "rmpkg"} \X Names)
FetchTasks == ({"list", "meta"} \X Names) \cup ({"file"} \X Files)
Dirs == [Files -> 0 .. MaxChanges + 1]
CallTypes == [pc : Places, kind : CallKinds, all : BOOLEAN, asked : SUBSET Names,
              want : SUBSET Names, stored : SUBSET Names, names : SUBSET Names,
              tasks : SUBSET (WriteTasks \cup RemoveTasks \cup FetchTasks),
              pkg : Names \cup {"none"}, rev : 0 .. MaxChanges + 1, got : Dirs,
              late : BOOLEAN]
FileTypes == {Gone, Empty, Garbled} \cup {Written(s) : s \in SUBSET Names}

TypeInv ==
  /\ obs \in [Names -> 0 .. MaxChanges + 1]
  /\ changes \in 0 .. MaxChanges
  /\ path \in BOOLEAN /\ osc \in BOOLEAN /\ plugin \in BOOLEAN
  /\ under \in [Underscore -> FileTypes]
  /\ pkgdirs \in [Names -> {NewDir} \cup Dirs]
  /\ calls \in 0 .. MaxCalls
  /\ cancel \in [Callers -> BOOLEAN]
  /\ op \in [Callers -> CallTypes]
  /\ overlap \subseteq Callers
  /\ torn \in BOOLEAN
  /\ known \subseteq Names

\* A file list is fetched first, then the files at its revision.
GotFits(call) ==
  \/ /\ <<"list", call.pkg>> \in call.tasks
     /\ \A f \in Files : <<"file", f>> \notin call.tasks
  \/ /\ call.rev \in Revisions
     /\ \A f \in Files : <<"file", f>> \in call.tasks \/ call.got[f] = call.rev

\* Where a call may be, what it awaits there and which package it is about.
CallFits(call) ==
  /\ call.pc \in Ended \cup {"rejected"} <=> call.kind = "none"
  /\ call.kind = "refresh" =>
       call.pc \in {"fetchMeta", "fetchList", "prepare", "mkplugin", "write"}
  /\ call.kind \in {"apply", "applyNoMeta"} => call.pc \in {"prepare", "mkplugin", "write"}
  /\ call.pc = "write" => call.tasks \subseteq WriteTasks
  /\ call.pc = "removing" => call.tasks \subseteq RemoveTasks
  /\ call.pc = "rejected" => \/ call.tasks \subseteq WriteTasks
                             \/ call.tasks \subseteq RemoveTasks
  /\ call.pc = "fetch" =>
       /\ call.tasks \subseteq FetchTasks
       /\ \A n \in Names : <<"list", n>> \in call.tasks => n = call.pkg
  /\ call.pc \notin {"write", "removing", "rejected", "fetch"} => call.tasks = {}
  /\ call.pc = "mkosc" => call.asked = call.want
  /\ call.pc \in {"fetch", "place", "fill"} => call.pkg \in call.want /\ GotFits(call)

\* The check-out that has made .osc works on the directory until it cleans up,
\* and has .osc to itself until it has removed that.
IsOwner(call) ==
  /\ call.kind = "checkOut"
  /\ call.pc \in {"prepare", "mkplugin", "write", "check", "fetch", "place", "fill", "cleanup"}
Clears(call) == <<"readdir", ".osc">> \in call.tasks \/ <<"rmdir", ".osc">> \in call.tasks
ListsFirst(call) == <<"readdir", ".osc">> \notin call.tasks \/ <<"rmdir", ".osc">> \notin call.tasks
IsHolder(call) == IsOwner(call) \/ Clears(call)
OwnerIsAlone ==
  /\ \A c \in Callers : IsHolder(op[c]) => path /\ osc
  /\ \A c, d \in Callers : IsHolder(op[c]) /\ IsHolder(op[d]) => c = d
  /\ \A c \in Callers : ListsFirst(op[c])

\* What it has checked out already is there: nobody else takes anything away,
\* unless somebody was still at it when the owner came.
Sweeps(call) == \E t \in call.tasks : t[1] \in Removal
Checks(call) == IsOwner(call) /\ call.pc # "cleanup" /\ ~call.late
PlacedIsComplete ==
  \A c \in Callers : Checks(op[c]) =>
    /\ \A n \in op[c].asked \ op[c].want : Complete(n)
    /\ \A d \in Callers : ~Sweeps(op[d])

NothingWithoutPath == ~path => EmptyDir

\* Unless a write or a removal was cut short or met another one: there is one
\* that writes or removes, what it has opened is empty, and a file of .osc is
\* missing only while it is written or .osc is removed.
WorkPlaces == {"mkplugin", "write", "removing"}
Unfinished(call, u) ==
  \/ call.kind = "checkOut" /\ call.pc \in {"prepare", "mkplugin"}
  \/ call.kind = "checkOut" /\ <<"open", u>> \in call.tasks
  \/ <<"fill", u>> \in call.tasks
  \/ Clears(call)
WritersFit ==
  ~torn =>
    /\ \A c \in Callers : op[c].pc # "rejected"
    /\ \A c, d \in Callers : op[c].pc \in WorkPlaces /\ op[d].pc \in WorkPlaces => c = d
    /\ \A c \in Callers, u \in Underscore :
         <<"fill", u>> \in op[c].tasks => under[u] = Empty
    /\ \A u \in Underscore : under[u] # Garbled
    /\ \A c \in Callers, u \in Underscore :
         <<"unlink", u>> \in op[c].tasks => <<"rmdir", Home(u)>> \in op[c].tasks
    /\ osc => \A u \in OscFiles :
                under[u].is = "written" \/ \E c \in Callers : Unfinished(op[c], u)

KnownFits == under["_packages"].is = "written" => under["_packages"].names = known

\* Who is busy at the same time has met; a refresh that has not met anybody
\* has read what was written last.
AloneFits ==
  /\ \A c, d \in Busy : c # d => c \in overlap
  /\ \A c \in Callers \ overlap :
       op[c].kind = "refresh" =>
         /\ op[c].pc \in {"fetchMeta", "fetchList"} => op[c].stored = known
         /\ op[c].pc \in {"prepare", "mkplugin", "write"} /\ known # {} =>
              op[c].names \subseteq known

IInv == /\ TypeInv
        /\ \A c \in Callers : CallFits(op[c])
        /\ OwnerIsAlone
        /\ PlacedIsComplete
        /\ NothingWithoutPath
        /\ PackagesAreSnapshots
        /\ WritersFit
        /\ KnownFits
        /\ AloneFits

LEMMA IdleFits == /\ Idle \in CallTypes
                  /\ \A result \in Ended : /\ [Idle EXCEPT !.pc = result] \in CallTypes
                                           /\ CallFits([Idle EXCEPT !.pc = result])
                  /\ CallFits(Idle)
PROOF
  <1>1. NoDir \in Dirs
    BY ProjectAssumption DEF NoDir, Dirs
  <1>2. Idle \in CallTypes
    BY <1>1, ProjectAssumption DEF Idle, CallTypes, Places, CallKinds
  <1>3. ASSUME NEW result \in Ended
        PROVE  /\ [Idle EXCEPT !.pc = result] \in CallTypes
               /\ CallFits([Idle EXCEPT !.pc = result])
    <2>1. [Idle EXCEPT !.pc = result] \in CallTypes
      BY <1>2, <1>3 DEF Idle, CallTypes, Places, Ended
    <2>2. CallFits([Idle EXCEPT !.pc = result])
      BY <1>3 DEF CallFits, Idle, Ended
    <2> QED BY <2>1, <2>2
  <1>4. CallFits(Idle)
    BY DEF CallFits, Idle, Ended
  <1> QED BY <1>2, <1>3, <1>4

\* What is known of the fields of a call that has not begun.
LEMMA IdleFields ==
  /\ Idle \in CallTypes
  /\ Idle.tasks = {} /\ Idle.kind = "none" /\ Idle.pc = "idle"
  /\ ~IsHolder(Idle) /\ ~IsOwner(Idle) /\ ~Checks(Idle) /\ ~Sweeps(Idle)
  /\ ListsFirst(Idle)
BY IdleFits DEF Idle, IsHolder, IsOwner, Checks, Clears, Sweeps, ListsFirst

LEMMA UnderscoreTypes ==
  /\ "_packages" \in OscFiles /\ OscFiles \subseteq Underscore
  /\ "_project_meta.json" \in Underscore \ OscFiles
  /\ \A u \in Underscore : u \in OscFiles \/ u = "_project_meta.json"
  /\ \A u \in Underscore : /\ Home(u) \in Dots
                           /\ Home(u) = ".osc" <=> u \in OscFiles
  /\ Gone \in FileTypes /\ Empty \in FileTypes /\ Garbled \in FileTypes
  /\ \A s \in SUBSET Names : Written(s) \in FileTypes
  /\ Gone.is = "gone" /\ Empty.is = "empty" /\ Garbled.is = "garbled"
  /\ \A s : Written(s).is = "written" /\ Written(s).names = s
BY ProjectAssumption
   DEF OscFiles, Underscore, Home, Dots, FileTypes, Gone, Empty, Garbled, Written

LEMMA TaskTypes ==
  /\ \A u \in Underscore, k \in {"open", "fill", "lost"} :
       <<k, u>> \in WriteTasks /\ <<k, u>> \notin RemoveTasks \cup FetchTasks
  /\ \A u \in Underscore :
       <<"unlink", u>> \in RemoveTasks /\ <<"unlink", u>> \notin WriteTasks \cup FetchTasks
  /\ \A d \in Dots, k \in {"readdir", "rmdir"} :
       <<k, d>> \in RemoveTasks /\ <<k, d>> \notin WriteTasks \cup FetchTasks
  /\ \A n \in Names, k \in {"empty", "rmpkg"} :
       <<k, n>> \in RemoveTasks /\ <<k, n>> \notin WriteTasks \cup FetchTasks
  /\ \A t \in WriteTasks \cup FetchTasks : t[1] \notin Removal
  /\ \A t \in RemoveTasks : t[1] \in Removal
  /\ ".osc" \in Dots /\ ".osc_obs_ts" \in Dots
BY DEF WriteTasks, RemoveTasks, FetchTasks, Removal, Dots

\* What a call awaits, by where it is.
LEMMA Awaits ==
  ASSUME NEW call \in CallTypes, CallFits(call)
  PROVE  /\ IsOwner(call) => ~Sweeps(call) /\ ~Clears(call)
         /\ ~Clears(call) => ListsFirst(call)
         /\ \A u \in Underscore, k \in {"open", "fill", "lost"} :
              <<k, u>> \in call.tasks =>
                call.pc \in {"write", "rejected"} /\ call.tasks \subseteq WriteTasks
         /\ \A t \in RemoveTasks :
              t \in call.tasks =>
                call.pc \in {"removing", "rejected"} /\ call.tasks \subseteq RemoveTasks
         /\ Clears(call) => Sweeps(call) /\ call.pc \in {"removing", "rejected"}
         /\ Sweeps(call) => call.pc \in {"removing", "rejected"}
PROOF
  <1>1. /\ call.pc \in {"write", "removing", "rejected", "fetch"} \/ call.tasks = {}
        /\ call.pc = "write" => call.tasks \subseteq WriteTasks
        /\ call.pc = "removing" => call.tasks \subseteq RemoveTasks
        /\ call.pc = "fetch" => call.tasks \subseteq FetchTasks
        /\ call.pc = "rejected" => \/ call.tasks \subseteq WriteTasks
                                   \/ call.tasks \subseteq RemoveTasks
    BY DEF CallFits
  <1>2. WriteTasks \cap RemoveTasks = {} /\ WriteTasks \cap FetchTasks = {}
        /\ RemoveTasks \cap FetchTasks = {}
    BY DEF WriteTasks, RemoveTasks, FetchTasks
  <1>3. \A u \in Underscore, k \in {"open", "fill", "lost"} :
          <<k, u>> \in call.tasks =>
            call.pc \in {"write", "rejected"} /\ call.tasks \subseteq WriteTasks
    BY <1>1, <1>2, TaskTypes
  <1>4. \A t \in RemoveTasks :
          t \in call.tasks =>
            call.pc \in {"removing", "rejected"} /\ call.tasks \subseteq RemoveTasks
    BY <1>1, <1>2
  <1>5. Sweeps(call) => call.pc \in {"removing", "rejected"}
    BY <1>1, TaskTypes DEF Sweeps
  <1>6. Clears(call) => Sweeps(call)
    BY DEF Clears, Sweeps, Removal
  <1>7. IsOwner(call) => call.pc \notin {"removing", "rejected"}
    BY DEF IsOwner
  <1>8. ~Clears(call) => ListsFirst(call)
    BY DEF Clears, ListsFirst
  <1> QED BY <1>3, <1>4, <1>5, <1>6, <1>7, <1>8

LEMMA InitHolds == Init => IInv
PROOF
  <1> SUFFICES ASSUME Init PROVE IInv
    OBVIOUS
  <1>1. known \subseteq Names /\ (~path => known = {})
    BY DEF Init
  <1>2. \A u \in Underscore : IF path THEN /\ under[u].is = "written"
                                           /\ under[u] \in FileTypes
                                      ELSE under[u] = Gone
    BY <1>1, UnderscoreTypes DEF Init, Content
  <1>3. under["_packages"].is = "written" => under["_packages"].names = known
    BY UnderscoreTypes DEF Init, Content
  <1>4. TypeInv
    <2>1. NoDir \in Dirs /\ [f \in Files |-> 1] \in Dirs
      BY ProjectAssumption DEF NoDir, Dirs
    <2>2. op \in [Callers -> CallTypes]
      BY IdleFits DEF Init
    <2>3. under \in [Underscore -> FileTypes]
      BY <1>1, UnderscoreTypes DEF Init, Content
    <2>4. obs \in [Names -> 0 .. MaxChanges + 1] /\ pkgdirs \in [Names -> {NewDir} \cup Dirs]
      BY <2>1, ProjectAssumption DEF Init
    <2>5. changes \in 0 .. MaxChanges /\ calls \in 0 .. MaxCalls
      BY ProjectAssumption DEF Init
    <2>6. cancel \in [Callers -> BOOLEAN] /\ overlap \subseteq Callers
      BY DEF Init
    <2>7. {path, osc, plugin, torn} \subseteq BOOLEAN
      BY DEF Init
    <2> QED BY <1>1, <2>2, <2>3, <2>4, <2>5, <2>6, <2>7 DEF TypeInv
  <1>5. \A c \in Callers : op[c] = Idle
    BY DEF Init
  <1>6. \A c \in Callers : CallFits(op[c])
    BY <1>5, IdleFits
  <1>7. OwnerIsAlone /\ PlacedIsComplete
    BY <1>5, IdleFields DEF OwnerIsAlone, PlacedIsComplete
  <1>8. NothingWithoutPath
    BY <1>1 DEF Init, NothingWithoutPath, EmptyDir
  <1>9. PackagesAreSnapshots
    <2>1. 1 \in Revisions
      BY ProjectAssumption DEF Revisions
    <2> QED BY <2>1 DEF Init, PackagesAreSnapshots, Complete
  <1>10. WritersFit
    <2>1. \A u \in Underscore : under[u] # Garbled
      BY <1>2, UnderscoreTypes
    <2>2. osc => \A u \in OscFiles : under[u].is = "written"
      BY <1>2, UnderscoreTypes DEF Init
    <2> QED BY <1>5, <2>1, <2>2, IdleFields DEF WritersFit, WorkPlaces
  <1>11. KnownFits
    BY <1>3 DEF KnownFits
  <1>12. AloneFits
    BY <1>5, IdleFields DEF AloneFits, Busy, Ended
  <1> QED BY <1>4, <1>6, <1>7, <1>8, <1>9, <1>10, <1>11, <1>12 DEF IInv

-----------------------------------------------------------------------------
(* A step of one call that leaves the files alone: it may make the         *)
(* directory and .osc_obs_ts, and remove the directory with nothing in it. *)

\* What a call must still do is not dropped.
Proceeds(c, call) ==
  /\ call.pc # "rejected"
  /\ call.pc \in WorkPlaces => \A d \in Callers \ {c} : op[d].pc \notin WorkPlaces
  /\ \A u \in Underscore : /\ <<"fill", u>> \in call.tasks => <<"fill", u>> \in op[c].tasks
                           /\ <<"unlink", u>> \in call.tasks =>
                                <<"rmdir", Home(u)>> \in call.tasks
  /\ osc' => \A u \in OscFiles : Unfinished(op[c], u) => Unfinished(call, u)

LEMMA WritersProceed ==
  ASSUME IInv, NEW c \in Callers, NEW call \in CallTypes,
         op' = [op EXCEPT ![c] = call],
         UNCHANGED under, osc' => osc, torn => torn',
         ~torn' => Proceeds(c, call)
  PROVE  WritersFit'
PROOF
  <1> USE DEF IInv
  <1> SUFFICES ASSUME ~torn'
               PROVE  WritersFit'
    BY DEF WritersFit
  <1>1. op'[c] = call /\ \A d \in Callers \ {c} : op'[d] = op[d]
    BY DEF TypeInv
  <1>2. ~torn /\ Proceeds(c, call)
    OBVIOUS
  <1>3. \A d \in Callers : op'[d].pc # "rejected"
    BY <1>1, <1>2 DEF WritersFit, Proceeds
  <1>4. \A d, e \in Callers : op'[d].pc \in WorkPlaces /\ op'[e].pc \in WorkPlaces => d = e
    BY <1>1, <1>2 DEF WritersFit, Proceeds
  <1>5. \A d \in Callers, u \in Underscore :
          <<"fill", u>> \in op'[d].tasks => under'[u] = Empty
    BY <1>1, <1>2 DEF WritersFit, Proceeds
  <1>6. \A d \in Callers, u \in Underscore :
          <<"unlink", u>> \in op'[d].tasks => <<"rmdir", Home(u)>> \in op'[d].tasks
    BY <1>1, <1>2 DEF WritersFit, Proceeds
  <1>7. ASSUME osc', NEW u \in OscFiles
        PROVE  under'[u].is = "written" \/ \E d \in Callers : Unfinished(op'[d], u)
    BY <1>1, <1>2, <1>7 DEF WritersFit, Proceeds
  <1> QED BY <1>2, <1>3, <1>4, <1>5, <1>6, <1>7 DEF WritersFit

\* Whoever is alone stays so: _packages is as it was.
LEMMA AloneStays ==
  ASSUME IInv, NEW c \in Callers, NEW call \in CallTypes,
         op[c].pc \notin Ended,
         op' = [op EXCEPT ![c] = call],
         UNCHANGED <<overlap, known>>,
         call.kind = "refresh" =>
           /\ op[c].kind = "refresh"
           /\ call.pc \in {"fetchMeta", "fetchList"} =>
                op[c].pc \in {"fetchMeta", "fetchList"} /\ call.stored = op[c].stored
           /\ c \notin overlap /\ call.pc \in {"prepare", "mkplugin", "write"} /\ known # {} =>
                call.names \subseteq known
  PROVE  AloneFits'
PROOF
  <1>1. op'[c] = call /\ \A d \in Callers \ {c} : op'[d] = op[d]
    BY DEF IInv, TypeInv
  <1>2. AloneFits
    BY DEF IInv
  <1>3. Busy' \subseteq Busy
    BY <1>1 DEF Busy
  <1>4. \A d, e \in Busy' : d # e => d \in overlap'
    BY <1>2, <1>3 DEF AloneFits
  <1>5. ASSUME NEW d \in Callers \ overlap', op'[d].kind = "refresh"
        PROVE  /\ op'[d].pc \in {"fetchMeta", "fetchList"} => op'[d].stored = known'
               /\ op'[d].pc \in {"prepare", "mkplugin", "write"} /\ known' # {} =>
                    op'[d].names \subseteq known'
    BY <1>1, <1>2, <1>5 DEF AloneFits
  <1> QED BY <1>4, <1>5 DEF AloneFits

LEMMA QuietMove ==
  ASSUME IInv, NEW c \in Callers, NEW call \in CallTypes,
         op[c].pc \notin Ended,
         op' = [op EXCEPT ![c] = call],
         UNCHANGED <<server, under, pkgdirs, asking, overlap, known>>,
         path' \in BOOLEAN, plugin' \in BOOLEAN, NothingWithoutPath',
         osc' = osc \/ (osc' = FALSE /\ IsHolder(op[c]) /\ ~IsHolder(call)),
         torn' \in BOOLEAN, torn => torn',
         CallFits(call),
         IsHolder(call) => IsHolder(op[c]),
         ListsFirst(call),
         Checks(call) =>
           /\ Checks(op[c])
           /\ call.asked = op[c].asked
           /\ call.want = op[c].want,
         Sweeps(call) => Sweeps(op[c]) \/ IsOwner(op[c]),
         ~torn' => Proceeds(c, call),
         call.kind = "refresh" =>
           /\ op[c].kind = "refresh"
           /\ call.pc \in {"fetchMeta", "fetchList"} =>
                op[c].pc \in {"fetchMeta", "fetchList"} /\ call.stored = op[c].stored
           /\ c \notin overlap /\ call.pc \in {"prepare", "mkplugin", "write"} /\ known # {} =>
                call.names \subseteq known
  PROVE  IInv'
PROOF
  <1>7. WritersFit'
    <2>1. UNCHANGED under /\ (osc' => osc)
      OBVIOUS
    <2> QED BY <2>1, WritersProceed
  <1>8. AloneFits'
    BY AloneStays
  <1> USE DEF IInv
  <1>1. /\ op' \in [Callers -> CallTypes]
        /\ op'[c] = call
        /\ \A d \in Callers \ {c} : op'[d] = op[d]
    BY DEF TypeInv
  <1>2. TypeInv'
    BY <1>1 DEF TypeInv, server, asking
  <1>3. \A d \in Callers : CallFits(op'[d])
    BY <1>1
  <1>4. OwnerIsAlone'
    <2>1. \A d \in Callers : IsHolder(op'[d]) => IsHolder(op[d])
      BY <1>1
    <2>2. osc' => path'
      BY DEF NothingWithoutPath, EmptyDir
    <2>3. \A d \in Callers : IsHolder(op'[d]) => osc'
      BY <1>1, <2>1 DEF OwnerIsAlone
    <2>4. \A d \in Callers : ListsFirst(op'[d])
      BY <1>1 DEF OwnerIsAlone
    <2> QED BY <2>1, <2>2, <2>3, <2>4 DEF OwnerIsAlone
  <1>5. PlacedIsComplete'
    <2> SUFFICES ASSUME NEW d \in Callers, Checks(op'[d])
                 PROVE  /\ \A n \in op'[d].asked \ op'[d].want : Complete(n)'
                        /\ \A e \in Callers : ~Sweeps(op'[e])
      BY DEF PlacedIsComplete
    <2>1. /\ Checks(op[d])
          /\ op'[d].asked = op[d].asked /\ op'[d].want = op[d].want
      BY <1>1
    <2>2. /\ \A n \in op[d].asked \ op[d].want : Complete(n)
          /\ \A e \in Callers : ~Sweeps(op[e])
      BY <2>1 DEF PlacedIsComplete
    <2>3. \A n \in op'[d].asked \ op'[d].want : Complete(n)'
      BY <2>1, <2>2 DEF Complete
    <2>4. ~Sweeps(call)
      <3>1. CASE d = c
        BY <1>1, <3>1, Awaits DEF Checks
      <3>2. CASE d # c
        BY <2>1, <2>2, <3>2 DEF OwnerIsAlone, IsHolder, Checks
      <3> QED BY <3>1, <3>2
    <2> QED BY <1>1, <2>2, <2>3, <2>4
  <1>6. PackagesAreSnapshots' /\ KnownFits'
    BY DEF PackagesAreSnapshots, KnownFits, Complete
  <1> QED BY <1>2, <1>3, <1>4, <1>5, <1>6, <1>7, <1>8

\* A call that neither writes nor removes before or after the step.
LEMMA Proceeding ==
  ASSUME IInv, NEW c \in Callers, NEW call \in CallTypes, CallFits(call),
         op[c].pc \notin {"prepare", "write", "removing", "mkplugin"},
         call.pc \notin {"write", "removing", "mkplugin", "rejected"},
         ~torn
  PROVE  Proceeds(c, call)
PROOF
  <1>1. op[c] \in CallTypes /\ CallFits(op[c]) /\ op[c].pc # "rejected"
    BY DEF IInv, TypeInv, WritersFit
  <1>2. \A u \in Underscore : <<"fill", u>> \notin call.tasks /\ <<"unlink", u>> \notin call.tasks
    BY Awaits, TaskTypes
  <1>3. ASSUME NEW u \in OscFiles PROVE ~Unfinished(op[c], u)
    <2>1. u \in Underscore
      BY UnderscoreTypes
    <2>2. ~Clears(op[c])
      BY <1>1, Awaits
    <2> QED BY <1>1, <2>1, <2>2, Awaits DEF Unfinished
  <1> QED BY <1>2, <1>3 DEF Proceeds, WorkPlaces

LEMMA RejectHolds ==
  ASSUME IInv, NEW c \in Callers, op[c].pc \notin Ended \cup {"rejected"}, Reject(c)
  PROVE  IInv'
PROOF
  <1>1. /\ op' = [op EXCEPT ![c] = Idle]
        /\ UNCHANGED <<server, path, osc, plugin, under, pkgdirs, asking, overlap, known>>
    BY DEF Reject, disk
  <1>2. torn' = (torn \/ op[c].pc \in {"prepare", "mkplugin", "write", "removing"})
    BY DEF Reject, Changing, AtWork
  <1>3. NothingWithoutPath' /\ path' \in BOOLEAN /\ plugin' \in BOOLEAN /\ torn' \in BOOLEAN
    BY <1>1, <1>2 DEF IInv, TypeInv, NothingWithoutPath, EmptyDir
  <1>4. ~torn' => Proceeds(c, Idle)
    BY <1>2, IdleFits, IdleFields, Proceeding
  <1> QED BY <1>1, <1>2, <1>3, <1>4, IdleFits, IdleFields, QuietMove

\* One of several writes or removals fails: the others go on.
LEMMA FailHolds ==
  ASSUME IInv, NEW c \in Callers, op[c].pc \in {"write", "removing", "rejected"},
         NEW tasks, Fail(c, tasks)
  PROVE  IInv'
PROOF
  <1> DEFINE left == op[c].tasks \ tasks
             call == Rest(op[c], left)
  <1>1. op[c] \in CallTypes /\ CallFits(op[c])
    BY DEF IInv, TypeInv
  <1>2. /\ op' = [op EXCEPT ![c] = call] /\ torn' = TRUE
        /\ UNCHANGED <<server, path, osc, plugin, under, pkgdirs, asking, overlap, known>>
    BY DEF Fail, disk, IInv, TypeInv
  <1>3. NothingWithoutPath' /\ path' \in BOOLEAN /\ plugin' \in BOOLEAN
    BY <1>2 DEF IInv, TypeInv, NothingWithoutPath, EmptyDir
  <1>4. left \subseteq op[c].tasks /\ (left \subseteq WriteTasks \/ left \subseteq RemoveTasks)
    BY <1>1 DEF CallFits
  <1> HIDE DEF left
  <1>5. /\ call \in CallTypes /\ call.pc \in {"idle", "rejected"} /\ call.kind = "none"
        /\ call.tasks = left /\ (call.pc = "idle" => left = {})
    <2>1. CASE left = {}
      BY <2>1, IdleFields DEF Rest
    <2>2. CASE left # {}
      <3>1. call = [Idle EXCEPT !.pc = "rejected", !.names = op[c].names, !.tasks = left]
        BY <2>2 DEF Rest
      <3>2. op[c].names \in SUBSET Names
            /\ left \in SUBSET (WriteTasks \cup RemoveTasks \cup FetchTasks)
        BY <1>1, <1>4 DEF CallTypes
      <3>3. /\ call \in CallTypes /\ call.pc = "rejected"
            /\ call.kind = Idle.kind /\ call.tasks = left
        BY <3>1, <3>2, IdleFields DEF CallTypes, Places
      <3> QED BY <3>3, IdleFields
    <2> QED BY <2>1, <2>2
  <1> HIDE DEF call
  <1>6. CallFits(call)
    BY <1>4, <1>5 DEF CallFits, Ended
  <1>7. ~Checks(call) /\ (IsHolder(call) => IsHolder(op[c])) /\ (Sweeps(call) => Sweeps(op[c]))
    BY <1>4, <1>5 DEF IsOwner, Checks, IsHolder, Clears, Sweeps
  <1>9. ListsFirst(call)
    BY <1>4, <1>5 DEF IInv, OwnerIsAlone, ListsFirst
  <1>8. op[c].pc \notin Ended
    BY DEF Ended
  <1> QED BY <1>2, <1>3, <1>5, <1>6, <1>7, <1>8, <1>9, QuietMove

\* Going on without having asked for, written or placed anything.
LEMMA GoHolds ==
  ASSUME IInv, NEW c \in Callers,
         op[c].pc \in {"stat", "mkdir", "readdir", "fetchMeta", "rmdir"},
         NEW pc \in {"mkdir", "readdir", "fetchMeta", "fetchList", "remake"},
         Go(c, pc), UNCHANGED <<osc, plugin, under, pkgdirs>>, Same,
         path' = path \/ path' = TRUE \/ (path' = FALSE /\ EmptyDir),
         op[c].kind = "refresh" => op[c].pc = "fetchMeta" /\ pc = "fetchList"
  PROVE  IInv'
PROOF
  <1> DEFINE call == [op[c] EXCEPT !.pc = pc]
  <1>1. op[c] \in CallTypes /\ CallFits(op[c])
    BY DEF IInv, TypeInv
  <1>2. /\ call \in CallTypes
        /\ call.pc = pc
        /\ call.kind = op[c].kind
        /\ call.asked = op[c].asked /\ call.want = op[c].want
        /\ call.stored = op[c].stored /\ call.tasks = op[c].tasks
    BY <1>1 DEF CallTypes, Places
  <1>3. op' = [op EXCEPT ![c] = call]
    BY DEF Go, IInv, TypeInv
  <1> HIDE DEF call
  <1>4. CallFits(call) /\ call.tasks = {}
    BY <1>1, <1>2 DEF CallFits, Ended
  <1>5. ~Checks(call) /\ ~IsHolder(call) /\ ~Sweeps(call) /\ ListsFirst(call)
    BY <1>2, <1>4 DEF IsOwner, Checks, IsHolder, Clears, Sweeps, ListsFirst
  <1>6. torn' = torn /\ UNCHANGED <<server, asking, overlap, known>>
    BY DEF Same, history
  <1>7. path' \in BOOLEAN /\ plugin' \in BOOLEAN /\ torn' \in BOOLEAN /\ NothingWithoutPath'
    BY <1>6 DEF IInv, TypeInv, NothingWithoutPath, EmptyDir
  <1>8. ~torn' => Proceeds(c, call)
    BY <1>2, <1>4, <1>6, Proceeding
  <1>9. op[c].pc \notin Ended
    BY DEF Ended
  <1> QED BY <1>2, <1>3, <1>4, <1>5, <1>6, <1>7, <1>8, <1>9, QuietMove

LEMMA StatHolds == ASSUME IInv, NEW c \in Callers, Stat(c) PROVE IInv'
PROOF
  <1>1. op[c].pc = "stat" /\ CallFits(op[c])
    BY DEF Stat, IInv
  <1>2. op[c].kind \notin {"refresh", "apply", "applyNoMeta"}
    BY <1>1 DEF CallFits
  <1>3. PICK pc \in {"readdir", "mkdir"} : Go(c, pc)
    BY DEF Stat
  <1>4. UNCHANGED disk /\ Same
    BY DEF Stat
  <1> QED BY <1>1, <1>2, <1>3, <1>4, GoHolds DEF Ended, disk

LEMMA ReadDirHolds == ASSUME IInv, NEW c \in Callers, ReadDir(c) PROVE IInv'
PROOF
  <1>1. op[c].pc = "readdir" /\ CallFits(op[c])
    BY DEF ReadDir, IInv
  <1>2. op[c].kind \notin {"refresh", "apply", "applyNoMeta"}
    BY <1>1 DEF CallFits
  <1>3. \/ Go(c, "fetchMeta") /\ UNCHANGED disk /\ Same
        \/ Reject(c)
    BY DEF ReadDir
  <1> QED BY <1>1, <1>2, <1>3, GoHolds, RejectHolds DEF Ended, disk

LEMMA FetchProjectMetaHolds ==
  ASSUME IInv, NEW c \in Callers, FetchProjectMeta(c) PROVE IInv'
PROOF
  <1>1. op[c].pc = "fetchMeta" /\ CallFits(op[c])
    BY DEF FetchProjectMeta, IInv
  <1>2. op[c].kind \notin {"apply", "applyNoMeta"}
    BY <1>1 DEF CallFits
  <1>3. \/ Go(c, "fetchList") /\ UNCHANGED disk /\ Same
        \/ Reject(c)
    BY DEF FetchProjectMeta
  <1> QED BY <1>1, <1>2, <1>3, GoHolds, RejectHolds DEF Ended, disk

\* The same for a call that is neither writing nor removing.
LEMMA CalmMove ==
  ASSUME IInv, NEW c \in Callers, NEW call \in CallTypes, CallFits(call),
         op[c].pc \notin Ended \cup {"prepare", "mkplugin", "write", "removing", "rejected"},
         call.pc \notin {"write", "removing", "mkplugin", "rejected"},
         op' = [op EXCEPT ![c] = call],
         UNCHANGED <<osc, plugin, under, pkgdirs>>, Same,
         path' = path \/ path' = TRUE \/ (path' = FALSE /\ EmptyDir),
         IsOwner(call) => IsOwner(op[c]),
         Checks(call) =>
           /\ Checks(op[c])
           /\ call.asked = op[c].asked
           /\ call.want = op[c].want,
         call.kind = "refresh" =>
           /\ op[c].kind = "refresh"
           /\ call.pc \in {"fetchMeta", "fetchList"} =>
                op[c].pc \in {"fetchMeta", "fetchList"} /\ call.stored = op[c].stored
           /\ c \notin overlap /\ call.pc \in {"prepare", "mkplugin", "write"} /\ known # {} =>
                call.names \subseteq known
  PROVE  IInv'
PROOF
  <1>1. torn' = torn /\ UNCHANGED <<server, asking, overlap, known>>
    BY DEF Same, history
  <1>2. path' \in BOOLEAN /\ plugin' \in BOOLEAN /\ torn' \in BOOLEAN /\ NothingWithoutPath'
    BY <1>1 DEF IInv, TypeInv, NothingWithoutPath, EmptyDir
  <1>3. ~torn' => Proceeds(c, call)
    BY <1>1, Proceeding
  <1>4. ~Sweeps(call) /\ ~Clears(call) /\ ListsFirst(call)
    BY Awaits
  <1> QED BY <1>1, <1>2, <1>3, <1>4, QuietMove DEF IsHolder

LEMMA FetchPackageListHolds ==
  ASSUME IInv, NEW c \in Callers, FetchPackageList(c) PROVE IInv'
PROOF
  <1>1. op[c].pc = "fetchList" /\ CallFits(op[c]) /\ op[c] \in CallTypes
    BY DEF FetchPackageList, IInv, TypeInv
  <1>2. op[c].kind \in {"checkOut", "refresh"}
    BY <1>1 DEF CallFits, Ended, CallTypes, CallKinds
  <1>3. CASE Reject(c)
    BY <1>1, <1>3, RejectHolds DEF Ended
  <1>4. CASE /\ op[c].want \subseteq Listing
             /\ op' = [op EXCEPT ![c] = Listed(op[c])]
             /\ UNCHANGED disk /\ Same
    <2> DEFINE call == Listed(op[c])
    <2>1. op' = [op EXCEPT ![c] = call]
      BY <1>4
    <2>2. Listing \subseteq Names
      BY DEF Listing
    <2>3. CASE op[c].kind = "checkOut"
      <3>1. /\ call \in CallTypes
            /\ call.pc = "mkosc" /\ call.kind = "checkOut" /\ call.asked = call.want
            /\ call.tasks = op[c].tasks
        BY <1>1, <2>2, <2>3 DEF Listed, CallTypes, Places
      <3> HIDE DEF call
      <3>2. CallFits(call) /\ ~IsOwner(call) /\ ~Checks(call)
        BY <1>1, <3>1 DEF CallFits, IsOwner, Checks, Ended
      <3> QED BY <1>1, <1>4, <2>1, <3>1, <3>2, CalmMove DEF Ended, disk
    <2>4. CASE op[c].kind = "refresh"
      <3>1. call = [op[c] EXCEPT !.pc = "prepare", !.stored = {},
                                 !.names = IF op[c].stored = {} THEN Listing
                                           ELSE op[c].stored \cap Listing]
        BY <2>4 DEF Listed
      <3> HIDE DEF call
      <3>2. /\ call \in CallTypes
            /\ call.pc = "prepare" /\ call.kind = "refresh"
            /\ call.tasks = op[c].tasks
            /\ op[c].stored # {} => call.names \subseteq op[c].stored
        BY <1>1, <2>2, <2>4, <3>1 DEF CallTypes, Places
      <3>3. CallFits(call) /\ ~IsOwner(call) /\ ~Checks(call)
        BY <1>1, <3>2 DEF CallFits, IsOwner, Checks, Ended
      <3>4. c \notin overlap /\ known # {} => call.names \subseteq known
        BY <1>1, <2>4, <3>2 DEF IInv, AloneFits
      <3> QED BY <1>1, <1>4, <2>1, <2>4, <3>2, <3>3, <3>4, CalmMove DEF Ended, disk
    <2> QED BY <1>2, <2>3, <2>4
  <1> QED BY <1>3, <1>4 DEF FetchPackageList

-----------------------------------------------------------------------------
(* The directory: made, made a project's, removed, made anew.              *)

LEMMA MkDirHolds == ASSUME IInv, NEW c \in Callers, MkDir(c) PROVE IInv'
PROOF
  <1>1. op[c].pc = "mkdir" /\ CallFits(op[c])
    BY DEF MkDir, IInv
  <1>2. op[c].kind \notin {"refresh", "apply", "applyNoMeta"}
    BY <1>1 DEF CallFits
  <1>3. \/ /\ path' = TRUE /\ Go(c, "fetchMeta")
           /\ UNCHANGED <<osc, plugin, under, pkgdirs>> /\ Same
        \/ Reject(c)
    BY DEF MkDir
  <1> QED BY <1>1, <1>2, <1>3, GoHolds, RejectHolds DEF Ended

LEMMA MakeOscHolds == ASSUME IInv, NEW c \in Callers, MakeOsc(c) PROVE IInv'
PROOF
  <1> USE DEF IInv
  <1>1. op[c].pc = "mkosc" /\ CallFits(op[c]) /\ op[c] \in CallTypes
    BY DEF MakeOsc, TypeInv
  <1>2. CASE Reject(c)
    BY <1>1, <1>2, RejectHolds DEF Ended
  <1>3. CASE /\ path /\ ~osc /\ osc' = TRUE /\ op' = [op EXCEPT ![c] = HavingOsc(@)]
             /\ UNCHANGED <<path, plugin, under, pkgdirs>> /\ Same
    <2> DEFINE late == \E d \in Callers : Sweeping(d)
               call == [op[c] EXCEPT !.pc = "prepare", !.late = late]
    <2>1. op[c].kind = "checkOut" /\ op[c].tasks = {} /\ op[c].asked = op[c].want
      BY <1>1 DEF CallFits, Ended, CallTypes, CallKinds
    <2>a. late \in BOOLEAN /\ (~late => \A d \in Callers : ~Sweeps(op[d]))
      BY DEF Sweeping, Sweeps
    <2>b. op' = [op EXCEPT ![c] = call]
      BY <1>3 DEF HavingOsc, TypeInv
    <2> HIDE DEF late
    <2>2. /\ call \in CallTypes
          /\ call.pc = "prepare" /\ call.kind = "checkOut" /\ call.late = late
          /\ call.tasks = {} /\ call.asked = call.want
      BY <1>1, <2>1, <2>a DEF CallTypes, Places
    <2>3. /\ op' \in [Callers -> CallTypes]
          /\ op'[c] = call
          /\ \A d \in Callers \ {c} : op'[d] = op[d]
      BY <2>b, <2>2 DEF TypeInv
    <2> HIDE DEF call
    <2>c. ~Sweeps(call) /\ ~Clears(call)
      BY <2>2 DEF Sweeps, Clears
    <2>4. UNCHANGED <<obs, changes, calls, cancel, overlap, torn, known>>
      BY <1>3 DEF Same, server, asking, history
    <2>5. TypeInv'
      BY <1>3, <2>3, <2>4 DEF TypeInv
    <2>6. \A d \in Callers : CallFits(op'[d])
      BY <2>2, <2>3 DEF CallFits, Ended
    <2>7. OwnerIsAlone' /\ PlacedIsComplete'
      <3>1. \A d \in Callers : ~IsHolder(op[d])
        BY <1>3 DEF OwnerIsAlone
      <3>2. \A d \in Callers : IsHolder(op'[d]) => d = c
        BY <2>3, <3>1
      <3>3. ~call.late => \A d \in Callers : ~Sweeps(op'[d])
        BY <2>a, <2>c, <2>2, <2>3
      <3>4. \A d \in Callers : ListsFirst(op'[d])
        BY <2>c, <2>3 DEF OwnerIsAlone, ListsFirst, Clears
      <3> QED BY <1>3, <2>2, <2>3, <3>2, <3>3, <3>4
              DEF OwnerIsAlone, PlacedIsComplete, IsHolder, Checks
    <2>8. NothingWithoutPath' /\ PackagesAreSnapshots' /\ KnownFits'
      BY <1>3, <2>4 DEF NothingWithoutPath, PackagesAreSnapshots, KnownFits, Complete
    <2>9. WritersFit'
      <3>1. \A u \in OscFiles : Unfinished(op'[c], u)
        BY <2>2, <2>3 DEF Unfinished
      <3>2. \A d \in Callers : op'[d].pc \in WorkPlaces => d # c
        BY <2>2, <2>3 DEF WorkPlaces
      <3>3. \A d \in Callers \ {c} : op'[d] = op[d]
        BY <2>3
      <3> QED BY <1>3, <2>2, <2>3, <2>4, <3>1, <3>2, <3>3 DEF WritersFit
    <2>10. AloneFits'
      <3>1. Busy' \subseteq Busy
        BY <1>1, <2>3 DEF Busy, Ended
      <3> QED BY <2>2, <2>3, <2>4, <3>1 DEF AloneFits
    <2> QED BY <2>5, <2>6, <2>7, <2>8, <2>9, <2>10
  <1> QED BY <1>2, <1>3 DEF MakeOsc

LEMMA RemoveDirHolds == ASSUME IInv, NEW c \in Callers, RemoveDir(c) PROVE IInv'
PROOF
  <1>1. op[c].pc = "rmdir" /\ CallFits(op[c])
    BY DEF RemoveDir, IInv
  <1>2. op[c].kind \notin {"refresh", "apply", "applyNoMeta"}
    BY <1>1 DEF CallFits
  <1>3. \/ /\ EmptyDir /\ path' = FALSE /\ Go(c, "remake")
           /\ UNCHANGED <<osc, plugin, under, pkgdirs>> /\ Same
        \/ Reject(c)
    BY DEF RemoveDir
  <1> QED BY <1>1, <1>2, <1>3, GoHolds, RejectHolds DEF Ended

LEMMA ResolveHolds ==
  ASSUME IInv, NEW c \in Callers, op[c].pc \in {"check", "remake"},
         NEW result \in Ended, Resolve(c, result), Same,
         UNCHANGED <<osc, plugin, under, pkgdirs>>,
         path' = path \/ path' = TRUE \/ (path' = FALSE /\ EmptyDir)
  PROVE  IInv'
PROOF
  <1> DEFINE call == [Idle EXCEPT !.pc = result]
  <1>1. call \in CallTypes /\ CallFits(call)
    BY IdleFits
  <1>2. call.pc = result /\ call.kind = "none"
    BY DEF Idle
  <1>3. op' = [op EXCEPT ![c] = call]
    BY DEF Resolve
  <1> HIDE DEF call
  <1>4. ~IsOwner(call) /\ ~Checks(call)
    BY <1>2 DEF IsOwner, Checks
  <1> QED BY <1>1, <1>2, <1>3, <1>4, CalmMove DEF Ended

LEMMA RemakeDirHolds == ASSUME IInv, NEW c \in Callers, RemakeDir(c) PROVE IInv'
PROOF
  <1>1. op[c].pc = "remake"
    BY DEF RemakeDir
  <1>2. \/ /\ path' = TRUE /\ Resolve(c, "false")
           /\ UNCHANGED <<osc, plugin, under, pkgdirs>> /\ Same
        \/ Reject(c)
    BY DEF RemakeDir
  <1>3. "false" \in Ended /\ "remake" \notin Ended
    BY DEF Ended
  <1> QED BY <1>1, <1>2, <1>3, ResolveHolds, RejectHolds

-----------------------------------------------------------------------------
(* One package after the other.                                            *)

LEMMA CheckCancelledHolds ==
  ASSUME IInv, NEW c \in Callers, CheckCancelled(c) PROVE IInv'
PROOF
  <1>1. op[c].pc = "check" /\ CallFits(op[c]) /\ op[c] \in CallTypes
    BY DEF CheckCancelled, IInv, TypeInv
  <1>2. op[c].kind = "checkOut" /\ IsOwner(op[c])
    BY <1>1 DEF CallFits, CallTypes, CallKinds, Ended, IsOwner
  <1>3. CASE Reject(c)
    BY <1>1, <1>3, RejectHolds DEF Ended
  <1>4. CASE /\ op' = [op EXCEPT ![c] = [Idle EXCEPT !.kind = "checkOut", !.pc = "cleanup"]]
             /\ UNCHANGED disk /\ Same
    <2> DEFINE call == [Idle EXCEPT !.kind = "checkOut", !.pc = "cleanup"]
    <2>1. /\ call \in CallTypes /\ call.pc = "cleanup" /\ call.kind = "checkOut"
          /\ call.tasks = {}
      BY IdleFields DEF CallTypes, Places, CallKinds
    <2>2. op' = [op EXCEPT ![c] = call]
      BY <1>4
    <2> HIDE DEF call
    <2>3. CallFits(call) /\ ~Checks(call)
      BY <2>1 DEF CallFits, Ended, Checks
    <2> QED BY <1>1, <1>2, <1>4, <2>1, <2>2, <2>3, CalmMove DEF Ended, disk
  <1>5. CASE Resolve(c, "true") /\ UNCHANGED disk /\ Same
    <2>1. "true" \in Ended
      BY DEF Ended
    <2> QED BY <1>1, <1>5, <2>1, ResolveHolds DEF disk
  <1>6. ASSUME NEW n \in op[c].want, UNCHANGED disk, Same,
               op' = [op EXCEPT ![c].pc = "fetch", ![c].pkg = n, ![c].got = NoDir,
                                ![c].tasks = {<<"list", n>>, <<"meta", n>>}]
        PROVE  IInv'
    <2> DEFINE call == [op[c] EXCEPT !.pc = "fetch", !.pkg = n, !.got = NoDir,
                                     !.tasks = {<<"list", n>>, <<"meta", n>>}]
    <2>1. n \in Names /\ NoDir \in Dirs
      BY <1>1, <1>6, ProjectAssumption DEF CallTypes, NoDir, Dirs
    <2>2. {<<"list", n>>, <<"meta", n>>} \subseteq FetchTasks
      BY <2>1 DEF FetchTasks
    <2>3. op' = [op EXCEPT ![c] = call]
      BY <1>6 DEF IInv, TypeInv
    <2>4. /\ call \in CallTypes
          /\ call.pc = "fetch" /\ call.kind = "checkOut" /\ call.pkg = n
          /\ call.tasks = {<<"list", n>>, <<"meta", n>>}
          /\ call.asked = op[c].asked /\ call.want = op[c].want /\ call.late = op[c].late
      BY <1>1, <1>2, <2>1, <2>2 DEF CallTypes, Places
    <2> HIDE DEF call
    <2>5. GotFits(call)
      BY <2>4 DEF GotFits
    <2>6. CallFits(call)
      BY <1>6, <2>2, <2>4, <2>5 DEF CallFits, Ended
    <2>7. Checks(call) => Checks(op[c])
      BY <1>1, <1>2, <2>4 DEF Checks
    <2> QED BY <1>1, <1>2, <1>6, <2>3, <2>4, <2>6, <2>7, CalmMove DEF Ended, disk
  <1> QED BY <1>3, <1>4, <1>5, <1>6 DEF CheckCancelled

\* A task of fetchPackage() is done: what is left of the call fits.
LEMMA FetchedHolds ==
  ASSUME IInv, NEW c \in Callers, op[c].pc = "fetch", UNCHANGED disk, Same,
         NEW call \in CallTypes, NEW task, NEW more \in SUBSET FetchTasks,
         Fetched(c, task, more, call),
         call.kind = op[c].kind, call.pkg = op[c].pkg,
         call.asked = op[c].asked, call.want = op[c].want, call.late = op[c].late,
         \A n \in Names : <<"list", n>> \notin more,
         LET left == (op[c].tasks \ {task}) \cup more IN
           \/ /\ <<"list", op[c].pkg>> \in left
              /\ \A f \in Files : <<"file", f>> \notin left
           \/ /\ call.rev \in Revisions
              /\ \A f \in Files : <<"file", f>> \in left \/ call.got[f] = call.rev
  PROVE  IInv'
PROOF
  <1> DEFINE left == (op[c].tasks \ {task}) \cup more
             next == [call EXCEPT !.tasks = left,
                                  !.pc = IF left = {} THEN "place" ELSE "fetch"]
  <1>1. CallFits(op[c]) /\ op[c] \in CallTypes
    BY DEF IInv, TypeInv
  <1>2. op[c].kind = "checkOut" /\ IsOwner(op[c])
    BY <1>1 DEF CallFits, CallTypes, CallKinds, Ended, IsOwner
  <1>3. /\ left \subseteq FetchTasks
        /\ \A n \in Names : <<"list", n>> \in left => n = op[c].pkg
        /\ op[c].pkg \in op[c].want
    BY <1>1 DEF CallFits
  <1>4. /\ next \in CallTypes
        /\ next.pc \in {"place", "fetch"} /\ (next.pc = "place" => left = {})
        /\ next.kind = "checkOut" /\ next.pkg = op[c].pkg /\ next.tasks = left
        /\ next.asked = op[c].asked /\ next.want = op[c].want /\ next.late = op[c].late
        /\ next.rev = call.rev /\ next.got = call.got
    BY <1>2, <1>3 DEF CallTypes, Places
  <1>5. op' = [op EXCEPT ![c] = next]
    BY DEF Fetched
  <1>6. \/ /\ <<"list", op[c].pkg>> \in left
           /\ \A f \in Files : <<"file", f>> \notin left
        \/ /\ call.rev \in Revisions
           /\ \A f \in Files : <<"file", f>> \in left \/ call.got[f] = call.rev
    OBVIOUS
  <1> HIDE DEF left, next
  <1>7. GotFits(next)
    BY <1>4, <1>6 DEF GotFits
  <1>8. CallFits(next)
    BY <1>3, <1>4, <1>7 DEF CallFits, Ended
  <1>9. Checks(next) => Checks(op[c])
    BY <1>2, <1>4 DEF Checks
  <1> QED BY <1>2, <1>4, <1>5, <1>8, <1>9, CalmMove DEF Ended, disk

LEMMA FetchPackageMetaHolds ==
  ASSUME IInv, NEW c \in Callers, FetchPackageMeta(c) PROVE IInv'
PROOF
  <1>1. op[c].pc = "fetch" /\ CallFits(op[c]) /\ op[c] \in CallTypes
    BY DEF FetchPackageMeta, IInv, TypeInv
  <1>2. CASE Reject(c)
    BY <1>1, <1>2, RejectHolds DEF Ended
  <1>3. CASE Fetched(c, <<"meta", op[c].pkg>>, {}, op[c]) /\ UNCHANGED disk /\ Same
    <2> DEFINE left == (op[c].tasks \ {<<"meta", op[c].pkg>>}) \cup {}
    <2>1. /\ <<"list", op[c].pkg>> \in left <=> <<"list", op[c].pkg>> \in op[c].tasks
          /\ \A f \in Files : <<"file", f>> \in left <=> <<"file", f>> \in op[c].tasks
      OBVIOUS
    <2>2. GotFits(op[c])
      BY <1>1 DEF CallFits
    <2>3. \/ /\ <<"list", op[c].pkg>> \in left
             /\ \A f \in Files : <<"file", f>> \notin left
          \/ /\ op[c].rev \in Revisions
             /\ \A f \in Files : <<"file", f>> \in left \/ op[c].got[f] = op[c].rev
      BY <2>1, <2>2 DEF GotFits
    <2> QED BY <1>1, <1>3, <2>3, FetchedHolds
  <1> QED BY <1>2, <1>3 DEF FetchPackageMeta

LEMMA FetchFileListHolds ==
  ASSUME IInv, NEW c \in Callers, FetchFileList(c) PROVE IInv'
PROOF
  <1>1. op[c].pc = "fetch" /\ CallFits(op[c]) /\ op[c] \in CallTypes
    BY DEF FetchFileList, IInv, TypeInv
  <1>2. CASE Reject(c)
    BY <1>1, <1>2, RejectHolds DEF Ended
  <1> DEFINE n == op[c].pkg
             more == {<<"file", f>> : f \in Files}
             call == [op[c] EXCEPT !.rev = obs[n]]
  <1>3. CASE /\ obs[n] > 0
             /\ Fetched(c, <<"list", n>>, more, call)
             /\ UNCHANGED disk /\ Same
    <2>1. n \in op[c].want /\ op[c].want \subseteq Names
      BY <1>1 DEF CallFits, CallTypes
    <2>2. obs[n] \in 0 .. MaxChanges + 1 /\ obs[n] \in Revisions
      BY <1>3, <2>1, ProjectAssumption DEF IInv, TypeInv, Revisions
    <2>3. /\ call \in CallTypes
          /\ call.kind = op[c].kind /\ call.pkg = n
          /\ call.asked = op[c].asked /\ call.want = op[c].want /\ call.late = op[c].late
          /\ call.rev = obs[n]
      BY <1>1, <2>2 DEF CallTypes
    <2>4. more \in SUBSET FetchTasks /\ \A m \in Names : <<"list", m>> \notin more
      BY DEF FetchTasks
    <2>5. \A f \in Files : <<"file", f>> \in (op[c].tasks \ {<<"list", n>>}) \cup more
      OBVIOUS
    <2> HIDE DEF call, more
    <2> QED BY <1>1, <1>3, <2>2, <2>3, <2>4, <2>5, FetchedHolds
  <1> QED BY <1>2, <1>3 DEF FetchFileList

LEMMA FetchFileContentsHolds ==
  ASSUME IInv, NEW c \in Callers, NEW f \in Files, FetchFileContents(c, f) PROVE IInv'
PROOF
  <1>1. /\ op[c].pc = "fetch" /\ <<"file", f>> \in op[c].tasks
        /\ CallFits(op[c]) /\ op[c] \in CallTypes
    BY DEF FetchFileContents, IInv, TypeInv
  <1>2. CASE Reject(c)
    BY <1>1, <1>2, RejectHolds DEF Ended
  <1> DEFINE call == [op[c] EXCEPT !.got[f] = op[c].rev]
             left == (op[c].tasks \ {<<"file", f>>}) \cup {}
  <1>3. CASE Fetched(c, <<"file", f>>, {}, call) /\ UNCHANGED disk /\ Same
    <2>1. GotFits(op[c])
      BY <1>1 DEF CallFits
    <2>2. /\ op[c].rev \in Revisions
          /\ \A g \in Files : <<"file", g>> \in op[c].tasks \/ op[c].got[g] = op[c].rev
      BY <1>1, <2>1 DEF GotFits
    <2>3. op[c].got \in Dirs /\ op[c].rev \in 0 .. MaxChanges + 1
      BY <1>1 DEF CallTypes
    <2>4. [op[c].got EXCEPT ![f] = op[c].rev] \in Dirs
      BY <2>3 DEF Dirs
    <2>5. /\ call \in CallTypes
          /\ call.kind = op[c].kind /\ call.pkg = op[c].pkg
          /\ call.asked = op[c].asked /\ call.want = op[c].want /\ call.late = op[c].late
          /\ call.rev = op[c].rev /\ call.got = [op[c].got EXCEPT ![f] = op[c].rev]
      BY <1>1, <2>4 DEF CallTypes
    <2> HIDE DEF call
    <2>6. \A g \in Files : <<"file", g>> \in left \/ call.got[g] = call.rev
      BY <2>2, <2>3, <2>5 DEF Dirs
    <2>7. \A m \in Names : <<"list", m>> \notin {}
      OBVIOUS
    <2>8. {} \in SUBSET FetchTasks /\ Fetched(c, <<"file", f>>, {}, call) /\ Same /\ UNCHANGED disk
      BY <1>3 DEF call
    <2>9. \/ /\ <<"list", op[c].pkg>> \in left
             /\ \A g \in Files : <<"file", g>> \notin left
          \/ /\ call.rev \in Revisions
             /\ \A g \in Files : <<"file", g>> \in left \/ call.got[g] = call.rev
      BY <2>2, <2>5, <2>6
    <2> QED BY <1>1, <2>5, <2>7, <2>8, <2>9, FetchedHolds
  <1> QED BY <1>2, <1>3 DEF FetchFileContents

-----------------------------------------------------------------------------
(* The directories of the packages: written and taken away.                *)

\* The files are all there and all of one revision.
OfOneRevision(dir) == \E rev \in Revisions : dir = [f \in Files |-> rev]

\* The owner alone writes directories of packages, of those it still has to
\* do, and who takes them away does so when nobody counts on them.
LEMMA PackageWrite ==
  ASSUME IInv, NEW c \in Callers, op[c].pc \notin Ended,
         NEW n \in Names, NEW dir \in {NewDir} \cup Dirs,
         dir \in {NoDir, NewDir} \/ OfOneRevision(dir),
         dir = NoDir \/ path,
         pkgdirs' = [pkgdirs EXCEPT ![n] = dir],
         NEW call \in CallTypes, op' = [op EXCEPT ![c] = call],
         UNCHANGED <<path, osc, plugin, under>>, Same,
         CallFits(call), call.kind # "refresh", ListsFirst(call),
         IsHolder(call) => IsHolder(op[c]),
         Sweeps(call) => Sweeps(op[c]),
         IsOwner(op[c]) \/ Sweeps(op[c]),
         Checks(call) =>
           /\ Checks(op[c])
           /\ call.asked = op[c].asked
           /\ op[c].want \ {n} \subseteq call.want
           /\ n \in call.want \/ OfOneRevision(dir),
         ~torn => Proceeds(c, call)
  PROVE  IInv'
PROOF
  <1>1. UNCHANGED <<obs, changes, calls, cancel, overlap, torn, known>>
    BY DEF Same, server, asking, history
  <1>2. WritersFit'
    <2>1. UNCHANGED under /\ (osc' => osc) /\ (torn => torn') /\ (~torn' => Proceeds(c, call))
      BY <1>1
    <2> QED BY <2>1, WritersProceed
  <1>3. AloneFits'
    BY <1>1, AloneStays
  <1> USE DEF IInv
  <1>4. /\ op' \in [Callers -> CallTypes]
        /\ op'[c] = call
        /\ \A d \in Callers \ {c} : op'[d] = op[d]
    BY DEF TypeInv
  <1>5. /\ pkgdirs' \in [Names -> {NewDir} \cup Dirs]
        /\ pkgdirs'[n] = dir
        /\ \A m \in Names \ {n} : pkgdirs'[m] = pkgdirs[m]
    BY DEF TypeInv
  <1>6. TypeInv'
    BY <1>1, <1>4, <1>5 DEF TypeInv
  <1>7. \A d \in Callers : CallFits(op'[d])
    BY <1>4
  <1>8. OwnerIsAlone'
    BY <1>4 DEF OwnerIsAlone
  <1>9. \A m \in Names : m # n /\ Complete(m) => Complete(m)'
    BY <1>5 DEF Complete
  <1>10. OfOneRevision(dir) => Complete(n)'
    BY <1>5 DEF Complete, OfOneRevision
  <1>11. PlacedIsComplete'
    <2> SUFFICES ASSUME NEW d \in Callers, Checks(op'[d])
                 PROVE  /\ \A m \in op'[d].asked \ op'[d].want : Complete(m)'
                        /\ \A e \in Callers : ~Sweeps(op'[e])
      BY DEF PlacedIsComplete
    <2>1. Checks(op[d])
      BY <1>4
    <2>2. /\ \A m \in op[d].asked \ op[d].want : Complete(m)
          /\ \A e \in Callers : ~Sweeps(op[e])
      BY <2>1 DEF PlacedIsComplete
    <2>3. IsOwner(op[c]) /\ IsOwner(op[d])
      BY <2>1, <2>2 DEF Checks
    <2>4. d = c
      BY <2>3 DEF OwnerIsAlone, IsHolder
    <2>5. op'[d].asked \subseteq Names
      BY <1>4 DEF CallTypes
    <2>6. \A m \in op'[d].asked \ op'[d].want : Complete(m)'
      BY <1>4, <1>9, <1>10, <2>2, <2>4, <2>5
    <2> QED BY <1>4, <2>2, <2>6
  <1>12. NothingWithoutPath' /\ KnownFits'
    <2>1. ~path => \A m \in Names : pkgdirs'[m] = NoDir
      BY <1>5 DEF NothingWithoutPath, EmptyDir
    <2> QED BY <1>1, <2>1 DEF NothingWithoutPath, EmptyDir, KnownFits
  <1>13. PackagesAreSnapshots'
    <2>1. ASSUME NEW m \in Names
          PROVE  pkgdirs'[m] \in {NoDir, NewDir} \/ Complete(m)'
      <3>1. CASE m = n
        BY <1>5, <1>10, <3>1
      <3>2. CASE m # n
        BY <1>5, <1>9, <3>2 DEF PackagesAreSnapshots
      <3> QED BY <3>1, <3>2
    <2> QED BY <2>1 DEF PackagesAreSnapshots
  <1> QED BY <1>2, <1>3, <1>6, <1>7, <1>8, <1>11, <1>12, <1>13

LEMMA PlaceDirHolds == ASSUME IInv, NEW c \in Callers, PlaceDir(c) PROVE IInv'
PROOF
  <1>1. op[c].pc = "place" /\ CallFits(op[c]) /\ op[c] \in CallTypes
    BY DEF PlaceDir, IInv, TypeInv
  <1>2. /\ op[c].kind = "checkOut" /\ IsOwner(op[c])
        /\ op[c].pkg \in op[c].want /\ op[c].pkg \in Names
    BY <1>1 DEF CallFits, CallTypes, CallKinds, Ended, IsOwner
  <1>3. CASE Reject(c)
    BY <1>1, <1>3, RejectHolds DEF Ended
  <1>4. CASE /\ path
             /\ pkgdirs' = [pkgdirs EXCEPT ![op[c].pkg] = NewDir]
             /\ Go(c, "fill")
             /\ UNCHANGED <<path, osc, plugin, under>> /\ Same
    <2> DEFINE call == [op[c] EXCEPT !.pc = "fill"]
    <2>1. op' = [op EXCEPT ![c] = call]
      BY <1>4 DEF Go, IInv, TypeInv
    <2>2. /\ call \in CallTypes
          /\ call.pc = "fill" /\ call.kind = "checkOut" /\ call.tasks = op[c].tasks
          /\ call.pkg = op[c].pkg /\ call.rev = op[c].rev /\ call.got = op[c].got
          /\ call.asked = op[c].asked /\ call.want = op[c].want /\ call.late = op[c].late
      BY <1>1, <1>2 DEF CallTypes, Places
    <2> HIDE DEF call
    <2>3. CallFits(call)
      BY <1>1, <1>2, <2>2 DEF CallFits, GotFits, Ended
    <2>4. ~Sweeps(call) /\ ListsFirst(call) /\ ~Clears(call)
      BY <2>2, <2>3, Awaits
    <2>5. Checks(call) => Checks(op[c])
      BY <1>1, <1>2, <2>2 DEF Checks
    <2>6. ~torn => Proceeds(c, call)
      BY <1>1, <2>2, <2>3, Proceeding
    <2>7. op[c].pc \notin Ended
      BY <1>1 DEF Ended
    <2> QED BY <1>2, <1>4, <2>1, <2>2, <2>3, <2>4, <2>5, <2>6, <2>7, PackageWrite DEF IsHolder
  <1> QED BY <1>3, <1>4 DEF PlaceDir

LEMMA PlaceFilesHolds == ASSUME IInv, NEW c \in Callers, PlaceFiles(c) PROVE IInv'
PROOF
  <1>1. op[c].pc = "fill" /\ CallFits(op[c]) /\ op[c] \in CallTypes
    BY DEF PlaceFiles, IInv, TypeInv
  <1>2. /\ op[c].kind = "checkOut" /\ IsOwner(op[c]) /\ op[c].pkg \in op[c].want
        /\ GotFits(op[c]) /\ op[c].tasks = {} /\ op[c].pkg \in Names
    BY <1>1 DEF CallFits, CallTypes, CallKinds, Ended, IsOwner
  <1>3. CASE Reject(c)
    BY <1>1, <1>3, RejectHolds DEF Ended
  <1> DEFINE n == op[c].pkg
             call == [op[c] EXCEPT !.pc = "check", !.want = @ \ {n},
                                   !.pkg = "none", !.rev = 0, !.got = NoDir]
  <1>4. CASE /\ pkgdirs' = [pkgdirs EXCEPT ![n] = op[c].got]
             /\ op' = [op EXCEPT ![c].pc = "check", ![c].want = @ \ {n},
                                 ![c].pkg = "none", ![c].rev = 0, ![c].got = NoDir]
             /\ UNCHANGED <<path, osc, plugin, under>> /\ Same
    <2>1. op' = [op EXCEPT ![c] = call]
      BY <1>4 DEF IInv, TypeInv
    <2>2. NoDir \in Dirs
      BY ProjectAssumption DEF NoDir, Dirs
    <2>3. /\ call \in CallTypes
          /\ call.pc = "check" /\ call.kind = "checkOut" /\ call.tasks = {}
          /\ call.asked = op[c].asked /\ call.want = op[c].want \ {n}
          /\ call.late = op[c].late
      <3>1. 0 \in 0 .. MaxChanges + 1 /\ op[c].want \ {n} \in SUBSET Names
        BY <1>1, ProjectAssumption DEF CallTypes
      <3> QED BY <1>1, <1>2, <2>2, <3>1 DEF CallTypes, Places
    <2>4. op[c].got \in Dirs
      BY <1>1 DEF CallTypes
    <2>5. OfOneRevision(op[c].got)
      BY <1>2, <2>4 DEF GotFits, Dirs, OfOneRevision
    <2>6. path
      BY <1>2 DEF IInv, OwnerIsAlone, IsHolder
    <2> HIDE DEF call
    <2>7. CallFits(call)
      BY <2>3 DEF CallFits, Ended
    <2>8. ~Sweeps(call) /\ ListsFirst(call) /\ ~Clears(call)
      BY <2>3, <2>7, Awaits
    <2>9. Checks(call) => Checks(op[c])
      BY <1>1, <1>2, <2>3 DEF Checks
    <2>10. ~torn => Proceeds(c, call)
      BY <1>1, <2>3, <2>7, Proceeding
    <2>11. /\ n \in op[c].want /\ n \in Names
           /\ pkgdirs' = [pkgdirs EXCEPT ![n] = op[c].got]
           /\ UNCHANGED <<path, osc, plugin, under>> /\ Same
           /\ op[c].pc \notin Ended
      BY <1>1, <1>2, <1>4 DEF Ended
    <2> HIDE DEF n
    <2> QED BY <1>2, <2>1, <2>3, <2>4, <2>5, <2>6, <2>7, <2>8, <2>9, <2>10, <2>11,
               PackageWrite DEF IsHolder
  <1> QED BY <1>3, <1>4 DEF PlaceFiles

-----------------------------------------------------------------------------
(* Cleaning up: what is left of a removal.                                 *)

LEMMA RemovalLeaves ==
  ASSUME NEW old \in CallTypes, NEW left \in SUBSET RemoveTasks,
         \/ old.pc = "removing" /\ old.kind = "checkOut"
         \/ old.pc = "rejected" /\ old.kind = "none",
         NEW call, call = AfterRemoval(old, left)
  PROVE  /\ call \in CallTypes /\ CallFits(call)
         /\ call.tasks = left /\ call.kind # "refresh"
         /\ ~IsOwner(call) /\ ~Checks(call)
         /\ call.pc \in {old.pc, "rmdir", "idle"}
         /\ old.pc = "removing" => call.pc \in {"removing", "rmdir"}
PROOF
  <1>1. CASE left # {}
    <2>1. call = [old EXCEPT !.tasks = left]
      BY <1>1 DEF AfterRemoval
    <2>2. left \in SUBSET (WriteTasks \cup RemoveTasks \cup FetchTasks)
      OBVIOUS
    <2>3. /\ call \in CallTypes /\ call.tasks = left
          /\ call.pc = old.pc /\ call.kind = old.kind
      BY <2>1, <2>2 DEF CallTypes
    <2>4. CallFits(call)
      BY <2>3 DEF CallFits, Ended
    <2> QED BY <2>3, <2>4 DEF IsOwner, Checks
  <1>2. CASE left = {} /\ old.pc = "removing"
    <2>1. call = [old EXCEPT !.tasks = {}, !.pc = "rmdir"]
      BY <1>2 DEF AfterRemoval
    <2>2. /\ call \in CallTypes /\ call.tasks = {}
          /\ call.pc = "rmdir" /\ call.kind = old.kind
      BY <2>1 DEF CallTypes, Places
    <2>3. CallFits(call)
      BY <1>2, <2>2 DEF CallFits, Ended
    <2> QED BY <1>2, <2>2, <2>3 DEF IsOwner, Checks
  <1>3. CASE left = {} /\ old.pc # "removing"
    <2>1. call = Idle
      BY <1>3 DEF AfterRemoval
    <2> QED BY <1>3, <2>1, IdleFields, IdleFits
  <1> QED BY <1>1, <1>2, <1>3

\* Who has something to remove is removing, alone unless something was torn.
LEMMA RemoverIsRemoving ==
  ASSUME IInv, NEW c \in Callers, NEW t \in RemoveTasks, t \in op[c].tasks
  PROVE  /\ op[c] \in CallTypes /\ CallFits(op[c]) /\ op[c].tasks \subseteq RemoveTasks
         /\ \/ op[c].pc = "removing" /\ op[c].kind = "checkOut"
            \/ op[c].pc = "rejected" /\ op[c].kind = "none"
         /\ ~IsOwner(op[c]) /\ Sweeps(op[c]) /\ op[c].pc \notin Ended
         /\ ~torn => op[c].pc = "removing"
PROOF
  <1>1. op[c] \in CallTypes /\ CallFits(op[c])
    BY DEF IInv, TypeInv
  <1>2. op[c].tasks \subseteq RemoveTasks /\ op[c].pc \in {"removing", "rejected"}
    BY <1>1, Awaits
  <1>3. \/ op[c].pc = "removing" /\ op[c].kind = "checkOut"
        \/ op[c].pc = "rejected" /\ op[c].kind = "none"
    BY <1>1, <1>2 DEF CallFits, CallTypes, CallKinds, Ended
  <1>4. Sweeps(op[c])
    BY TaskTypes DEF Sweeps
  <1>5. ~IsOwner(op[c]) /\ op[c].pc \notin Ended
    BY <1>2 DEF IsOwner, Ended
  <1>6. ~torn => op[c].pc = "removing"
    BY <1>2 DEF IInv, WritersFit
  <1> QED BY <1>1, <1>2, <1>3, <1>4, <1>5, <1>6

LEMMA RemoverProceeds ==
  ASSUME IInv, NEW c \in Callers, op[c].pc = "removing", ~torn,
         NEW call \in CallTypes, CallFits(call), call.pc \in {"removing", "rmdir"},
         \A u \in Underscore : <<"unlink", u>> \in call.tasks =>
                                 <<"rmdir", Home(u)>> \in call.tasks,
         osc' /\ Clears(op[c]) => Clears(call)
  PROVE  Proceeds(c, call)
PROOF
  <1>1. op[c] \in CallTypes /\ CallFits(op[c])
    BY DEF IInv, TypeInv
  <1>2. \A d \in Callers \ {c} : op[d].pc \notin WorkPlaces
    BY DEF IInv, WritersFit, WorkPlaces
  <1>3. \A u \in Underscore : <<"fill", u>> \notin call.tasks
    BY Awaits
  <1>4. \A u \in OscFiles : Unfinished(op[c], u) => Clears(op[c])
    BY <1>1, Awaits, UnderscoreTypes DEF Unfinished
  <1>5. \A u \in OscFiles : Clears(call) => Unfinished(call, u)
    BY DEF Unfinished
  <1> QED BY <1>2, <1>3, <1>4, <1>5 DEF Proceeds

LEMMA CleanupHolds == ASSUME IInv, NEW c \in Callers, Cleanup(c) PROVE IInv'
PROOF
  <1>1. op[c].pc = "cleanup" /\ CallFits(op[c]) /\ op[c] \in CallTypes
    BY DEF Cleanup, IInv, TypeInv
  <1>2. op[c].kind = "checkOut" /\ IsOwner(op[c]) /\ op[c].tasks = {}
    BY <1>1 DEF CallFits, CallTypes, CallKinds, Ended, IsOwner
  <1> DEFINE found == {<<"readdir", d>> : d \in {h \in {".osc", ".osc_obs_ts"} : There(h)}}
                      \cup {<<"empty", n>> : n \in {m \in Names : pkgdirs[m] # NoDir}}
             old == [op[c] EXCEPT !.pc = "removing"]
             call == AfterRemoval(old, found)
  <1>3. /\ op' = [op EXCEPT ![c] = call]
        /\ torn' = (torn \/ \E d \in Callers \ {c} : AtWork(d))
        /\ UNCHANGED <<server, path, osc, plugin, under, pkgdirs, asking, overlap, known>>
    BY DEF Cleanup, disk, IInv, TypeInv
  <1>4. found \subseteq RemoveTasks
    BY DEF RemoveTasks, Dots
  <1>5. /\ \A u \in Underscore : <<"unlink", u>> \notin found /\ <<"fill", u>> \notin found
        /\ <<"rmdir", ".osc">> \notin found
    OBVIOUS
  <1>6. old \in CallTypes /\ old.pc = "removing" /\ old.kind = "checkOut"
    BY <1>1, <1>2 DEF CallTypes, Places
  <1> HIDE DEF found, old
  <1>7. /\ call \in CallTypes /\ CallFits(call) /\ call.tasks = found
        /\ call.kind # "refresh" /\ ~IsOwner(call) /\ ~Checks(call)
        /\ call.pc \in {"removing", "rmdir"}
    BY <1>4, <1>6, RemovalLeaves
  <1> HIDE DEF call
  <1>8. ListsFirst(call)
    BY <1>5, <1>7 DEF ListsFirst
  <1>9. ~torn' => Proceeds(c, call)
    <2>1. ~torn' => \A d \in Callers \ {c} : op[d].pc \notin WorkPlaces
      BY <1>3 DEF AtWork, WorkPlaces
    <2>2. \A u \in OscFiles : ~Unfinished(op[c], u)
      BY <1>1, <1>2 DEF Unfinished, Clears
    <2> QED BY <1>5, <1>7, <2>1, <2>2 DEF Proceeds
  <1>10. /\ NothingWithoutPath' /\ path' \in BOOLEAN /\ plugin' \in BOOLEAN
         /\ torn' \in BOOLEAN /\ op[c].pc \notin Ended /\ (torn => torn') /\ IsHolder(op[c])
    BY <1>1, <1>2, <1>3 DEF IInv, TypeInv, NothingWithoutPath, EmptyDir, Ended, IsHolder
  <1> QED BY <1>2, <1>3, <1>7, <1>8, <1>9, <1>10, QuietMove

LEMMA ListDirHolds ==
  ASSUME IInv, NEW c \in Callers, NEW d \in Dots, ListDir(c, d) PROVE IInv'
PROOF
  <1> DEFINE tasks == (op[c].tasks \ {<<"readdir", d>>})
                      \cup {<<"unlink", u>> : u \in In(d)} \cup {<<"rmdir", d>>}
             call == [op[c] EXCEPT !.tasks = tasks]
  <1>1. <<"readdir", d>> \in op[c].tasks /\ <<"readdir", d>> \in RemoveTasks
    BY TaskTypes DEF ListDir
  <1>2. /\ op[c] \in CallTypes /\ CallFits(op[c]) /\ op[c].tasks \subseteq RemoveTasks
        /\ op[c].pc \in {"removing", "rejected"} /\ op[c].kind \in {"checkOut", "none"}
        /\ ~IsOwner(op[c]) /\ Sweeps(op[c]) /\ op[c].pc \notin Ended
        /\ ~torn => op[c].pc = "removing"
    BY <1>1, RemoverIsRemoving
  <1>3. CASE Fail(c, {<<"readdir", d>>})
    BY <1>2, <1>3, FailHolds
  <1>4. CASE op' = [op EXCEPT ![c].tasks = tasks] /\ UNCHANGED disk /\ Same
    <2>1. op' = [op EXCEPT ![c] = call]
      BY <1>4 DEF IInv, TypeInv
    <2>2. In(d) \subseteq Underscore /\ \A u \in In(d) : Home(u) = d
      BY DEF In
    <2>3. tasks \subseteq RemoveTasks
      BY <1>2, <2>2, TaskTypes
    <2>4. /\ call \in CallTypes /\ call.tasks = tasks
          /\ call.pc = op[c].pc /\ call.kind = op[c].kind
      BY <1>2, <2>3 DEF CallTypes
    <2>5. /\ \A e \in Dots : <<"readdir", e>> \in tasks <=> e # d /\ <<"readdir", e>> \in op[c].tasks
          /\ \A e \in Dots : <<"rmdir", e>> \in tasks <=> e = d \/ <<"rmdir", e>> \in op[c].tasks
          /\ \A u \in Underscore :
               <<"unlink", u>> \in tasks => Home(u) = d \/ <<"unlink", u>> \in op[c].tasks
      BY <2>2
    <2> HIDE DEF tasks, call
    <2>6. CallFits(call) /\ ~IsOwner(call) /\ ~Checks(call) /\ call.kind # "refresh"
      BY <1>2, <2>3, <2>4 DEF CallFits, Ended, IsOwner, Checks
    <2>7. /\ Clears(call) <=> Clears(op[c])
          /\ ListsFirst(op[c]) => ListsFirst(call)
      BY <1>1, <2>4, <2>5, TaskTypes DEF Clears, ListsFirst
    <2>8. torn' = torn /\ UNCHANGED <<server, path, osc, plugin, under, pkgdirs, asking, overlap, known>>
      BY <1>4 DEF disk, Same, history
    <2>9. ~torn => \A u \in Underscore : <<"unlink", u>> \in call.tasks =>
                                           <<"rmdir", Home(u)>> \in call.tasks
      BY <2>4, <2>5, UnderscoreTypes DEF IInv, WritersFit
    <2>10. ~torn' => Proceeds(c, call)
      BY <1>2, <2>4, <2>6, <2>7, <2>8, <2>9, RemoverProceeds
    <2>11. NothingWithoutPath' /\ path' \in BOOLEAN /\ plugin' \in BOOLEAN /\ torn' \in BOOLEAN
      BY <2>8 DEF IInv, TypeInv, NothingWithoutPath, EmptyDir
    <2>12. ListsFirst(call)
      BY <2>7 DEF IInv, OwnerIsAlone
    <2>13. IsHolder(call) => IsHolder(op[c])
      BY <2>6, <2>7 DEF IsHolder
    <2> QED BY <1>2, <2>1, <2>4, <2>6, <2>8, <2>10, <2>11, <2>12, <2>13, QuietMove
  <1> QED BY <1>3, <1>4 DEF ListDir

LEMMA RemoveDotHolds ==
  ASSUME IInv, NEW c \in Callers, NEW d \in Dots, RemoveDot(c, d) PROVE IInv'
PROOF
  <1> DEFINE left == op[c].tasks \ {<<"rmdir", d>>}
             call == AfterRemoval(op[c], left)
  <1>1. <<"rmdir", d>> \in op[c].tasks /\ <<"rmdir", d>> \in RemoveTasks
    BY TaskTypes DEF RemoveDot
  <1>2. /\ op[c] \in CallTypes /\ CallFits(op[c]) /\ op[c].tasks \subseteq RemoveTasks
        /\ \/ op[c].pc = "removing" /\ op[c].kind = "checkOut"
           \/ op[c].pc = "rejected" /\ op[c].kind = "none"
        /\ ~IsOwner(op[c]) /\ Sweeps(op[c]) /\ op[c].pc \notin Ended
        /\ ~torn => op[c].pc = "removing"
    BY <1>1, RemoverIsRemoving
  <1>3. CASE Fail(c, {<<"rmdir", d>>})
    BY <1>2, <1>3, FailHolds
  <1>4. CASE /\ osc' = (osc /\ d # ".osc") /\ plugin' = (plugin /\ d # ".osc_obs_ts")
             /\ op' = [op EXCEPT ![c] = AfterRemoval(@, @.tasks \ {<<"rmdir", d>>})]
             /\ UNCHANGED <<path, under, pkgdirs>> /\ Same
    <2>1. op' = [op EXCEPT ![c] = call]
      BY <1>4 DEF IInv, TypeInv
    <2>2. left \in SUBSET RemoveTasks
      BY <1>2
    <2>3. /\ \A t : t # <<"rmdir", d>> => (t \in left <=> t \in op[c].tasks)
          /\ <<"rmdir", d>> \notin left
      OBVIOUS
    <2> HIDE DEF left
    <2>4. /\ call \in CallTypes /\ CallFits(call) /\ call.tasks = left
          /\ call.kind # "refresh" /\ ~IsOwner(call) /\ ~Checks(call)
          /\ op[c].pc = "removing" => call.pc \in {"removing", "rmdir"}
      BY <1>2, <2>2, RemovalLeaves
    <2> HIDE DEF call
    <2>5. ListsFirst(op[c])
      BY DEF IInv, OwnerIsAlone
    <2>6. /\ Clears(call) => Clears(op[c])
          /\ ListsFirst(call)
          /\ d # ".osc" => (Clears(op[c]) => Clears(call))
          /\ d = ".osc" => Clears(op[c]) /\ ~Clears(call)
      BY <1>1, <2>3, <2>4, <2>5 DEF Clears, ListsFirst
    <2>7. torn' = torn /\ UNCHANGED <<server, path, under, pkgdirs, asking, overlap, known>>
      BY <1>4 DEF Same, history
    <2>8. ~torn => \A u \in Underscore : <<"unlink", u>> \in call.tasks =>
                                           <<"rmdir", Home(u)>> \in call.tasks
      <3> SUFFICES ASSUME ~torn, NEW u \in Underscore, <<"unlink", u>> \in call.tasks
                   PROVE  <<"rmdir", Home(u)>> \in call.tasks
        OBVIOUS
      <3>1. <<"unlink", u>> \in op[c].tasks
        BY <2>3, <2>4
      <3>2. <<"rmdir", Home(u)>> \in op[c].tasks
        BY <3>1 DEF IInv, WritersFit
      <3>3. Home(u) # d
        BY <3>1 DEF RemoveDot
      <3> QED BY <2>3, <2>4, <3>2, <3>3
    <2>9. ~torn' => Proceeds(c, call)
      <3>1. osc' /\ Clears(op[c]) => Clears(call)
        BY <1>4, <2>6
      <3> QED BY <1>2, <2>4, <2>7, <2>8, <3>1, RemoverProceeds
    <2>10. NothingWithoutPath' /\ path' \in BOOLEAN /\ plugin' \in BOOLEAN /\ torn' \in BOOLEAN
      BY <1>4, <2>7 DEF IInv, TypeInv, NothingWithoutPath, EmptyDir
    <2>11. IsHolder(call) => IsHolder(op[c])
      BY <2>4, <2>6 DEF IsHolder
    <2>12. osc' = osc \/ (osc' = FALSE /\ IsHolder(op[c]) /\ ~IsHolder(call))
      BY <1>4, <2>4, <2>6 DEF IsHolder, IInv, TypeInv
    <2> QED BY <1>2, <2>1, <2>4, <2>6, <2>7, <2>9, <2>10, <2>11, <2>12, QuietMove
  <1> QED BY <1>3, <1>4 DEF RemoveDot

LEMMA EmptyPackageHolds ==
  ASSUME IInv, NEW c \in Callers, NEW n \in Names, EmptyPackage(c, n) PROVE IInv'
PROOF
  <1> DEFINE tasks == (op[c].tasks \ {<<"empty", n>>}) \cup {<<"rmpkg", n>>}
             call == [op[c] EXCEPT !.tasks = tasks]
  <1>1. <<"empty", n>> \in op[c].tasks /\ <<"empty", n>> \in RemoveTasks
    BY TaskTypes DEF EmptyPackage
  <1>2. /\ op[c] \in CallTypes /\ CallFits(op[c]) /\ op[c].tasks \subseteq RemoveTasks
        /\ op[c].pc \in {"removing", "rejected"} /\ op[c].kind \in {"checkOut", "none"}
        /\ ~IsOwner(op[c]) /\ Sweeps(op[c]) /\ op[c].pc \notin Ended
        /\ ~torn => op[c].pc = "removing"
    BY <1>1, RemoverIsRemoving
  <1>3. CASE Fail(c, {<<"empty", n>>})
    BY <1>2, <1>3, FailHolds
  <1>4. CASE /\ pkgdirs[n] # NoDir
             /\ pkgdirs' = [pkgdirs EXCEPT ![n] = NewDir]
             /\ op' = [op EXCEPT ![c].tasks = tasks]
             /\ UNCHANGED <<path, osc, plugin, under>> /\ Same
    <2>1. op' = [op EXCEPT ![c] = call]
      BY <1>4 DEF IInv, TypeInv
    <2>2. tasks \subseteq RemoveTasks
      BY <1>2, TaskTypes
    <2>3. /\ call \in CallTypes /\ call.tasks = tasks
          /\ call.pc = op[c].pc /\ call.kind = op[c].kind
      BY <1>2, <2>2 DEF CallTypes
    <2>4. /\ \A e \in Dots, k \in {"readdir", "rmdir"} :
               <<k, e>> \in tasks <=> <<k, e>> \in op[c].tasks
          /\ \A u \in Underscore : <<"unlink", u>> \in tasks <=> <<"unlink", u>> \in op[c].tasks
      OBVIOUS
    <2> HIDE DEF tasks, call
    <2>5. CallFits(call) /\ ~IsOwner(call) /\ ~Checks(call) /\ call.kind # "refresh"
      BY <1>2, <2>2, <2>3 DEF CallFits, Ended, IsOwner, Checks
    <2>6. /\ Clears(call) <=> Clears(op[c])
          /\ ListsFirst(call)
      BY <2>3, <2>4, TaskTypes DEF Clears, ListsFirst, IInv, OwnerIsAlone
    <2>7. ~torn => \A u \in Underscore : <<"unlink", u>> \in call.tasks =>
                                           <<"rmdir", Home(u)>> \in call.tasks
      BY <2>3, <2>4, UnderscoreTypes DEF IInv, WritersFit
    <2>8. ~torn => Proceeds(c, call)
      BY <1>2, <2>3, <2>5, <2>6, <2>7, RemoverProceeds
    <2>9. path
      BY <1>4 DEF IInv, NothingWithoutPath, EmptyDir
    <2>10. IsHolder(call) => IsHolder(op[c])
      BY <2>5, <2>6 DEF IsHolder
    <2> QED BY <1>2, <1>4, <2>1, <2>3, <2>5, <2>6, <2>8, <2>9, <2>10, PackageWrite
  <1> QED BY <1>3, <1>4 DEF EmptyPackage

LEMMA RemovePackageHolds ==
  ASSUME IInv, NEW c \in Callers, NEW n \in Names, RemovePackage(c, n) PROVE IInv'
PROOF
  <1> DEFINE left == op[c].tasks \ {<<"rmpkg", n>>}
             call == AfterRemoval(op[c], left)
  <1>1. <<"rmpkg", n>> \in op[c].tasks /\ <<"rmpkg", n>> \in RemoveTasks
    BY TaskTypes DEF RemovePackage
  <1>2. /\ op[c] \in CallTypes /\ CallFits(op[c]) /\ op[c].tasks \subseteq RemoveTasks
        /\ \/ op[c].pc = "removing" /\ op[c].kind = "checkOut"
           \/ op[c].pc = "rejected" /\ op[c].kind = "none"
        /\ ~IsOwner(op[c]) /\ Sweeps(op[c]) /\ op[c].pc \notin Ended
        /\ ~torn => op[c].pc = "removing"
    BY <1>1, RemoverIsRemoving
  <1>3. CASE Fail(c, {<<"rmpkg", n>>})
    BY <1>2, <1>3, FailHolds
  <1>4. CASE /\ pkgdirs' = [pkgdirs EXCEPT ![n] = NoDir]
             /\ op' = [op EXCEPT ![c] = AfterRemoval(@, @.tasks \ {<<"rmpkg", n>>})]
             /\ UNCHANGED <<path, osc, plugin, under>> /\ Same
    <2>1. op' = [op EXCEPT ![c] = call]
      BY <1>4 DEF IInv, TypeInv
    <2>2. left \in SUBSET RemoveTasks
      BY <1>2
    <2>3. /\ left \subseteq op[c].tasks
          /\ \A e \in Dots, k \in {"readdir", "rmdir"} :
               <<k, e>> \in left <=> <<k, e>> \in op[c].tasks
          /\ \A u \in Underscore : <<"unlink", u>> \in left <=> <<"unlink", u>> \in op[c].tasks
      OBVIOUS
    <2> HIDE DEF left
    <2>4. /\ call \in CallTypes /\ CallFits(call) /\ call.tasks = left
          /\ call.kind # "refresh" /\ ~IsOwner(call) /\ ~Checks(call)
          /\ op[c].pc = "removing" => call.pc \in {"removing", "rmdir"}
      BY <1>2, <2>2, RemovalLeaves
    <2> HIDE DEF call
    <2>5. /\ Clears(call) <=> Clears(op[c])
          /\ ListsFirst(call)
      BY <2>3, <2>4, TaskTypes DEF Clears, ListsFirst, IInv, OwnerIsAlone
    <2>6. ~torn => \A u \in Underscore : <<"unlink", u>> \in call.tasks =>
                                           <<"rmdir", Home(u)>> \in call.tasks
      BY <2>3, <2>4, UnderscoreTypes DEF IInv, WritersFit
    <2>7. ~torn => Proceeds(c, call)
      BY <1>2, <2>4, <2>5, <2>6, RemoverProceeds
    <2>8. NoDir \in {NewDir} \cup Dirs
      BY ProjectAssumption DEF NoDir, Dirs
    <2>9. IsHolder(call) => IsHolder(op[c])
      BY <2>4, <2>5 DEF IsHolder
    <2> QED BY <1>2, <1>4, <2>1, <2>4, <2>5, <2>7, <2>8, <2>9, PackageWrite
  <1> QED BY <1>3, <1>4 DEF RemovePackage

-----------------------------------------------------------------------------
(* The underscore files.                                                   *)

LEMMA WritingFits ==
  ASSUME NEW old \in CallTypes, CallFits(old), old.pc \in {"prepare", "mkplugin"},
         NEW call, call = AboutToWrite(old)
  PROVE  /\ call \in CallTypes /\ CallFits(call)
         /\ call.pc = "write" /\ call.kind = old.kind /\ call.names = old.names
         /\ call.asked = old.asked /\ call.want = old.want /\ call.late = old.late
         /\ \A u \in OscFiles : <<"open", u>> \in call.tasks
         /\ \A u \in Underscore : /\ <<"fill", u>> \notin call.tasks
                                  /\ <<"unlink", u>> \notin call.tasks
PROOF
  <1> DEFINE tasks == {<<"open", u>> : u \in Saved(old)}
  <1>1. OscFiles \subseteq Saved(old) /\ Saved(old) \subseteq Underscore
    BY UnderscoreTypes DEF Saved
  <1>2. /\ tasks \subseteq WriteTasks
        /\ \A u \in OscFiles : <<"open", u>> \in tasks
        /\ \A u \in Underscore : <<"fill", u>> \notin tasks /\ <<"unlink", u>> \notin tasks
    BY <1>1, TaskTypes
  <1>3. call = [old EXCEPT !.pc = "write", !.tasks = tasks]
    BY DEF AboutToWrite
  <1> HIDE DEF tasks
  <1>4. /\ call \in CallTypes
        /\ call.pc = "write" /\ call.kind = old.kind /\ call.names = old.names
        /\ call.asked = old.asked /\ call.want = old.want /\ call.late = old.late
        /\ call.tasks = tasks
    BY <1>2, <1>3 DEF CallTypes, Places
  <1>5. CallFits(call)
    BY <1>2, <1>4 DEF CallFits, Ended
  <1> QED BY <1>2, <1>4, <1>5

\* On the way to writing nothing is given up.
LEMMA NextToWrite ==
  ASSUME IInv, NEW c \in Callers, op[c].pc \in {"prepare", "mkplugin"},
         NEW call \in CallTypes, CallFits(call), call.pc \in {"mkplugin", "write"},
         call.kind = op[c].kind, call.names = op[c].names,
         call.asked = op[c].asked, call.want = op[c].want, call.late = op[c].late,
         call.pc = "write" => \A u \in OscFiles : <<"open", u>> \in call.tasks,
         \A u \in Underscore : <<"fill", u>> \notin call.tasks /\ <<"unlink", u>> \notin call.tasks,
         op' = [op EXCEPT ![c] = call],
         UNCHANGED <<server, osc, under, pkgdirs, asking, overlap, known>>,
         path' \in BOOLEAN, plugin' \in BOOLEAN, NothingWithoutPath',
         torn' \in BOOLEAN, torn => torn',
         ~torn' => \A d \in Callers \ {c} : op[d].pc \notin WorkPlaces
  PROVE  IInv'
PROOF
  <1>1. op[c] \in CallTypes /\ CallFits(op[c])
    BY DEF IInv, TypeInv
  <1>2. ~Sweeps(call) /\ ~Clears(call) /\ ListsFirst(call) /\ ~Clears(op[c])
    BY <1>1, Awaits
  <1>3. IsOwner(call) => IsOwner(op[c])
    BY DEF IsOwner
  <1>4. Checks(call) => Checks(op[c])
    BY <1>3 DEF Checks
  <1>5. ~torn' => Proceeds(c, call)
    <2>1. ASSUME NEW u \in OscFiles, Unfinished(op[c], u) PROVE Unfinished(call, u)
      BY <1>1, <1>2, <2>1, Awaits, UnderscoreTypes DEF Unfinished
    <2> QED BY <2>1 DEF Proceeds
  <1>6. call.kind = "refresh" /\ c \notin overlap /\ known # {} => call.names \subseteq known
    BY DEF IInv, AloneFits
  <1>7. op[c].pc \notin Ended
    BY DEF Ended
  <1> QED BY <1>2, <1>3, <1>4, <1>5, <1>6, <1>7, QuietMove DEF IsHolder

LEMMA PrepareHolds == ASSUME IInv, NEW c \in Callers, Prepare(c) PROVE IInv'
PROOF
  <1>1. op[c].pc = "prepare" /\ CallFits(op[c]) /\ op[c] \in CallTypes
    BY DEF Prepare, IInv, TypeInv
  <1>2. CASE Reject(c)
    BY <1>1, <1>2, RejectHolds DEF Ended
  <1>3. CASE /\ path
             /\ op' = [op EXCEPT ![c] = IF @.kind = "applyNoMeta" THEN AboutToWrite(@)
                                        ELSE [@ EXCEPT !.pc = "mkplugin"]]
             /\ torn' = (torn \/ \E d \in Callers \ {c} : AtWork(d))
             /\ UNCHANGED <<server, disk, asking, overlap, known>>
    <2>1. /\ UNCHANGED <<server, path, osc, plugin, under, pkgdirs, asking, overlap, known>>
          /\ torn' \in BOOLEAN /\ (torn => torn')
          /\ ~torn' => \A d \in Callers \ {c} : op[d].pc \notin WorkPlaces
      BY <1>3 DEF disk, AtWork, WorkPlaces, IInv, TypeInv
    <2>2. path' \in BOOLEAN /\ plugin' \in BOOLEAN /\ NothingWithoutPath'
      BY <2>1 DEF IInv, TypeInv, NothingWithoutPath, EmptyDir
    <2>3. CASE op[c].kind = "applyNoMeta"
      <3> DEFINE call == AboutToWrite(op[c])
      <3>1. op' = [op EXCEPT ![c] = call]
        BY <1>3, <2>3 DEF IInv, TypeInv
      <3>2. /\ call \in CallTypes /\ CallFits(call)
            /\ call.pc = "write" /\ call.kind = op[c].kind /\ call.names = op[c].names
            /\ call.asked = op[c].asked /\ call.want = op[c].want /\ call.late = op[c].late
            /\ \A u \in OscFiles : <<"open", u>> \in call.tasks
            /\ \A u \in Underscore : /\ <<"fill", u>> \notin call.tasks
                                     /\ <<"unlink", u>> \notin call.tasks
        BY <1>1, WritingFits
      <3> HIDE DEF call
      <3> QED BY <1>1, <2>1, <2>2, <3>1, <3>2, NextToWrite
    <2>4. CASE op[c].kind # "applyNoMeta"
      <3> DEFINE call == [op[c] EXCEPT !.pc = "mkplugin"]
      <3>1. op' = [op EXCEPT ![c] = call]
        BY <1>3, <2>4 DEF IInv, TypeInv
      <3>2. /\ call \in CallTypes
            /\ call.pc = "mkplugin" /\ call.kind = op[c].kind /\ call.names = op[c].names
            /\ call.asked = op[c].asked /\ call.want = op[c].want /\ call.late = op[c].late
            /\ call.tasks = {}
        BY <1>1 DEF CallTypes, Places, CallFits
      <3> HIDE DEF call
      <3>3. CallFits(call)
        BY <1>1, <3>2 DEF CallFits, Ended
      <3> QED BY <1>1, <2>1, <2>2, <3>1, <3>2, <3>3, NextToWrite
    <2> QED BY <2>3, <2>4
  <1> QED BY <1>2, <1>3 DEF Prepare

LEMMA MakePluginHolds == ASSUME IInv, NEW c \in Callers, MakePlugin(c) PROVE IInv'
PROOF
  <1> DEFINE call == AboutToWrite(op[c])
  <1>1. op[c].pc = "mkplugin" /\ CallFits(op[c]) /\ op[c] \in CallTypes
    BY DEF MakePlugin, IInv, TypeInv
  <1>2. /\ op' = [op EXCEPT ![c] = call] /\ path' = TRUE /\ plugin' = TRUE
        /\ UNCHANGED <<server, osc, under, pkgdirs, asking, overlap, torn, known>>
    BY DEF MakePlugin, Same, history, IInv, TypeInv
  <1>3. /\ call \in CallTypes /\ CallFits(call)
        /\ call.pc = "write" /\ call.kind = op[c].kind /\ call.names = op[c].names
        /\ call.asked = op[c].asked /\ call.want = op[c].want /\ call.late = op[c].late
        /\ \A u \in OscFiles : <<"open", u>> \in call.tasks
        /\ \A u \in Underscore : /\ <<"fill", u>> \notin call.tasks
                                 /\ <<"unlink", u>> \notin call.tasks
    BY <1>1, WritingFits
  <1> HIDE DEF call
  <1>4. torn' \in BOOLEAN /\ NothingWithoutPath'
    BY <1>2 DEF IInv, TypeInv, NothingWithoutPath
  <1>5. ~torn' => \A d \in Callers \ {c} : op[d].pc \notin WorkPlaces
    BY <1>1, <1>2 DEF IInv, WritersFit, WorkPlaces
  <1> QED BY <1>1, <1>2, <1>3, <1>4, <1>5, NextToWrite

\* Who has a file to write is writing, alone unless something was torn.
LEMMA WriterIsWriting ==
  ASSUME IInv, NEW c \in Callers, NEW t \in {"open", "fill", "lost"},
         NEW u \in Underscore, <<t, u>> \in op[c].tasks
  PROVE  /\ op[c] \in CallTypes /\ CallFits(op[c]) /\ op[c].tasks \subseteq WriteTasks
         /\ \/ op[c].pc = "write" /\ op[c].kind # "none"
            \/ op[c].pc = "rejected" /\ op[c].kind = "none"
         /\ op[c].pc \notin Ended /\ c \in Busy
         /\ ~torn => /\ op[c].pc = "write"
                     /\ \A d \in Callers \ {c} : /\ op[d].pc \notin WorkPlaces \cup {"rejected"}
                                                 /\ \A v \in Underscore : <<"fill", v>> \notin op[d].tasks
PROOF
  <1>1. op[c] \in CallTypes /\ CallFits(op[c])
    BY DEF IInv, TypeInv
  <1>2. op[c].pc \in {"write", "rejected"} /\ op[c].tasks \subseteq WriteTasks
    BY <1>1, Awaits
  <1>3. \/ op[c].pc = "write" /\ op[c].kind # "none"
        \/ op[c].pc = "rejected" /\ op[c].kind = "none"
    BY <1>1, <1>2 DEF CallFits, Ended
  <1>4. op[c].pc \notin Ended /\ c \in Busy
    BY <1>2 DEF Ended, Busy
  <1>5. ASSUME ~torn
        PROVE  /\ op[c].pc = "write"
               /\ \A d \in Callers \ {c} : /\ op[d].pc \notin WorkPlaces \cup {"rejected"}
                                           /\ \A v \in Underscore : <<"fill", v>> \notin op[d].tasks
    <2>1. op[c].pc = "write"
      BY <1>2, <1>5 DEF IInv, WritersFit
    <2>2. ASSUME NEW d \in Callers \ {c}
          PROVE  /\ op[d].pc \notin WorkPlaces \cup {"rejected"}
                 /\ \A v \in Underscore : <<"fill", v>> \notin op[d].tasks
      <3>1. op[d] \in CallTypes /\ CallFits(op[d])
        BY DEF IInv, TypeInv
      <3>2. op[d].pc \notin WorkPlaces \cup {"rejected"}
        BY <1>5, <2>1 DEF IInv, WritersFit, WorkPlaces
      <3> QED BY <3>1, <3>2, Awaits DEF WorkPlaces
    <2> QED BY <2>1, <2>2
  <1> QED BY <1>1, <1>2, <1>3, <1>4, <1>5

LEMMA OpenFileHolds ==
  ASSUME IInv, NEW c \in Callers, NEW u \in Underscore, OpenFile(c, u) PROVE IInv'
PROOF
  <1> DEFINE tasks == (op[c].tasks \ {<<"open", u>>}) \cup {<<"fill", u>>}
             call == [op[c] EXCEPT !.tasks = tasks]
  <1>1. /\ <<"open", u>> \in op[c].tasks /\ CallFits(op[c]) /\ op[c] \in CallTypes
        /\ op[c].tasks \subseteq WriteTasks
        /\ \/ op[c].pc = "write" /\ op[c].kind # "none"
           \/ op[c].pc = "rejected" /\ op[c].kind = "none"
        /\ op[c].pc \notin Ended
        /\ ~torn => /\ op[c].pc = "write"
                    /\ \A d \in Callers \ {c} : /\ op[d].pc \notin WorkPlaces \cup {"rejected"}
                                                /\ \A v \in Underscore : <<"fill", v>> \notin op[d].tasks
    BY WriterIsWriting DEF OpenFile
  <1>2. CASE Fail(c, {<<"open", u>>})
    BY <1>1, <1>2, FailHolds
  <1>3. CASE /\ under' = [under EXCEPT ![u] = Empty]
             /\ op' = [op EXCEPT ![c].tasks = tasks]
             /\ UNCHANGED <<path, osc, plugin, pkgdirs>> /\ Same
    <2>1. op' = [op EXCEPT ![c] = call]
      BY <1>3 DEF IInv, TypeInv
    <2>2. tasks \subseteq WriteTasks
      BY <1>1, TaskTypes
    <2>3. /\ call \in CallTypes
          /\ call.pc = op[c].pc /\ call.tasks = tasks /\ call.kind = op[c].kind
          /\ call.asked = op[c].asked /\ call.want = op[c].want /\ call.late = op[c].late
          /\ call.names = op[c].names
      BY <1>1, <2>2 DEF CallTypes
    <2>4. /\ <<"fill", u>> \in tasks
          /\ \A v \in Underscore \ {u} : /\ <<"fill", v>> \in tasks <=> <<"fill", v>> \in op[c].tasks
                                         /\ <<"open", v>> \in tasks <=> <<"open", v>> \in op[c].tasks
      OBVIOUS
    <2> HIDE DEF call, tasks
    <2>5. /\ op' \in [Callers -> CallTypes]
          /\ op'[c] = call
          /\ \A d \in Callers \ {c} : op'[d] = op[d]
      BY <2>1, <2>3 DEF IInv, TypeInv
    <2>6. UNCHANGED <<obs, changes, path, osc, plugin, pkgdirs, calls, cancel, overlap, torn, known>>
      BY <1>3 DEF Same, server, asking, history
    <2>7. /\ under' \in [Underscore -> FileTypes]
          /\ under'[u] = Empty
          /\ \A v \in Underscore \ {u} : under'[v] = under[v]
      BY <1>3, UnderscoreTypes DEF IInv, TypeInv
    <2>8. CallFits(call)
      BY <1>1, <2>2, <2>3 DEF CallFits, Ended
    <2>9. ~Sweeps(call) /\ ~Clears(call) /\ ListsFirst(call) /\ ~Clears(op[c])
      BY <1>1, <2>2, <2>3, <2>8, Awaits, TaskTypes DEF Sweeps
    <2>10. AloneFits'
      BY <1>1, <2>1, <2>3, <2>6, AloneStays DEF IInv, AloneFits
    <2> USE DEF IInv
    <2>11. TypeInv'
      BY <2>5, <2>6, <2>7 DEF TypeInv
    <2>12. \A d \in Callers : CallFits(op'[d])
      BY <2>5, <2>8
    <2>13. OwnerIsAlone' /\ PlacedIsComplete'
      <3>1. \A d \in Callers : /\ IsHolder(op'[d]) => IsHolder(op[d])
                               /\ Checks(op'[d]) => Checks(op[d])
                               /\ Sweeps(op'[d]) => Sweeps(op[d])
                               /\ ListsFirst(op'[d])
        BY <2>3, <2>5, <2>9 DEF IsHolder, IsOwner, Checks, OwnerIsAlone
      <3>2. \A d \in Callers : op'[d].asked = op[d].asked /\ op'[d].want = op[d].want
        BY <2>3, <2>5
      <3>3. OwnerIsAlone'
        BY <2>6, <3>1 DEF OwnerIsAlone
      <3>4. PlacedIsComplete'
        BY <2>6, <3>1, <3>2 DEF PlacedIsComplete, Complete
      <3> QED BY <3>3, <3>4
    <2>14. NothingWithoutPath' /\ PackagesAreSnapshots'
      BY <2>6 DEF NothingWithoutPath, PackagesAreSnapshots, Complete, EmptyDir
    <2>15. KnownFits'
      BY <2>6, <2>7, UnderscoreTypes DEF KnownFits
    <2>16. WritersFit'
      <3> SUFFICES ASSUME ~torn
                   PROVE  WritersFit'
        BY <2>6 DEF WritersFit
      <3>1. op[c].pc = "write"
            /\ \A d \in Callers \ {c} : /\ op[d].pc \notin WorkPlaces \cup {"rejected"}
                                        /\ \A v \in Underscore : <<"fill", v>> \notin op[d].tasks
        BY <1>1
      <3>2. \A d \in Callers : op'[d].pc \in WorkPlaces \cup {"rejected"} =>
              d = c /\ op'[d].pc # "rejected"
        BY <2>3, <2>5, <3>1
      <3>3. ASSUME NEW d \in Callers, NEW v \in Underscore, <<"fill", v>> \in op'[d].tasks
            PROVE  under'[v] = Empty
        <4>1. d = c
          BY <2>5, <3>1, <3>3
        <4> QED BY <2>3, <2>4, <2>5, <2>7, <3>3, <4>1 DEF WritersFit
      <3>4. \A v \in Underscore : under'[v] # Garbled
        BY <2>7, UnderscoreTypes DEF WritersFit
      <3>5. \A d \in Callers, v \in Underscore :
              <<"unlink", v>> \in op'[d].tasks => <<"rmdir", Home(v)>> \in op'[d].tasks
        BY <2>2, <2>3, <2>5, TaskTypes DEF WritersFit
      <3>6. ASSUME osc', NEW v \in OscFiles
            PROVE  under'[v].is = "written" \/ \E d \in Callers : Unfinished(op'[d], v)
        <4>1. CASE v = u
          BY <2>3, <2>4, <2>5, <4>1 DEF Unfinished
        <4>2. CASE v # u
          <5>1. v \in Underscore \ {u}
            BY <4>2, UnderscoreTypes
          <5>2. Unfinished(op[c], v) => Unfinished(call, v)
            BY <2>3, <2>4, <2>9, <5>1 DEF Unfinished
          <5> QED BY <2>5, <2>6, <2>7, <3>6, <5>1, <5>2 DEF WritersFit
        <4> QED BY <4>1, <4>2
      <3> QED BY <3>2, <3>3, <3>4, <3>5, <3>6 DEF WritersFit
    <2> QED BY <2>10, <2>11, <2>12, <2>13, <2>14, <2>15, <2>16
  <1> QED BY <1>2, <1>3 DEF OpenFile

LEMMA WriteLeaves ==
  ASSUME NEW old \in CallTypes, CallFits(old), NEW left, left \subseteq old.tasks,
         old.tasks \subseteq WriteTasks,
         \/ old.pc = "write" /\ old.kind # "none"
         \/ old.pc = "rejected" /\ old.kind = "none",
         NEW call, call = AfterWrite(old, left)
  PROVE  /\ call \in CallTypes /\ CallFits(call) /\ call.tasks = left
         /\ left # {} => call.kind = old.kind /\ call.names = old.names /\ call.pc = old.pc
         /\ left = {} => call.pc \in {"check", "idle"} /\ call.kind # "refresh"
         /\ IsOwner(call) => /\ IsOwner(old) /\ call.late = old.late
                             /\ call.asked = old.asked /\ call.want = old.want
PROOF
  <1>0. left \in SUBSET (WriteTasks \cup RemoveTasks \cup FetchTasks)
    OBVIOUS
  <1>1. CASE left # {}
    <2>1. call = [old EXCEPT !.tasks = left]
      BY <1>1 DEF AfterWrite
    <2>2. /\ call \in CallTypes /\ call.tasks = left
          /\ call.kind = old.kind /\ call.names = old.names /\ call.pc = old.pc
          /\ call.asked = old.asked /\ call.want = old.want /\ call.late = old.late
      BY <1>0, <2>1 DEF CallTypes
    <2>3. CallFits(call)
      BY <2>2 DEF CallFits, Ended
    <2> QED BY <1>1, <2>2, <2>3 DEF IsOwner
  <1>2. CASE left = {} /\ old.kind = "checkOut" /\ old.pc = "write"
    <2>1. call = [old EXCEPT !.tasks = {}, !.pc = "check", !.names = {}]
      BY <1>2 DEF AfterWrite
    <2>2. /\ call \in CallTypes /\ call.tasks = {}
          /\ call.kind = old.kind /\ call.pc = "check"
          /\ call.asked = old.asked /\ call.want = old.want /\ call.late = old.late
      BY <2>1 DEF CallTypes, Places
    <2>3. CallFits(call)
      BY <1>2, <2>2 DEF CallFits, Ended
    <2> QED BY <1>2, <2>2, <2>3 DEF IsOwner
  <1>3. CASE left = {} /\ ~(old.kind = "checkOut" /\ old.pc = "write")
    <2>1. call = Idle
      BY <1>3 DEF AfterWrite
    <2> QED BY <1>3, <2>1, IdleFields, IdleFits
  <1> QED BY <1>1, <1>2, <1>3

LEMMA FillFileHolds ==
  ASSUME IInv, NEW c \in Callers, NEW u \in Underscore, FillFile(c, u) PROVE IInv'
PROOF
  <1> DEFINE value == Content(u, op[c].names)
  <1>a. PICK task \in op[c].tasks \cap {<<"fill", u>>, <<"lost", u>>} :
          /\ \E written \in IF task[1] # "fill" THEN {under[u]}
                             ELSE IF under[u] \in {Empty, value} THEN {value}
                             ELSE {value, Garbled} :
               under' = [under EXCEPT ![u] = written]
          /\ known' = IF task[1] = "fill" /\ u = "_packages" THEN op[c].names ELSE known
          /\ op' = [op EXCEPT ![c] = AfterWrite(@, op[c].tasks \ {task})]
          /\ UNCHANGED <<server, path, osc, plugin, pkgdirs, asking, overlap, torn>>
    BY DEF FillFile
  <1>b. PICK written \in IF task[1] # "fill" THEN {under[u]}
                          ELSE IF under[u] \in {Empty, value} THEN {value}
                          ELSE {value, Garbled} :
               under' = [under EXCEPT ![u] = written]
    BY <1>a
  <1> DEFINE left == op[c].tasks \ {task}
             kept == task[1] = "fill"
             call == AfterWrite(op[c], left)
  <1>1. /\ CallFits(op[c]) /\ op[c] \in CallTypes /\ op[c].names \subseteq Names
        /\ op[c].tasks \subseteq WriteTasks
        /\ \/ op[c].pc = "write" /\ op[c].kind # "none"
           \/ op[c].pc = "rejected" /\ op[c].kind = "none"
        /\ op[c].pc \notin Ended /\ c \in Busy
        /\ ~torn => /\ op[c].pc = "write"
                    /\ \A d \in Callers \ {c} : /\ op[d].pc \notin WorkPlaces \cup {"rejected"}
                                                /\ \A v \in Underscore : <<"fill", v>> \notin op[d].tasks
    <2>1. PICK t \in {"open", "fill", "lost"} : <<t, u>> \in op[c].tasks
      BY <1>a
    <2>2. op[c] \in CallTypes => op[c].names \subseteq Names
      BY DEF CallTypes
    <2> QED BY <2>1, <2>2, WriterIsWriting
  <1>2. /\ task \in op[c].tasks
        /\ kept => task = <<"fill", u>>
        /\ ~kept => task = <<"lost", u>>
    BY <1>a
  <1>3. /\ under' = [under EXCEPT ![u] = written]
        /\ known' = IF kept /\ u = "_packages" THEN op[c].names ELSE known
        /\ op' = [op EXCEPT ![c] = call]
        /\ UNCHANGED <<obs, changes, path, osc, plugin, pkgdirs, calls, cancel, overlap, torn>>
    BY <1>a, <1>b DEF server, asking, IInv, TypeInv
  <1>4. /\ written \in {under[u], value, Garbled}
        /\ ~kept => written = under[u]
        /\ kept => written \in {value, Garbled}
        /\ kept /\ under[u] = Empty => written = value
    BY <1>b
  <1>5. /\ value \in FileTypes /\ value.is = "written"
        /\ u = "_packages" => value.names = op[c].names
    BY <1>1, UnderscoreTypes DEF Content
  <1>6. /\ \A t : t # task => (t \in left <=> t \in op[c].tasks)
        /\ task \notin left
        /\ left \subseteq op[c].tasks
    BY <1>2
  <1> HIDE DEF value, left
  <1>7. /\ call \in CallTypes /\ CallFits(call) /\ call.tasks = left
        /\ left # {} => call.kind = op[c].kind /\ call.names = op[c].names /\ call.pc = op[c].pc
        /\ left = {} => call.pc \in {"check", "idle"} /\ call.kind # "refresh"
        /\ IsOwner(call) => /\ IsOwner(op[c]) /\ call.late = op[c].late
                            /\ call.asked = op[c].asked /\ call.want = op[c].want
    BY <1>1, <1>6, WriteLeaves
  <1> HIDE DEF call, kept
  <1>8. /\ op' \in [Callers -> CallTypes]
        /\ op'[c] = call
        /\ \A d \in Callers \ {c} : op'[d] = op[d]
    BY <1>3, <1>7 DEF IInv, TypeInv
  <1>9. /\ under' \in [Underscore -> FileTypes]
        /\ under'[u] = written
        /\ \A v \in Underscore \ {u} : under'[v] = under[v]
    BY <1>3, <1>4, <1>5, UnderscoreTypes DEF IInv, TypeInv
  <1>10. ~Sweeps(call) /\ ~Clears(call) /\ ListsFirst(call) /\ ~Clears(op[c])
    BY <1>1, <1>6, <1>7, Awaits, TaskTypes DEF Sweeps
  <1> USE DEF IInv
  <1>11. TypeInv'
    <2>1. known' \subseteq Names
      BY <1>1, <1>3 DEF TypeInv
    <2> QED BY <1>3, <1>8, <1>9, <2>1 DEF TypeInv
  <1>12. \A d \in Callers : CallFits(op'[d])
    BY <1>7, <1>8
  <1>13. OwnerIsAlone' /\ PlacedIsComplete'
    <2>1. \A d \in Callers :
            /\ IsHolder(op'[d]) => IsHolder(op[d])
            /\ Sweeps(op'[d]) => Sweeps(op[d])
            /\ ListsFirst(op'[d])
      BY <1>7, <1>8, <1>10 DEF IsHolder, OwnerIsAlone
    <2>2. ASSUME NEW d \in Callers, Checks(op'[d])
          PROVE  Checks(op[d]) /\ op'[d].asked = op[d].asked /\ op'[d].want = op[d].want
      <3>1. CASE d = c
        BY <1>1, <1>7, <1>8, <2>2, <3>1 DEF Checks
      <3>2. CASE d # c
        BY <1>8, <2>2, <3>2
      <3> QED BY <3>1, <3>2
    <2>3. OwnerIsAlone'
      BY <1>3, <2>1 DEF OwnerIsAlone
    <2>4. PlacedIsComplete'
      BY <1>3, <2>1, <2>2 DEF PlacedIsComplete, Complete
    <2> QED BY <2>3, <2>4
  <1>14. NothingWithoutPath' /\ PackagesAreSnapshots'
    BY <1>3 DEF NothingWithoutPath, PackagesAreSnapshots, Complete, EmptyDir
  <1>15. KnownFits'
    <2>1. CASE u = "_packages" /\ kept
      BY <1>3, <1>4, <1>5, <1>9, <2>1, UnderscoreTypes DEF KnownFits
    <2>2. CASE u = "_packages" /\ ~kept
      BY <1>3, <1>4, <1>9, <2>2 DEF KnownFits
    <2>3. CASE u # "_packages"
      BY <1>3, <1>9, <2>3, UnderscoreTypes DEF KnownFits
    <2> QED BY <2>1, <2>2, <2>3
  <1>16. WritersFit'
    <2> SUFFICES ASSUME ~torn
                 PROVE  WritersFit'
      BY <1>3 DEF WritersFit
    <2>1. op[c].pc = "write"
          /\ \A d \in Callers \ {c} : /\ op[d].pc \notin WorkPlaces \cup {"rejected"}
                                      /\ \A v \in Underscore : <<"fill", v>> \notin op[d].tasks
      BY <1>1
    <2>2. kept => under[u] = Empty
      BY <1>2 DEF WritersFit
    <2>3. \A d \in Callers : op'[d].pc \in WorkPlaces \cup {"rejected"} =>
            d = c /\ op'[d].pc # "rejected"
      BY <1>7, <1>8, <2>1 DEF WorkPlaces
    <2>4. ASSUME NEW d \in Callers, NEW v \in Underscore, <<"fill", v>> \in op'[d].tasks
          PROVE  under'[v] = Empty
      <3>1. d = c
        BY <1>8, <2>1, <2>4
      <3>2. <<"fill", v>> \in left /\ <<"fill", v>> \in op[c].tasks
        BY <1>6, <1>7, <1>8, <2>4, <3>1
      <3>3. under[v] = Empty
        BY <3>2 DEF WritersFit
      <3>4. CASE v # u
        BY <1>9, <3>3, <3>4
      <3>5. CASE v = u
        BY <1>2, <1>4, <1>6, <1>9, <3>2, <3>3, <3>5
      <3> QED BY <3>4, <3>5
    <2>5. \A v \in Underscore : under'[v] # Garbled
      BY <1>4, <1>5, <1>9, <2>2, UnderscoreTypes DEF WritersFit
    <2>6. \A d \in Callers, v \in Underscore :
            <<"unlink", v>> \in op'[d].tasks => <<"rmdir", Home(v)>> \in op'[d].tasks
      BY <1>1, <1>6, <1>7, <1>8, TaskTypes DEF WritersFit
    <2>7. ASSUME osc', NEW v \in OscFiles
          PROVE  under'[v].is = "written" \/ \E d \in Callers : Unfinished(op'[d], v)
      <3>1. CASE v = u /\ kept
        BY <1>4, <1>5, <1>9, <2>2, <3>1
      <3>2. CASE ~(v = u /\ kept)
        <4>1. v \in Underscore
          BY UnderscoreTypes
        <4>2. under'[v] = under[v]
          BY <1>4, <1>9, <3>2, <4>1
        <4>3. ASSUME Unfinished(op[c], v) PROVE Unfinished(call, v)
          <5>1. \/ op[c].kind = "checkOut" /\ <<"open", v>> \in op[c].tasks
                \/ <<"fill", v>> \in op[c].tasks
            BY <1>10, <2>1, <4>3 DEF Unfinished
          <5>2. <<"open", v>> # task /\ <<"fill", v>> # task
            BY <1>2, <3>2
          <5> QED BY <1>6, <1>7, <5>1, <5>2 DEF Unfinished
        <4> QED BY <1>3, <1>8, <2>7, <4>2, <4>3 DEF WritersFit
      <3> QED BY <3>1, <3>2
    <2> QED BY <2>3, <2>4, <2>5, <2>6, <2>7 DEF WritersFit
  <1>17. AloneFits'
    <2>1. Busy' \subseteq Busy /\ c \in Busy
      BY <1>1, <1>8 DEF Busy
    <2>2. ASSUME NEW d \in Callers \ overlap', op'[d].kind = "refresh"
          PROVE  /\ op'[d].pc \in {"fetchMeta", "fetchList"} => op'[d].stored = known'
                 /\ op'[d].pc \in {"prepare", "mkplugin", "write"} /\ known' # {} =>
                      op'[d].names \subseteq known'
      <3>1. d \in Busy'
        BY <1>12, <2>2 DEF CallFits, Busy
      <3>2. d = c
        BY <1>3, <2>1, <2>2, <3>1 DEF AloneFits
      <3>3. left # {}
        BY <1>7, <1>8, <2>2, <3>2
      <3>4. call.kind = "refresh" /\ op[c].kind = "refresh" /\ call.names = op[c].names
            /\ op[c].pc = "write" /\ call.pc = "write"
        BY <1>1, <1>7, <1>8, <2>2, <3>2, <3>3
      <3>5. known # {} => op[c].names \subseteq known
        BY <1>3, <2>2, <3>2, <3>4 DEF AloneFits
      <3> QED BY <1>3, <1>8, <3>2, <3>4, <3>5
    <2>3. \A d, e \in Busy' : d # e => d \in overlap'
      BY <1>3, <2>1 DEF AloneFits
    <2> QED BY <2>2, <2>3 DEF AloneFits
  <1> QED BY <1>11, <1>12, <1>13, <1>14, <1>15, <1>16, <1>17

-----------------------------------------------------------------------------
(* A file is unlinked, from under whoever has it open.                     *)

LEMMA LosingFits ==
  ASSUME NEW old \in CallTypes, CallFits(old), NEW u \in Underscore,
         NEW call, call = Losing(old, u)
  PROVE  /\ call \in CallTypes /\ CallFits(call)
         /\ call.pc = old.pc /\ call.kind = old.kind
         /\ call.stored = old.stored /\ call.names = old.names
         /\ call.asked = old.asked /\ call.want = old.want /\ call.late = old.late
         /\ \A t : t \notin {<<"fill", u>>, <<"lost", u>>} =>
              (t \in call.tasks <=> t \in old.tasks)
         /\ <<"fill", u>> \notin call.tasks
PROOF
  <1> DEFINE tasks == {IF t = <<"fill", u>> THEN <<"lost", u>> ELSE t : t \in old.tasks}
  <1>1. call = [old EXCEPT !.tasks = tasks]
    BY DEF Losing
  <1>2. /\ \A t : t \notin {<<"fill", u>>, <<"lost", u>>} => (t \in tasks <=> t \in old.tasks)
        /\ <<"fill", u>> \notin tasks
        /\ <<"lost", u>> \in tasks =>
             <<"lost", u>> \in old.tasks \/ <<"fill", u>> \in old.tasks
        /\ old.tasks = {} => tasks = {}
    OBVIOUS
  <1> HIDE DEF tasks
  <1>3. <<"lost", u>> \in tasks => old.pc \in {"write", "rejected"} /\ old.tasks \subseteq WriteTasks
    BY <1>2, Awaits
  <1>4. \/ tasks \subseteq old.tasks
        \/ /\ old.pc \in {"write", "rejected"} /\ old.tasks \subseteq WriteTasks
           /\ tasks \subseteq WriteTasks
    <2>1. CASE <<"lost", u>> \in tasks
      BY <1>2, <1>3, <2>1, TaskTypes
    <2>2. CASE <<"lost", u>> \notin tasks
      BY <1>2, <2>2
    <2> QED BY <2>1, <2>2
  <1>5. tasks \in SUBSET (WriteTasks \cup RemoveTasks \cup FetchTasks)
    BY <1>4 DEF CallTypes
  <1>6. /\ call \in CallTypes /\ call.tasks = tasks
        /\ call.pc = old.pc /\ call.kind = old.kind
        /\ call.stored = old.stored /\ call.names = old.names
        /\ call.asked = old.asked /\ call.want = old.want /\ call.late = old.late
        /\ call.pkg = old.pkg /\ call.rev = old.rev /\ call.got = old.got
    BY <1>1, <1>5 DEF CallTypes
  <1>7. GotFits(old) => GotFits(call)
    BY <1>2, <1>6 DEF GotFits
  <1>8. /\ call.pc = "write" => tasks \subseteq WriteTasks
        /\ call.pc = "removing" => tasks \subseteq RemoveTasks
        /\ call.pc = "rejected" => tasks \subseteq WriteTasks \/ tasks \subseteq RemoveTasks
        /\ call.pc = "fetch" => /\ tasks \subseteq FetchTasks
                                /\ \A n \in Names : <<"list", n>> \in tasks => n = call.pkg
        /\ call.pc \notin {"write", "removing", "rejected", "fetch"} => tasks = {}
    BY <1>4, <1>6 DEF CallFits
  <1>9. CallFits(call)
    BY <1>6, <1>7, <1>8 DEF CallFits
  <1> QED BY <1>2, <1>6, <1>9

LEMMA UnlinkHolds ==
  ASSUME IInv, NEW c \in Callers, NEW u \in Underscore, Unlink(c, u) PROVE IInv'
PROOF
  <1> DEFINE left == op[c].tasks \ {<<"unlink", u>>}
             call == AfterRemoval(op[c], left)
  <1>1. <<"unlink", u>> \in op[c].tasks /\ <<"unlink", u>> \in RemoveTasks
    BY TaskTypes DEF Unlink
  <1>2. /\ op[c] \in CallTypes /\ CallFits(op[c]) /\ op[c].tasks \subseteq RemoveTasks
        /\ \/ op[c].pc = "removing" /\ op[c].kind = "checkOut"
           \/ op[c].pc = "rejected" /\ op[c].kind = "none"
        /\ ~IsOwner(op[c]) /\ Sweeps(op[c]) /\ op[c].pc \notin Ended
        /\ ~torn => op[c].pc = "removing"
    BY <1>1, RemoverIsRemoving
  <1>3. CASE Fail(c, {<<"unlink", u>>, <<"rmdir", Home(u)>>})
    BY <1>2, <1>3, FailHolds
  <1>4. CASE /\ under' = [under EXCEPT ![u] = Gone]
             /\ op' = [d \in Callers |-> IF d = c THEN call ELSE Losing(op[d], u)]
             /\ UNCHANGED <<path, osc, plugin, pkgdirs>> /\ Same
    <2>1. op'[c] = call /\ \A d \in Callers \ {c} : op'[d] = Losing(op[d], u)
      BY <1>4
    <2>2. left \in SUBSET RemoveTasks
      BY <1>2
    <2>3. /\ \A t : t # <<"unlink", u>> => (t \in left <=> t \in op[c].tasks)
          /\ <<"unlink", u>> \notin left
      OBVIOUS
    <2> HIDE DEF left
    <2>4. /\ call \in CallTypes /\ CallFits(call) /\ call.tasks = left
          /\ call.kind # "refresh" /\ ~IsOwner(call) /\ ~Checks(call)
          /\ call.pc \in {op[c].pc, "rmdir", "idle"}
          /\ op[c].pc = "removing" => call.pc \in {"removing", "rmdir"}
      BY <1>2, <2>2, RemovalLeaves
    <2> HIDE DEF call
    <2>5. ASSUME NEW d \in Callers \ {c}
          PROVE  /\ op'[d] \in CallTypes /\ CallFits(op'[d])
                 /\ op'[d].pc = op[d].pc /\ op'[d].kind = op[d].kind
                 /\ op'[d].stored = op[d].stored /\ op'[d].names = op[d].names
                 /\ op'[d].asked = op[d].asked /\ op'[d].want = op[d].want
                 /\ op'[d].late = op[d].late
                 /\ \A t : t \notin {<<"fill", u>>, <<"lost", u>>} =>
                      (t \in op'[d].tasks <=> t \in op[d].tasks)
                 /\ <<"fill", u>> \notin op'[d].tasks
      BY <2>1, LosingFits DEF IInv, TypeInv
    <2>6. /\ Clears(call) <=> Clears(op[c])
          /\ ListsFirst(call) <=> ListsFirst(op[c])
      BY <2>3, <2>4 DEF Clears, ListsFirst
    <2>7. \A d \in Callers \ {c} : /\ Clears(op'[d]) <=> Clears(op[d])
                                   /\ ListsFirst(op'[d]) <=> ListsFirst(op[d])
                                   /\ IsOwner(op'[d]) <=> IsOwner(op[d])
                                   /\ Checks(op'[d]) <=> Checks(op[d])
      BY <2>5 DEF Clears, ListsFirst, IsOwner, Checks
    <2>8. UNCHANGED <<obs, changes, path, osc, plugin, pkgdirs, calls, cancel, overlap, torn, known>>
      BY <1>4 DEF Same, server, asking, history
    <2>9. /\ under' \in [Underscore -> FileTypes]
          /\ under'[u] = Gone
          /\ \A v \in Underscore \ {u} : under'[v] = under[v]
      BY <1>4, UnderscoreTypes DEF IInv, TypeInv
    <2> USE DEF IInv
    <2>10. TypeInv'
      <3>1. op' \in [Callers -> CallTypes]
        BY <1>4, <2>1, <2>4, <2>5
      <3> QED BY <2>8, <2>9, <3>1 DEF TypeInv
    <2>11. \A d \in Callers : CallFits(op'[d])
      BY <2>1, <2>4, <2>5
    <2>12. OwnerIsAlone'
      <3>1. \A d \in Callers : IsHolder(op'[d]) => IsHolder(op[d])
        BY <2>1, <2>4, <2>6, <2>7 DEF IsHolder
      <3>2. \A d \in Callers : ListsFirst(op'[d])
        BY <2>1, <2>6, <2>7 DEF OwnerIsAlone
      <3> QED BY <2>8, <3>1, <3>2 DEF OwnerIsAlone
    <2>13. PlacedIsComplete'
      <3>1. \A d \in Callers : ~Checks(op'[d])
        BY <1>2, <2>1, <2>4, <2>7 DEF PlacedIsComplete
      <3> QED BY <3>1 DEF PlacedIsComplete
    <2>14. NothingWithoutPath' /\ PackagesAreSnapshots'
      BY <2>8 DEF NothingWithoutPath, EmptyDir, PackagesAreSnapshots, Complete
    <2>15. KnownFits'
      BY <2>8, <2>9, UnderscoreTypes DEF KnownFits
    <2>16. WritersFit'
      <3> SUFFICES ASSUME ~torn
                   PROVE  WritersFit'
        BY <2>8 DEF WritersFit
      <3>1. op[c].pc = "removing" /\ call.pc \in {"removing", "rmdir"}
        BY <1>2, <2>4
      <3>2. ASSUME NEW d \in Callers \ {c}
            PROVE  /\ op[d].pc \notin WorkPlaces \cup {"rejected"}
                   /\ \A v \in Underscore : <<"fill", v>> \notin op[d].tasks
        <4>1. op[d] \in CallTypes /\ CallFits(op[d])
          BY DEF TypeInv
        <4>2. op[d].pc \notin WorkPlaces \cup {"rejected"}
          BY <3>1 DEF WritersFit, WorkPlaces
        <4> QED BY <4>1, <4>2, Awaits DEF WorkPlaces
      <3>3. \A d \in Callers : op'[d].pc \in WorkPlaces \cup {"rejected"} =>
              d = c /\ op'[d].pc # "rejected"
        BY <2>1, <2>5, <3>1, <3>2
      <3>4. \A d \in Callers, v \in Underscore : <<"fill", v>> \notin op'[d].tasks
        <4>1. \A v \in Underscore : <<"fill", v>> \notin call.tasks
          BY <2>2, <2>4, TaskTypes
        <4>2. ASSUME NEW d \in Callers \ {c}, NEW v \in Underscore
              PROVE  <<"fill", v>> \notin op'[d].tasks
          BY <2>5, <3>2
        <4> QED BY <2>1, <4>1, <4>2
      <3>5. \A v \in Underscore : under'[v] # Garbled
        BY <2>9, UnderscoreTypes DEF WritersFit
      <3>6. \A d \in Callers, v \in Underscore :
              <<"unlink", v>> \in op'[d].tasks => <<"rmdir", Home(v)>> \in op'[d].tasks
        <4>1. \A v \in Underscore :
                <<"unlink", v>> \in call.tasks => <<"rmdir", Home(v)>> \in call.tasks
          BY <2>3, <2>4 DEF WritersFit
        <4>2. \A d \in Callers \ {c}, v \in Underscore :
                <<"unlink", v>> \in op'[d].tasks => <<"rmdir", Home(v)>> \in op'[d].tasks
          BY <2>5 DEF WritersFit
        <4> QED BY <2>1, <4>1, <4>2
      <3>7. ASSUME osc', NEW v \in OscFiles
            PROVE  under'[v].is = "written" \/ \E d \in Callers : Unfinished(op'[d], v)
        <4>1. CASE v = u
          <5>1. <<"rmdir", ".osc">> \in op[c].tasks
            BY <1>1, <4>1, UnderscoreTypes DEF WritersFit
          <5> QED BY <2>1, <2>6, <5>1 DEF Unfinished, Clears
        <4>2. CASE v # u
          <5>1. v \in Underscore \ {u}
            BY <4>2, UnderscoreTypes
          <5>2. Unfinished(op[c], v) => Unfinished(call, v)
            BY <1>2, <2>6, <3>1, <5>1, Awaits DEF Unfinished
          <5>3. \A d \in Callers \ {c} : Unfinished(op[d], v) => Unfinished(op'[d], v)
            BY <2>5, <2>7, <5>1 DEF Unfinished
          <5> QED BY <2>1, <2>8, <2>9, <3>7, <5>1, <5>2, <5>3 DEF WritersFit
        <4> QED BY <4>1, <4>2
      <3> QED BY <3>3, <3>4, <3>5, <3>6, <3>7 DEF WritersFit
    <2>17. AloneFits'
      <3>1. Busy' \subseteq Busy
        BY <1>2, <2>1, <2>5 DEF Busy
      <3>2. ASSUME NEW d \in Callers \ overlap', op'[d].kind = "refresh"
            PROVE  /\ op'[d].pc \in {"fetchMeta", "fetchList"} => op'[d].stored = known'
                   /\ op'[d].pc \in {"prepare", "mkplugin", "write"} /\ known' # {} =>
                        op'[d].names \subseteq known'
        BY <2>1, <2>4, <2>5, <2>8, <3>2 DEF AloneFits
      <3>3. \A d, e \in Busy' : d # e => d \in overlap'
        BY <2>8, <3>1 DEF AloneFits
      <3> QED BY <3>2, <3>3 DEF AloneFits
    <2> QED BY <2>10, <2>11, <2>12, <2>13, <2>14, <2>15, <2>16, <2>17
  <1> QED BY <1>3, <1>4 DEF Unlink

-----------------------------------------------------------------------------
(* Starting, and what others do.                                           *)

LEMMA StartHolds ==
  ASSUME IInv, NEW c \in Callers, NEW call \in CallTypes, Start(c, call),
         CallFits(call), call.pc \in {"stat", "fetchMeta", "prepare"},
         call.kind = "checkOut" => call.pc = "stat",
         call.kind = "refresh" => call.pc = "fetchMeta" /\ call.stored = known
  PROVE  IInv'
PROOF
  <1>1. /\ op[c].pc \in Ended /\ calls < MaxCalls /\ calls' = calls + 1
        /\ op' = [op EXCEPT ![c] = call]
        /\ cancel' = [cancel EXCEPT ![c] = FALSE]
        /\ overlap' = IF Busy = {} THEN overlap \ {c} ELSE overlap \cup Busy \cup {c}
        /\ UNCHANGED <<obs, changes, path, osc, plugin, under, pkgdirs, torn, known>>
    BY DEF Start, server, disk
  <1>2. ~Sweeps(call) /\ ~Clears(call) /\ ListsFirst(call) /\ ~IsOwner(call) /\ ~Checks(call)
    BY Awaits DEF IsOwner, Checks
  <1>3. \A u \in Underscore : <<"fill", u>> \notin call.tasks /\ <<"unlink", u>> \notin call.tasks
    BY Awaits, TaskTypes
  <1>4. op[c].tasks = {} /\ op[c] \in CallTypes
    BY <1>1 DEF IInv, TypeInv, CallFits, Ended
  <1> USE DEF IInv
  <1>5. /\ op' \in [Callers -> CallTypes]
        /\ op'[c] = call
        /\ \A d \in Callers \ {c} : op'[d] = op[d]
    BY <1>1 DEF TypeInv
  <1>6. TypeInv'
    <2>1. calls' \in 0 .. MaxCalls
      BY <1>1, ProjectAssumption DEF TypeInv
    <2>2. cancel' \in [Callers -> BOOLEAN] /\ overlap' \subseteq Callers
      BY <1>1 DEF TypeInv, Busy
    <2> QED BY <1>1, <1>5, <2>1, <2>2 DEF TypeInv
  <1>7. \A d \in Callers : CallFits(op'[d])
    BY <1>5
  <1>8. OwnerIsAlone' /\ PlacedIsComplete'
    <2>1. \A d \in Callers : /\ IsHolder(op'[d]) => IsHolder(op[d])
                             /\ Checks(op'[d]) => d # c /\ Checks(op[d])
                             /\ Sweeps(op'[d]) => Sweeps(op[d])
                             /\ ListsFirst(op'[d])
      BY <1>2, <1>5 DEF IsHolder, OwnerIsAlone
    <2>2. OwnerIsAlone'
      BY <1>1, <2>1 DEF OwnerIsAlone
    <2>3. PlacedIsComplete'
      BY <1>1, <1>5, <2>1 DEF PlacedIsComplete, Complete
    <2> QED BY <2>2, <2>3
  <1>9. NothingWithoutPath' /\ PackagesAreSnapshots' /\ KnownFits'
    BY <1>1 DEF NothingWithoutPath, EmptyDir, PackagesAreSnapshots, Complete, KnownFits
  <1>10. WritersFit'
    <2> SUFFICES ASSUME ~torn
                 PROVE  WritersFit'
      BY <1>1 DEF WritersFit
    <2>1. \A d \in Callers : op'[d].pc \in WorkPlaces \cup {"rejected"} =>
            d # c /\ op[d].pc \in WorkPlaces \cup {"rejected"} /\ op'[d].pc = op[d].pc
      BY <1>5 DEF WorkPlaces
    <2>2. \A d \in Callers, u \in Underscore :
            /\ <<"fill", u>> \in op'[d].tasks => <<"fill", u>> \in op[d].tasks
            /\ <<"unlink", u>> \in op'[d].tasks => d # c /\ <<"unlink", u>> \in op[d].tasks
      BY <1>3, <1>5
    <2>3. \A u \in OscFiles : ~Unfinished(op[c], u)
      BY <1>1, <1>4 DEF Unfinished, Clears, Ended
    <2>4. osc' => \A u \in OscFiles :
                    under'[u].is = "written" \/ \E d \in Callers : Unfinished(op'[d], u)
      BY <1>1, <1>5, <2>3 DEF WritersFit
    <2> QED BY <1>1, <1>5, <2>1, <2>2, <2>4 DEF WritersFit
  <1>11. AloneFits'
    <2>1. Busy' \subseteq Busy \cup {c}
      BY <1>5 DEF Busy
    <2>2. \A d, e \in Busy' : d # e => d \in overlap'
      BY <1>1, <2>1 DEF AloneFits
    <2>3. ASSUME NEW d \in Callers \ overlap', op'[d].kind = "refresh"
          PROVE  /\ op'[d].pc \in {"fetchMeta", "fetchList"} => op'[d].stored = known'
                 /\ op'[d].pc \in {"prepare", "mkplugin", "write"} /\ known' # {} =>
                      op'[d].names \subseteq known'
      <3>1. CASE d = c
        BY <1>1, <1>5, <2>3, <3>1
      <3>2. CASE d # c
        <4>1. d \in Busy
          BY <1>5, <2>3, <3>2 DEF CallFits, Busy
        <4> QED BY <1>1, <2>3, <4>1
      <3> QED BY <3>1, <3>2
    <2> QED BY <2>2, <2>3 DEF AloneFits
  <1> QED BY <1>6, <1>7, <1>8, <1>9, <1>10, <1>11

LEMMA StartCheckOutHolds ==
  ASSUME IInv, NEW c \in Callers, StartCheckOut(c) PROVE IInv'
PROOF
  <1>1. PICK call : /\ Start(c, call)
                    /\ \/ call = [Idle EXCEPT !.kind = "checkOut", !.pc = "stat"]
                       \/ \E list \in SUBSET Names :
                            call = [Idle EXCEPT !.kind = "checkOut", !.pc = "stat",
                                                !.all = FALSE, !.want = list]
    BY DEF StartCheckOut
  <1>2. /\ call \in CallTypes
        /\ call.kind = "checkOut" /\ call.pc = "stat" /\ call.tasks = {}
    BY <1>1, IdleFields DEF CallTypes, CallKinds, Places
  <1>3. CallFits(call)
    BY <1>2 DEF CallFits, Ended
  <1> QED BY <1>1, <1>2, <1>3, StartHolds

LEMMA StartRefreshHolds ==
  ASSUME IInv, NEW c \in Callers, StartRefresh(c) PROVE IInv'
PROOF
  <1> DEFINE call == [Idle EXCEPT !.kind = "refresh", !.pc = "fetchMeta",
                                  !.stored = under["_packages"].names]
  <1>1. Start(c, call) /\ under["_packages"].is = "written"
    BY UnderscoreTypes DEF StartRefresh, Readable
  <1>2. under["_packages"].names = known /\ known \subseteq Names
    BY <1>1 DEF IInv, KnownFits, TypeInv
  <1>3. /\ call \in CallTypes
        /\ call.kind = "refresh" /\ call.pc = "fetchMeta" /\ call.tasks = {}
        /\ call.stored = known
    BY <1>2, IdleFields DEF CallTypes, CallKinds, Places
  <1> HIDE DEF call
  <1>4. CallFits(call)
    BY <1>3 DEF CallFits, Ended
  <1> QED BY <1>1, <1>3, <1>4, StartHolds

LEMMA StartApplyHolds ==
  ASSUME IInv, NEW c \in Callers, StartApply(c) PROVE IInv'
PROOF
  <1>1. PICK kind \in {"apply", "applyNoMeta"}, names \in SUBSET Names :
          Start(c, [Idle EXCEPT !.kind = kind, !.pc = "prepare", !.names = names])
    BY DEF StartApply
  <1> DEFINE call == [Idle EXCEPT !.kind = kind, !.pc = "prepare", !.names = names]
  <1>2. /\ call \in CallTypes
        /\ call.kind = kind /\ call.pc = "prepare" /\ call.tasks = {}
    BY <1>1, IdleFields DEF CallTypes, CallKinds, Places
  <1>3. Start(c, call)
    BY <1>1
  <1> HIDE DEF call
  <1>4. CallFits(call)
    BY <1>2 DEF CallFits, Ended
  <1> QED BY <1>2, <1>3, <1>4, StartHolds

\* What leaves the calls and the disk alone.
LEMMA ElsewhereHolds ==
  ASSUME IInv, UNCHANGED <<disk, op, history, calls>>,
         changes' \in 0 .. MaxChanges,
         obs' \in [Names -> 0 .. MaxChanges + 1],
         cancel' \in [Callers -> BOOLEAN]
  PROVE  IInv'
PROOF
  <1> USE DEF IInv
  <1>1. UNCHANGED <<path, osc, plugin, under, pkgdirs, op, overlap, torn, known, calls>>
    BY DEF disk, history
  <1>2. TypeInv'
    BY <1>1 DEF TypeInv
  <1>3. \A c \in Callers : CallFits(op'[c])
    BY <1>1
  <1>4. OwnerIsAlone' /\ PlacedIsComplete' /\ NothingWithoutPath' /\ PackagesAreSnapshots'
    BY <1>1 DEF OwnerIsAlone, PlacedIsComplete, NothingWithoutPath, PackagesAreSnapshots,
                EmptyDir, Complete
  <1>5. WritersFit' /\ KnownFits' /\ AloneFits'
    BY <1>1 DEF WritersFit, KnownFits, AloneFits, Busy
  <1> QED BY <1>2, <1>3, <1>4, <1>5

LEMMA RequestCancellationHolds ==
  ASSUME IInv, NEW c \in Callers, RequestCancellation(c) PROVE IInv'
PROOF
  <1>1. UNCHANGED <<server, disk, calls, op, history>> /\ cancel' = [cancel EXCEPT ![c] = TRUE]
    BY DEF RequestCancellation
  <1> QED BY <1>1, ElsewhereHolds DEF IInv, TypeInv, server

LEMMA ChangeOnServerHolds ==
  ASSUME IInv, NEW n \in Names, ChangeOnServer(n) PROVE IInv'
PROOF
  <1>1. /\ changes < MaxChanges /\ changes' = changes + 1
        /\ UNCHANGED <<disk, asking, op, history>>
    BY DEF ChangeOnServer
  <1>2. PICK rev \in {0, changes + 2} : obs' = [obs EXCEPT ![n] = rev]
    BY DEF ChangeOnServer
  <1>3. rev \in 0 .. MaxChanges + 1 /\ changes' \in 0 .. MaxChanges
    BY <1>1, <1>2, ProjectAssumption DEF IInv, TypeInv
  <1> QED BY <1>1, <1>2, <1>3, ElsewhereHolds DEF IInv, TypeInv, asking

LEMMA CrashHolds == ASSUME IInv, Crash PROVE IInv'
PROOF
  <1> USE DEF IInv
  <1>1. /\ op' = [c \in Callers |-> Idle]
        /\ torn' = (torn \/ \E c \in Callers : Changing(c) \/ Sweeping(c))
        /\ UNCHANGED <<obs, changes, path, osc, plugin, under, pkgdirs, calls, cancel, overlap, known>>
    BY DEF Crash, server, disk, asking
  <1>2. \A c \in Callers : op'[c] = Idle
    BY <1>1
  <1>3. TypeInv'
    BY <1>1, IdleFits DEF TypeInv
  <1>4. (\A c \in Callers : CallFits(op'[c])) /\ OwnerIsAlone' /\ PlacedIsComplete'
    BY <1>2, IdleFits, IdleFields DEF OwnerIsAlone, PlacedIsComplete
  <1>5. NothingWithoutPath' /\ PackagesAreSnapshots' /\ KnownFits'
    BY <1>1 DEF NothingWithoutPath, EmptyDir, PackagesAreSnapshots, Complete, KnownFits
  <1>6. WritersFit'
    <2> SUFFICES ASSUME ~torn'
                 PROVE  WritersFit'
      BY DEF WritersFit
    <2>1. /\ ~torn
          /\ \A c \in Callers : /\ op[c].pc \notin {"prepare", "mkplugin", "write", "removing"}
                                /\ ~Sweeps(op[c])
      BY <1>1 DEF Changing, AtWork, Sweeping, Sweeps
    <2>2. ASSUME NEW c \in Callers, NEW u \in OscFiles PROVE ~Unfinished(op[c], u)
      <3>1. op[c] \in CallTypes /\ CallFits(op[c]) /\ op[c].pc # "rejected" /\ u \in Underscore
        BY <2>1, UnderscoreTypes DEF TypeInv, WritersFit
      <3> QED BY <2>1, <3>1, Awaits DEF Unfinished
    <2>3. osc' => \A u \in OscFiles : under'[u].is = "written"
      BY <1>1, <2>1, <2>2 DEF WritersFit
    <2> QED BY <1>1, <1>2, <2>1, <2>3, IdleFields DEF WritersFit, WorkPlaces
  <1>7. AloneFits'
    BY <1>2, IdleFields DEF AloneFits, Busy, Ended
  <1> QED BY <1>3, <1>4, <1>5, <1>6, <1>7

-----------------------------------------------------------------------------
(* The invariant, and what it says.                                        *)

LEMMA StepHolds == ASSUME IInv, NEW c \in Callers, Step(c) PROVE IInv'
PROOF
  <1>1. ASSUME NEW u \in Underscore, OpenFile(c, u) \/ FillFile(c, u) \/ Unlink(c, u)
        PROVE  IInv'
    BY <1>1, OpenFileHolds, FillFileHolds, UnlinkHolds
  <1>2. ASSUME NEW f \in Files, FetchFileContents(c, f) PROVE IInv'
    BY <1>2, FetchFileContentsHolds
  <1>3. CASE Stat(c) \/ MkDir(c) \/ ReadDir(c) \/ FetchProjectMeta(c) \/ FetchPackageList(c)
    BY <1>3, StatHolds, MkDirHolds, ReadDirHolds, FetchProjectMetaHolds, FetchPackageListHolds
  <1>4. CASE MakeOsc(c) \/ Prepare(c) \/ MakePlugin(c) \/ CheckCancelled(c)
    BY <1>4, MakeOscHolds, PrepareHolds, MakePluginHolds, CheckCancelledHolds
  <1>5. CASE FetchPackageMeta(c) \/ FetchFileList(c) \/ PlaceDir(c) \/ PlaceFiles(c)
    BY <1>5, FetchPackageMetaHolds, FetchFileListHolds, PlaceDirHolds, PlaceFilesHolds
  <1>6. CASE Cleanup(c) \/ RemoveDir(c) \/ RemakeDir(c)
    BY <1>6, CleanupHolds, RemoveDirHolds, RemakeDirHolds
  <1>7. ASSUME NEW d \in {".osc", ".osc_obs_ts"}, ListDir(c, d) \/ RemoveDot(c, d) PROVE IInv'
    BY <1>7, ListDirHolds, RemoveDotHolds DEF Dots
  <1>8. ASSUME NEW n \in Names, EmptyPackage(c, n) \/ RemovePackage(c, n) PROVE IInv'
    BY <1>8, EmptyPackageHolds, RemovePackageHolds
  <1> QED BY <1>1, <1>2, <1>3, <1>4, <1>5, <1>6, <1>7, <1>8 DEF Step

LEMMA NextHolds == IInv /\ [Next]_vars => IInv'
PROOF
  <1> SUFFICES ASSUME IInv, [Next]_vars PROVE IInv'
    OBVIOUS
  <1>1. ASSUME NEW c \in Callers,
               Step(c) \/ StartCheckOut(c) \/ StartRefresh(c) \/ StartApply(c)
               \/ RequestCancellation(c)
        PROVE  IInv'
    BY <1>1, StepHolds, StartCheckOutHolds, StartRefreshHolds, StartApplyHolds,
       RequestCancellationHolds
  <1>2. ASSUME NEW n \in Names, ChangeOnServer(n) PROVE IInv'
    BY <1>2, ChangeOnServerHolds
  <1>3. CASE Crash
    BY <1>3, CrashHolds
  <1>4. CASE UNCHANGED vars
    BY <1>4, ElsewhereHolds DEF vars, server, asking, IInv, TypeInv
  <1> QED BY <1>1, <1>2, <1>3, <1>4 DEF Next

\* The inductive invariant holds in every reachable state.
THEOREM Invariance == Spec => []IInv
PROOF
  <1> QED BY InitHolds, NextHolds, PTL DEF Spec

\* Directories, calls and tokens keep their types: no call is ever somewhere
\* where src/project.ts does not lead it.
THEOREM TypeCorrect == Spec => []TypeOK
PROOF
  <1>1. IInv => TypeOK
    <2> SUFFICES ASSUME IInv PROVE TypeOK
      OBVIOUS
    <2>1. \A c \in Callers : op[c].names \subseteq Names /\ op[c].want \subseteq Names
      BY DEF IInv, TypeInv, CallTypes
    <2>2. \A n \in Names : pkgdirs[n] \in {NewDir} \cup Dirs
      BY DEF IInv, TypeInv
    <2> QED BY <2>1, <2>2 DEF IInv, TypeInv, TypeOK, FileTypes, Dirs
  <1> QED BY <1>1, Invariance, PTL

\* Whatever others commit while fetchPackage() fetches file by file, the files
\* of a package on disk are all of one revision.
THEOREM CheckoutsAreSnapshots == Spec => []PackagesAreSnapshots
PROOF
  <1>1. IInv => PackagesAreSnapshots
    BY DEF IInv
  <1> QED BY <1>1, Invariance, PTL

\* Between calls, what checkOutProject() and the writers of underscore files
\* leave can be read in again, _apiurl, _project and _packages, unless a write or
\* a removal was cut short, or met another one.
THEOREM SettledStaysReadable == Spec => []SettledIsReadable
PROOF
  <1>1. IInv => SettledIsReadable
    <2> SUFFICES ASSUME IInv, Busy = {}, osc, ~torn
                 PROVE  Readable /\ under["_packages"].names = known
      BY DEF SettledIsReadable
    <2>1. \A c \in Callers : op[c].tasks = {} /\ op[c].pc \in Ended
      BY DEF Busy, IInv, CallFits, Ended
    <2>2. \A u \in OscFiles : under[u].is = "written"
      BY <2>1 DEF IInv, WritersFit, Unfinished, Clears, Ended
    <2>3. under["_project_meta.json"] # Garbled
      BY UnderscoreTypes DEF IInv, WritersFit
    <2>4. under["_project_meta.json"].is # "garbled"
      <3>1. under["_project_meta.json"] \in FileTypes
        BY UnderscoreTypes DEF IInv, TypeInv
      <3>2. CASE \E s \in SUBSET Names : under["_project_meta.json"] = Written(s)
        BY <3>2, UnderscoreTypes
      <3> QED BY <2>3, <3>1, <3>2, UnderscoreTypes DEF FileTypes
    <2> QED BY <2>2, <2>4, UnderscoreTypes DEF Readable, IInv, KnownFits
  <1> QED BY <1>1, Invariance, PTL

\* One call's step leaves the others where they are.
LEMMA OthersStay ==
  ASSUME IInv, NEW c \in Callers, NEW d \in Callers \ {c},
         Step(c) \/ StartCheckOut(c) \/ StartRefresh(c) \/ StartApply(c)
         \/ RequestCancellation(c)
  PROVE  op'[d].pc = op[d].pc
PROOF
  <1> USE DEF Go, Resolve, Reject, Fail, Fetched
  <1>1. CASE Stat(c) \/ MkDir(c) \/ ReadDir(c) \/ FetchProjectMeta(c) \/ FetchPackageList(c)
    BY <1>1 DEF Stat, MkDir, ReadDir, FetchProjectMeta, FetchPackageList, IInv, TypeInv
  <1>2. CASE MakeOsc(c) \/ Prepare(c) \/ MakePlugin(c) \/ CheckCancelled(c)
    BY <1>2 DEF MakeOsc, Prepare, MakePlugin, CheckCancelled, IInv, TypeInv
  <1>3. ASSUME NEW u \in Underscore, OpenFile(c, u) \/ FillFile(c, u)
        PROVE  op'[d].pc = op[d].pc
    BY <1>3 DEF OpenFile, FillFile, IInv, TypeInv
  <1>4. CASE FetchPackageMeta(c) \/ FetchFileList(c) \/ \E f \in Files : FetchFileContents(c, f)
    BY <1>4 DEF FetchPackageMeta, FetchFileList, FetchFileContents, IInv, TypeInv
  <1>5. CASE PlaceDir(c) \/ PlaceFiles(c) \/ Cleanup(c) \/ RemoveDir(c) \/ RemakeDir(c)
    BY <1>5 DEF PlaceDir, PlaceFiles, Cleanup, RemoveDir, RemakeDir, IInv, TypeInv
  <1>6. ASSUME NEW e, ListDir(c, e) \/ RemoveDot(c, e)
        PROVE  op'[d].pc = op[d].pc
    BY <1>6 DEF ListDir, RemoveDot, IInv, TypeInv
  <1>7. ASSUME NEW u \in Underscore, Unlink(c, u)
        PROVE  op'[d].pc = op[d].pc
    <2>1. CASE Fail(c, {<<"unlink", u>>, <<"rmdir", Home(u)>>})
      BY <2>1 DEF IInv, TypeInv
    <2>2. CASE op'[d] = Losing(op[d], u)
      <3>1. op[d] \in CallTypes /\ CallFits(op[d])
        BY DEF IInv, TypeInv
      <3> QED BY <2>2, <3>1, LosingFits
    <2> QED BY <1>7, <2>1, <2>2 DEF Unlink
  <1>8. ASSUME NEW n \in Names, EmptyPackage(c, n) \/ RemovePackage(c, n)
        PROVE  op'[d].pc = op[d].pc
    BY <1>8 DEF EmptyPackage, RemovePackage, IInv, TypeInv
  <1>9. CASE StartCheckOut(c) \/ StartRefresh(c) \/ StartApply(c) \/ RequestCancellation(c)
    BY <1>9 DEF StartCheckOut, StartRefresh, StartApply, RequestCancellation, Start, IInv, TypeInv
  <1> QED BY <1>1, <1>2, <1>3, <1>4, <1>5, <1>6, <1>7, <1>8, <1>9 DEF Step

\* A call resolves in two places only: neither writing ...
LEMMA NoEndInWriting ==
  ASSUME IInv, NEW c \in Callers, NEW u \in Underscore, OpenFile(c, u) \/ FillFile(c, u)
  PROVE  op'[c].pc \notin {"true", "false"}
PROOF
  <1>1. PICK t \in {"open", "fill", "lost"} : <<t, u>> \in op[c].tasks
    BY DEF OpenFile, FillFile
  <1>2. /\ op[c] \in CallTypes /\ CallFits(op[c]) /\ op[c].tasks \subseteq WriteTasks
        /\ \/ op[c].pc = "write" /\ op[c].kind # "none"
           \/ op[c].pc = "rejected" /\ op[c].kind = "none"
    BY <1>1, WriterIsWriting
  <1>3. ASSUME NEW tasks, Fail(c, tasks) PROVE op'[c].pc \notin {"true", "false"}
    <2>1. op'[c] = Rest(op[c], op[c].tasks \ tasks)
      BY <1>3 DEF Fail, IInv, TypeInv
    <2> QED BY <2>1, IdleFields DEF Rest, CallTypes
  <1>4. CASE OpenFile(c, u) /\ ~Fail(c, {<<"open", u>>})
    BY <1>2, <1>4 DEF OpenFile, IInv, TypeInv, CallTypes
  <1>5. CASE FillFile(c, u)
    <2>1. PICK task : op' = [op EXCEPT ![c] = AfterWrite(@, op[c].tasks \ {task})]
      BY <1>5 DEF FillFile
    <2> DEFINE left == op[c].tasks \ {task}
               call == AfterWrite(op[c], left)
    <2>2. op'[c] = call
      BY <2>1 DEF IInv, TypeInv
    <2>3. left \subseteq op[c].tasks
      OBVIOUS
    <2> HIDE DEF left
    <2>4. /\ left # {} => call.pc = op[c].pc
          /\ left = {} => call.pc \in {"check", "idle"}
      BY <1>2, <2>3, WriteLeaves
    <2> HIDE DEF call
    <2> QED BY <1>2, <2>2, <2>4
  <1> QED BY <1>3, <1>4, <1>5

\* ... nor removing is one of them.
LEMMA NoEndInRemoving ==
  ASSUME IInv, NEW c \in Callers,
         \/ \E d \in {".osc", ".osc_obs_ts"} : ListDir(c, d) \/ RemoveDot(c, d)
         \/ \E u \in Underscore : Unlink(c, u)
         \/ \E n \in Names : EmptyPackage(c, n) \/ RemovePackage(c, n)
  PROVE  op'[c].pc \notin {"true", "false"}
PROOF
  <1>1. PICK t \in RemoveTasks : t \in op[c].tasks
    BY TaskTypes DEF ListDir, RemoveDot, Unlink, EmptyPackage, RemovePackage, Dots
  <1>2. /\ op[c] \in CallTypes /\ CallFits(op[c]) /\ op[c].tasks \subseteq RemoveTasks
        /\ \/ op[c].pc = "removing" /\ op[c].kind = "checkOut"
           \/ op[c].pc = "rejected" /\ op[c].kind = "none"
    BY <1>1, RemoverIsRemoving
  <1>3. ASSUME NEW tasks, Fail(c, tasks) PROVE op'[c].pc \notin {"true", "false"}
    <2>1. op'[c] = Rest(op[c], op[c].tasks \ tasks)
      BY <1>3 DEF Fail, IInv, TypeInv
    <2> QED BY <2>1, IdleFields DEF Rest, CallTypes
  <1>4. ASSUME NEW done, op'[c] = AfterRemoval(op[c], op[c].tasks \ {done})
        PROVE  op'[c].pc \notin {"true", "false"}
    <2> DEFINE left == op[c].tasks \ {done}
    <2>1. left \in SUBSET RemoveTasks
      BY <1>2
    <2> HIDE DEF left
    <2>2. op'[c] = AfterRemoval(op[c], left)
      BY <1>4 DEF left
    <2>3. op'[c].pc \in {op[c].pc, "rmdir", "idle"}
      BY <1>2, <2>1, <2>2, RemovalLeaves
    <2> QED BY <1>2, <2>3
  <1>5. ASSUME NEW d, ListDir(c, d) PROVE op'[c].pc \notin {"true", "false"}
    BY <1>2, <1>3, <1>5 DEF ListDir, IInv, TypeInv, CallTypes
  <1>6. ASSUME NEW n \in Names, EmptyPackage(c, n) PROVE op'[c].pc \notin {"true", "false"}
    BY <1>2, <1>3, <1>6 DEF EmptyPackage, IInv, TypeInv, CallTypes
  <1>7. ASSUME NEW d, RemoveDot(c, d) PROVE op'[c].pc \notin {"true", "false"}
    BY <1>3, <1>4, <1>7 DEF RemoveDot, IInv, TypeInv
  <1>8. ASSUME NEW n \in Names, RemovePackage(c, n) PROVE op'[c].pc \notin {"true", "false"}
    BY <1>3, <1>4, <1>8 DEF RemovePackage, IInv, TypeInv
  <1>9. ASSUME NEW u \in Underscore, Unlink(c, u) PROVE op'[c].pc \notin {"true", "false"}
    BY <1>3, <1>4, <1>9 DEF Unlink
  <1> QED BY <1>5, <1>6, <1>7, <1>8, <1>9

LEMMA OwnEnd ==
  ASSUME IInv, NEW c \in Callers,
         Step(c) \/ StartCheckOut(c) \/ StartRefresh(c) \/ StartApply(c)
         \/ RequestCancellation(c),
         op'[c].pc # op[c].pc
  PROVE  /\ op'[c].pc = "true" => CheckCancelled(c) /\ op[c].want = {}
         /\ op'[c].pc = "false" => RemakeDir(c) /\ path' = TRUE
PROOF
  <1>1. op[c] \in CallTypes
    BY DEF IInv, TypeInv
  <1>2. \A call : op' = [op EXCEPT ![c] = call] => op'[c] = call
    BY DEF IInv, TypeInv
  <1>3. Reject(c) => op'[c].pc = "idle"
    BY <1>2, IdleFields DEF Reject
  <1>4. \A pc : Go(c, pc) => op'[c].pc = pc
    BY <1>1 DEF Go, IInv, TypeInv, CallTypes
  <1>5. \A result : Resolve(c, result) => op'[c].pc = result
    BY <1>2 DEF Resolve, Idle
  <1>6. CASE Stat(c) \/ MkDir(c) \/ ReadDir(c) \/ FetchProjectMeta(c)
             \/ PlaceDir(c) \/ RemoveDir(c)
    BY <1>3, <1>4, <1>6 DEF Stat, MkDir, ReadDir, FetchProjectMeta, PlaceDir, RemoveDir
  <1>7. CASE FetchPackageList(c)
    <2>1. op[c].kind \in {"checkOut", "refresh"}
      BY <1>1, <1>7 DEF FetchPackageList, IInv, CallFits, Ended, CallTypes, CallKinds
    <2>2. Listed(op[c]).pc \in {"mkosc", "prepare"}
      BY <1>1, <2>1 DEF Listed, CallTypes
    <2> QED BY <1>2, <1>3, <1>7, <2>2 DEF FetchPackageList
  <1>8. CASE MakeOsc(c)
    <2> DEFINE late == \E d \in Callers : Sweeping(d)
    <2>1. HavingOsc(op[c]) = [op[c] EXCEPT !.pc = "prepare", !.late = late]
      BY DEF HavingOsc
    <2> HIDE DEF late
    <2>2. HavingOsc(op[c]).pc = "prepare"
      BY <1>1, <2>1 DEF CallTypes
    <2>3. Reject(c) \/ op'[c] = HavingOsc(op[c])
      BY <1>8 DEF MakeOsc, IInv, TypeInv
    <2> QED BY <1>3, <2>2, <2>3
  <1>9. CASE Prepare(c) \/ MakePlugin(c)
    <2>1. AboutToWrite(op[c]).pc = "write"
      BY <1>1 DEF AboutToWrite, CallTypes
    <2>2. Reject(c) \/ op'[c].pc \in {"mkplugin", "write"}
      BY <1>1, <1>9, <2>1 DEF Prepare, MakePlugin, IInv, TypeInv, CallTypes
    <2> QED BY <1>3, <2>2
  <1>10. ASSUME \E u \in Underscore : OpenFile(c, u) \/ FillFile(c, u)
         PROVE  op'[c].pc \notin {"true", "false"}
    BY <1>10, NoEndInWriting
  <1>11. CASE CheckCancelled(c)
    <2>1. \/ op'[c].pc = "cleanup"
          \/ Resolve(c, "true") /\ op[c].want = {}
          \/ op'[c].pc = "fetch"
          \/ Reject(c)
      <3>1. ASSUME NEW n \in op[c].want,
                   op' = [op EXCEPT ![c].pc = "fetch", ![c].pkg = n, ![c].got = NoDir,
                                    ![c].tasks = {<<"list", n>>, <<"meta", n>>}]
            PROVE  op'[c].pc = "fetch"
        <4>1. op'[c] = [op[c] EXCEPT !.pc = "fetch", !.pkg = n, !.got = NoDir,
                                     !.tasks = {<<"list", n>>, <<"meta", n>>}]
          BY <3>1 DEF IInv, TypeInv
        <4> QED BY <1>1, <4>1 DEF CallTypes
      <3>2. ASSUME op' = [op EXCEPT ![c] = [Idle EXCEPT !.kind = "checkOut", !.pc = "cleanup"]]
            PROVE  op'[c].pc = "cleanup"
        BY <1>2, <3>2 DEF Idle
      <3> QED BY <1>11, <3>1, <3>2 DEF CheckCancelled
    <2> QED BY <1>3, <1>5, <1>11, <2>1
  <1>12. ASSUME NEW task, NEW more, NEW call \in CallTypes, Fetched(c, task, more, call)
         PROVE  op'[c].pc \in {"place", "fetch"}
    <2> DEFINE left == (op[c].tasks \ {task}) \cup more
    <2>1. op'[c] = [call EXCEPT !.tasks = left, !.pc = IF left = {} THEN "place" ELSE "fetch"]
      BY <1>12 DEF Fetched, IInv, TypeInv
    <2> HIDE DEF left
    <2> QED BY <1>12, <2>1 DEF CallTypes
  <1>13. CASE FetchPackageMeta(c)
    BY <1>1, <1>3, <1>12, <1>13 DEF FetchPackageMeta
  <1>14. ASSUME FetchFileList(c) \/ \E f \in Files : FetchFileContents(c, f)
         PROVE  op'[c].pc \notin {"true", "false"}
    <2>1. Reject(c) \/ op'[c].pc \in {"place", "fetch"}
      <3>2. CASE FetchFileList(c)
        <4>1. op[c].pkg \in Names
          BY <1>1, <3>2 DEF FetchFileList, IInv, CallFits, CallTypes
        <4>2. obs[op[c].pkg] \in 0 .. MaxChanges + 1
          BY <4>1 DEF IInv, TypeInv
        <4>3. [op[c] EXCEPT !.rev = obs[op[c].pkg]] \in CallTypes
          BY <1>1, <4>2 DEF CallTypes
        <4> QED BY <1>12, <3>2, <4>3 DEF FetchFileList
      <3>3. ASSUME NEW f \in Files, FetchFileContents(c, f)
            PROVE  Reject(c) \/ op'[c].pc \in {"place", "fetch"}
        <4>1. op[c].got \in Dirs /\ op[c].rev \in 0 .. MaxChanges + 1
          BY <1>1 DEF CallTypes
        <4>2. [op[c].got EXCEPT ![f] = op[c].rev] \in Dirs
          BY <4>1 DEF Dirs
        <4>3. [op[c] EXCEPT !.got[f] = op[c].rev] \in CallTypes
          BY <1>1, <4>2 DEF CallTypes
        <4> QED BY <1>12, <3>3, <4>3 DEF FetchFileContents
      <3> QED BY <1>14, <3>2, <3>3
    <2> QED BY <1>3, <2>1
  <1>15. CASE PlaceFiles(c)
    <2>1. Reject(c) \/ op'[c].pc = "check"
      BY <1>1, <1>15 DEF PlaceFiles, IInv, TypeInv, CallTypes
    <2> QED BY <1>3, <2>1
  <1>16. CASE Cleanup(c)
    <2> DEFINE found == {<<"readdir", d>> : d \in {h \in {".osc", ".osc_obs_ts"} : There(h)}}
                        \cup {<<"empty", n>> : n \in {m \in Names : pkgdirs[m] # NoDir}}
               old == [op[c] EXCEPT !.pc = "removing"]
    <2>1. op'[c] = AfterRemoval(old, found)
      BY <1>16 DEF Cleanup, IInv, TypeInv
    <2>2. old \in CallTypes /\ old.pc = "removing"
      BY <1>1 DEF CallTypes, Places
    <2> HIDE DEF old, found
    <2>3. op'[c].pc \in {"removing", "rmdir"}
      BY <2>1, <2>2 DEF AfterRemoval, CallTypes
    <2> QED BY <2>3
  <1>17. CASE RemakeDir(c)
    <2>1. \/ Reject(c)
          \/ path' = TRUE /\ Resolve(c, "false")
      BY <1>17 DEF RemakeDir
    <2> QED BY <1>3, <1>5, <1>17, <2>1
  <1>18. CASE StartCheckOut(c) \/ StartRefresh(c) \/ StartApply(c)
    <2>1. PICK call : Start(c, call) /\ call.pc \in {"stat", "fetchMeta", "prepare"}
      <3>1. CASE StartCheckOut(c)
        <4>1. PICK call : /\ Start(c, call)
                          /\ \/ call = [Idle EXCEPT !.kind = "checkOut", !.pc = "stat"]
                             \/ \E list \in SUBSET Names :
                                  call = [Idle EXCEPT !.kind = "checkOut", !.pc = "stat",
                                                      !.all = FALSE, !.want = list]
          BY <3>1 DEF StartCheckOut
        <4>2. call.pc = "stat"
          BY <4>1, IdleFields DEF CallTypes
        <4> QED BY <4>1, <4>2
      <3>2. CASE StartRefresh(c)
        <4> DEFINE call == [Idle EXCEPT !.kind = "refresh", !.pc = "fetchMeta",
                                        !.stored = under["_packages"].names]
        <4>1. Start(c, call)
          BY <3>2 DEF StartRefresh
        <4>2. call.pc = "fetchMeta"
          BY IdleFields DEF CallTypes
        <4> QED BY <4>1, <4>2
      <3>3. CASE StartApply(c)
        <4>1. PICK kind, names :
                Start(c, [Idle EXCEPT !.kind = kind, !.pc = "prepare", !.names = names])
          BY <3>3 DEF StartApply
        <4> DEFINE call == [Idle EXCEPT !.kind = kind, !.pc = "prepare", !.names = names]
        <4>2. call.pc = "prepare"
          BY IdleFields DEF CallTypes
        <4> QED BY <4>1, <4>2
      <3> QED BY <1>18, <3>1, <3>2, <3>3
    <2> QED BY <1>2, <2>1 DEF Start
  <1>19. CASE RequestCancellation(c)
    BY <1>19 DEF RequestCancellation
  <1>20. ASSUME \/ \E d \in {".osc", ".osc_obs_ts"} : ListDir(c, d) \/ RemoveDot(c, d)
                \/ \E u \in Underscore : Unlink(c, u)
                \/ \E n \in Names : EmptyPackage(c, n) \/ RemovePackage(c, n)
         PROVE  op'[c].pc \notin {"true", "false"}
    BY <1>20, NoEndInRemoving
  <1> QED BY <1>3, <1>6, <1>7, <1>8, <1>9, <1>10, <1>11, <1>13, <1>14, <1>15, <1>16,
             <1>17, <1>18, <1>19, <1>20 DEF Step

\* What the end of a call says, whoever made the step.
LEMMA EndOfCall ==
  ASSUME IInv, [Next]_vars, NEW c \in Callers, op'[c].pc # op[c].pc
  PROVE  /\ op'[c].pc = "true" => CheckCancelled(c) /\ op[c].want = {}
         /\ op'[c].pc = "false" => RemakeDir(c) /\ path' = TRUE
PROOF
  <1>1. ASSUME NEW d \in Callers,
               Step(d) \/ StartCheckOut(d) \/ StartRefresh(d) \/ StartApply(d)
               \/ RequestCancellation(d)
        PROVE  /\ op'[c].pc = "true" => CheckCancelled(c) /\ op[c].want = {}
               /\ op'[c].pc = "false" => RemakeDir(c) /\ path' = TRUE
    <2>1. CASE d = c
      BY <1>1, <2>1, OwnEnd
    <2>2. CASE d # c
      BY <1>1, <2>2, OthersStay
    <2> QED BY <2>1, <2>2
  <1>2. CASE Crash
    BY <1>2, IdleFields DEF Crash
  <1>3. ASSUME NEW n \in Names, ChangeOnServer(n)
        PROVE  FALSE
    BY <1>3 DEF ChangeOnServer
  <1>4. CASE UNCHANGED vars
    BY <1>4 DEF vars
  <1> QED BY <1>1, <1>2, <1>3, <1>4 DEF Next

\* checkOutProject() resolves with true only when every package it was asked
\* for is on disk with all its files, whatever others do to the directory,
\* unless a clean-up was still at work there when it made .osc.
THEOREM SuccessMeansComplete == Spec => SuccessIsComplete
PROOF
  <1>1. ASSUME IInv, [Next]_vars, NEW c \in Callers, op[c].pc = "check", op'[c].pc = "true",
               ~op[c].late
        PROVE  path /\ osc /\ \A n \in op[c].asked : Complete(n)
    <2>1. op[c].want = {}
      BY <1>1, EndOfCall
    <2>2. op[c].kind = "checkOut"
      BY <1>1 DEF IInv, CallFits, TypeInv, CallTypes, CallKinds, Ended
    <2>3. Checks(op[c]) /\ IsHolder(op[c])
      BY <1>1, <2>2 DEF IsOwner, IsHolder, Checks
    <2> QED BY <1>1, <2>1, <2>3 DEF IInv, OwnerIsAlone, PlacedIsComplete
  <1>2. IInv /\ [Next]_vars =>
          [\A c \in Callers : op[c].pc = "check" /\ op'[c].pc = "true" /\ ~op[c].late
             => path /\ osc /\ \A n \in op[c].asked : Complete(n)]_vars
    BY <1>1
  <1> QED BY <1>2, Invariance, PTL DEF Spec, SuccessIsComplete

\* checkOutProject() resolves with false only when the directory is there and
\* empty: cleanup() refuses one that somebody else has made meanwhile.
THEOREM CancelledMeansEmpty == Spec => CancelledLeavesEmptyDir
PROOF
  <1>1. ASSUME IInv, [Next]_vars, NEW c \in Callers, op[c].pc # "false", op'[c].pc = "false"
        PROVE  path' /\ EmptyDir'
    <2>1. RemakeDir(c) /\ path' = TRUE
      BY <1>1, EndOfCall
    <2>2. ~Reject(c)
      BY <1>1, IdleFields DEF Reject, IInv, TypeInv
    <2>3. ~path /\ UNCHANGED <<osc, plugin, pkgdirs>>
      BY <2>1, <2>2 DEF RemakeDir
    <2> QED BY <1>1, <2>1, <2>3 DEF IInv, NothingWithoutPath, EmptyDir
  <1>2. IInv /\ [Next]_vars =>
          [\A c \in Callers : op[c].pc # "false" /\ op'[c].pc = "false"
             => path' /\ EmptyDir']_vars
    BY <1>1
  <1> QED BY <1>2, Invariance, PTL DEF Spec, CancelledLeavesEmptyDir

\* Only the end of a write of _packages changes what was written last.
LEMMA KnownIsWritten ==
  ASSUME [Next]_vars, known' # known
  PROVE  \E d \in Callers, u \in Underscore : FillFile(d, u) /\ known' = op[d].names
PROOF
  <1>1. ASSUME NEW d \in Callers,
               \/ Stat(d) \/ MkDir(d) \/ ReadDir(d) \/ FetchProjectMeta(d)
               \/ FetchPackageList(d) \/ MakeOsc(d) \/ Prepare(d) \/ MakePlugin(d)
        PROVE  FALSE
    BY <1>1 DEF Stat, MkDir, ReadDir, FetchProjectMeta, FetchPackageList, MakeOsc, Prepare,
                MakePlugin, Reject, Same, history
  <1>2. ASSUME NEW d \in Callers,
               \/ \E u \in Underscore : OpenFile(d, u)
               \/ CheckCancelled(d) \/ FetchPackageMeta(d) \/ FetchFileList(d)
               \/ \E f \in Files : FetchFileContents(d, f)
        PROVE  FALSE
    BY <1>2 DEF OpenFile, CheckCancelled, FetchPackageMeta, FetchFileList, FetchFileContents,
                Reject, Fail, Same, history
  <1>3. ASSUME NEW d \in Callers,
               \/ PlaceDir(d) \/ PlaceFiles(d) \/ Cleanup(d) \/ RemoveDir(d)
               \/ RemakeDir(d)
        PROVE  FALSE
    BY <1>3 DEF PlaceDir, PlaceFiles, Cleanup, RemoveDir, RemakeDir, Reject, Same, history
  <1>4. ASSUME NEW d \in Callers,
               \/ \E e \in {".osc", ".osc_obs_ts"} : ListDir(d, e) \/ RemoveDot(d, e)
               \/ \E u \in Underscore : Unlink(d, u)
               \/ \E n \in Names : EmptyPackage(d, n) \/ RemovePackage(d, n)
        PROVE  FALSE
    BY <1>4 DEF ListDir, RemoveDot, Unlink, EmptyPackage, RemovePackage, Fail, Same, history
  <1>5. ASSUME NEW d \in Callers,
               StartCheckOut(d) \/ StartRefresh(d) \/ StartApply(d) \/ RequestCancellation(d)
        PROVE  FALSE
    BY <1>5 DEF StartCheckOut, StartRefresh, StartApply, RequestCancellation, Start, history
  <1>6. ASSUME \/ Crash \/ UNCHANGED vars \/ \E n \in Names : ChangeOnServer(n)
        PROVE  FALSE
    BY <1>6 DEF Crash, ChangeOnServer, vars, history
  <1>7. ASSUME NEW d \in Callers, NEW u \in Underscore, FillFile(d, u)
        PROVE  known' = op[d].names
    BY <1>7 DEF FillFile
  <1> QED BY <1>1, <1>2, <1>3, <1>4, <1>5, <1>6, <1>7 DEF Next, Step

\* readInAndUpdateCheckedoutProject() only forgets packages of a project that
\* has some, as long as no other call is in progress.
THEOREM RefreshForgetsOnly == Spec => RefreshOnlyForgets
PROOF
  <1>1. ASSUME IInv, [Next]_vars, NEW c \in Callers \ overlap,
               op[c].kind = "refresh", known # {}
        PROVE  known' \subseteq known
    <2>1. CASE known' = known
      BY <2>1
    <2>2. CASE known' # known
      <3>1. PICK d \in Callers, u \in Underscore : FillFile(d, u) /\ known' = op[d].names
        BY <1>1, <2>2, KnownIsWritten
      <3>2. PICK t \in {"open", "fill", "lost"} : <<t, u>> \in op[d].tasks
        BY <3>1 DEF FillFile
      <3>3. d \in Busy /\ op[d].pc \in {"write", "rejected"} /\ CallFits(op[d])
        BY <1>1, <3>2, WriterIsWriting
      <3>4. c \in Busy
        BY <1>1 DEF IInv, CallFits, Busy
      <3>5. d = c
        BY <1>1, <3>3, <3>4 DEF IInv, AloneFits
      <3>6. op[c].pc = "write"
        BY <1>1, <3>3, <3>5 DEF CallFits
      <3> QED BY <1>1, <3>1, <3>5, <3>6 DEF IInv, AloneFits
    <2> QED BY <2>1, <2>2
  <1>2. IInv /\ [Next]_vars =>
          [\A c \in Callers \ overlap :
             op[c].kind = "refresh" /\ known # {} => known' \subseteq known]_vars
    BY <1>1
  <1> QED BY <1>2, Invariance, PTL DEF Spec, RefreshOnlyForgets
=============================================================================

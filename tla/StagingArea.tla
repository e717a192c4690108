---------------------------- MODULE StagingArea ----------------------------
(***************************************************************************)
(* What a checked out package promises to the one who works in it, with    *)
(* the files of .osc, the requests and the steps of an operation left out: *)
(* additions and deletions are planned, a plan is recorded before it is    *)
(* made and outlives the process, and a commit carries out the plan of the *)
(* caller as a whole, and nothing else.                                    *)
(***************************************************************************)
CONSTANTS
  Files,      \* names of files
  Contents,   \* contents of files
  None        \* no such file

VARIABLES
  head,       \* the package on the server
  base,       \* the revision that is checked out
  level,      \* every commit that was accepted is checked out
  added,      \* the additions that are recorded
  deleted,    \* the deletions that are recorded
  present,    \* the files in the directory
  session,    \* the plan of the caller
  reading     \* the additions that are found by the reading in progress, if any

vars == <<head, base, level, added, deleted, present, session, reading>>

Packages == [Files -> Contents \cup {None}]
FilesIn(package) == {f \in Files : package[f] # None}

\* The caller has a plan, has none, or has committed it and waits for the end.
Plan(additions, deletions) ==
  [phase |-> "open", added |-> additions, deleted |-> deletions]
Closed == [phase |-> "closed", added |-> {}, deleted |-> {}]
Settling == [phase |-> "settling", added |-> {}, deleted |-> {}]
NothingPlanned == Plan({}, {})

AtRest == session.phase # "settling" /\ reading = {}
IsOpen == session.phase = "open" /\ reading = {}

Init ==
  /\ head \in Packages
  /\ base = head
  /\ level = TRUE
  /\ added = {}
  /\ deleted = {}
  /\ present = FilesIn(head)
  /\ session = NothingPlanned
  /\ reading = {}

\* The user, or a task of an operation, creates or removes files.
Touch ==
  /\ present' \subseteq Files
  /\ UNCHANGED <<head, base, level, added, deleted, session, reading>>

-----------------------------------------------------------------------------
(* The record is read in.                                                  *)

\* An addition is found again when its file is there.
Found == (added \cap present) \ FilesIn(base)

StartReading ==
  /\ AtRest
  /\ reading' = {Found}
  /\ UNCHANGED <<head, base, level, added, deleted, present, session>>

\* Of the deletions that are recorded all are planned again, whatever has become
\* of their files.
FinishReading ==
  /\ \E additions \in IF AtRest THEN {Found} ELSE reading :
       session' = Plan(additions, deleted \cap FilesIn(base))
  /\ reading' = {}
  /\ UNCHANGED <<head, base, level, added, deleted, present>>

GiveUpReading ==
  /\ reading # {}
  /\ reading' = {}
  /\ UNCHANGED <<head, base, level, added, deleted, present, session>>

-----------------------------------------------------------------------------
(* The plan changes.                                                       *)

\* More is recorded, one list at a time, and in the end it is the plan; files
\* are removed only after that.
PlanMore ==
  /\ IsOpen
  /\ session.added \subseteq added'
  /\ session.deleted \subseteq deleted'
  /\ \/ UNCHANGED <<added, deleted>>
     \/ added' \subseteq Files \ FilesIn(base) /\ UNCHANGED deleted
     \/ deleted' \subseteq FilesIn(base) /\ UNCHANGED added
  /\ \/ UNCHANGED session
     \/ /\ session' = Plan(added', deleted')
        /\ added' \subseteq Files \ FilesIn(base)
        /\ deleted' \subseteq FilesIn(base)
  /\ present' \subseteq present
  /\ present \ present' \subseteq deleted'
  /\ UNCHANGED <<head, base, level, reading>>

\* Less is planned and recorded, in one step.
PlanLess ==
  /\ IsOpen
  /\ \/ /\ added' \subseteq session.added
        /\ session' = Plan(added', session.deleted)
        /\ UNCHANGED deleted
     \/ /\ deleted' \subseteq session.deleted
        /\ session' = Plan(session.added, deleted')
        /\ UNCHANGED added
  /\ UNCHANGED <<head, base, level, present, reading>>

-----------------------------------------------------------------------------
(* The plan is carried out.                                                *)

\* The server takes the files of the checked out revision with what the caller
\* has planned, and nothing else; the caller gets to know, or is told that the
\* commit failed.
Commit ==
  /\ IsOpen
  /\ head' \in Packages
  /\ FilesIn(head') = (FilesIn(base) \cup session.added) \ session.deleted
  /\ level' = FALSE
  /\ session' \in {session, Settling}
  /\ UNCHANGED <<base, added, deleted, present, reading>>

\* What was committed is checked out and the plan crossed off, in any order; the
\* caller is told when all of it is done.
Settle ==
  /\ session.phase = "settling"
  /\ base' \in {base, head}
  /\ added' \in {added, {}}
  /\ deleted' \in {deleted, {}}
  /\ \/ UNCHANGED <<session, level>>
     \/ /\ session' = NothingPlanned
        /\ level' = TRUE
        /\ base' = head
        /\ added' = {}
        /\ deleted' = {}
  /\ UNCHANGED <<head, present, reading>>

\* The process ends: what is recorded stays.
Crash ==
  /\ session' = Closed
  /\ reading' = {}
  /\ UNCHANGED <<head, base, level, added, deleted, present>>

-----------------------------------------------------------------------------

Next ==
  \/ Touch
  \/ StartReading \/ FinishReading \/ GiveUpReading
  \/ PlanMore \/ PlanLess
  \/ Commit \/ Settle
  \/ Crash

Spec == Init /\ [][Next]_vars

=============================================================================

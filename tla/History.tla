-------------------------------- MODULE History --------------------------------
(***************************************************************************)
(* The history of a package across links (src/history.ts): the revisions   *)
(* of a package are fetched and chained, and each revision that is a link  *)
(* gets a commit of the linked package as a further parent, whose history  *)
(* is fetched the same way first.  A call works on a stack of packages and *)
(* shares two caches among them; others commit to the server meanwhile.    *)
(***************************************************************************)
EXTENDS Integers, Sequences, FiniteSets

CONSTANTS
  Packages,      \* packages, each named with its project
  Top,           \* the package whose history is asked for
  Histories,     \* what the server may hold when the call starts
  NewRevisions,  \* revisions that may be committed during the call
  MaxCommits     \* bound on these commits

\* A revision is a link to a package, or none; the link may name a revision of
\* it and the one it was based on.  A conflict with that package makes the
\* sources impossible to expand.
Links == [to : Packages \cup {"none"}, rev : Int, base : Nat, conflict : BOOLEAN]
NoLink == [to |-> "none", rev |-> 0, base |-> 0, conflict |-> FALSE]
\* A revision that is named by its number, not by its hash.
Numbered == -1

ASSUME HistoryAssumption ==
  /\ Top \in Packages /\ "none" \notin Packages
  /\ \A h \in Histories : h \in [Packages -> Seq(Links)]
  /\ NewRevisions \subseteq Links
  /\ MaxCommits \in Nat

VARIABLES
  revs,       \* the revisions of each package on the server, oldest first
  commits,    \* commits of others since the call began
  stack,      \* the packages that are being worked on, the innermost last
  heads,      \* pkgHistoryCache: the head commit of each package fetched
  parents,    \* commitCache: the commits and their parentCommits
  outcome     \* how the call ended

server == <<revs, commits>>
caches == <<heads, parents>>
vars == <<server, stack, caches, outcome>>

\* The hash of the k-th revision, of its expanded or unexpanded sources.
Hash(p, k, expanded) == [pkg |-> p, k |-> k, expanded |-> expanded]
NoCommit == Hash("none", 0, TRUE)
Expands(p, k) == ~revs[p][k].conflict
HeadOnServer(p) ==
  IF revs[p] = <<>> THEN NoCommit
  ELSE Hash(p, Len(revs[p]), Expands(p, Len(revs[p])))

Pending == [id |-> NoCommit, link |-> NoLink, src |-> NoCommit]
Frame(p) == [pkg |-> p, pc |-> "list", todo |-> {}, dirs |-> <<>>, i |-> 1,
             cur |-> NoCommit]

Init ==
  /\ revs \in Histories
  /\ commits = 0
  /\ stack = <<Frame(Top)>>
  /\ heads = [p \in {} |-> NoCommit]
  /\ parents = [c \in {} |-> <<>>]
  /\ outcome = "running"

Here == stack[Len(stack)]
In(pc) == outcome = "running" /\ Here.pc = pc
Become(frame) == stack' = [stack EXCEPT ![Len(stack)] = frame]
Fail(what) == outcome' = what /\ UNCHANGED <<server, stack, caches>>
Quiet == UNCHANGED <<server, caches, outcome>>

-----------------------------------------------------------------------------
(* fetchExpandedRevisions()                                                *)

FetchHistory ==
  /\ In("list")
  /\ \/ LET n == Len(revs[Here.pkg]) IN
        /\ Become([Here EXCEPT !.pc = "dirs",
                               !.todo = {<<k, TRUE>> : k \in 1 .. n},
                               !.dirs = [i \in 1 .. n |-> Pending]])
        /\ Quiet
     \/ Fail("rejected")

\* <linkinfo>: with expand=1&linkrev=base, srcmd5 is the base revision of the
\* link if it has one; without, it is what the link points to at the moment.
SourceOf(link, expanded) ==
  IF link.to = "none" THEN NoCommit
  ELSE IF expanded /\ link.base # 0 THEN Hash(link.to, link.base, TRUE)
  ELSE IF link.rev > 0 THEN Hash(link.to, link.rev, TRUE)
  ELSE HeadOnServer(link.to)

\* The directories of all revisions are fetched concurrently, expanded, and
\* again unexpanded if the reply has status 400.  dirs has the newest first.
FetchDirectory(k) ==
  /\ In("dirs")
  /\ \E expanded \in BOOLEAN :
       LET link == revs[Here.pkg][k]
           at == Len(Here.dirs) + 1 - k
           left == Here.todo \ {<<k, expanded>>}
       IN
       /\ <<k, expanded>> \in Here.todo
       /\ \/ /\ Become(IF expanded /\ link.conflict
                       THEN [Here EXCEPT !.todo = left \cup {<<k, FALSE>>}]
                       ELSE [Here EXCEPT !.todo = left,
                               !.dirs[at] = [id |-> Hash(Here.pkg, k, expanded),
                                             link |-> link,
                                             src |-> SourceOf(link, expanded)]])
             /\ Quiet
          \/ Fail("rejected")

-----------------------------------------------------------------------------
(* cachedFetchHistoryAcrossLinks()                                         *)

\* Faulty: the package is remembered when its links are resolved.
CacheLate ==
  /\ In("dirs") /\ Here.todo = {} /\ Here.dirs # <<>>
  /\ Become([Here EXCEPT !.pc = "walk", !.cur = Here.dirs[1].id])
  /\ parents' = [c \in DOMAIN parents \cup {Here.dirs[i].id : i \in DOMAIN Here.dirs} |->
                   IF c \in DOMAIN parents THEN parents[c] ELSE <<>>]
  /\ UNCHANGED <<server, heads, outcome>>

\* The revisions become a chain of commits, and they and the package are put
\* into the caches before any link is resolved.
Cache ==
  LET n == Len(Here.dirs)
      ids == {Here.dirs[i].id : i \in 1 .. n}
      Older(c) == {Here.dirs[i].id : i \in {j \in 2 .. n : Here.dirs[j - 1].id = c}}
      head == IF n = 0 THEN NoCommit ELSE Here.dirs[1].id
  IN
  /\ In("dirs") /\ Here.todo = {}
  /\ Become([Here EXCEPT !.pc = "walk", !.cur = head])
  /\ heads' = [p \in DOMAIN heads \cup {Here.pkg} |->
                 IF p = Here.pkg THEN head ELSE heads[p]]
  /\ parents' = [c \in DOMAIN parents \cup ids |->
                   IF c \in DOMAIN parents THEN parents[c]
                   ELSE IF Older(c) = {} THEN <<>>
                   ELSE <<CHOOSE d \in Older(c) : TRUE>>]
  /\ UNCHANGED <<server, outcome>>

Last == Here.i = Len(Here.dirs)
Link == Here.dirs[Here.i].link

\* The history of the linked package comes from the cache or is fetched.
WithLinked(pc) ==
  /\ stack' = LET waiting == [stack EXCEPT ![Len(stack)].pc = pc] IN
              IF Link.to \in DOMAIN heads THEN waiting
              ELSE Append(waiting, Frame(Link.to))
  /\ Quiet

\* Faulty: the commit at hand stays the same.
AdvanceStuck(known) == Become([Here EXCEPT !.pc = "walk", !.i = @ + 1])
\* Faulty: on to the parent that was added last.
AdvanceToLast(known) ==
  Become([Here EXCEPT !.pc = "walk", !.i = @ + 1,
                      !.cur = IF known[@] = <<>> THEN @ ELSE known[@][Len(known[@])]])
\* On to the next revision and to the first parent of the commit at hand.
Advance(known) ==
  Become([Here EXCEPT !.pc = "walk", !.i = @ + 1,
                      !.cur = IF known[@] = <<>> THEN @ ELSE known[@][1]])

\* Once through the loop without another parent ...
GoOn ==
  IF parents[Here.cur] = <<>> /\ ~Last THEN Fail("badEnd")
  ELSE Advance(parents) /\ Quiet

\* ... and with one.
AddParent(commit) ==
  LET known == [parents EXCEPT ![Here.cur] = Append(@, commit)] IN
  /\ parents' = known
  /\ Advance(known)
  /\ UNCHANGED <<server, heads, outcome>>

\* Faulty: the loop goes on with the same revision.
PassOverStuck ==
  /\ In("walk") /\ Here.i <= Len(Here.dirs)
  /\ Link.to = "none"
  /\ Become(Here) /\ Quiet
\* A revision without a link is passed over; the commit at hand stays.
PassOver ==
  /\ In("walk") /\ Here.i <= Len(Here.dirs)
  /\ Link.to = "none"
  /\ Become([Here EXCEPT !.i = @ + 1])
  /\ Quiet

\* The link names a revision, has no base, or is the first revision.
Attaches == Link.rev # 0 \/ Link.base = 0 \/ Last

\* Faulty: every link with a base counts as a branch.
BranchesOffAlways == TRUE
\* Does the branch start here?  Only if the older revision has no link or
\* another base.
BranchesOff ==
  LET older == Here.dirs[Here.i + 1].link IN
  older.to = "none" \/ (older.base # 0 /\ older.base # Link.base)

FollowBase ==
  IF Link.base # 0 /\ ~Last
  THEN IF Len(parents[Here.cur]) # 1 THEN Fail("badChain")
       ELSE IF BranchesOff THEN WithLinked("base")
       ELSE GoOn
  ELSE GoOn

FollowLink ==
  /\ In("walk") /\ Here.i <= Len(Here.dirs)
  /\ Link.to # "none"
  /\ IF Attaches THEN WithLinked("linked") ELSE FollowBase

\* Faulty: the commit is not looked up.
KnownOrNot(commit) == commit
Known(commit) == IF commit \in DOMAIN parents THEN commit ELSE NoCommit

\* Attach the named revision, or the head.  If the named one is unknown, the
\* base is used instead.
Attach ==
  /\ In("linked") /\ Link.to \in DOMAIN heads
  /\ LET named == Hash(Link.to, Link.rev, TRUE)
         commit == IF Link.rev = 0 THEN heads[Link.to]
                   ELSE Known(named)
     IN
     CASE heads[Link.to] = NoCommit -> GoOn
       [] heads[Link.to] # NoCommit /\ commit = NoCommit -> FollowBase
       [] OTHER -> IF commit \in {named, Here.dirs[Here.i].src}
                   THEN AddParent(commit) ELSE Fail("badHead")

AttachBase ==
  /\ In("base") /\ Link.to \in DOMAIN heads
  /\ LET commit == Known(Hash(Link.to, Link.base, TRUE)) IN
     IF heads[Link.to] = NoCommit THEN GoOn
     ELSE IF commit = NoCommit THEN Fail("badBase")
     ELSE AddParent(commit)

\* The end of the loop: back to the package that links to this one.
Return ==
  /\ In("walk") /\ Here.i > Len(Here.dirs)
  /\ IF Len(stack) = 1
     THEN outcome' = "done" /\ UNCHANGED <<server, stack, caches>>
     ELSE /\ stack' = SubSeq(stack, 1, Len(stack) - 1)
          /\ Quiet

Commit(p) ==
  /\ commits < MaxCommits
  /\ commits' = commits + 1
  /\ outcome = "running"
  /\ \E rev \in NewRevisions : revs' = [revs EXCEPT ![p] = Append(@, rev)]
  /\ UNCHANGED <<stack, caches, outcome>>

Step ==
  \/ FetchHistory
  \/ \E k \in 1 .. Len(Here.dirs) : FetchDirectory(k)
  \/ Cache \/ PassOver \/ FollowLink \/ Attach \/ AttachBase \/ Return

Next == Step \/ \E p \in Packages : Commit(p)

\* Every request is answered or fails, see Connection!EveryCallSettles.
Spec == Init /\ [][Next]_vars /\ WF_vars(Step)

-----------------------------------------------------------------------------

Commits == [pkg : Packages, k : Nat \ {0}, expanded : BOOLEAN]

TypeOK ==
  /\ commits \in 0 .. MaxCommits
  /\ DOMAIN heads \subseteq Packages
  /\ \A p \in DOMAIN heads : heads[p] \in DOMAIN parents \cup {NoCommit}
  /\ DOMAIN parents \subseteq Commits
  /\ \A c \in DOMAIN parents : \A i \in DOMAIN parents[c] :
       parents[c][i] \in DOMAIN parents
  /\ outcome \in {"running", "done", "rejected", "badEnd", "badChain", "badHead",
                  "badBase"}

\* Packages that link to each other in a circle are each fetched once: none is
\* entered while it is being worked on, or again later.
NoPackageTwice ==
  \A i, j \in 1 .. Len(stack) : stack[i].pkg = stack[j].pkg => i = j

\* The two assertions of the loop on the chain of commits hold, whatever the
\* other packages do to the shared caches: it does not run out of commits, and
\* a commit that branches off has no other parent yet.
ChainIsWalked == outcome \notin {"badEnd", "badChain"}

\* The parents that commit k of p has by the rules in the comments of the loop,
\* read off the server: the revision before it, and what its link stands for.
PreviousOf(p, k) == IF k = 1 THEN <<>> ELSE <<Hash(p, k - 1, Expands(p, k - 1))>>
LinkedOf(p, k) ==
  LET link == revs[p][k]
      known == link.rev > 0 /\ link.rev <= Len(revs[link.to])
               /\ Expands(link.to, link.rev)
      older == revs[p][k - 1]
  IN
  IF link.to = "none" \/ revs[link.to] = <<>> THEN <<>>
  ELSE IF known THEN <<Hash(link.to, link.rev, TRUE)>>
  ELSE IF link.rev = 0 /\ (link.base = 0 \/ k = 1) THEN <<HeadOnServer(link.to)>>
  ELSE IF link.base # 0 /\ k > 1
          /\ (older.to = "none" \/ older.base \notin {0, link.base})
       THEN <<Hash(link.to, link.base, TRUE)>>
  ELSE <<>>

\* A package that has been a link and no longer is.
StoppedLinking(p) ==
  \E j, k \in 1 .. Len(revs[p]) :
    j < k /\ revs[p][j].to # "none" /\ revs[p][k].to = "none"

\* When nobody commits meanwhile and links are not given up again, every commit
\* of every package on the way has exactly the parents that the rules give.
HistoryIsRight ==
  outcome = "done" /\ commits = 0 /\ (\A p \in DOMAIN heads : ~StoppedLinking(p))
    => \A p \in DOMAIN heads : \A k \in 1 .. Len(revs[p]) :
         parents[Hash(p, k, Expands(p, k))] = PreviousOf(p, k) \o LinkedOf(p, k)

\* Does a package link, over others, to itself?
Linked == {link \in Packages \X Packages :
             \E k \in 1 .. Len(revs[link[1]]) : revs[link[1]][k].to = link[2]}
ParentsOf(children) ==
  UNION {{parents[c][i] : i \in DOMAIN parents[c]} : c \in children}
Ancestors(commit) ==
  LET n == Cardinality(DOMAIN parents)
      up[m \in 0 .. n] == IF m = 0 THEN ParentsOf({commit})
                         ELSE up[m - 1] \cup ParentsOf(up[m - 1])
  IN up[n]
Circular ==
  \E s \in SUBSET Packages : s # {} /\ \A p \in s : \E q \in s : <<p, q>> \in Linked

\* No commit is its own ancestor, unless packages link in a circle.
NoCommitIsItsAncestor ==
  ~Circular => \A c \in DOMAIN parents : c \notin Ancestors(c)

\* The call ends, even if the packages link in a circle.
HistoryEnds == outcome = "running" ~> outcome # "running"

\* What the assertion at history.ts:511 says of the commit that is attached as
\* HEAD of the linked package: as long as nobody commits, it is the one that the
\* link's srcmd5 names.
AttachedHeadIsCurrent == commits = 0 => outcome # "badHead"

=============================================================================

----------------------------- MODULE HistoryProofs -----------------------------
(***************************************************************************)
(* Theorems about History, for any packages, any links among them, with    *)
(* circles, and any number of commits meanwhile.                           *)
(***************************************************************************)
EXTENDS History, Induction, FiniteSetTheorems, SequenceTheorems, TLAPS

-----------------------------------------------------------------------------
(* The inductive invariant, in parts.                                      *)

Hashes == [pkg : Packages \cup {"none"}, k : Int, expanded : BOOLEAN]
Dirs == [id : Hashes, link : Links, src : Hashes]
Frames == [pkg : Packages, pc : {"list", "dirs", "walk", "linked", "base"},
           todo : SUBSET (Nat \X BOOLEAN), dirs : Seq(Dirs), i : Nat \ {0}, cur : Hashes]
\* badEnd and badChain are not among them.
Outcomes == {"running", "done", "rejected", "badHead", "badBase"}

TypeInv ==
  /\ revs \in [Packages -> Seq(Links)]
  /\ commits \in 0 .. MaxCommits
  /\ stack \in Seq(Frames) /\ stack # <<>>
  /\ heads \in [DOMAIN heads -> Hashes] /\ DOMAIN heads \subseteq Packages
  /\ parents \in [DOMAIN parents -> Seq(Hashes)] /\ IsFiniteSet(DOMAIN parents)
  /\ outcome \in Outcomes

\* The commit that stands for the k-th revision.
Id(p, k) == Hash(p, k, Expands(p, k))

\* A package goes into the cache before its links are followed.
Cached(f) == f.pc \in {"walk", "linked", "base"}
StackFits ==
  /\ \A j \in 1 .. Len(stack) : stack[j].pkg \in DOMAIN heads <=> Cached(stack[j])
  /\ \A j \in 1 .. Len(stack) : ~Cached(stack[j]) => stack[j].i = 1
  /\ \A j \in 1 .. Len(stack) - 1 : stack[j].pc \in {"linked", "base"}

\* The revision that is the at-th directory, and what has to be known of it.
Revision(f, at) == Len(f.dirs) + 1 - at
DirFits(f, at) ==
  /\ f.dirs[at].id = Id(f.pkg, Revision(f, at))
  /\ f.dirs[at].link = revs[f.pkg][Revision(f, at)]

ListFits(f) ==
  f.pc = "dirs" =>
    /\ Len(f.dirs) <= Len(revs[f.pkg])
    /\ \A k \in 1 .. Len(f.dirs) :
         /\ <<k, FALSE>> \in f.todo => ~Expands(f.pkg, k)
         /\ (<<k, TRUE>> \notin f.todo /\ <<k, FALSE>> \notin f.todo)
              => DirFits(f, Len(f.dirs) + 1 - k)

\* From the at-th directory on, the commits have the chain's parents only.
Untouched(f, at) ==
  \A m \in at .. Len(f.dirs) :
    parents[f.dirs[m].id] = IF m = Len(f.dirs) THEN <<>> ELSE <<f.dirs[m + 1].id>>
\* The commit at hand is that of the revision at hand or of a newer one.
WalkFits(f) ==
  Cached(f) =>
    /\ Len(f.dirs) <= Len(revs[f.pkg])
    /\ \A at \in 1 .. Len(f.dirs) : DirFits(f, at) /\ f.dirs[at].id \in DOMAIN parents
    /\ f.i <= Len(f.dirs) =>
         \E at \in 1 .. f.i : f.cur = f.dirs[at].id /\ Untouched(f, at)
    /\ f.pc \in {"linked", "base"} => f.i <= Len(f.dirs) /\ f.dirs[f.i].link.to # "none"
    /\ f.pc = "base" => f.i < Len(f.dirs)

FramesFit == \A j \in 1 .. Len(stack) : ListFits(stack[j]) /\ WalkFits(stack[j])

\* A parent is older in the same package, or in a package that is linked.
ParentFits(c, d) ==
  /\ d \in DOMAIN parents
  /\ (d.pkg = c.pkg /\ d.k < c.k) \/ <<c.pkg, d.pkg>> \in Linked
CachesFit ==
  /\ \A p \in DOMAIN heads :
       heads[p] = NoCommit \/ (heads[p] \in DOMAIN parents /\ heads[p].pkg = p)
  /\ \A c \in DOMAIN parents :
       /\ c \in Commits /\ c.pkg \in DOMAIN heads
       /\ c.k <= Len(revs[c.pkg]) /\ c = Id(c.pkg, c.k)
       /\ \A n \in DOMAIN parents[c] : ParentFits(c, parents[c][n])

\* As long as nobody commits, what is cached is what the server has, and links that
\* were followed have given the parents that the rules ask for.
Still(p) == commits = 0 /\ ~StoppedLinking(p)
HeadsFit ==
  commits = 0 =>
    /\ \A p \in DOMAIN heads :
         /\ heads[p] = HeadOnServer(p)
         /\ \A k \in 1 .. Len(revs[p]) : Id(p, k) \in DOMAIN parents
    /\ \A j \in 1 .. Len(stack) :
         stack[j].pc # "list" => Len(stack[j].dirs) = Len(revs[stack[j].pkg])
RightAt(p, k) == parents[Id(p, k)] = PreviousOf(p, k) \o LinkedOf(p, k)
RightSoFar(f) ==
  Cached(f) /\ Still(f.pkg) =>
    /\ \A at \in 1 .. Len(f.dirs) :
         IF at < f.i THEN RightAt(f.pkg, Revision(f, at))
         ELSE parents[f.dirs[at].id] = PreviousOf(f.pkg, Revision(f, at))
    /\ f.i <= Len(f.dirs) /\ f.dirs[f.i].link.to # "none" => f.cur = f.dirs[f.i].id
\* A link is attached only where a rule asks for it.
AtLink(f) ==
  f.pc \in {"linked", "base"} =>
    LET link == f.dirs[f.i].link
        last == f.i = Len(f.dirs)
        older == f.dirs[f.i + 1].link
    IN
    /\ f.pc = "linked" => link.rev # 0 \/ link.base = 0 \/ last
    /\ f.pc = "base" =>
         /\ link.base # 0 /\ ~last
         /\ (older.to = "none" \/ (older.base # 0 /\ older.base # link.base))
         /\ link.rev # 0 /\ Still(f.pkg) =>
              ~(link.rev > 0 /\ link.rev <= Len(revs[link.to]) /\ Expands(link.to, link.rev))
AllRight ==
  /\ \A j \in 1 .. Len(stack) : RightSoFar(stack[j]) /\ AtLink(stack[j])
  /\ \A p \in DOMAIN heads :
       Still(p) /\ (\A j \in 1 .. Len(stack) : stack[j].pkg # p)
         => \A k \in 1 .. Len(revs[p]) : RightAt(p, k)
  /\ outcome = "done" =>
       Len(stack) = 1 /\ Cached(stack[1]) /\ stack[1].i > Len(stack[1].dirs)

IInv ==
  /\ TypeInv /\ NoPackageTwice /\ StackFits /\ FramesFit /\ CachesFit
  /\ HeadsFit /\ AllRight

-----------------------------------------------------------------------------
(* Hashes, frames, and what stays as it is.                                *)

LEMMA HashFields ==
  \A p, k, expanded :
    /\ Hash(p, k, expanded).pkg = p /\ Hash(p, k, expanded).k = k
    /\ Hash(p, k, expanded).expanded = expanded
    /\ p \in Packages \cup {"none"} /\ k \in Int /\ expanded \in BOOLEAN
         => Hash(p, k, expanded) \in Hashes
BY DEF Hash, Hashes

LEMMA IdFields ==
  \A p, k : /\ Id(p, k).pkg = p /\ Id(p, k).k = k /\ Id(p, k).expanded = Expands(p, k)
            /\ p \in Packages /\ k \in Int => Id(p, k) \in Hashes
PROOF
  <1>1. \A p, k : Expands(p, k) \in BOOLEAN
    BY DEF Expands
  <1> QED BY <1>1, HashFields DEF Id

LEMMA NoCommitIsNone == NoCommit.pkg = "none" /\ NoCommit \in Hashes
BY DEF NoCommit, Hash, Hashes

\* The fields of a frame, and of its directories.
LEMMA FrameFields ==
  ASSUME NEW f \in Frames
  PROVE  /\ f.pkg \in Packages /\ f.pc \in {"list", "dirs", "walk", "linked", "base"}
         /\ f.dirs \in Seq(Dirs) /\ Len(f.dirs) \in Nat
         /\ f.i \in Nat /\ f.i >= 1 /\ f.cur \in Hashes
         /\ \A at \in 1 .. Len(f.dirs) :
              /\ Revision(f, at) \in 1 .. Len(f.dirs)
              /\ f.dirs[at].id \in Hashes /\ f.dirs[at].link \in Links
              /\ f.dirs[at].src \in Hashes
PROOF
  <1>1. /\ f.pkg \in Packages /\ f.pc \in {"list", "dirs", "walk", "linked", "base"}
        /\ f.dirs \in Seq(Dirs) /\ f.i \in Nat \ {0} /\ f.cur \in Hashes
    BY DEF Frames
  <1>2. Len(f.dirs) \in Nat /\ \A at \in 1 .. Len(f.dirs) : f.dirs[at] \in Dirs
    BY <1>1
  <1>3. \A at \in 1 .. Len(f.dirs) : Revision(f, at) \in 1 .. Len(f.dirs)
    BY <1>2 DEF Revision
  <1> QED BY <1>1, <1>2, <1>3 DEF Dirs

\* The revisions of a package are only ever added to.
Grown ==
  \A p \in Packages :
    /\ Len(revs'[p]) \in Nat /\ Len(revs[p]) <= Len(revs'[p])
    /\ \A k \in 1 .. Len(revs[p]) : revs'[p][k] = revs[p][k]

LEMMA RevsFields ==
  ASSUME TypeInv, NEW p \in Packages
  PROVE  /\ revs[p] \in Seq(Links) /\ Len(revs[p]) \in Nat
         /\ \A k \in 1 .. Len(revs[p]) : revs[p][k] \in Links /\ Expands(p, k) \in BOOLEAN
PROOF
  <1>1. revs[p] \in Seq(Links)
    BY DEF TypeInv
  <1>2. Len(revs[p]) \in Nat /\ \A k \in 1 .. Len(revs[p]) : revs[p][k] \in Links
    BY <1>1
  <1>3. \A k \in 1 .. Len(revs[p]) : Expands(p, k) \in BOOLEAN
    BY <1>2 DEF Links, Expands
  <1> QED BY <1>1, <1>2, <1>3

LEMMA IdStays ==
  ASSUME TypeInv, Grown, NEW p \in Packages, NEW k \in 1 .. Len(revs[p])
  PROVE  /\ Expands(p, k)' = Expands(p, k) /\ Id(p, k)' = Id(p, k)
         /\ revs'[p][k] = revs[p][k] /\ Len(revs[p]) <= Len(revs'[p])
PROOF
  <1>1. revs'[p][k] = revs[p][k]
    BY DEF Grown
  <1> QED BY <1>1 DEF Expands, Id, Grown

LEMMA ServerStays ==
  ASSUME TypeInv, revs' = revs
  PROVE  /\ Grown /\ Linked' = Linked
         /\ \A p, k : /\ Expands(p, k)' = Expands(p, k) /\ Id(p, k)' = Id(p, k)
                      /\ PreviousOf(p, k)' = PreviousOf(p, k)
                      /\ LinkedOf(p, k)' = LinkedOf(p, k)
         /\ \A p : /\ HeadOnServer(p)' = HeadOnServer(p)
                   /\ StoppedLinking(p)' = StoppedLinking(p)
PROOF
  <1>1. Grown
    BY RevsFields DEF Grown
  <1>2. \A p, k : Expands(p, k)' = Expands(p, k) /\ Id(p, k)' = Id(p, k)
    BY DEF Expands, Id
  <1>3. \A p : HeadOnServer(p)' = HeadOnServer(p)
    BY <1>2 DEF HeadOnServer
  <1>4. \A p : StoppedLinking(p)' = StoppedLinking(p)
    BY DEF StoppedLinking
  <1>5. \A p, k : PreviousOf(p, k)' = PreviousOf(p, k)
    BY <1>2 DEF PreviousOf
  <1>6. \A p, k : LinkedOf(p, k)' = LinkedOf(p, k)
    BY <1>2, <1>3 DEF LinkedOf
  <1>7. Linked' = Linked
    BY DEF Linked
  <1> QED BY <1>1, <1>2, <1>3, <1>4, <1>5, <1>6, <1>7

\* The commits of a package, and their parents, stay in the cache.
Kept(p) == \A c \in DOMAIN parents : c.pkg = p => c \in DOMAIN parents' /\ parents'[c] = parents[c]

LEMMA DirKeeps ==
  ASSUME TypeInv, Grown, NEW f \in Frames, Len(f.dirs) <= Len(revs[f.pkg]),
         NEW at \in 1 .. Len(f.dirs), DirFits(f, at)
  PROVE  DirFits(f, at)'
PROOF
  <1>1. /\ f.pkg \in Packages /\ Revision(f, at) \in 1 .. Len(f.dirs) /\ Len(f.dirs) \in Nat
        /\ Len(revs[f.pkg]) \in Nat
    BY FrameFields, RevsFields
  <1>2. Revision(f, at) \in 1 .. Len(revs[f.pkg])
    BY <1>1
  <1>3. /\ Id(f.pkg, Revision(f, at))' = Id(f.pkg, Revision(f, at))
        /\ revs'[f.pkg][Revision(f, at)] = revs[f.pkg][Revision(f, at)]
    BY <1>1, <1>2, IdStays DEF Id, Expands
  <1> QED BY <1>3 DEF DirFits, Revision

LEMMA ListKeeps ==
  ASSUME TypeInv, Grown, NEW f \in Frames, ListFits(f)
  PROVE  ListFits(f)'
PROOF
  <1> SUFFICES ASSUME f.pc = "dirs" PROVE ListFits(f)'
    BY DEF ListFits
  <1>1. /\ f.pkg \in Packages /\ Len(f.dirs) \in Nat
        /\ Len(revs[f.pkg]) \in Nat /\ Len(f.dirs) <= Len(revs[f.pkg])
        /\ Len(revs'[f.pkg]) \in Nat /\ Len(revs'[f.pkg]) >= Len(revs[f.pkg])
    BY FrameFields, RevsFields DEF ListFits, Grown
  <1>2. ASSUME NEW k \in 1 .. Len(f.dirs)
        PROVE  /\ <<k, FALSE>> \in f.todo => ~Expands(f.pkg, k)'
               /\ (<<k, TRUE>> \notin f.todo /\ <<k, FALSE>> \notin f.todo)
                    => DirFits(f, Len(f.dirs) + 1 - k)'
    <2>1. k \in 1 .. Len(revs[f.pkg]) /\ Len(f.dirs) + 1 - k \in 1 .. Len(f.dirs)
      BY <1>1
    <2>2. Expands(f.pkg, k)' = Expands(f.pkg, k)
      BY <1>1, <2>1, IdStays
    <2>3. /\ <<k, FALSE>> \in f.todo => ~Expands(f.pkg, k)
          /\ (<<k, TRUE>> \notin f.todo /\ <<k, FALSE>> \notin f.todo)
               => DirFits(f, Len(f.dirs) + 1 - k)
      BY DEF ListFits
    <2>4. DirFits(f, Len(f.dirs) + 1 - k) => DirFits(f, Len(f.dirs) + 1 - k)'
      BY <1>1, <2>1, DirKeeps
    <2> QED BY <2>2, <2>3, <2>4
  <1>3. Len(f.dirs) <= Len(revs'[f.pkg])
    BY <1>1

  <1> QED BY <1>1, <1>2, <1>3 DEF ListFits

LEMMA DirsCached ==
  ASSUME TypeInv, NEW f \in Frames, WalkFits(f), Cached(f), NEW at \in 1 .. Len(f.dirs)
  PROVE  /\ f.dirs[at].id = Id(f.pkg, Revision(f, at)) /\ f.dirs[at].id.pkg = f.pkg
         /\ f.dirs[at].id.k = Revision(f, at) /\ f.dirs[at].id \in DOMAIN parents
         /\ f.dirs[at].link = revs[f.pkg][Revision(f, at)]
         /\ Revision(f, at) \in 1 .. Len(f.dirs) /\ Revision(f, at) \in 1 .. Len(revs[f.pkg])
PROOF
  <1>1. DirFits(f, at) /\ f.dirs[at].id \in DOMAIN parents /\ Len(f.dirs) <= Len(revs[f.pkg])
    BY DEF WalkFits
  <1>2. /\ f.pkg \in Packages /\ Revision(f, at) \in 1 .. Len(f.dirs)
        /\ Len(revs[f.pkg]) \in Nat /\ Len(f.dirs) \in Nat
    BY FrameFields, RevsFields
  <1> QED BY <1>1, <1>2, IdFields DEF DirFits

LEMMA WalkKeeps ==
  ASSUME TypeInv, Grown, NEW f \in Frames, WalkFits(f), Kept(f.pkg)
  PROVE  WalkFits(f)'
PROOF
  <1> SUFFICES ASSUME Cached(f) PROVE WalkFits(f)'
    BY DEF WalkFits, Cached
  <1>1. /\ f.pkg \in Packages /\ Len(f.dirs) \in Nat /\ f.i \in Nat
        /\ Len(revs[f.pkg]) \in Nat /\ Len(f.dirs) <= Len(revs[f.pkg])
        /\ Len(revs'[f.pkg]) \in Nat /\ Len(revs'[f.pkg]) >= Len(revs[f.pkg])
    BY FrameFields, RevsFields DEF WalkFits, Grown
  <1>2. ASSUME NEW at \in 1 .. Len(f.dirs)
        PROVE  /\ DirFits(f, at)' /\ f.dirs[at].id \in DOMAIN parents'
               /\ parents'[f.dirs[at].id] = parents[f.dirs[at].id]
    <2>1. DirFits(f, at)
      BY DEF WalkFits
    <2>2. DirFits(f, at)'
      BY <1>1, <2>1, DirKeeps
    <2> QED BY <2>2, DirsCached DEF Kept
  <1>3. ASSUME NEW at \in 1 .. f.i, f.i <= Len(f.dirs), Untouched(f, at)
        PROVE  Untouched(f, at)'
    <2>1. \A m \in at .. Len(f.dirs) : m \in 1 .. Len(f.dirs)
      BY <1>1
    <2> QED BY <1>2, <1>3, <2>1 DEF Untouched
  <1>4. /\ f.i <= Len(f.dirs) =>
             \E at \in 1 .. f.i : f.cur = f.dirs[at].id /\ Untouched(f, at)
        /\ f.pc \in {"linked", "base"} => f.i <= Len(f.dirs) /\ f.dirs[f.i].link.to # "none"
        /\ f.pc = "base" => f.i < Len(f.dirs)
    BY DEF WalkFits
  <1>5. f.i <= Len(f.dirs) =>
          \E at \in 1 .. f.i : f.cur = f.dirs[at].id /\ Untouched(f, at)'
    BY <1>3, <1>4
  <1>6. Len(f.dirs) <= Len(revs'[f.pkg])
    BY <1>1
  <1> QED BY <1>2, <1>4, <1>5, <1>6 DEF WalkFits, Cached

LEMMA RightKeeps ==
  ASSUME TypeInv, UNCHANGED server, NEW f \in Frames, WalkFits(f), Kept(f.pkg),
         RightSoFar(f)
  PROVE  RightSoFar(f)'
PROOF
  <1>0. revs' = revs /\ commits' = commits
    BY DEF server
  <1> SUFFICES ASSUME Cached(f), Still(f.pkg) PROVE RightSoFar(f)'
    BY <1>0, ServerStays DEF RightSoFar, Cached, Still
  <1>1. ASSUME NEW at \in 1 .. Len(f.dirs)
        PROVE  /\ parents'[f.dirs[at].id] = parents[f.dirs[at].id]
               /\ RightAt(f.pkg, Revision(f, at)) => RightAt(f.pkg, Revision(f, at))'
    <2>1. f.dirs[at].id = Id(f.pkg, Revision(f, at)) /\ f.dirs[at].id \in DOMAIN parents
          /\ f.dirs[at].id.pkg = f.pkg
      BY DirsCached
    <2>2. parents'[f.dirs[at].id] = parents[f.dirs[at].id]
      BY <2>1 DEF Kept
    <2>3. /\ Id(f.pkg, Revision(f, at))' = Id(f.pkg, Revision(f, at))
          /\ PreviousOf(f.pkg, Revision(f, at))' = PreviousOf(f.pkg, Revision(f, at))
          /\ LinkedOf(f.pkg, Revision(f, at))' = LinkedOf(f.pkg, Revision(f, at))
      BY <1>0, ServerStays DEF Revision
    <2> QED BY <2>1, <2>2, <2>3 DEF RightAt, Revision
  <1>2. \A at \in 1 .. Len(f.dirs) :
          PreviousOf(f.pkg, Revision(f, at))' = PreviousOf(f.pkg, Revision(f, at))
    BY <1>0, ServerStays DEF Revision
  <1>3. /\ \A at \in 1 .. Len(f.dirs) :
             IF at < f.i THEN RightAt(f.pkg, Revision(f, at))
             ELSE parents[f.dirs[at].id] = PreviousOf(f.pkg, Revision(f, at))
        /\ f.i <= Len(f.dirs) /\ f.dirs[f.i].link.to # "none" => f.cur = f.dirs[f.i].id
    BY DEF RightSoFar
  <1>4. \A at \in 1 .. Len(f.dirs) :
          IF at < f.i THEN RightAt(f.pkg, Revision(f, at))'
          ELSE parents'[f.dirs[at].id] = PreviousOf(f.pkg, Revision(f, at))'
    BY <1>1, <1>2, <1>3
  <1> QED BY <1>3, <1>4 DEF RightSoFar, Revision

LEMMA LinkKeeps ==
  ASSUME TypeInv, UNCHANGED server, NEW f, AtLink(f)
  PROVE  AtLink(f)'
BY ServerStays DEF AtLink, Still, server

\* A commit of others comes in between: nothing is claimed of the rules any more.
LEMMA LinkOfOther ==
  ASSUME NEW f, AtLink(f), commits' # 0
  PROVE  AtLink(f)' /\ RightSoFar(f)'
BY DEF AtLink, RightSoFar, Still

-----------------------------------------------------------------------------
(* A step of the package at hand.                                          *)

LEMMA HereFields ==
  ASSUME TypeInv
  PROVE  /\ Len(stack) \in Nat /\ Len(stack) >= 1 /\ Here \in Frames
         /\ \A j \in 1 .. Len(stack) : stack[j] \in Frames
BY DEF TypeInv, Here

\* What has to be shown of a step that stays within one package: the others do not
\* notice it.
LEMMA TopMoves ==
  ASSUME IInv, UNCHANGED <<server, heads, outcome>>, outcome = "running",
         NEW frame \in Frames, frame.pkg = Here.pkg, Cached(frame) <=> Cached(Here),
         ~Cached(frame) => frame.i = 1,
         stack' = [stack EXCEPT ![Len(stack)] = frame],
         parents' \in [DOMAIN parents -> Seq(Hashes)],
         \A c \in DOMAIN parents : c.pkg # Here.pkg => parents'[c] = parents[c],
         \A c \in DOMAIN parents : \A n \in DOMAIN parents'[c] : ParentFits(c, parents'[c][n]),
         ListFits(frame)', WalkFits(frame)', RightSoFar(frame)', AtLink(frame)',
         commits = 0 /\ frame.pc # "list" => Len(frame.dirs) = Len(revs[frame.pkg])
  PROVE  IInv'
PROOF
  <1> DEFINE top == Len(stack)
  <1> USE DEF IInv
  <1>1. /\ top \in Nat /\ top >= 1 /\ Here = stack[top] /\ Here \in Frames
        /\ \A j \in 1 .. top : stack[j] \in Frames
    BY HereFields DEF Here
  <1>2. /\ stack' \in Seq(Frames) /\ stack' # <<>> /\ Len(stack') = top
        /\ stack'[top] = frame
        /\ \A j \in 1 .. top - 1 : stack'[j] = stack[j]
    BY <1>1 DEF TypeInv
  <1>3. \A j \in 1 .. top : stack'[j].pkg = stack[j].pkg
    BY <1>1, <1>2
  <1>4. \A j \in 1 .. top - 1 : stack[j].pkg # Here.pkg
    BY <1>1 DEF NoPackageTwice
  <1>5. /\ revs' = revs /\ commits' = commits /\ heads' = heads /\ outcome' = outcome
        /\ DOMAIN parents' = DOMAIN parents
    BY DEF server
  <1>6. Grown /\ Linked' = Linked
    BY <1>5, ServerStays
  <1>7. TypeInv'
    BY <1>2, <1>5 DEF TypeInv
  <1>8. NoPackageTwice'
    BY <1>1, <1>2, <1>3 DEF NoPackageTwice
  <1>9. StackFits'
    <2>1. \A j \in 1 .. top : (stack'[j].pkg \in DOMAIN heads <=> Cached(stack'[j]))
      <3>1. \A j \in 1 .. top - 1 : (stack'[j].pkg \in DOMAIN heads <=> Cached(stack'[j]))
        BY <1>1, <1>2 DEF StackFits
      <3>2. stack'[top].pkg \in DOMAIN heads <=> Cached(stack'[top])
        BY <1>1, <1>2 DEF StackFits
      <3> QED BY <1>1, <3>1, <3>2
    <2>2. \A j \in 1 .. top - 1 : stack'[j].pc \in {"linked", "base"}
      BY <1>1, <1>2 DEF StackFits
    <2>3. \A j \in 1 .. top : ~Cached(stack'[j]) => stack'[j].i = 1
      BY <1>1, <1>2 DEF StackFits
    <2> QED BY <1>2, <1>5, <2>1, <2>2, <2>3 DEF StackFits, Cached

  <1>10. \A j \in 1 .. top - 1 : Kept(stack[j].pkg)
    BY <1>4, <1>5 DEF Kept
  <1>11. FramesFit'
    <2>1. ASSUME NEW j \in 1 .. top - 1 PROVE ListFits(stack[j])' /\ WalkFits(stack[j])'
      <3>1. PICK f \in Frames : f = stack[j] /\ f = stack'[j]
        BY <1>1, <1>2
      <3>2. ListFits(f) /\ WalkFits(f) /\ Kept(f.pkg)
        BY <1>1, <1>10, <3>1 DEF FramesFit
      <3>3. ListFits(f)' /\ WalkFits(f)'
        BY <1>6, <3>2, ListKeeps, WalkKeeps
      <3> QED BY <3>1, <3>3
    <2>2. ListFits(stack[top])' /\ WalkFits(stack[top])'
      BY <1>2
    <2> QED BY <1>1, <1>2, <2>1, <2>2 DEF FramesFit
  <1>12. CachesFit'
    <2>1. \A c \in DOMAIN parents : \A n \in DOMAIN parents'[c] :
            LET d == parents'[c][n] IN
            /\ d \in DOMAIN parents'
            /\ (d.pkg = c.pkg /\ d.k < c.k) \/ <<c.pkg, d.pkg>> \in Linked'
      BY <1>5, <1>6 DEF ParentFits
    <2>2. \A p, k : Id(p, k)' = Id(p, k)
      BY <1>5, ServerStays
    <2> QED BY <1>5, <2>1, <2>2 DEF CachesFit, ParentFits

  <1>13. HeadsFit'
    <2>1. \A p, k : Id(p, k)' = Id(p, k) /\ HeadOnServer(p)' = HeadOnServer(p)
      BY <1>5, ServerStays
    <2>2. commits = 0 => \A j \in 1 .. top :
            stack'[j].pc # "list" => Len(stack'[j].dirs) = Len(revs[stack'[j].pkg])
      BY <1>1, <1>2 DEF HeadsFit
    <2> QED BY <1>2, <1>5, <2>1, <2>2 DEF HeadsFit
  <1>14. \A j \in 1 .. top : RightSoFar(stack[j])' /\ AtLink(stack[j])'
    <2>1. ASSUME NEW j \in 1 .. top - 1 PROVE RightSoFar(stack[j])' /\ AtLink(stack[j])'
      <3>1. PICK f \in Frames : f = stack[j] /\ f = stack'[j]
        BY <1>1, <1>2
      <3>2. WalkFits(f) /\ Kept(f.pkg) /\ RightSoFar(f) /\ AtLink(f)
        BY <1>1, <1>10, <3>1 DEF FramesFit, AllRight
      <3>3. RightSoFar(f)' /\ AtLink(f)'
        BY <3>2, RightKeeps, LinkKeeps
      <3> QED BY <3>1, <3>3
    <2>2. RightSoFar(stack[top])' /\ AtLink(stack[top])'
      BY <1>2
    <2> QED BY <1>1, <2>1, <2>2
  <1>15. ASSUME NEW p \in DOMAIN heads, Still(p), \A j \in 1 .. top : stack[j].pkg # p,
                NEW k \in 1 .. Len(revs[p])
         PROVE  RightAt(p, k)'
    <2>1. RightAt(p, k) /\ p # Here.pkg
      BY <1>1, <1>15 DEF AllRight
    <2>2. Id(p, k) \in DOMAIN parents /\ Id(p, k).pkg = p
      BY <1>15, IdFields DEF HeadsFit, Still
    <2>3. parents'[Id(p, k)] = parents[Id(p, k)]
      BY <2>1, <2>2
    <2>4. /\ Id(p, k)' = Id(p, k) /\ PreviousOf(p, k)' = PreviousOf(p, k)
          /\ LinkedOf(p, k)' = LinkedOf(p, k)
      BY <1>5, ServerStays
    <2> QED BY <2>1, <2>3, <2>4 DEF RightAt
  <1>16. \A p : Still(p)' = Still(p)
    BY <1>5, ServerStays DEF Still
  <1>17. AllRight'
    BY <1>2, <1>3, <1>5, <1>14, <1>15, <1>16 DEF AllRight
  <1> QED BY <1>7, <1>8, <1>9, <1>11, <1>12, <1>13, <1>17

\* A step that leaves the caches alone, too.
LEMMA QuietMoves ==
  ASSUME IInv, Quiet, outcome = "running",
         NEW frame \in Frames, frame.pkg = Here.pkg, Cached(frame) <=> Cached(Here),
         ~Cached(frame) => frame.i = 1, Become(frame),
         ListFits(frame), WalkFits(frame), RightSoFar(frame), AtLink(frame),
         commits = 0 /\ frame.pc # "list" => Len(frame.dirs) = Len(revs[frame.pkg])
  PROVE  IInv'
PROOF
  <1>1. TypeInv /\ CachesFit
    BY DEF IInv
  <1>2. UNCHANGED <<server, heads, outcome>> /\ parents' = parents /\ UNCHANGED server
    BY DEF Quiet, caches
  <1>3. Grown /\ Kept(frame.pkg)
    BY <1>1, <1>2, ServerStays DEF Kept, server
  <1>4. ListFits(frame)' /\ WalkFits(frame)' /\ RightSoFar(frame)' /\ AtLink(frame)'
    BY <1>1, <1>2, <1>3, ListKeeps, WalkKeeps, RightKeeps, LinkKeeps
  <1>5. /\ parents' \in [DOMAIN parents -> Seq(Hashes)]
        /\ \A c \in DOMAIN parents : parents'[c] = parents[c]
        /\ \A c \in DOMAIN parents : \A n \in DOMAIN parents'[c] : ParentFits(c, parents'[c][n])
    BY <1>1, <1>2 DEF TypeInv, CachesFit
  <1>6. stack' = [stack EXCEPT ![Len(stack)] = frame]
    BY DEF Become
  <1> QED BY <1>2, <1>4, <1>5, <1>6, TopMoves

\* A call that fails leaves everything as it is.
LEMMA FailKeeps ==
  ASSUME IInv, NEW what \in Outcomes, what # "done", Fail(what)
  PROVE  IInv'
PROOF
  <1>1. /\ revs' = revs /\ commits' = commits /\ stack' = stack /\ heads' = heads
        /\ parents' = parents /\ outcome' = what
    BY DEF Fail, server, caches
  <1> USE DEF IInv
  <1>2. TypeInv' /\ NoPackageTwice'
    BY <1>1 DEF TypeInv, NoPackageTwice
  <1>3. StackFits' /\ FramesFit'
    <2>1. StackFits'
      BY <1>1 DEF StackFits, Cached
    <2>2. \A f : /\ ListFits(f)' <=> ListFits(f)
                 /\ WalkFits(f)' <=> WalkFits(f)
      BY <1>1 DEF ListFits, WalkFits, Cached, DirFits, Untouched, Revision, Id, Expands
    <2>3. \A j \in 1 .. Len(stack) : ListFits(stack[j])' /\ WalkFits(stack[j])'
      BY <1>1, <2>2 DEF FramesFit
    <2> QED BY <1>1, <2>1, <2>3 DEF FramesFit
  <1>4. CachesFit' /\ HeadsFit'
    BY <1>1 DEF CachesFit, ParentFits, HeadsFit, Id, Expands, HeadOnServer, Linked
  <1>5. AllRight'
    <2>1. /\ \A p : Still(p)' <=> Still(p)
          /\ \A p, k : RightAt(p, k)' <=> RightAt(p, k)
      BY <1>1, ServerStays DEF Still, RightAt
    <2>2. \A f : /\ RightSoFar(f)' <=> RightSoFar(f)
                 /\ AtLink(f)' <=> AtLink(f)
      <3>1. UNCHANGED server
        BY <1>1 DEF server
      <3> QED BY <1>1, <2>1, <3>1, ServerStays DEF RightSoFar, AtLink, Cached, Revision, Expands
    <2>3. \A j \in 1 .. Len(stack) : RightSoFar(stack[j])' /\ AtLink(stack[j])'
      BY <1>1, <2>2 DEF AllRight
    <2> QED BY <1>1, <2>1, <2>3 DEF AllRight

  <1> QED BY <1>2, <1>3, <1>4, <1>5

LEMMA FetchHistoryKeeps ==
  ASSUME IInv, FetchHistory
  PROVE  IInv'
PROOF
  <1>1. /\ TypeInv /\ In("list") /\ Here \in Frames /\ Here.pkg \in Packages
        /\ Len(revs[Here.pkg]) \in Nat /\ outcome = "running" /\ Here.pc = "list"
    BY HereFields, FrameFields, RevsFields DEF IInv, FetchHistory, In
  <1>2. CASE Fail("rejected")
    BY <1>2, FailKeeps DEF Outcomes
  <1>3. CASE ~Fail("rejected")
    <2> DEFINE n == Len(revs[Here.pkg])
               todo == {<<k, TRUE>> : k \in 1 .. n}
               dirs == [i \in 1 .. n |-> Pending]
               frame == [Here EXCEPT !.pc = "dirs", !.todo = todo, !.dirs = dirs]
    <2>1. Become(frame) /\ Quiet
      BY <1>3 DEF FetchHistory
    <2>2. Pending \in Dirs
      <3>1. NoLink \in Links
        BY DEF NoLink, Links
      <3> QED BY <3>1, NoCommitIsNone DEF Pending, Dirs
    <2>3. dirs \in Seq(Dirs) /\ Len(dirs) = n
      <3>1. n \in Nat
        BY <1>1
      <3>2. dirs \in [1 .. n -> Dirs]
        BY <2>2
      <3> HIDE DEF n
      <3> QED BY <3>1, <3>2
    <2>4. /\ todo \subseteq Nat \X BOOLEAN
          /\ \A k \in 1 .. n : <<k, TRUE>> \in todo /\ <<k, FALSE>> \notin todo
      <3>1. \A k \in 1 .. n : k \in Nat
        BY <1>1
      <3> HIDE DEF n
      <3>2. ASSUME NEW t \in todo PROVE t \in Nat \X BOOLEAN /\ t[2] = TRUE
        <4>1. PICK k \in 1 .. n : t = <<k, TRUE>>
          OBVIOUS
        <4> HIDE DEF todo
        <4> QED BY <3>1, <4>1
      <3>3. \A k \in 1 .. n : <<k, TRUE>> \in todo
        OBVIOUS
      <3>4. \A k : <<k, FALSE>>[2] = FALSE
        OBVIOUS
      <3> HIDE DEF todo
      <3> QED BY <3>2, <3>3, <3>4

    <2> HIDE DEF todo, dirs
    <2>5. /\ frame \in Frames /\ frame.pkg = Here.pkg /\ frame.pc = "dirs"
          /\ frame.todo = todo /\ frame.dirs = dirs /\ frame.i = Here.i
      BY <1>1, <2>3, <2>4 DEF Frames
    <2>6. ~Cached(Here) /\ ~Cached(frame) /\ Here.i = 1
      <3>1. ~Cached(Here)
        BY <1>1 DEF Cached
      <3> QED BY <2>5, <3>1, <1>1, HereFields DEF Cached, IInv, StackFits, Here
    <2> HIDE DEF frame
    <2>7. ListFits(frame)
      <3>1. Len(frame.dirs) = n /\ n <= Len(revs[frame.pkg])
        BY <1>1, <2>3, <2>5
      <3>2. \A k \in 1 .. n : <<k, TRUE>> \in frame.todo /\ <<k, FALSE>> \notin frame.todo
        BY <2>4, <2>5
      <3> HIDE DEF n
      <3> QED BY <3>1, <3>2 DEF ListFits

    <2>8. WalkFits(frame) /\ RightSoFar(frame) /\ AtLink(frame)
      BY <2>5, <2>6 DEF WalkFits, RightSoFar, AtLink
    <2>9. Len(frame.dirs) = Len(revs[frame.pkg])
      BY <2>3, <2>5
    <2> QED BY <1>1, <2>1, <2>5, <2>6, <2>7, <2>8, <2>9, QuietMoves
  <1> QED BY <1>2, <1>3

LEMMA SourceIsHash ==
  ASSUME TypeInv, NEW link \in Links, NEW expanded \in BOOLEAN
  PROVE  SourceOf(link, expanded) \in Hashes
PROOF
  <1>1. link.to \in Packages \cup {"none"} /\ link.rev \in Int /\ link.base \in Int
    BY DEF Links
  <1>2. ASSUME NEW p \in Packages PROVE HeadOnServer(p) \in Hashes
    <2>1. /\ Len(revs[p]) \in Nat
          /\ revs[p] # <<>> => Len(revs[p]) \in 1 .. Len(revs[p])
      BY RevsFields
    <2>2. Expands(p, Len(revs[p])) \in BOOLEAN
      BY DEF Expands
    <2>3. Hash(p, Len(revs[p]), Expands(p, Len(revs[p]))) \in Hashes
      BY <2>1, <2>2, HashFields
    <2> QED BY <2>3, NoCommitIsNone DEF HeadOnServer
  <1>3. /\ Hash(link.to, link.base, TRUE) \in Hashes
        /\ Hash(link.to, link.rev, TRUE) \in Hashes
    BY <1>1, HashFields
  <1> QED BY <1>1, <1>2, <1>3, NoCommitIsNone DEF SourceOf

LEMMA FetchDirectoryKeeps ==
  ASSUME IInv, NEW k \in 1 .. Len(Here.dirs), FetchDirectory(k)
  PROVE  IInv'
PROOF
  <1>1. /\ TypeInv /\ Here \in Frames /\ Here.pkg \in Packages
        /\ Len(revs[Here.pkg]) \in Nat /\ outcome = "running" /\ Here.pc = "dirs"
        /\ Len(Here.dirs) \in Nat /\ Here.dirs \in Seq(Dirs)
    BY HereFields, FrameFields, RevsFields DEF IInv, FetchDirectory, In
  <1>2. /\ ~Cached(Here) /\ Here.i = 1 /\ ListFits(Here)
        /\ commits = 0 => Len(Here.dirs) = Len(revs[Here.pkg])
    <2>1. ~Cached(Here)
      BY <1>1 DEF Cached
    <2> QED BY <2>1, <1>1, HereFields DEF IInv, StackFits, FramesFit, HeadsFit, Here
  <1>3. /\ k \in 1 .. Len(revs[Here.pkg]) /\ k \in Nat
        /\ revs[Here.pkg][k] \in Links
        /\ Expands(Here.pkg, k) = ~revs[Here.pkg][k].conflict
    <2>1. Len(Here.dirs) <= Len(revs[Here.pkg])
      BY <1>1, <1>2 DEF ListFits
    <2>2. k \in 1 .. Len(revs[Here.pkg]) /\ k \in Nat
      BY <1>1, <2>1
    <2> QED BY <1>1, <2>2, RevsFields DEF Expands
  <1>4. PICK expanded \in BOOLEAN :
          LET link == revs[Here.pkg][k]
              at == Len(Here.dirs) + 1 - k
              left == Here.todo \ {<<k, expanded>>}
          IN
          /\ <<k, expanded>> \in Here.todo
          /\ \/ /\ Become(IF expanded /\ link.conflict
                          THEN [Here EXCEPT !.todo = left \cup {<<k, FALSE>>}]
                          ELSE [Here EXCEPT !.todo = left,
                                  !.dirs[at] = [id |-> Hash(Here.pkg, k, expanded),
                                                link |-> link,
                                                src |-> SourceOf(link, expanded)]])
                /\ Quiet
             \/ Fail("rejected")
    BY DEF FetchDirectory
  <1> DEFINE link == revs[Here.pkg][k]
             at == Len(Here.dirs) + 1 - k
             left == Here.todo \ {<<k, expanded>>}
             again == [Here EXCEPT !.todo = left \cup {<<k, FALSE>>}]
             dir == [id |-> Hash(Here.pkg, k, expanded), link |-> link,
                     src |-> SourceOf(link, expanded)]
             got == [Here EXCEPT !.todo = left, !.dirs[at] = dir]
  <1>5. CASE Fail("rejected")
    BY <1>5, FailKeeps DEF Outcomes
  <1>6. Here.todo \subseteq Nat \X BOOLEAN /\ <<k, expanded>> \in Here.todo
    BY <1>1, <1>4 DEF Frames
  <1>7. ASSUME Become(again), Quiet, expanded, link.conflict PROVE IInv'
    <2> DEFINE todo == left \cup {<<k, FALSE>>}
    <2>1. todo \subseteq Nat \X BOOLEAN
      <3>1. <<k, FALSE>> \in Nat \X BOOLEAN
        BY <1>3
      <3> QED BY <1>6, <3>1
    <2>2. \A m \in 1 .. Len(Here.dirs) :
            /\ <<m, FALSE>> \in todo => <<m, FALSE>> \in Here.todo \/ m = k
            /\ <<m, TRUE>> \notin todo /\ <<m, FALSE>> \notin todo
                 => <<m, TRUE>> \notin Here.todo /\ <<m, FALSE>> \notin Here.todo
      BY <1>7
    <2> HIDE DEF todo
    <2> DEFINE frame == [Here EXCEPT !.todo = todo]
    <2>3. /\ frame \in Frames /\ frame.pkg = Here.pkg /\ frame.pc = "dirs"
          /\ frame.todo = todo /\ frame.dirs = Here.dirs /\ frame.i = Here.i
      BY <1>1, <2>1 DEF Frames
    <2>4. Become(frame)
      BY <1>7 DEF todo
    <2> HIDE DEF frame
    <2>5. ListFits(frame)
      <3>1. ~Expands(Here.pkg, k)
        BY <1>3, <1>7
      <3>2. \A m \in 1 .. Len(Here.dirs) : DirFits(frame, Len(Here.dirs) + 1 - m)
                                              <=> DirFits(Here, Len(Here.dirs) + 1 - m)
        BY <2>3 DEF DirFits, Revision
      <3> QED BY <1>1, <1>2, <2>2, <2>3, <3>1, <3>2 DEF ListFits
    <2>6. ~Cached(frame) /\ WalkFits(frame) /\ RightSoFar(frame) /\ AtLink(frame)
      BY <2>3 DEF Cached, WalkFits, RightSoFar, AtLink
    <2> QED BY <1>1, <1>2, <1>7, <2>3, <2>4, <2>5, <2>6, QuietMoves
  <1>8. ASSUME Become(got), Quiet, ~(expanded /\ link.conflict) PROVE IInv'
    <2>1. at \in 1 .. Len(Here.dirs) /\ at \in Int /\ Len(Here.dirs) + 1 - at = k
      BY <1>1
    <2>2. dir \in Dirs
      <3>1. Hash(Here.pkg, k, expanded) \in Hashes
        BY <1>1, <1>3, HashFields
      <3>2. SourceOf(link, expanded) \in Hashes
        BY <1>1, <1>3, SourceIsHash
      <3> QED BY <1>3, <3>1, <3>2 DEF Dirs
    <2> DEFINE dirs == [Here.dirs EXCEPT ![at] = dir]
    <2>3. /\ dirs \in Seq(Dirs) /\ Len(dirs) = Len(Here.dirs) /\ dirs[at] = dir
          /\ \A m \in 1 .. Len(Here.dirs) : m # at => dirs[m] = Here.dirs[m]
      <3> HIDE DEF dir, at
      <3> QED BY <1>1, <2>1, <2>2
    <2>4. left \subseteq Nat \X BOOLEAN
      BY <1>6
    <2>5. expanded = Expands(Here.pkg, k) /\ dir.id = Id(Here.pkg, k) /\ dir.link = link
      <3>1. ~expanded => ~Expands(Here.pkg, k)
        BY <1>1, <1>2, <1>6 DEF ListFits
      <3>2. expanded => Expands(Here.pkg, k)
        BY <1>8 DEF Expands
      <3>3. Expands(Here.pkg, k) \in BOOLEAN
        BY DEF Expands
      <3>4. expanded = Expands(Here.pkg, k)
        BY <3>1, <3>2, <3>3
      <3> QED BY <3>4 DEF Id

    <2>6. \A m \in 1 .. Len(Here.dirs) :
            /\ <<m, FALSE>> \in left => <<m, FALSE>> \in Here.todo
            /\ m # k /\ <<m, TRUE>> \notin left /\ <<m, FALSE>> \notin left
                 => <<m, TRUE>> \notin Here.todo /\ <<m, FALSE>> \notin Here.todo
      OBVIOUS
    <2> DEFINE frame == [Here EXCEPT !.todo = left, !.dirs = dirs]
    <2>7. Become(frame)
      BY <1>8
    <2> HIDE DEF left, dirs, dir
    <2>8. /\ frame \in Frames /\ frame.pkg = Here.pkg /\ frame.pc = "dirs"
          /\ frame.todo = left /\ frame.dirs = dirs /\ frame.i = Here.i
      BY <1>1, <2>3, <2>4 DEF Frames
    <2> HIDE DEF frame
    <2>9. ListFits(frame)
      <3>1. ASSUME NEW m \in 1 .. Len(Here.dirs), m # k,
                   DirFits(Here, Len(Here.dirs) + 1 - m)
            PROVE  DirFits(frame, Len(Here.dirs) + 1 - m)
        <4>1. Len(Here.dirs) + 1 - m \in 1 .. Len(Here.dirs) /\ Len(Here.dirs) + 1 - m # at
          BY <1>1, <2>1, <3>1
        <4>2. dirs[Len(Here.dirs) + 1 - m] = Here.dirs[Len(Here.dirs) + 1 - m]
          BY <2>3, <4>1
        <4> QED BY <2>3, <2>8, <3>1, <4>2 DEF DirFits, Revision
      <3>2. DirFits(frame, at)
        BY <2>1, <2>3, <2>5, <2>8 DEF DirFits, Revision
      <3> QED BY <1>1, <1>2, <2>3, <2>6, <2>8, <3>1, <3>2 DEF ListFits
    <2>10. ~Cached(frame) /\ WalkFits(frame) /\ RightSoFar(frame) /\ AtLink(frame)
      BY <2>8 DEF Cached, WalkFits, RightSoFar, AtLink
    <2> QED BY <1>1, <1>2, <1>8, <2>3, <2>7, <2>8, <2>9, <2>10, QuietMoves
  <1> QED BY <1>4, <1>5, <1>7, <1>8

\* The revision at hand and the commit at hand.
LEMMA AtHand ==
  ASSUME IInv, Cached(Here), Here.i <= Len(Here.dirs)
  PROVE  LET rev == Revision(Here, Here.i) IN
         /\ Here \in Frames /\ Here.pkg \in Packages
         /\ rev \in 1 .. Len(revs[Here.pkg]) /\ rev \in Nat
         /\ Here.dirs[Here.i].id = Id(Here.pkg, rev)
         /\ Link = revs[Here.pkg][rev] /\ Link \in Links
         /\ Last <=> rev = 1
         /\ ~Last => Here.dirs[Here.i + 1].link = revs[Here.pkg][rev - 1]
         /\ ListFits(Here) /\ WalkFits(Here) /\ RightSoFar(Here) /\ AtLink(Here)
         /\ Link.to # "none" => Link.to \in Packages /\ <<Here.pkg, Link.to>> \in Linked
         /\ commits = 0 => Len(Here.dirs) = Len(revs[Here.pkg])
         /\ \E at \in 1 .. Here.i :
              /\ Here.cur = Here.dirs[at].id /\ Untouched(Here, at)
              /\ Still(Here.pkg) /\ Link.to # "none" => at = Here.i
PROOF
  <1> DEFINE rev == Revision(Here, Here.i)
  <1>1. /\ TypeInv /\ Here \in Frames /\ Here.pkg \in Packages /\ Len(Here.dirs) \in Nat
        /\ Here.i \in Nat /\ Here.i \in 1 .. Len(Here.dirs) /\ Len(revs[Here.pkg]) \in Nat
    BY HereFields, FrameFields, RevsFields DEF IInv
  <1>2. ListFits(Here) /\ WalkFits(Here) /\ RightSoFar(Here) /\ AtLink(Here)
    BY HereFields DEF IInv, FramesFit, AllRight, Here
  <1>3. \A m \in 1 .. Len(Here.dirs) :
          /\ Here.dirs[m].id = Id(Here.pkg, Revision(Here, m))
          /\ Here.dirs[m].id.k = Revision(Here, m)
          /\ Here.dirs[m].link = revs[Here.pkg][Revision(Here, m)]
          /\ Revision(Here, m) \in 1 .. Len(revs[Here.pkg])
    BY <1>1, <1>2, DirsCached
  <1>4. rev \in 1 .. Len(revs[Here.pkg]) /\ rev \in Nat /\ Link = revs[Here.pkg][rev]
    BY <1>1, <1>3 DEF Link
  <1>5. Link \in Links
    BY <1>1, <1>4, RevsFields
  <1>6. Last <=> rev = 1
    BY <1>1 DEF Last, Revision
  <1>7. ~Last => Here.dirs[Here.i + 1].link = revs[Here.pkg][rev - 1]
    <2> SUFFICES ASSUME ~Last PROVE Here.dirs[Here.i + 1].link = revs[Here.pkg][rev - 1]
      OBVIOUS
    <2>1. Here.i + 1 \in 1 .. Len(Here.dirs) /\ Revision(Here, Here.i + 1) = rev - 1
      BY <1>1 DEF Last, Revision
    <2> QED BY <1>3, <2>1
  <1>8. Link.to # "none" => Link.to \in Packages /\ <<Here.pkg, Link.to>> \in Linked
    BY <1>1, <1>4, <1>5 DEF Links, Linked
  <1>9. commits = 0 => Len(Here.dirs) = Len(revs[Here.pkg])
    BY HereFields DEF IInv, HeadsFit, Here, Cached
  <1>10. PICK at \in 1 .. Here.i : Here.cur = Here.dirs[at].id /\ Untouched(Here, at)
    BY <1>1, <1>2 DEF WalkFits
  <1>11. Still(Here.pkg) /\ Link.to # "none" => at = Here.i
    <2> SUFFICES ASSUME Still(Here.pkg), Link.to # "none" PROVE at = Here.i
      OBVIOUS
    <2>1. Here.cur = Here.dirs[Here.i].id
      BY <1>1, <1>2 DEF RightSoFar, Link
    <2>2. Revision(Here, at) = Revision(Here, Here.i) /\ at \in 1 .. Len(Here.dirs)
      <3>1. at \in 1 .. Len(Here.dirs)
        BY <1>1
      <3>2. Here.dirs[at].id = Here.dirs[Here.i].id
        BY <1>10, <2>1
      <3>3. /\ Here.dirs[at].id.k = Revision(Here, at)
            /\ Here.dirs[Here.i].id.k = Revision(Here, Here.i)
        BY <1>1, <1>3, <3>1
      <3> QED BY <3>1, <3>2, <3>3
    <2> QED BY <1>1, <2>2 DEF Revision
  <1> QED BY <1>1, <1>2, <1>3, <1>4, <1>5, <1>6, <1>7, <1>8, <1>9, <1>10, <1>11

\* If the package never stops to be a link, a revision that is none comes after none.
LEMMA NoLinksBefore ==
  ASSUME TypeInv, NEW p \in Packages, ~StoppedLinking(p),
         NEW k \in 1 .. Len(revs[p]), revs[p][k].to = "none", NEW j \in 1 .. k - 1
  PROVE  revs[p][j].to = "none"
PROOF
  <1>1. j \in 1 .. Len(revs[p]) /\ j < k
    BY RevsFields
  <1> QED BY <1>1 DEF StoppedLinking

LEMMA PreviousIsSeq ==
  ASSUME NEW p, NEW k
  PROVE  PreviousOf(p, k) \o <<>> = PreviousOf(p, k)
PROOF
  <1>1. PreviousOf(p, k) = <<>> \/ PreviousOf(p, k) = <<Hash(p, k - 1, Expands(p, k - 1))>>
    BY DEF PreviousOf
  <1> QED BY <1>1

LEMMA PassOverKeeps ==
  ASSUME IInv, PassOver
  PROVE  IInv'
PROOF
  <1> DEFINE frame == [Here EXCEPT !.i = @ + 1]
             n == Len(Here.dirs)
             rev == Revision(Here, Here.i)
  <1>1. /\ Become(frame) /\ Quiet /\ outcome = "running" /\ Here.pc = "walk"
        /\ Here.i <= n /\ Link.to = "none"
    BY DEF PassOver, In
  <1>2. TypeInv /\ Cached(Here) /\ Here \in Frames /\ n \in Nat /\ Here.i \in Nat /\ Here.i >= 1
    BY <1>1, HereFields, FrameFields DEF IInv, Cached
  <1>3. /\ frame \in Frames /\ frame.pkg = Here.pkg /\ frame.pc = "walk"
        /\ frame.dirs = Here.dirs /\ frame.i = Here.i + 1 /\ frame.cur = Here.cur
    BY <1>1, <1>2 DEF Frames
  <1>4. Cached(frame)
    BY <1>3 DEF Cached
  <1>5. Become(frame)
    BY <1>1
  <1> HIDE DEF frame
  <1>6. /\ Here.pkg \in Packages
        /\ rev \in 1 .. Len(revs[Here.pkg]) /\ rev \in Nat
        /\ Link = revs[Here.pkg][rev]
        /\ WalkFits(Here) /\ RightSoFar(Here)
        /\ commits = 0 => n = Len(revs[Here.pkg])
    BY <1>1, <1>2, AtHand
  <1>7. WalkFits(frame)
    <2>1. /\ n <= Len(revs[Here.pkg])
          /\ \A at \in 1 .. n : DirFits(Here, at) /\ Here.dirs[at].id \in DOMAIN parents
          /\ \E at \in 1 .. Here.i : Here.cur = Here.dirs[at].id /\ Untouched(Here, at)
      BY <1>1, <1>2, <1>6 DEF WalkFits
    <2>2. \A at : /\ DirFits(Here, at) => DirFits(frame, at)
                  /\ Untouched(Here, at) => Untouched(frame, at)
      BY <1>3 DEF DirFits, Untouched, Revision
    <2>3. \A at \in 1 .. Here.i : at \in 1 .. frame.i
      BY <1>2, <1>3
    <2>4. \E at \in 1 .. frame.i : frame.cur = frame.dirs[at].id /\ Untouched(frame, at)
      BY <2>1, <2>2, <2>3, <1>3
    <2> QED BY <2>1, <2>2, <2>4, <1>3 DEF WalkFits
  <1>8. RightSoFar(frame)
    <2> SUFFICES ASSUME Still(Here.pkg) PROVE RightSoFar(frame)
      BY <1>3 DEF RightSoFar
    <2>1. \A at \in 1 .. n :
            IF at < Here.i THEN RightAt(Here.pkg, Revision(Here, at))
            ELSE parents[Here.dirs[at].id] = PreviousOf(Here.pkg, Revision(Here, at))
      BY <1>2, <1>6 DEF RightSoFar
    <2>2. RightAt(Here.pkg, rev)
      <3>1. parents[Here.dirs[Here.i].id] = PreviousOf(Here.pkg, rev)
        BY <1>1, <1>2, <2>1
      <3>2. Here.dirs[Here.i].id = Id(Here.pkg, rev)
        BY <1>1, <1>2, AtHand
      <3>3. LinkedOf(Here.pkg, rev) = <<>>
        BY <1>1, <1>6 DEF LinkedOf
      <3> QED BY <3>1, <3>2, <3>3, PreviousIsSeq DEF RightAt
    <2>3. \A at : Revision(frame, at) = Revision(Here, at)
      BY <1>3 DEF Revision
    <2>4. \A at \in 1 .. n :
            IF at < frame.i THEN RightAt(frame.pkg, Revision(frame, at))
            ELSE parents[frame.dirs[at].id] = PreviousOf(frame.pkg, Revision(frame, at))
      <3> TAKE at \in 1 .. n
      <3>1. at < frame.i <=> at < Here.i \/ at = Here.i
        BY <1>2, <1>3
      <3>2. ~(at < frame.i) => ~(at < Here.i)
        BY <3>1
      <3> QED BY <1>3, <2>1, <2>2, <2>3, <3>1, <3>2
    <2>5. frame.i <= n => frame.dirs[frame.i].link.to = "none"
      <3> SUFFICES ASSUME Here.i + 1 <= n PROVE Here.dirs[Here.i + 1].link.to = "none"
        BY <1>3
      <3>1. ~Last /\ rev - 1 \in 1 .. rev - 1
        BY <1>2 DEF Last, Revision
      <3>2. Here.dirs[Here.i + 1].link = revs[Here.pkg][rev - 1]
        BY <1>1, <1>2, <3>1, AtHand
      <3> QED BY <1>1, <1>2, <1>6, <3>1, <3>2, NoLinksBefore DEF Still
    <2> QED BY <1>3, <2>4, <2>5 DEF RightSoFar
  <1>9. ListFits(frame) /\ AtLink(frame)
    BY <1>3 DEF ListFits, AtLink
  <1> QED BY <1>1, <1>2, <1>3, <1>4, <1>5, <1>6, <1>7, <1>8, <1>9, QuietMoves

\* A frame's directories stand for different commits.
LEMMA DirsDiffer ==
  ASSUME TypeInv, NEW f \in Frames, WalkFits(f), Cached(f),
         NEW l \in 1 .. Len(f.dirs), NEW m \in 1 .. Len(f.dirs), f.dirs[l].id = f.dirs[m].id
  PROVE  l = m
PROOF
  <1>1. Revision(f, l) = Revision(f, m)
    BY DirsCached
  <1> QED BY <1>1, FrameFields DEF Revision

\* Once through the loop: the commit at hand gets the parents that its link adds, and
\* the package goes on to the next revision.
LEMMA AdvanceKeeps ==
  ASSUME IInv, outcome = "running", Cached(Here), Here.i <= Len(Here.dirs), Link.to # "none",
         NEW more,
         more = <<>> \/ \E d \in DOMAIN parents : d.pkg = Link.to /\ more = <<d>>,
         Still(Here.pkg) => LinkedOf(Here.pkg, Revision(Here, Here.i)) = more,
         parents' = [parents EXCEPT ![Here.cur] = @ \o more],
         Become([Here EXCEPT !.pc = "walk", !.i = @ + 1,
                             !.cur = IF parents'[@] = <<>> THEN @ ELSE parents'[@][1]]),
         UNCHANGED <<server, heads, outcome>>
  PROVE  IInv'
PROOF
  <1>h. PICK here \in Frames : here = Here
    BY HereFields DEF IInv
  <1> DEFINE n == Len(here.dirs)
             rev == Revision(here, here.i)
             next == IF parents'[here.cur] = <<>> THEN here.cur ELSE parents'[here.cur][1]
  <1>1. /\ TypeInv /\ n \in Nat /\ here.i \in Nat /\ here.i >= 1
        /\ here.pkg \in Packages /\ here.cur \in Hashes /\ CachesFit
    BY <1>h, FrameFields DEF IInv
  <1>2. /\ WalkFits(here) /\ RightSoFar(here)
        /\ commits = 0 => n = Len(revs[here.pkg])
        /\ <<here.pkg, Link.to>> \in Linked
        /\ here.dirs[here.i].id = Id(here.pkg, rev) /\ Cached(here) /\ here.i <= n
    BY <1>h, AtHand
  <1>3. PICK at \in 1 .. here.i :
          /\ here.cur = here.dirs[at].id /\ Untouched(here, at)
          /\ Still(here.pkg) => at = here.i
    BY <1>h, AtHand
  <1>4. at \in 1 .. n /\ at <= here.i
    BY <1>1, <1>2
  <1>5. /\ here.cur \in DOMAIN parents /\ here.cur.pkg = here.pkg
        /\ \A m \in 1 .. n : /\ here.dirs[m].id \in DOMAIN parents
                             /\ here.dirs[m].id \in Hashes
                             /\ here.dirs[m].id = Id(here.pkg, Revision(here, m))
                             /\ here.dirs[m].id = here.cur => m = at
    <2>1. ASSUME NEW m \in 1 .. n
          PROVE  /\ here.dirs[m].id \in DOMAIN parents /\ here.dirs[m].id \in Hashes
                 /\ here.dirs[m].id = Id(here.pkg, Revision(here, m))
                 /\ here.dirs[m].id.pkg = here.pkg
                 /\ here.dirs[m].id = here.dirs[at].id => m = at
      <3>1. here.dirs[m].id = here.dirs[at].id => m = at
        BY <1>h, <1>1, <1>2, <1>4, DirsDiffer
      <3> QED BY <1>h, <1>1, <1>2, <3>1, DirsCached, FrameFields
    <2> QED BY <1>3, <1>4, <2>1
  <1>6. /\ parents[here.cur] = IF at = n THEN <<>> ELSE <<here.dirs[at + 1].id>>
        /\ \A m \in at + 1 .. n :
             parents[here.dirs[m].id] = IF m = n THEN <<>> ELSE <<here.dirs[m + 1].id>>
    <2>1. \A m \in at .. n :
            parents[here.dirs[m].id] = IF m = n THEN <<>> ELSE <<here.dirs[m + 1].id>>
      BY <1>3 DEF Untouched
    <2>2. at \in at .. n /\ \A m \in at + 1 .. n : m \in at .. n
      BY <1>1, <1>4
    <2> QED BY <1>3, <2>1, <2>2
  <1>7. /\ DOMAIN parents' = DOMAIN parents
        /\ parents'[here.cur] = parents[here.cur] \o more
        /\ \A c \in DOMAIN parents : c # here.cur => parents'[c] = parents[c]
    BY <1>h, <1>1, <1>5 DEF TypeInv
  <1>8. /\ more \in Seq(Hashes)
        /\ \A j \in DOMAIN more : ParentFits(here.cur, more[j])
    <2>1. CASE more = <<>>
      BY <2>1
    <2>2. CASE \E d \in DOMAIN parents : d.pkg = Link.to /\ more = <<d>>
      <3>1. PICK d \in DOMAIN parents : d.pkg = Link.to /\ more = <<d>>
        BY <2>2
      <3>2. d \in Hashes
        BY <1>1 DEF CachesFit, Commits, Hashes
      <3>3. ParentFits(here.cur, d)
        BY <1>2, <1>5, <3>1 DEF ParentFits
      <3> QED BY <3>1, <3>2, <3>3
    <2> QED BY <2>1, <2>2
  <1>9. parents[here.cur] \in Seq(Hashes)
    BY <1>1, <1>5 DEF TypeInv
  <1>10. parents'[here.cur] \in Seq(Hashes)
    BY <1>7, <1>8, <1>9
  <1>11. parents' \in [DOMAIN parents -> Seq(Hashes)]
    <2>1. parents' = [c \in DOMAIN parents |-> parents'[c]]
      OBVIOUS
    <2>2. \A c \in DOMAIN parents : parents'[c] \in Seq(Hashes)
      BY <1>1, <1>7, <1>10 DEF TypeInv
    <2> QED BY <2>1, <2>2
  <1>12. \A c \in DOMAIN parents : \A j \in DOMAIN parents'[c] : ParentFits(c, parents'[c][j])
    <2>1. \A j \in DOMAIN (parents[here.cur] \o more) :
            ParentFits(here.cur, (parents[here.cur] \o more)[j])
      <3>1. \A j \in DOMAIN parents[here.cur] : ParentFits(here.cur, parents[here.cur][j])
        BY <1>1, <1>5 DEF CachesFit
      <3>2. ASSUME NEW s \in Seq(Hashes), NEW t \in Seq(Hashes), NEW j \in DOMAIN (s \o t)
            PROVE  (s \o t)[j] = IF j <= Len(s) THEN s[j] ELSE t[j - Len(s)]
        OBVIOUS
      <3>3. ASSUME NEW s \in Seq(Hashes), NEW t \in Seq(Hashes), NEW j \in DOMAIN (s \o t)
            PROVE  j \in Nat /\ (j <= Len(s) => j \in DOMAIN s)
                   /\ (~(j <= Len(s)) => j - Len(s) \in DOMAIN t)
        OBVIOUS
      <3> QED BY <1>8, <1>9, <3>1, <3>2, <3>3
    <2>2. \A j \in DOMAIN parents'[here.cur] : ParentFits(here.cur, parents'[here.cur][j])
      BY <1>7, <2>1
    <2>3. ASSUME NEW c \in DOMAIN parents, c # here.cur, NEW j \in DOMAIN parents'[c]
          PROVE  ParentFits(c, parents'[c][j])
      BY <1>1, <1>7, <2>3 DEF CachesFit
    <2> QED BY <2>2, <2>3
  <1>13. next \in Hashes /\ (at < n => next = here.dirs[at + 1].id)
    <2>1. parents'[here.cur] # <<>> => parents'[here.cur][1] \in Hashes
      BY <1>10
    <2>2. ASSUME at < n PROVE next = here.dirs[at + 1].id
      <3>1. parents[here.cur] = <<here.dirs[at + 1].id>>
        BY <1>4, <1>6, <2>2
      <3>2. parents'[here.cur] = <<here.dirs[at + 1].id>> \o more
        BY <1>7, <3>1
      <3>3. \A x, y : (<<x>> \o <<y>>) # <<>> /\ (<<x>> \o <<y>>)[1] = x
        OBVIOUS
      <3>4. \A x : (<<x>> \o <<>>) # <<>> /\ (<<x>> \o <<>>)[1] = x
        OBVIOUS
      <3> QED BY <3>2, <3>3, <3>4
    <2> QED BY <1>1, <2>1, <2>2
  <1> HIDE DEF next
  <1>14. [here EXCEPT !.pc = "walk", !.i = @ + 1, !.cur = next] \in Frames
    <2>1. next \in Hashes /\ here.i + 1 \in Nat \ {0}
      BY <1>1, <1>13
    <2> QED BY <1>h, <2>1 DEF Frames
  <1>f. PICK frame \in Frames : frame = [here EXCEPT !.pc = "walk", !.i = @ + 1, !.cur = next]
    BY <1>14
  <1>15. /\ frame.pkg = here.pkg /\ frame.pc = "walk"
         /\ frame.dirs = here.dirs /\ frame.i = here.i + 1 /\ frame.cur = next
    BY <1>h, <1>1, <1>f DEF Frames
  <1>r. stack' = [stack EXCEPT ![Len(stack)] = frame]
    BY <1>h, <1>f DEF Become, next
  <1>16. revs' = revs /\ commits' = commits /\ Grown
    BY <1>1, ServerStays DEF server
  <1>17. /\ \A m \in 1 .. n : DirFits(frame, m)'
         /\ n <= Len(revs[here.pkg])
    <2>1. n <= Len(revs[here.pkg]) /\ \A m \in 1 .. n : DirFits(here, m)
      BY <1>2 DEF WalkFits
    <2>2. \A m : DirFits(frame, m)' <=> DirFits(here, m)
      BY <1>15, <1>16 DEF DirFits, Revision, Id, Expands
    <2> QED BY <2>1, <2>2
  <1>18. WalkFits(frame)'
    <2>1. ASSUME here.i + 1 <= n
          PROVE  \E m \in 1 .. here.i + 1 : frame.cur = frame.dirs[m].id /\ Untouched(frame, m)'
      <3>1. at + 1 \in 1 .. here.i + 1 /\ at < n /\ at + 1 \in Nat
        BY <1>1, <1>4, <2>1
      <3>2. frame.cur = frame.dirs[at + 1].id
        BY <1>13, <1>15, <3>1
      <3>3. \A m \in at + 1 .. n : m \in 1 .. n /\ m # at
        BY <1>1, <1>4
      <3>4. \A m \in at + 1 .. n : parents'[here.dirs[m].id] = parents[here.dirs[m].id]
        BY <1>5, <1>7, <3>3
      <3>5. Untouched(frame, at + 1)'
        BY <1>6, <1>15, <3>4 DEF Untouched
      <3> QED BY <3>1, <3>2, <3>5
    <2> QED BY <1>5, <1>7, <1>15, <1>16, <1>17, <2>1 DEF WalkFits
  <1>19. RightSoFar(frame)'
    <2>1. Still(here.pkg)' = Still(here.pkg)
      BY <1>1, <1>16, ServerStays DEF Still
    <2> SUFFICES ASSUME Still(here.pkg) PROVE RightSoFar(frame)'
      BY <1>15, <2>1 DEF RightSoFar
    <2>2. at = here.i
      BY <1>3
    <2>3. /\ \A m \in 1 .. n :
               IF m < here.i THEN RightAt(here.pkg, Revision(here, m))
               ELSE parents[here.dirs[m].id] = PreviousOf(here.pkg, Revision(here, m))
      BY <1>2 DEF RightSoFar
    <2>4. \A m : /\ Revision(frame, m)' = Revision(here, m)
                 /\ PreviousOf(here.pkg, Revision(here, m))' = PreviousOf(here.pkg, Revision(here, m))
                 /\ LinkedOf(here.pkg, Revision(here, m))' = LinkedOf(here.pkg, Revision(here, m))
                 /\ Id(here.pkg, Revision(here, m))' = Id(here.pkg, Revision(here, m))
      <3>1. \A m : Revision(frame, m)' = Revision(here, m)
        BY <1>15 DEF Revision
      <3> QED BY <1>1, <1>16, <3>1, ServerStays
    <2>5. ASSUME NEW m \in 1 .. n
          PROVE  IF m < here.i + 1
                 THEN parents'[here.dirs[m].id] = PreviousOf(here.pkg, Revision(here, m))
                                                    \o LinkedOf(here.pkg, Revision(here, m))
                 ELSE parents'[here.dirs[m].id] = PreviousOf(here.pkg, Revision(here, m))
      <3>1. CASE m = here.i
        <4>1. parents[here.cur] = PreviousOf(here.pkg, Revision(here, m))
          BY <1>1, <1>3, <2>2, <2>3, <3>1
        <4>2. LinkedOf(here.pkg, Revision(here, m)) = more
          BY <1>h, <3>1
        <4>3. here.cur = here.dirs[m].id /\ m < here.i + 1
          BY <1>1, <1>3, <2>2, <3>1
        <4> QED BY <1>7, <4>1, <4>2, <4>3
      <3>2. ASSUME m # here.i PROVE parents'[here.dirs[m].id] = parents[here.dirs[m].id]
        BY <1>5, <1>7, <2>2, <3>2
      <3>3. CASE m < here.i
        <4>1. RightAt(here.pkg, Revision(here, m)) /\ m # here.i /\ m < here.i + 1
          BY <1>1, <2>3, <3>3
        <4> QED BY <1>5, <3>2, <4>1 DEF RightAt
      <3>4. CASE m > here.i
        <4>1. parents[here.dirs[m].id] = PreviousOf(here.pkg, Revision(here, m))
          BY <1>1, <2>3, <3>4
        <4>2. m # here.i /\ ~(m < here.i + 1)
          BY <1>1, <3>4
        <4> QED BY <3>2, <4>1, <4>2
      <3>5. m < here.i \/ m = here.i \/ m > here.i
        BY <1>1
      <3> QED BY <3>1, <3>3, <3>4, <3>5

    <2>6. here.i + 1 <= n => frame.cur = frame.dirs[here.i + 1].id
      BY <1>1, <1>13, <1>15, <2>2
    <2>7. \A m \in 1 .. n : RightAt(here.pkg, Revision(here, m))'
                              <=> parents'[here.dirs[m].id] = PreviousOf(here.pkg, Revision(here, m))
                                                    \o LinkedOf(here.pkg, Revision(here, m))
      BY <1>5, <2>4 DEF RightAt
    <2>8. \A m : Revision(frame, m)' = Revision(here, m)'
      BY <1>15 DEF Revision
    <2> QED BY <1>15, <2>4, <2>5, <2>6, <2>7, <2>8 DEF RightSoFar
  <1>20. ListFits(frame)' /\ AtLink(frame)' /\ Cached(frame)
    BY <1>15 DEF ListFits, AtLink, Cached
  <1>21. \A c \in DOMAIN parents : c.pkg # here.pkg => parents'[c] = parents[c]
    BY <1>5, <1>7
  <1>22. commits = 0 => Len(frame.dirs) = Len(revs[frame.pkg])
    BY <1>2, <1>15
  <1>23. frame.pkg = Here.pkg /\ Cached(Here)
    BY <1>h, <1>15
  <1> QED BY <1>h, <1>r, <1>11, <1>12, <1>15, <1>23, <1>18, <1>19, <1>20, <1>21, <1>22, TopMoves

\* As long as there are older revisions, the commit at hand has exactly one parent.
LEMMA ChainGoesOn ==
  ASSUME IInv, Cached(Here), Here.i <= Len(Here.dirs), ~Last
  PROVE  Len(parents[Here.cur]) = 1 /\ parents[Here.cur] # <<>>
PROOF
  <1>1. PICK at \in 1 .. Here.i : Here.cur = Here.dirs[at].id /\ Untouched(Here, at)
    BY AtHand
  <1>2. Here.i \in Nat /\ Len(Here.dirs) \in Nat
    BY HereFields, FrameFields DEF IInv
  <1>3. at \in at .. Len(Here.dirs) /\ at # Len(Here.dirs)
    BY <1>2 DEF Last
  <1>4. parents[Here.cur] = <<Here.dirs[at + 1].id>>
    BY <1>1, <1>3 DEF Untouched
  <1> QED BY <1>4

LEMMA GoOnKeeps ==
  ASSUME IInv, outcome = "running", Cached(Here), Here.i <= Len(Here.dirs), Link.to # "none",
         Still(Here.pkg) => LinkedOf(Here.pkg, Revision(Here, Here.i)) = <<>>, GoOn
  PROVE  IInv'
PROOF
  <1>1. Advance(parents) /\ Quiet
    BY ChainGoesOn DEF GoOn
  <1>2. parents' = parents /\ UNCHANGED <<server, heads, outcome>>
    BY <1>1 DEF Quiet, caches
  <1>3. Here.cur \in DOMAIN parents /\ parents \in [DOMAIN parents -> Seq(Hashes)]
    <2>1. TypeInv /\ Here \in Frames
      BY HereFields DEF IInv
    <2>2. PICK at \in 1 .. Here.i : Here.cur = Here.dirs[at].id
      BY AtHand
    <2>3. at \in 1 .. Len(Here.dirs)
      BY <2>1, FrameFields
    <2> QED BY <2>1, <2>2, <2>3, AtHand DEF WalkFits, TypeInv
  <1>4. parents' = [parents EXCEPT ![Here.cur] = @ \o <<>>]
    <2>1. parents[Here.cur] \o <<>> = parents[Here.cur]
      BY <1>3
    <2> QED BY <1>2, <1>3, <2>1
  <1>5. Become([Here EXCEPT !.pc = "walk", !.i = @ + 1,
                            !.cur = IF parents'[@] = <<>> THEN @ ELSE parents'[@][1]])
    BY <1>1, <1>2 DEF Advance
  <1> QED BY <1>2, <1>4, <1>5, AdvanceKeeps

LEMMA AddParentKeeps ==
  ASSUME IInv, outcome = "running", Cached(Here), Here.i <= Len(Here.dirs), Link.to # "none",
         NEW commit \in DOMAIN parents, commit.pkg = Link.to,
         Still(Here.pkg) => LinkedOf(Here.pkg, Revision(Here, Here.i)) = <<commit>>,
         AddParent(commit)
  PROVE  IInv'
PROOF
  <1>1. parents' = [parents EXCEPT ![Here.cur] = Append(@, commit)]
    BY DEF AddParent
  <1>2. Here.cur \in DOMAIN parents /\ parents \in [DOMAIN parents -> Seq(Hashes)]
    <2>1. TypeInv /\ Here \in Frames
      BY HereFields DEF IInv
    <2>2. PICK at \in 1 .. Here.i : Here.cur = Here.dirs[at].id
      BY AtHand
    <2>3. at \in 1 .. Len(Here.dirs)
      BY <2>1, FrameFields
    <2> QED BY <2>1, <2>2, <2>3, AtHand DEF WalkFits, TypeInv
  <1>3. commit \in Hashes
    BY DEF IInv, CachesFit, Commits, Hashes
  <1>4. parents' = [parents EXCEPT ![Here.cur] = @ \o <<commit>>]
    <2>1. ASSUME NEW s \in Seq(Hashes) PROVE Append(s, commit) = s \o <<commit>>
      BY <1>3
    <2> QED BY <1>1, <1>2, <2>1
  <1>5. Become([Here EXCEPT !.pc = "walk", !.i = @ + 1,
                            !.cur = IF parents'[@] = <<>> THEN @ ELSE parents'[@][1]])
    BY <1>1 DEF AddParent, Advance
  <1>6. UNCHANGED <<server, heads, outcome>>
    BY DEF AddParent
  <1> DEFINE more == <<commit>>
  <1>7. \E d \in DOMAIN parents : d.pkg = Link.to /\ more = <<d>>
    OBVIOUS
  <1>8. /\ Still(Here.pkg) => LinkedOf(Here.pkg, Revision(Here, Here.i)) = more
        /\ parents' = [parents EXCEPT ![Here.cur] = @ \o more]
    BY <1>4
  <1> HIDE DEF more
  <1> QED BY <1>5, <1>6, <1>7, <1>8, AdvanceKeeps

\* The package waits for the history of the one that it links to.
LEMMA WithLinkedKeeps ==
  ASSUME IInv, outcome = "running", Cached(Here), Here.i <= Len(Here.dirs), Link.to # "none",
         NEW CONSTANT pc \in {"linked", "base"}, pc = "base" => ~Last,
         AtLink([Here EXCEPT !.pc = pc]), WithLinked(pc)
  PROVE  IInv'
PROOF
  <1>h. PICK here \in Frames : here = Here
    BY HereFields DEF IInv
  <1>t. PICK to : to = Link.to
    OBVIOUS
  <1>0. [here EXCEPT !.pc = pc] \in Frames
    BY <1>h DEF Frames
  <1>f. PICK frame \in Frames : frame = [here EXCEPT !.pc = pc]
    BY <1>0
  <1>1. /\ TypeInv /\ Here \in Frames /\ here.pkg \in Packages /\ Len(here.dirs) \in Nat
        /\ here.i \in Nat /\ Here = stack[Len(stack)] /\ Len(stack) \in Nat /\ Len(stack) >= 1
        /\ \A j \in 1 .. Len(stack) : stack[j] \in Frames
    BY <1>h, HereFields, FrameFields DEF IInv, Here
  <1>2. /\ WalkFits(here) /\ RightSoFar(here) /\ to \in Packages /\ Cached(here)
        /\ commits = 0 => Len(here.dirs) = Len(revs[here.pkg])
        /\ here.i <= Len(here.dirs) /\ here.dirs[here.i].link.to # "none"
        /\ pc = "base" => here.i < Len(here.dirs)
    <2>1. pc = "base" => here.i < Len(here.dirs)
      BY <1>h, <1>1 DEF Last
    <2> QED BY <1>h, <1>t, <2>1, AtHand DEF Link
  <1>3. /\ frame.pkg = here.pkg /\ frame.pc = pc /\ frame.dirs = here.dirs
        /\ frame.i = here.i /\ frame.cur = here.cur /\ Cached(frame)
    BY <1>f DEF Frames, Cached
  <1>4. ListFits(frame) /\ WalkFits(frame) /\ RightSoFar(frame) /\ AtLink(frame)
    <2>1. ListFits(frame)
      BY <1>3 DEF ListFits
    <2>2. AtLink(frame)
      BY <1>h, <1>f
    <2>3. RightSoFar(frame)
      BY <1>2, <1>3 DEF RightSoFar, Revision
    <2>4. \A m : /\ DirFits(frame, m) <=> DirFits(here, m)
                 /\ Untouched(frame, m) <=> Untouched(here, m)
      BY <1>3 DEF DirFits, Untouched, Revision
    <2>5. WalkFits(frame)
      BY <1>2, <1>3, <2>4 DEF WalkFits
    <2> QED BY <2>1, <2>2, <2>3, <2>5
  <1>5. Quiet
    BY DEF WithLinked
  <1>6. CASE to \in DOMAIN heads
    <2>1. Become(frame)
      BY <1>h, <1>t, <1>f, <1>6, <1>1 DEF WithLinked, Become
    <2> QED BY <1>h, <1>2, <1>3, <1>4, <1>5, <2>1, QuietMoves
  <1>7. CASE to \notin DOMAIN heads
    <2> DEFINE top == Len(stack)
               new == Frame(to)
    <2>1. /\ new \in Frames /\ new.pkg = to /\ new.pc = "list" /\ new.i = 1
      <3>1. {} \in SUBSET (Nat \X BOOLEAN) /\ <<>> \in Seq(Dirs) /\ 1 \in Nat \ {0}
        OBVIOUS
      <3> QED BY <1>2, <3>1, NoCommitIsNone DEF Frame, Frames
    <2> HIDE DEF new
    <2>2. stack' = Append([stack EXCEPT ![top] = frame], new)
      BY <1>h, <1>t, <1>f, <1>7, <1>1 DEF WithLinked, new
    <2>3. /\ stack' \in Seq(Frames) /\ stack' # <<>> /\ Len(stack') = top + 1
          /\ stack'[top] = frame /\ stack'[top + 1] = new
          /\ \A j \in 1 .. top - 1 : stack'[j] = stack[j]
      <3>1. stack \in Seq(Frames)
        BY <1>1 DEF TypeInv
      <3> DEFINE waiting == [stack EXCEPT ![top] = frame]
      <3>2. /\ waiting \in Seq(Frames) /\ Len(waiting) = top /\ waiting[top] = frame
            /\ \A j \in 1 .. top - 1 : waiting[j] = stack[j]
        BY <1>1, <3>1
      <3>3. stack' = Append(waiting, new)
        BY <2>2
      <3> HIDE DEF waiting
      <3> QED BY <1>1, <2>1, <3>2, <3>3
    <2>4. /\ revs' = revs /\ commits' = commits /\ heads' = heads /\ parents' = parents
          /\ outcome' = outcome /\ UNCHANGED server /\ Grown
      BY <1>1, <1>5, ServerStays DEF Quiet, server, caches
    <2>5. \A j \in 1 .. top + 1 : j \in 1 .. top - 1 \/ j = top \/ j = top + 1
      BY <1>1
    <2>6. /\ \A j \in 1 .. top : stack'[j].pkg = stack[j].pkg /\ stack[j].pkg # to
      <3>1. \A j \in 1 .. top : stack[j].pkg \in DOMAIN heads
        <4>1. \A j \in 1 .. top : Cached(stack[j])
          BY <1>h, <1>1, <1>2 DEF IInv, StackFits, Cached
        <4> QED BY <4>1 DEF IInv, StackFits
      <3>2. \A j \in 1 .. top : stack'[j].pkg = stack[j].pkg
        BY <1>h, <1>1, <1>3, <2>3
      <3> QED BY <1>7, <3>1, <3>2
    <2>7. TypeInv'
      BY <1>1, <2>3, <2>4 DEF TypeInv
    <2>8. NoPackageTwice'
      BY <1>1, <2>1, <2>3, <2>6 DEF IInv, NoPackageTwice
    <2>9. StackFits'
      <3>1. ASSUME NEW j \in 1 .. top + 1
            PROVE  /\ stack'[j].pkg \in DOMAIN heads <=> Cached(stack'[j])
                   /\ ~Cached(stack'[j]) => stack'[j].i = 1
        <4>1. CASE j \in 1 .. top - 1
          BY <1>1, <2>3, <4>1 DEF IInv, StackFits
        <4>2. CASE j = top
          BY <1>h, <1>1, <1>2, <1>3, <2>3, <4>2 DEF IInv, StackFits
        <4>3. CASE j = top + 1
          BY <1>7, <2>1, <2>3, <4>3 DEF Cached
        <4> QED BY <2>5, <4>1, <4>2, <4>3
      <3>2. \A j \in 1 .. top : stack'[j].pc \in {"linked", "base"}
        BY <1>1, <1>3, <2>3 DEF IInv, StackFits
      <3>3. Len(stack') - 1 = top
        BY <1>1, <2>3
      <3> QED BY <2>3, <2>4, <3>1, <3>2, <3>3 DEF StackFits, Cached
    <2>10. ASSUME NEW j \in 1 .. top + 1
           PROVE  /\ stack'[j] \in Frames
                  /\ ListFits(stack[j])' /\ WalkFits(stack[j])'
                  /\ RightSoFar(stack[j])' /\ AtLink(stack[j])'
                  /\ commits = 0 /\ stack'[j].pc # "list" =>
                       Len(stack'[j].dirs) = Len(revs[stack'[j].pkg])
      <3>1. PICK f \in Frames : f = stack'[j]
        BY <2>3
      <3>2. /\ ListFits(f) /\ WalkFits(f) /\ RightSoFar(f) /\ AtLink(f)
            /\ commits = 0 /\ f.pc # "list" => Len(f.dirs) = Len(revs[f.pkg])
        <4>1. CASE j \in 1 .. top - 1
          <5>1. f = stack[j] /\ j \in 1 .. Len(stack)
            BY <1>1, <2>3, <3>1, <4>1
          <5> QED BY <5>1 DEF IInv, FramesFit, AllRight, HeadsFit
        <4>2. CASE j = top
          BY <1>2, <1>3, <1>4, <2>3, <3>1, <4>2
        <4>3. CASE j = top + 1
          BY <2>1, <2>3, <3>1, <4>3 DEF ListFits, WalkFits, RightSoFar, AtLink, Cached
        <4> QED BY <2>5, <4>1, <4>2, <4>3
      <3>3. Kept(f.pkg)
        BY <2>4 DEF Kept
      <3>4. ListFits(f)' /\ WalkFits(f)' /\ RightSoFar(f)' /\ AtLink(f)'
        BY <1>1, <2>4, <3>2, <3>3, ListKeeps, WalkKeeps, RightKeeps, LinkKeeps
      <3> QED BY <3>1, <3>2, <3>4
    <2>11. FramesFit'
      BY <2>3, <2>10 DEF FramesFit
    <2>12. \A p, k : Id(p, k)' = Id(p, k) /\ HeadOnServer(p)' = HeadOnServer(p)
      BY <1>1, <2>4, ServerStays
    <2>13. CachesFit'
      BY <2>4, <2>12 DEF IInv, CachesFit, ParentFits, Linked
    <2>14. HeadsFit'
      BY <2>3, <2>4, <2>10, <2>12 DEF IInv, HeadsFit
    <2>15. AllRight'
      <3>1. \A p, k : Still(p)' = Still(p) /\ RightAt(p, k)' = RightAt(p, k)
        BY <1>1, <2>4, ServerStays DEF Still, RightAt
      <3>2. \A j \in 1 .. top + 1 : RightSoFar(stack[j])' /\ AtLink(stack[j])'
        BY <2>10
      <3>3. ASSUME NEW p \in DOMAIN heads, Still(p), \A j \in 1 .. top + 1 : stack'[j].pkg # p,
                   NEW k \in 1 .. Len(revs[p])
            PROVE  RightAt(p, k)
        <4>1. \A j \in 1 .. top : j \in 1 .. top + 1
          BY <1>1
        <4>2. \A j \in 1 .. top : stack[j].pkg # p
          BY <2>6, <3>3, <4>1
        <4> QED BY <3>3, <4>2 DEF IInv, AllRight
      <3> QED BY <2>3, <2>4, <3>1, <3>2, <3>3 DEF AllRight
    <2> QED BY <2>7, <2>8, <2>9, <2>11, <2>13, <2>14, <2>15 DEF IInv
  <1> QED BY <1>6, <1>7

-----------------------------------------------------------------------------
(* What a link adds, by the rules and by the steps.                        *)

\* The revision that a link names is there, and its sources expand.
Named(link) ==
  link.rev > 0 /\ link.rev <= Len(revs[link.to]) /\ Expands(link.to, link.rev)

LEMMA LinkedHere ==
  ASSUME IInv, Cached(Here), Here.i <= Len(Here.dirs), Link.to # "none"
  PROVE  LinkedOf(Here.pkg, Revision(Here, Here.i)) =
           LET older == Here.dirs[Here.i + 1].link IN
           IF revs[Link.to] = <<>> THEN <<>>
           ELSE IF Named(Link) THEN <<Hash(Link.to, Link.rev, TRUE)>>
           ELSE IF Link.rev = 0 /\ (Link.base = 0 \/ Last) THEN <<HeadOnServer(Link.to)>>
           ELSE IF Link.base # 0 /\ ~Last /\ (older.to = "none" \/ older.base \notin {0, Link.base})
                THEN <<Hash(Link.to, Link.base, TRUE)>>
           ELSE <<>>
PROOF
  <1> DEFINE rev == Revision(Here, Here.i)
  <1>1. /\ rev \in Nat /\ rev >= 1 /\ Link = revs[Here.pkg][rev] /\ (Last <=> rev = 1)
        /\ ~Last => Here.dirs[Here.i + 1].link = revs[Here.pkg][rev - 1]
    BY AtHand
  <1>2. Last \/ (rev > 1 /\ Here.dirs[Here.i + 1].link = revs[Here.pkg][rev - 1])
    BY <1>1
  <1> HIDE DEF rev
  <1>3. CASE Last
    <2>1. rev = 1 /\ ~(rev > 1)
      BY <1>1, <1>3
    <2> QED BY <1>1, <1>3, <2>1 DEF LinkedOf, Named, rev
  <1>4. CASE ~Last
    <2>1. rev # 1 /\ rev > 1 /\ Here.dirs[Here.i + 1].link = revs[Here.pkg][rev - 1]
      BY <1>1, <1>4
    <2> QED BY <1>1, <1>4, <2>1 DEF LinkedOf, Named, rev
  <1> QED BY <1>3, <1>4

\* A package without a head has no revisions.
LEMMA HeadFields ==
  ASSUME IInv, NEW p \in DOMAIN heads
  PROVE  /\ p \in Packages /\ p # "none"
         /\ heads[p] # NoCommit => heads[p] \in DOMAIN parents /\ heads[p].pkg = p
         /\ commits = 0 => /\ heads[p] = HeadOnServer(p)
                           /\ heads[p] = NoCommit <=> revs[p] = <<>>
PROOF
  <1>1. p \in Packages /\ p # "none"
    BY HistoryAssumption DEF IInv, TypeInv
  <1>2. HeadOnServer(p) = NoCommit <=> revs[p] = <<>>
    BY <1>1, HashFields, NoCommitIsNone DEF HeadOnServer
  <1> QED BY <1>1, <1>2 DEF IInv, CachesFit, HeadsFit

\* A revision that is looked up among the commits is found if its sources expand.
LEMMA LookedUp ==
  ASSUME IInv, NEW p \in DOMAIN heads, NEW k \in Int
  PROVE  LET commit == Hash(p, k, TRUE) IN
         /\ Known(commit) # NoCommit => Known(commit) = commit /\ commit \in DOMAIN parents
         /\ commit \in DOMAIN parents => k > 0 /\ k <= Len(revs[p]) /\ Expands(p, k)
         /\ commits = 0 /\ k > 0 /\ k <= Len(revs[p]) /\ Expands(p, k)
              => Known(commit) # NoCommit
PROOF
  <1> DEFINE commit == Hash(p, k, TRUE)
  <1>1. p \in Packages /\ p # "none" /\ commit.pkg = p /\ commit.k = k /\ commit.expanded = TRUE
    <2>1. commit.pkg = p /\ commit.k = k /\ commit.expanded = TRUE
      BY DEF Hash
    <2> QED BY <2>1, HeadFields
  <1>2. commit # NoCommit
    BY <1>1, NoCommitIsNone
  <1>3. ASSUME commit \in DOMAIN parents PROVE k > 0 /\ k <= Len(revs[p]) /\ Expands(p, k)
    <2>1. commit \in Commits /\ commit.k <= Len(revs[commit.pkg])
          /\ commit = Id(commit.pkg, commit.k)
      BY <1>3 DEF IInv, CachesFit
    <2>2. commit.k \in Nat \ {0}
      BY <2>1 DEF Commits
    <2>3. Id(p, k).expanded = TRUE
      BY <1>1, <2>1
    <2>4. Expands(p, k)
      BY <2>3, IdFields
    <2>5. k \in Nat \ {0} /\ k <= Len(revs[p])
      BY <1>1, <2>1, <2>2
    <2> QED BY <2>4, <2>5
  <1>4. ASSUME commits = 0, k > 0, k <= Len(revs[p]), Expands(p, k)
        PROVE  commit \in DOMAIN parents
    <2>1. Expands(p, k) = TRUE
      <3>1. Expands(p, k) \in BOOLEAN
        BY DEF Expands
      <3> QED BY <1>4, <3>1
    <2>2. commit = Id(p, k)
      BY <2>1 DEF Id
    <2>3. k \in 1 .. Len(revs[p])
      BY <1>1, <1>4, RevsFields DEF IInv
    <2> QED BY <1>4, <2>2, <2>3 DEF IInv, HeadsFit
  <1> HIDE DEF commit
  <1>5. Known(commit) = IF commit \in DOMAIN parents THEN commit ELSE NoCommit
    BY DEF Known
  <1> QED BY <1>2, <1>3, <1>4, <1>5 DEF commit

\* A link whose named revision is not there, and that is not attached to the head.
LEMMA FollowBaseKeeps ==
  ASSUME IInv, outcome = "running", Cached(Here), Here.i <= Len(Here.dirs), Link.to # "none",
         Still(Here.pkg) => ~Named(Link), Link.rev = 0 => Link.base # 0 /\ ~Last,
         FollowBase
  PROVE  IInv'
PROOF
  <1> DEFINE older == Here.dirs[Here.i + 1].link
  <1>1. CASE Link.base # 0 /\ ~Last /\ BranchesOff
    <2>1. WithLinked("base")
      BY <1>1, ChainGoesOn DEF FollowBase
    <2>2. AtLink([Here EXCEPT !.pc = "base"])
      <3>1. Here \in Frames
        BY HereFields DEF IInv
      <3> DEFINE frame == [Here EXCEPT !.pc = "base"]
      <3>2. frame.pc = "base" /\ frame.dirs = Here.dirs /\ frame.i = Here.i /\ frame.pkg = Here.pkg
        BY <3>1 DEF Frames
      <3> HIDE DEF frame
      <3>3. AtLink(frame)
        BY <1>1, <3>2 DEF AtLink, BranchesOff, Last, Link, Named
      <3> QED BY <3>3 DEF frame
    <2> QED BY <1>1, <2>1, <2>2, WithLinkedKeeps
  <1>2. CASE ~(Link.base # 0 /\ ~Last /\ BranchesOff)
    <2>1. GoOn
      BY <1>2, ChainGoesOn DEF FollowBase
    <2>2. Still(Here.pkg) => LinkedOf(Here.pkg, Revision(Here, Here.i)) = <<>>
      BY <1>2, LinkedHere DEF BranchesOff
    <2> QED BY <2>1, <2>2, GoOnKeeps
  <1> QED BY <1>1, <1>2

LEMMA FollowLinkKeeps ==
  ASSUME IInv, FollowLink
  PROVE  IInv'
PROOF
  <1>1. /\ outcome = "running" /\ Here.pc = "walk" /\ Cached(Here) /\ Here.i <= Len(Here.dirs)
        /\ Link.to # "none"
    BY DEF FollowLink, In, Cached
  <1>2. CASE Attaches
    <2>1. WithLinked("linked")
      BY <1>2 DEF FollowLink
    <2>2. AtLink([Here EXCEPT !.pc = "linked"])
      <3>1. Here \in Frames
        BY HereFields DEF IInv
      <3> DEFINE frame == [Here EXCEPT !.pc = "linked"]
      <3>2. frame.pc = "linked" /\ frame.dirs = Here.dirs /\ frame.i = Here.i
        BY <3>1 DEF Frames
      <3> HIDE DEF frame
      <3>3. AtLink(frame)
        BY <1>2, <3>2 DEF AtLink, Attaches, Last, Link
      <3> QED BY <3>3 DEF frame
    <2> QED BY <1>1, <2>1, <2>2, WithLinkedKeeps
  <1>3. CASE ~Attaches
    <2>1. FollowBase
      BY <1>3 DEF FollowLink
    <2>2. Link.rev = 0 /\ Link.base # 0 /\ ~Last
      BY <1>3 DEF Attaches
    <2>3. ~Named(Link)
      BY <2>2 DEF Named
    <2> QED BY <1>1, <2>1, <2>2, <2>3, FollowBaseKeeps
  <1> QED BY <1>2, <1>3

LEMMA AttachKeeps ==
  ASSUME IInv, Attach
  PROVE  IInv'
PROOF
  <1>1. /\ outcome = "running" /\ Here.pc = "linked" /\ Cached(Here)
        /\ Link.to \in DOMAIN heads
    BY DEF Attach, In, Cached
  <1>2. /\ Here.i <= Len(Here.dirs) /\ Link.to # "none"
        /\ Link.rev # 0 \/ Link.base = 0 \/ Last
    <2>1. WalkFits(Here) /\ AtLink(Here)
      BY HereFields DEF IInv, FramesFit, AllRight, Here
    <2> QED BY <1>1, <2>1 DEF WalkFits, AtLink, Link, Last
  <1>3. Link.rev \in Int /\ Link.to \in Packages
    BY <1>1, <1>2, AtHand DEF Links
  <1> DEFINE named == Hash(Link.to, Link.rev, TRUE)
             commit == IF Link.rev = 0 THEN heads[Link.to] ELSE Known(named)
  <1>4. CASE heads[Link.to] = NoCommit
    <2>1. GoOn
      BY <1>4 DEF Attach
    <2>2. Still(Here.pkg) => LinkedOf(Here.pkg, Revision(Here, Here.i)) = <<>>
      BY <1>1, <1>2, <1>4, LinkedHere, HeadFields DEF Still
    <2> QED BY <1>1, <1>2, <2>1, <2>2, GoOnKeeps
  <1>5. CASE heads[Link.to] # NoCommit /\ commit = NoCommit
    <2>1. FollowBase
      BY <1>5 DEF Attach
    <2>2. Link.rev # 0 /\ Known(named) = NoCommit
      BY <1>5
    <2>3. Still(Here.pkg) => ~Named(Link)
      BY <1>1, <1>3, <2>2, LookedUp DEF Still, Named
    <2> QED BY <1>1, <1>2, <2>1, <2>2, <2>3, FollowBaseKeeps
  <1>6. CASE heads[Link.to] # NoCommit /\ commit # NoCommit
    <2>1. AddParent(commit) \/ Fail("badHead")
      BY <1>6 DEF Attach
    <2>2. commit \in DOMAIN parents /\ commit.pkg = Link.to
      <3>1. CASE Link.rev = 0
        BY <1>1, <1>6, <3>1, HeadFields
      <3>2. CASE Link.rev # 0
        <4>1. commit = named /\ commit \in DOMAIN parents
          BY <1>1, <1>3, <1>6, <3>2, LookedUp
        <4>2. named.pkg = Link.to
          BY DEF Hash
        <4> QED BY <4>1, <4>2
      <3> QED BY <3>1, <3>2
    <2>3. Still(Here.pkg) => LinkedOf(Here.pkg, Revision(Here, Here.i)) = <<commit>>
      <3> SUFFICES ASSUME Still(Here.pkg)
                   PROVE  LinkedOf(Here.pkg, Revision(Here, Here.i)) = <<commit>>
        OBVIOUS
      <3>1. revs[Link.to] # <<>> /\ heads[Link.to] = HeadOnServer(Link.to)
        BY <1>1, <1>6, HeadFields DEF Still
      <3>2. CASE Link.rev = 0
        <4>1. ~Named(Link) /\ commit = HeadOnServer(Link.to) /\ (Link.base = 0 \/ Last)
          BY <1>2, <3>1, <3>2 DEF Named
        <4> QED BY <1>1, <1>2, <3>1, <3>2, <4>1, LinkedHere
      <3>3. CASE Link.rev # 0
        <4>1. Named(Link) /\ commit = named
          BY <1>1, <1>3, <1>6, <3>3, LookedUp DEF Named
        <4> HIDE DEF commit
        <4> QED BY <1>1, <1>2, <3>1, <4>1, LinkedHere
      <3> QED BY <3>2, <3>3
    <2> HIDE DEF commit
    <2>4. CASE AddParent(commit)
      BY <1>1, <1>2, <2>2, <2>3, <2>4, AddParentKeeps
    <2>5. CASE Fail("badHead")
      BY <2>5, FailKeeps DEF Outcomes
    <2> QED BY <2>1, <2>4, <2>5
  <1> QED BY <1>4, <1>5, <1>6

LEMMA AttachBaseKeeps ==
  ASSUME IInv, AttachBase
  PROVE  IInv'
PROOF
  <1>1. /\ outcome = "running" /\ Here.pc = "base" /\ Cached(Here)
        /\ Link.to \in DOMAIN heads
    BY DEF AttachBase, In, Cached
  <1> DEFINE older == Here.dirs[Here.i + 1].link
             named == Hash(Link.to, Link.base, TRUE)
             commit == Known(named)
  <1>2. /\ Here.i <= Len(Here.dirs) /\ Link.to # "none"
        /\ Link.base # 0 /\ ~Last
        /\ older.to = "none" \/ (older.base # 0 /\ older.base # Link.base)
        /\ Link.rev # 0 /\ Still(Here.pkg) => ~Named(Link)
    <2>1. WalkFits(Here) /\ AtLink(Here)
      BY HereFields DEF IInv, FramesFit, AllRight, Here
    <2>2. Here.i <= Len(Here.dirs) /\ Link.to # "none"
      BY <1>1, <2>1 DEF WalkFits, Link
    <2> QED BY <1>1, <2>1, <2>2 DEF AtLink, Link, Last, Named
  <1>3. Link.base \in Int /\ Link.to \in Packages
    BY <1>1, <1>2, AtHand DEF Links
  <1>4. CASE heads[Link.to] = NoCommit
    <2>1. GoOn
      BY <1>4 DEF AttachBase
    <2>2. Still(Here.pkg) => LinkedOf(Here.pkg, Revision(Here, Here.i)) = <<>>
      BY <1>1, <1>2, <1>4, LinkedHere, HeadFields DEF Still
    <2> QED BY <1>1, <1>2, <2>1, <2>2, GoOnKeeps
  <1>5. CASE heads[Link.to] # NoCommit /\ commit = NoCommit
    <2>1. Fail("badBase")
      BY <1>5 DEF AttachBase
    <2> QED BY <2>1, FailKeeps DEF Outcomes
  <1>6. CASE heads[Link.to] # NoCommit /\ commit # NoCommit
    <2>1. AddParent(commit)
      BY <1>6 DEF AttachBase
    <2>2. commit \in DOMAIN parents /\ commit = named /\ commit.pkg = Link.to
      <3>1. commit = named /\ commit \in DOMAIN parents
        BY <1>1, <1>3, <1>6, LookedUp
      <3>2. named.pkg = Link.to
        BY DEF Hash
      <3> QED BY <3>1, <3>2

    <2>3. Still(Here.pkg) => LinkedOf(Here.pkg, Revision(Here, Here.i)) = <<named>>
      <3> SUFFICES ASSUME Still(Here.pkg)
                   PROVE  LinkedOf(Here.pkg, Revision(Here, Here.i)) = <<named>>
        OBVIOUS
      <3>1. revs[Link.to] # <<>>
        BY <1>1, <1>6, HeadFields DEF Still
      <3>2. ~Named(Link)
        <4>1. Link.rev = 0 => ~Named(Link)
          BY DEF Named
        <4> QED BY <1>2, <4>1
      <3> QED BY <1>1, <1>2, <3>1, <3>2, LinkedHere
    <2> HIDE DEF commit
    <2> QED BY <1>1, <1>2, <2>1, <2>2, <2>3, AddParentKeeps
  <1> QED BY <1>4, <1>5, <1>6

-----------------------------------------------------------------------------
(* The steps that reach other packages.                                    *)

\* The revisions of a package become a chain of commits.
LEMMA CacheKeeps ==
  ASSUME IInv, Cache
  PROVE  IInv'
PROOF
  <1>h. PICK here \in Frames : here = Here
    BY HereFields DEF IInv
  <1> DEFINE n == Len(here.dirs)
             p0 == here.pkg
             top == Len(stack)
             ids == {here.dirs[i].id : i \in 1 .. n}
             Older(c) == {here.dirs[i].id : i \in {j \in 2 .. n : here.dirs[j - 1].id = c}}
             head == IF n = 0 THEN NoCommit ELSE here.dirs[1].id
  <1>1. /\ outcome = "running" /\ here.pc = "dirs" /\ here.todo = {}
        /\ Become([here EXCEPT !.pc = "walk", !.cur = head])
        /\ heads' = [p \in DOMAIN heads \cup {p0} |-> IF p = p0 THEN head ELSE heads[p]]
        /\ parents' = [c \in DOMAIN parents \cup ids |->
                         IF c \in DOMAIN parents THEN parents[c]
                         ELSE IF Older(c) = {} THEN <<>>
                         ELSE <<CHOOSE d \in Older(c) : TRUE>>]
        /\ revs' = revs /\ commits' = commits /\ outcome' = outcome
    BY <1>h DEF Cache, In, server
  <1>2. /\ TypeInv /\ p0 \in Packages /\ n \in Nat /\ Len(revs[p0]) \in Nat
        /\ Here = stack[top] /\ top \in Nat /\ top >= 1
        /\ \A j \in 1 .. top : stack[j] \in Frames
    BY <1>h, HereFields, FrameFields, RevsFields DEF IInv, Here
  <1>3. /\ here.i = 1 /\ n <= Len(revs[p0])
        /\ \A at \in 1 .. n : DirFits(here, at)
        /\ p0 \notin DOMAIN heads /\ ~Cached(here)
        /\ commits = 0 => n = Len(revs[p0])
    <2>1. ~Cached(here)
      BY <1>1 DEF Cached
    <2>2. ListFits(here)
      BY <1>h, <1>2 DEF IInv, FramesFit
    <2>3. n <= Len(revs[p0]) /\ \A k \in 1 .. n : DirFits(here, n + 1 - k)
      BY <1>1, <2>2 DEF ListFits
    <2>4. ASSUME NEW at \in 1 .. n PROVE DirFits(here, at)
      <3>1. n + 1 - at \in 1 .. n /\ n + 1 - (n + 1 - at) = at
        BY <1>2
      <3> QED BY <2>3, <3>1
    <2>5. here.i = 1 /\ p0 \notin DOMAIN heads
      BY <1>h, <1>2, <2>1 DEF IInv, StackFits
    <2>6. commits = 0 => n = Len(revs[p0])
      BY <1>h, <1>1, <1>2 DEF IInv, HeadsFit
    <2> QED BY <2>1, <2>3, <2>4, <2>5, <2>6
  <1>4. ASSUME NEW at \in 1 .. n
        PROVE  LET rev == Revision(here, at) IN
               /\ rev \in 1 .. n /\ rev \in 1 .. Len(revs[p0]) /\ rev = n + 1 - at
               /\ here.dirs[at].id = Id(p0, rev) /\ here.dirs[at].id.pkg = p0
               /\ here.dirs[at].id.k = rev /\ here.dirs[at].id \in Hashes
               /\ here.dirs[at].id \in Commits /\ here.dirs[at].link = revs[p0][rev]
    <2> DEFINE rev == Revision(here, at)
    <2>1. rev = n + 1 - at /\ rev \in 1 .. n /\ rev \in Nat \ {0}
      BY <1>2 DEF Revision
    <2>2. rev \in 1 .. Len(revs[p0])
      BY <1>2, <1>3, <2>1
    <2>3. here.dirs[at].id = Id(p0, rev) /\ here.dirs[at].link = revs[p0][rev]
      BY <1>3 DEF DirFits
    <2>4. Expands(p0, rev) \in BOOLEAN
      BY <1>2, <2>2, RevsFields
    <2> HIDE DEF rev
    <2>5. Id(p0, rev) \in Commits
      BY <1>2, <2>1, <2>4 DEF Id, Hash, Commits
    <2>6. Id(p0, rev).pkg = p0 /\ Id(p0, rev).k = rev
      BY IdFields
    <2>7. Id(p0, rev) \in Hashes
      BY <1>2, <2>1, IdFields
    <2>8. here.dirs[at].id.pkg = p0 /\ here.dirs[at].id.k = rev
      BY <2>3, <2>6
    <2> QED BY <2>1, <2>2, <2>3, <2>5, <2>7, <2>8 DEF rev
  <1>5. \A l, m \in 1 .. n : here.dirs[l].id = here.dirs[m].id => l = m
    <2> TAKE l, m \in 1 .. n
    <2> HAVE here.dirs[l].id = here.dirs[m].id
    <2>1. here.dirs[l].id.k = n + 1 - l /\ here.dirs[m].id.k = n + 1 - m
      BY <1>4
    <2>2. n + 1 - l = n + 1 - m
      BY <2>1
    <2> HIDE DEF n
    <2> QED BY <1>2, <2>2
  <1>6. \A c \in DOMAIN parents : c.pkg # p0
    BY <1>3 DEF IInv, CachesFit
  <1>7. \A at \in 1 .. n :
          parents'[here.dirs[at].id] = IF at = n THEN <<>> ELSE <<here.dirs[at + 1].id>>
    <2> TAKE at \in 1 .. n
    <2> DEFINE c == here.dirs[at].id
    <2>1. c \in ids /\ c \notin DOMAIN parents
      BY <1>4, <1>6
    <2>2. parents'[c] = IF Older(c) = {} THEN <<>> ELSE <<CHOOSE d \in Older(c) : TRUE>>
      BY <1>1, <2>1
    <2>3. \A j \in 2 .. n : here.dirs[j - 1].id = c <=> j = at + 1
      <3> TAKE j \in 2 .. n
      <3>1. j - 1 \in 1 .. n
        BY <1>2
      <3> QED BY <1>2, <1>5, <3>1
    <2> DEFINE Next2 == {j \in 2 .. n : here.dirs[j - 1].id = c}
    <2>4. CASE at = n
      <3>1. Next2 = {}
        BY <1>2, <2>3, <2>4
      <3>2. Older(c) = {}
        BY <3>1
      <3> QED BY <2>2, <2>4, <3>2
    <2>5. CASE at # n
      <3>1. Next2 = {at + 1}
        <4>1. at + 1 \in 2 .. n
          BY <1>2, <2>5
        <4> QED BY <2>3, <4>1
      <3>2. Older(c) = {here.dirs[at + 1].id}
        BY <3>1
      <3>3. (CHOOSE d \in Older(c) : TRUE) = here.dirs[at + 1].id /\ Older(c) # {}
        BY <3>2
      <3> QED BY <2>2, <2>5, <3>3
    <2> QED BY <2>4, <2>5
  <1> HIDE DEF Older
  <1>8. /\ DOMAIN parents' = DOMAIN parents \cup ids
        /\ \A c \in DOMAIN parents : parents'[c] = parents[c]
    BY <1>1
  <1>9. \A c \in ids : \E at \in 1 .. n : c = here.dirs[at].id
    OBVIOUS
  <1>10. \A at \in 1 .. n : here.dirs[at].id \in ids
    OBVIOUS
  <1>11. IsFiniteSet(ids)
    <2>1. IsFiniteSet(1 .. n)
      <3>1. 1 \in Int /\ n \in Int
        BY <1>2
      <3> HIDE DEF n
      <3> QED BY <3>1, FS_Interval
    <2> DEFINE idOf == [i \in 1 .. n |-> here.dirs[i].id]
    <2>2. ids = {idOf[i] : i \in 1 .. n}
      OBVIOUS
    <2>3. idOf \in [1 .. n -> ids]
      OBVIOUS
    <2>4. idOf \in Surjection(1 .. n, ids)
      BY <2>2, <2>3 DEF Surjection
    <2> HIDE DEF idOf, ids
    <2> QED BY <2>1, <2>4, FS_Surjection
  <1>12. head \in Hashes /\ (n = 0 => head = NoCommit) /\ (n # 0 => head = here.dirs[1].id /\ 1 \in 1 .. n)
    <2>1. n # 0 => 1 \in 1 .. n
      BY <1>2
    <2> QED BY <1>4, <2>1, NoCommitIsNone
  <1> HIDE DEF ids
  <1>13. /\ DOMAIN heads' = DOMAIN heads \cup {p0} /\ heads'[p0] = head
         /\ \A p \in DOMAIN heads : heads'[p] = heads[p] /\ p # p0
    BY <1>1, <1>3
  <1>14. [here EXCEPT !.pc = "walk", !.cur = head] \in Frames
    BY <1>h, <1>12 DEF Frames
  <1>f. PICK frame \in Frames : frame = [here EXCEPT !.pc = "walk", !.cur = head]
    BY <1>14
  <1>15. /\ frame.pkg = p0 /\ frame.pc = "walk" /\ frame.dirs = here.dirs
         /\ frame.i = 1 /\ frame.cur = head /\ Cached(frame)
    BY <1>h, <1>f, <1>3 DEF Frames, Cached
  <1> HIDE DEF head
  <1>16. /\ stack' \in Seq(Frames) /\ stack' # <<>> /\ Len(stack') = top
         /\ stack'[top] = frame
         /\ \A j \in 1 .. top - 1 : stack'[j] = stack[j]
    <2>1. stack' = [stack EXCEPT ![top] = frame]
      BY <1>1, <1>f DEF Become
    <2> QED BY <1>2, <2>1 DEF TypeInv
  <1>17. \A j \in 1 .. top : stack'[j].pkg = stack[j].pkg /\ (j \in 1 .. top - 1 \/ j = top)
    BY <1>h, <1>2, <1>15, <1>16
  <1>18. Grown /\ UNCHANGED server /\ \A p, k : Id(p, k)' = Id(p, k)
    BY <1>1, <1>2, ServerStays DEF server
  <1>19. TypeInv'
    <2>1. IsFiniteSet(DOMAIN parents')
      BY <1>2, <1>8, <1>11, FS_Union DEF TypeInv
    <2>2. \A c \in DOMAIN parents' : parents'[c] \in Seq(Hashes)
      <3> TAKE c \in DOMAIN parents'
      <3>1. CASE c \in DOMAIN parents
        BY <1>2, <1>8, <3>1 DEF TypeInv
      <3>2. CASE c \in ids
        <4>1. PICK at \in 1 .. n : c = here.dirs[at].id
          BY <1>9, <3>2
        <4>2. CASE at = n
          <5>1. <<>> \in Seq(Hashes)
            OBVIOUS
          <5> QED BY <1>7, <4>1, <4>2, <5>1
        <4>3. CASE at # n
          <5>1. at + 1 \in 1 .. n
            BY <1>2, <4>3
          <5>2. here.dirs[at + 1].id \in Hashes
            BY <1>4, <5>1
          <5>3. <<here.dirs[at + 1].id>> \in Seq(Hashes)
            BY <5>2
          <5> QED BY <1>7, <4>1, <4>3, <5>3
        <4> QED BY <4>2, <4>3
      <3> QED BY <1>8, <3>1, <3>2
    <2>3. parents' \in [DOMAIN parents' -> Seq(Hashes)]
      <3>1. parents' = [c \in DOMAIN parents' |-> parents'[c]]
        BY <1>1, <1>8
      <3> QED BY <2>2, <3>1
    <2>4. heads' \in [DOMAIN heads' -> Hashes]
      <3>1. \A p \in DOMAIN heads' : heads'[p] \in Hashes
        BY <1>2, <1>12, <1>13 DEF TypeInv
      <3>2. heads' = [p \in DOMAIN heads' |-> heads'[p]]
        BY <1>1, <1>13
      <3> QED BY <3>1, <3>2
    <2>5. DOMAIN heads' \subseteq Packages
      BY <1>2, <1>13 DEF TypeInv
    <2> QED BY <1>1, <1>2, <1>16, <2>1, <2>3, <2>4, <2>5 DEF TypeInv
  <1>20. NoPackageTwice'
    BY <1>16, <1>17 DEF IInv, NoPackageTwice
  <1>21. StackFits'
    <2>1. \A j \in 1 .. top - 1 : j \in 1 .. top /\ stack[j].pkg # p0
      BY <1>h, <1>2 DEF IInv, NoPackageTwice
    <2>2. \A j \in 1 .. top : /\ stack'[j].pkg \in DOMAIN heads' <=> Cached(stack'[j])
                              /\ ~Cached(stack'[j]) => stack'[j].i = 1
      <3> TAKE j \in 1 .. top
      <3>1. CASE j \in 1 .. top - 1
        BY <1>13, <1>16, <2>1, <3>1 DEF IInv, StackFits
      <3>2. CASE j = top
        BY <1>13, <1>15, <1>16, <3>2
      <3> QED BY <1>17, <3>1, <3>2
    <2>3. \A j \in 1 .. top - 1 : stack'[j].pc \in {"linked", "base"}
      BY <1>16 DEF IInv, StackFits
    <2> QED BY <1>16, <2>2, <2>3 DEF StackFits, Cached
  <1>22. \A p : Kept(p)
    BY <1>8 DEF Kept
  <1>23. WalkFits(frame)'
    <2>1. \A m \in 1 .. n : DirFits(frame, m)' /\ frame.dirs[m].id \in DOMAIN parents'
      <3>1. \A m : DirFits(frame, m)' <=> DirFits(here, m)
        BY <1>1, <1>15, <1>18 DEF DirFits, Revision
      <3> QED BY <1>3, <1>8, <1>10, <1>15, <3>1
    <2>2. Untouched(frame, 1)'
      BY <1>7, <1>15 DEF Untouched
    <2>3. 1 <= n => frame.cur = frame.dirs[1].id
      BY <1>2, <1>12, <1>15
    <2> QED BY <1>1, <1>3, <1>15, <2>1, <2>2, <2>3 DEF WalkFits
  <1>24. ListFits(frame)' /\ AtLink(frame)'
    BY <1>15 DEF ListFits, AtLink
  <1>25. RightSoFar(frame)'
    <2>1. \A p, k : PreviousOf(p, k)' = PreviousOf(p, k)
      BY <1>1, <1>2, ServerStays
    <2>2. ASSUME NEW at \in 1 .. n
          PROVE  parents'[here.dirs[at].id] = PreviousOf(p0, n + 1 - at)'
      <3>1. CASE at = n
        <4>1. n + 1 - at = 1
          BY <1>2, <3>1
        <4>2. PreviousOf(p0, 1) = <<>>
          BY DEF PreviousOf
        <4> QED BY <1>7, <2>1, <3>1, <4>1, <4>2
      <3>2. CASE at # n
        <4>1. /\ at + 1 \in 1 .. n /\ n + 1 - (at + 1) = n - at /\ n + 1 - at # 1
              /\ (n + 1 - at) - 1 = n - at
          <5> HIDE DEF n
          <5> QED BY <1>2, <3>2
        <4>2. here.dirs[at + 1].id = Id(p0, n - at)
          BY <1>4, <4>1
        <4>3. PreviousOf(p0, n + 1 - at) = <<Id(p0, n - at)>>
          BY <4>1 DEF PreviousOf, Id
        <4> QED BY <1>7, <2>1, <3>2, <4>2, <4>3
      <3> QED BY <3>1, <3>2
    <2>3. \A at \in 1 .. n : ~(at < 1)
      BY <1>2
    <2>4. 1 <= n => frame.cur = frame.dirs[1].id
      BY <1>2, <1>12, <1>15
    <2> QED BY <1>15, <2>2, <2>3, <2>4 DEF RightSoFar, Revision
  <1>26. ASSUME NEW j \in 1 .. top
         PROVE  /\ ListFits(stack[j])' /\ WalkFits(stack[j])'
                /\ RightSoFar(stack[j])' /\ AtLink(stack[j])'
    <2>1. CASE j \in 1 .. top - 1
      <3>1. PICK f \in Frames : f = stack[j] /\ f = stack'[j]
        BY <1>2, <1>16, <2>1
      <3>2. ListFits(f) /\ WalkFits(f) /\ RightSoFar(f) /\ AtLink(f)
        BY <3>1 DEF IInv, FramesFit, AllRight
      <3>3. ListFits(f)' /\ WalkFits(f)' /\ RightSoFar(f)' /\ AtLink(f)'
        BY <1>2, <1>18, <1>22, <3>2, ListKeeps, WalkKeeps, RightKeeps, LinkKeeps
      <3> QED BY <3>1, <3>3
    <2>2. CASE j = top
      BY <1>16, <1>23, <1>24, <1>25, <2>2
    <2> QED BY <1>17, <2>1, <2>2
  <1>27. FramesFit'
    BY <1>16, <1>26 DEF FramesFit
  <1>28. CachesFit'
    <2>1. Linked' = Linked
      BY <1>1, <1>2, ServerStays
    <2>2. \A p \in DOMAIN heads' :
            heads'[p] = NoCommit \/ (heads'[p] \in DOMAIN parents' /\ heads'[p].pkg = p)
      <3> TAKE p \in DOMAIN heads'
      <3>1. CASE p = p0
        BY <1>4, <1>8, <1>10, <1>12, <1>13, <3>1
      <3>2. CASE p \in DOMAIN heads
        BY <1>8, <1>13, <3>2 DEF IInv, CachesFit
      <3> QED BY <1>13, <3>1, <3>2
    <2>3. ASSUME NEW c \in DOMAIN parents'
          PROVE  /\ c \in Commits /\ c.pkg \in DOMAIN heads'
                 /\ c.k <= Len(revs[c.pkg]) /\ c = Id(c.pkg, c.k)
                 /\ \A m \in DOMAIN parents'[c] :
                      /\ parents'[c][m] \in DOMAIN parents'
                      /\ \/ parents'[c][m].pkg = c.pkg /\ parents'[c][m].k < c.k
                         \/ <<c.pkg, parents'[c][m].pkg>> \in Linked
      <3>1. CASE c \in DOMAIN parents
        BY <1>8, <1>13, <3>1 DEF IInv, CachesFit, ParentFits
      <3>2. CASE c \in ids
        <4>1. PICK at \in 1 .. n : c = here.dirs[at].id
          BY <1>9, <3>2
        <4>2. /\ c \in Commits /\ c.pkg = p0 /\ c.k = n + 1 - at /\ c = Id(p0, n + 1 - at)
              /\ n + 1 - at \in 1 .. Len(revs[p0])
          BY <1>4, <4>1
        <4>3. /\ c \in Commits /\ c.pkg \in DOMAIN heads'
              /\ c.k <= Len(revs[c.pkg]) /\ c = Id(c.pkg, c.k)
          <5>1. n + 1 - at <= Len(revs[p0])
            BY <4>2
          <5>2. p0 \in DOMAIN heads'
            BY <1>13
          <5> QED BY <4>2, <5>1, <5>2
        <4>4. CASE at = n
          <5>1. parents'[c] = <<>>
            BY <1>7, <4>1, <4>4
          <5>2. \A m \in DOMAIN <<>> : FALSE
            OBVIOUS
          <5>3. \A m \in DOMAIN parents'[c] : FALSE
            BY <5>1, <5>2
          <5> QED BY <4>3, <5>3
        <4>5. CASE at # n
          <5>1. at + 1 \in 1 .. n /\ n + 1 - (at + 1) < n + 1 - at
            <6>1. n \in Nat
              BY <1>2
            <6> HIDE DEF n
            <6> QED BY <6>1, <4>5
          <5>2. /\ here.dirs[at + 1].id \in DOMAIN parents' /\ here.dirs[at + 1].id.pkg = c.pkg
                /\ here.dirs[at + 1].id.k < c.k
            BY <1>4, <1>8, <1>10, <4>2, <5>1
          <5>3. parents'[c] = <<here.dirs[at + 1].id>>
            BY <1>7, <4>1, <4>5
          <5>4. \A m \in DOMAIN parents'[c] : parents'[c][m] = here.dirs[at + 1].id
            BY <5>3
          <5>5. \A m \in DOMAIN parents'[c] :
                  /\ parents'[c][m] \in DOMAIN parents'
                  /\ parents'[c][m].pkg = c.pkg /\ parents'[c][m].k < c.k
            BY <5>2, <5>4
          <5> QED BY <4>3, <5>5
        <4> QED BY <4>4, <4>5
      <3> QED BY <1>8, <3>1, <3>2
    <2>4. revs' = revs /\ \A p, k : Id(p, k)' = Id(p, k)
      BY <1>1, <1>18
    <2> QED BY <2>1, <2>2, <2>3, <2>4 DEF CachesFit, ParentFits
  <1>29. HeadsFit'
    <2> SUFFICES ASSUME commits = 0
                 PROVE  /\ \A p \in DOMAIN heads' :
                             /\ heads'[p] = HeadOnServer(p)
                             /\ \A k \in 1 .. Len(revs[p]) : Id(p, k) \in DOMAIN parents'
                        /\ \A j \in 1 .. top :
                             stack'[j].pc # "list" =>
                               Len(stack'[j].dirs) = Len(revs[stack'[j].pkg])
      <3>1. \A p : HeadOnServer(p)' = HeadOnServer(p)
        BY <1>1, <1>2, ServerStays
      <3> QED BY <1>1, <1>16, <1>18, <3>1 DEF HeadsFit
    <2>1. n = Len(revs[p0])
      BY <1>3
    <2>2. head = HeadOnServer(p0)
      <3>1. CASE n = 0
        <4>1. revs[p0] = <<>>
          <5>1. revs[p0] \in Seq(Links) /\ Len(revs[p0]) = 0
            BY <1>2, <2>1, <3>1 DEF TypeInv
          <5> QED BY <5>1

        <4> QED BY <1>12, <3>1, <4>1 DEF HeadOnServer
      <3>2. CASE n # 0
        <4>1. revs[p0] # <<>>
          BY <2>1, <3>2
        <4>2. head = Id(p0, n)
          <5>1. 1 \in 1 .. n /\ n + 1 - 1 = n
            BY <1>2, <1>12, <3>2
          <5> QED BY <1>4, <1>12, <3>2, <5>1
        <4> QED BY <2>1, <4>1, <4>2 DEF HeadOnServer, Id
      <3> QED BY <3>1, <3>2
    <2>3. \A k \in 1 .. Len(revs[p0]) : Id(p0, k) \in DOMAIN parents'
      <3> TAKE k \in 1 .. Len(revs[p0])
      <3>1. n + 1 - k \in 1 .. n /\ n + 1 - (n + 1 - k) = k
        BY <1>2, <2>1
      <3>2. here.dirs[n + 1 - k].id = Id(p0, k)
        BY <1>4, <3>1
      <3> QED BY <1>8, <1>10, <3>1, <3>2
    <2>4. ASSUME NEW p \in DOMAIN heads'
          PROVE  /\ heads'[p] = HeadOnServer(p)
                 /\ \A k \in 1 .. Len(revs[p]) : Id(p, k) \in DOMAIN parents'
      <3>1. CASE p = p0
        BY <1>13, <2>2, <2>3, <3>1
      <3>2. CASE p \in DOMAIN heads
        BY <1>8, <1>13, <3>2 DEF IInv, HeadsFit
      <3> QED BY <1>13, <3>1, <3>2
    <2>5. ASSUME NEW j \in 1 .. top, stack'[j].pc # "list"
          PROVE  Len(stack'[j].dirs) = Len(revs[stack'[j].pkg])
      <3>1. CASE j = top
        BY <1>15, <1>16, <2>1, <3>1
      <3>2. CASE j \in 1 .. top - 1
        BY <1>16, <2>5, <3>2 DEF IInv, HeadsFit
      <3> QED BY <1>17, <3>1, <3>2
    <2> QED BY <2>4, <2>5
  <1>30. AllRight'
    <2>1. /\ \A p : Still(p)' = Still(p)
          /\ \A p, k : LinkedOf(p, k)' = LinkedOf(p, k) /\ PreviousOf(p, k)' = PreviousOf(p, k)
      BY <1>1, <1>2, ServerStays DEF Still
    <2>2. ASSUME NEW p \in DOMAIN heads', Still(p), \A j \in 1 .. top : stack'[j].pkg # p,
                 NEW k \in 1 .. Len(revs[p])
          PROVE  RightAt(p, k)'
      <3>1. p # p0 /\ \A j \in 1 .. top : stack[j].pkg # p
        <4>1. top \in 1 .. top
          BY <1>2
        <4> QED BY <1>15, <1>16, <1>17, <2>2, <4>1
      <3>2. p \in DOMAIN heads
        BY <1>13, <3>1
      <3>3. RightAt(p, k) /\ Id(p, k) \in DOMAIN parents
        BY <2>2, <3>1, <3>2 DEF IInv, AllRight, HeadsFit, Still
      <3> QED BY <1>8, <1>18, <2>1, <3>3 DEF RightAt
    <2> QED BY <1>1, <1>16, <1>26, <2>1, <2>2 DEF AllRight
  <1> QED BY <1>19, <1>20, <1>21, <1>27, <1>28, <1>29, <1>30 DEF IInv

\* Back to the package that waits: the one that is left is done.
LEMMA ReturnKeeps ==
  ASSUME IInv, Return
  PROVE  IInv'
PROOF
  <1> DEFINE top == Len(stack)
  <1>1. /\ TypeInv /\ Here \in Frames /\ Here = stack[top] /\ top \in Nat /\ top >= 1
        /\ \A j \in 1 .. top : stack[j] \in Frames
        /\ outcome = "running" /\ Here.pc = "walk" /\ Here.i > Len(Here.dirs) /\ Cached(Here)
    BY HereFields DEF IInv, Return, In, Here, Cached
  <1>2. CASE top = 1
    <2>1. /\ revs' = revs /\ commits' = commits /\ stack' = stack /\ heads' = heads
          /\ parents' = parents /\ outcome' = "done"
      BY <1>2 DEF Return, server, caches
    <2>2. UNCHANGED server /\ Grown
      BY <1>1, <2>1, ServerStays DEF server
    <2>3. TypeInv' /\ NoPackageTwice'
      BY <2>1 DEF IInv, TypeInv, NoPackageTwice, Outcomes
    <2>4. StackFits'
      BY <2>1 DEF IInv, StackFits, Cached
    <2>5. ASSUME NEW j \in 1 .. top
          PROVE  /\ ListFits(stack[j])' /\ WalkFits(stack[j])'
                 /\ RightSoFar(stack[j])' /\ AtLink(stack[j])'
      <3>1. PICK f \in Frames : f = stack[j] /\ f = stack'[j]
        BY <1>1, <2>1
      <3>2. ListFits(f) /\ WalkFits(f) /\ RightSoFar(f) /\ AtLink(f) /\ Kept(f.pkg)
        BY <2>1, <3>1 DEF IInv, FramesFit, AllRight, Kept
      <3>3. ListFits(f)' /\ WalkFits(f)' /\ RightSoFar(f)' /\ AtLink(f)'
        BY <1>1, <2>2, <3>2, ListKeeps, WalkKeeps, RightKeeps, LinkKeeps
      <3> QED BY <3>1, <3>3
    <2>6. FramesFit'
      BY <2>1, <2>5 DEF FramesFit
    <2>7. CachesFit' /\ HeadsFit'
      BY <2>1 DEF IInv, CachesFit, ParentFits, HeadsFit, Id, Expands, HeadOnServer, Linked
    <2>8. AllRight'
      <3>1. \A p, k : Still(p)' = Still(p) /\ RightAt(p, k)' = RightAt(p, k)
        BY <1>1, <2>1, ServerStays DEF Still, RightAt
      <3>2. Len(stack) = 1 /\ Cached(stack[1]) /\ stack[1].i > Len(stack[1].dirs)
        BY <1>1, <1>2
      <3> QED BY <2>1, <2>5, <3>1, <3>2 DEF IInv, AllRight, Cached
    <2> QED BY <2>3, <2>4, <2>6, <2>7, <2>8 DEF IInv
  <1>3. CASE top # 1
    <2>1. /\ revs' = revs /\ commits' = commits /\ heads' = heads
          /\ parents' = parents /\ outcome' = outcome
          /\ stack' = SubSeq(stack, 1, top - 1)
      BY <1>3 DEF Return, Quiet, server, caches
    <2>2. UNCHANGED server /\ Grown
      BY <1>1, <2>1, ServerStays DEF server
    <2>3. /\ stack' \in Seq(Frames) /\ stack' # <<>> /\ Len(stack') = top - 1
          /\ \A j \in 1 .. top - 1 : stack'[j] = stack[j] /\ j \in 1 .. top
          /\ top - 1 \in Nat
      <3>1. stack \in Seq(Frames) /\ top - 1 \in Nat /\ top - 1 >= 1
        <4>1. stack \in Seq(Frames)
          BY <1>1 DEF TypeInv
        <4>2. top \in Nat /\ top >= 1 /\ top # 1
          BY <1>1, <1>3
        <4> HIDE DEF top
        <4> QED BY <4>1, <4>2

      <3>2. /\ stack' \in Seq(Frames) /\ Len(stack') = top - 1
            /\ \A j \in 1 .. top - 1 : stack'[j] = stack[j]
        <4> DEFINE n == top - 1
        <4>1. n \in Int /\ 1 \in Int /\ 1 <= n /\ (n - 1) + 1 = n
          BY <3>1
        <4>2. \A j \in 1 .. n : stack[j] \in Frames
          BY <1>1
        <4>3. stack' = SubSeq(stack, 1, n)
          BY <2>1
        <4> HIDE DEF n
        <4>4. /\ SubSeq(stack, 1, n) \in Seq(Frames)
              /\ Len(SubSeq(stack, 1, n)) = IF 1 <= n THEN (n - 1) + 1 ELSE 0
              /\ \A j \in 1 .. (n - 1) + 1 : SubSeq(stack, 1, n)[j] = stack[(1 + j) - 1]
          BY <4>1, <4>2, SubSeqProperties
        <4>5. \A j \in 1 .. n : SubSeq(stack, 1, n)[j] = stack[j]
          <5>1. \A j \in 1 .. n : (1 + j) - 1 = j
            BY <4>1
          <5> QED BY <4>1, <4>4, <5>1
        <4> QED BY <4>1, <4>3, <4>4, <4>5 DEF n

      <3>3. stack' # <<>>
        BY <3>1, <3>2
      <3>4. \A j \in 1 .. top - 1 : j \in 1 .. top
        BY <1>1
      <3> QED BY <3>1, <3>2, <3>3, <3>4
    <2>4. TypeInv'
      BY <1>1, <2>1, <2>3 DEF TypeInv
    <2>5. NoPackageTwice'
      BY <2>3 DEF IInv, NoPackageTwice
    <2>6. StackFits'
      <3>1. \A j \in 1 .. (top - 1) - 1 : j \in 1 .. top - 1 /\ j \in 1 .. top
        BY <1>1
      <3> QED BY <2>1, <2>3, <3>1 DEF IInv, StackFits, Cached
    <2>7. ASSUME NEW j \in 1 .. top - 1
          PROVE  /\ ListFits(stack[j])' /\ WalkFits(stack[j])'
                 /\ RightSoFar(stack[j])' /\ AtLink(stack[j])'
      <3>1. PICK f \in Frames : f = stack[j] /\ f = stack'[j]
        BY <1>1, <2>3
      <3>2. ListFits(f) /\ WalkFits(f) /\ RightSoFar(f) /\ AtLink(f) /\ Kept(f.pkg)
        BY <2>1, <2>3, <3>1 DEF IInv, FramesFit, AllRight, Kept
      <3>3. ListFits(f)' /\ WalkFits(f)' /\ RightSoFar(f)' /\ AtLink(f)'
        BY <1>1, <2>2, <3>2, ListKeeps, WalkKeeps, RightKeeps, LinkKeeps
      <3> QED BY <3>1, <3>3
    <2>8. FramesFit'
      BY <2>3, <2>7 DEF FramesFit
    <2>9. CachesFit'
      BY <2>1 DEF IInv, CachesFit, ParentFits, Id, Expands, Linked
    <2>10. HeadsFit'
      BY <2>1, <2>3 DEF IInv, HeadsFit, Id, Expands, HeadOnServer
    <2>11. AllRight'
      <3>1. \A p, k : Still(p)' = Still(p) /\ RightAt(p, k)' = RightAt(p, k)
        BY <1>1, <2>1, ServerStays DEF Still, RightAt
      <3>2. ASSUME NEW p \in DOMAIN heads, Still(p), \A j \in 1 .. top - 1 : stack[j].pkg # p,
                   NEW k \in 1 .. Len(revs[p])
            PROVE  RightAt(p, k)
        <4>1. CASE p # Here.pkg
          <5>1. \A j \in 1 .. top : j \in 1 .. top - 1 \/ j = top
            BY <1>1
          <5>2. \A j \in 1 .. top : stack[j].pkg # p
            BY <1>1, <3>2, <4>1, <5>1
          <5> QED BY <3>2, <5>2 DEF IInv, AllRight
        <4>2. CASE p = Here.pkg
          <5>1. RightSoFar(Here) /\ Len(Here.dirs) = Len(revs[p])
            BY <1>1, <3>2, <4>2 DEF IInv, AllRight, HeadsFit, Still
          <5>2. Len(Here.dirs) \in Nat /\ Here.i \in Nat
            BY <1>1, FrameFields
          <5>3. /\ Len(Here.dirs) + 1 - k \in 1 .. Len(Here.dirs)
                /\ Len(Here.dirs) + 1 - k < Here.i
                /\ Len(Here.dirs) + 1 - (Len(Here.dirs) + 1 - k) = k
            BY <1>1, <5>1, <5>2
          <5>4. RightAt(Here.pkg, Revision(Here, Len(Here.dirs) + 1 - k))
            BY <1>1, <3>2, <4>2, <5>1, <5>3 DEF RightSoFar
          <5> QED BY <4>2, <5>3, <5>4 DEF Revision
        <4> QED BY <4>1, <4>2
      <3>3. \A p \in DOMAIN heads :
              Still(p) /\ (\A j \in 1 .. top - 1 : stack'[j].pkg # p)
                => \A k \in 1 .. Len(revs[p]) : RightAt(p, k)
        BY <2>3, <3>2
      <3>4. \A j \in 1 .. Len(stack') : RightSoFar(stack[j])' /\ AtLink(stack[j])'
        BY <2>3, <2>7
      <3> QED BY <1>1, <2>1, <2>3, <3>1, <3>3, <3>4 DEF AllRight
    <2> QED BY <2>4, <2>5, <2>6, <2>8, <2>9, <2>10, <2>11 DEF IInv
  <1> QED BY <1>2, <1>3

\* Others add a revision: what was claimed of the older ones stays.
LEMMA CommitKeeps ==
  ASSUME IInv, NEW q \in Packages, Commit(q)
  PROVE  IInv'
PROOF
  <1>1. PICK rev \in NewRevisions : revs' = [revs EXCEPT ![q] = Append(@, rev)]
    BY DEF Commit
  <1>2. /\ commits' = commits + 1 /\ commits < MaxCommits /\ outcome = "running"
        /\ stack' = stack /\ heads' = heads /\ parents' = parents /\ outcome' = outcome
    BY DEF Commit, caches
  <1>3. TypeInv /\ rev \in Links /\ revs \in [Packages -> Seq(Links)] /\ commits \in Nat
    BY <1>1, HistoryAssumption DEF IInv, TypeInv
  <1>4. /\ revs'[q] = Append(revs[q], rev) /\ revs' \in [Packages -> Seq(Links)]
        /\ \A p \in Packages : p # q => revs'[p] = revs[p]
    BY <1>1, <1>3
  <1>5. Grown
    <2> SUFFICES ASSUME NEW p \in Packages
                 PROVE  /\ Len(revs'[p]) \in Nat /\ Len(revs[p]) <= Len(revs'[p])
                        /\ \A k \in 1 .. Len(revs[p]) : revs'[p][k] = revs[p][k]
      BY DEF Grown
    <2>1. revs[p] \in Seq(Links)
      BY <1>3
    <2>2. CASE p = q
      <3>1. revs'[p] = Append(revs[p], rev)
        BY <1>4, <2>2
      <3> QED BY <1>3, <2>1, <3>1
    <2>3. CASE p # q
      BY <1>4, <2>1, <2>3
    <2> QED BY <2>2, <2>3
  <1>6. TypeInv'
    <2>1. commits' \in 0 .. MaxCommits
      BY <1>2, <1>3, HistoryAssumption
    <2> QED BY <1>2, <1>3, <1>4, <2>1 DEF TypeInv
  <1>7. NoPackageTwice' /\ StackFits'
    BY <1>2 DEF IInv, NoPackageTwice, StackFits, Cached
  <1>8. commits' # 0
    BY <1>2, <1>3
  <1>9. ASSUME NEW j \in 1 .. Len(stack)
        PROVE  /\ ListFits(stack[j])' /\ WalkFits(stack[j])'
               /\ RightSoFar(stack[j])' /\ AtLink(stack[j])'
    <2>1. PICK f \in Frames : f = stack[j] /\ f = stack'[j]
      BY <1>2, <1>3, HereFields
    <2>2. ListFits(f) /\ WalkFits(f) /\ AtLink(f) /\ Kept(f.pkg)
      BY <1>2, <2>1 DEF IInv, FramesFit, AllRight, Kept
    <2>3. ListFits(f)' /\ WalkFits(f)' /\ RightSoFar(f)' /\ AtLink(f)'
      BY <1>3, <1>5, <1>8, <2>2, ListKeeps, WalkKeeps, LinkOfOther
    <2> QED BY <2>1, <2>3
  <1>10. FramesFit'
    BY <1>2, <1>9 DEF FramesFit
  <1>11. CachesFit'
    <2>1. Linked \subseteq Linked'
      <3> SUFFICES ASSUME NEW link \in Linked PROVE link \in Linked'
        OBVIOUS
      <3>1. /\ link \in Packages \X Packages /\ link[1] \in Packages
            /\ \E k \in 1 .. Len(revs[link[1]]) : revs[link[1]][k].to = link[2]
        BY DEF Linked
      <3>2. PICK k \in 1 .. Len(revs[link[1]]) : revs[link[1]][k].to = link[2]
        BY <3>1
      <3>3. revs'[link[1]][k].to = link[2] /\ k \in 1 .. Len(revs'[link[1]])
        <4>1. revs'[link[1]][k] = revs[link[1]][k]
          BY <1>5, <3>1 DEF Grown
        <4>2. /\ Len(revs'[link[1]]) \in Nat /\ Len(revs[link[1]]) \in Nat
              /\ Len(revs[link[1]]) <= Len(revs'[link[1]])
          BY <1>3, <1>5, <3>1, RevsFields DEF Grown
        <4> QED BY <3>2, <4>1, <4>2
      <3> QED BY <3>1, <3>3 DEF Linked
    <2>2. ASSUME NEW c \in DOMAIN parents
          PROVE  /\ c \in Commits /\ c.pkg \in DOMAIN heads
                 /\ c.k <= Len(revs'[c.pkg]) /\ c = Id(c.pkg, c.k)'
                 /\ \A n \in DOMAIN parents[c] : ParentFits(c, parents[c][n])
      <3>1. /\ c \in Commits /\ c.pkg \in DOMAIN heads /\ c.k <= Len(revs[c.pkg])
            /\ c = Id(c.pkg, c.k) /\ \A n \in DOMAIN parents[c] : ParentFits(c, parents[c][n])
        BY DEF IInv, CachesFit
      <3>2. c.pkg \in Packages /\ c.k \in Nat \ {0} /\ Len(revs[c.pkg]) \in Nat
        <4>1. c.pkg \in Packages /\ c.k \in Nat \ {0}
          BY <3>1 DEF Commits
        <4> QED BY <1>3, <4>1, RevsFields
      <3>3. c.k \in 1 .. Len(revs[c.pkg])
        BY <3>1, <3>2
      <3>4. Id(c.pkg, c.k)' = Id(c.pkg, c.k)
        BY <1>3, <1>5, <3>2, <3>3, IdStays
      <3>5. c.k <= Len(revs'[c.pkg])
        BY <1>5, <3>1, <3>2 DEF Grown
      <3> QED BY <3>1, <3>4, <3>5
    <2>3. \A p \in DOMAIN heads :
            heads[p] = NoCommit \/ (heads[p] \in DOMAIN parents /\ heads[p].pkg = p)
      BY DEF IInv, CachesFit
    <2> QED BY <1>2, <2>1, <2>2, <2>3 DEF CachesFit, ParentFits
  <1>12. HeadsFit'
    BY <1>8 DEF HeadsFit
  <1>13. AllRight'
    BY <1>2, <1>8, <1>9 DEF AllRight, Still
  <1> QED BY <1>6, <1>7, <1>10, <1>11, <1>12, <1>13 DEF IInv

-----------------------------------------------------------------------------

LEMMA InitHolds == Init => IInv
PROOF
  <1> SUFFICES ASSUME Init PROVE IInv
    OBVIOUS
  <1>1. /\ revs \in [Packages -> Seq(Links)] /\ commits = 0 /\ stack = <<Frame(Top)>>
        /\ heads = [p \in {} |-> NoCommit] /\ parents = [c \in {} |-> <<>>]
        /\ outcome = "running" /\ MaxCommits \in Nat /\ Top \in Packages
    BY HistoryAssumption DEF Init
  <1>2. /\ Frame(Top) \in Frames /\ Frame(Top).pc = "list" /\ Frame(Top).i = 1
    <2>1. {} \in SUBSET (Nat \X BOOLEAN) /\ <<>> \in Seq(Dirs) /\ 1 \in Nat \ {0}
      OBVIOUS
    <2> QED BY <1>1, <2>1, NoCommitIsNone DEF Frame, Frames
  <1>3. PICK f \in Frames : f = Frame(Top)
    BY <1>2
  <1>4. /\ stack \in Seq(Frames) /\ stack # <<>> /\ Len(stack) = 1 /\ stack[1] = f
        /\ f.pc = "list" /\ f.i = 1
    BY <1>1, <1>2, <1>3
  <1>5. DOMAIN heads = {} /\ DOMAIN parents = {}
    BY <1>1
  <1>6. TypeInv
    <2>1. IsFiniteSet(DOMAIN parents)
      BY <1>5, FS_EmptySet
    <2>2. heads \in [{} -> Hashes] /\ parents \in [{} -> Seq(Hashes)]
      BY <1>1
    <2> QED BY <1>1, <1>4, <1>5, <2>1, <2>2 DEF TypeInv, Outcomes
  <1>7. \A j \in 1 .. Len(stack) : j = 1
    BY <1>4
  <1>8. NoPackageTwice /\ StackFits
    <2>1. ~Cached(f)
      BY <1>4 DEF Cached
    <2>2. 1 .. Len(stack) - 1 = {}
      BY <1>4
    <2> QED BY <1>4, <1>5, <1>7, <2>1, <2>2 DEF NoPackageTwice, StackFits
  <1>9. FramesFit
    BY <1>4, <1>7 DEF FramesFit, ListFits, WalkFits, Cached
  <1>10. CachesFit /\ HeadsFit
    BY <1>4, <1>5, <1>7 DEF CachesFit, HeadsFit
  <1>11. AllRight
    BY <1>1, <1>4, <1>5, <1>7 DEF AllRight, RightSoFar, AtLink, Cached
  <1> QED BY <1>6, <1>8, <1>9, <1>10, <1>11 DEF IInv

LEMMA NextHolds == IInv /\ [Next]_vars => IInv'
PROOF
  <1> SUFFICES ASSUME IInv, [Next]_vars PROVE IInv'
    OBVIOUS
  <1>1. CASE FetchHistory
    BY <1>1, FetchHistoryKeeps
  <1>2. CASE \E k \in 1 .. Len(Here.dirs) : FetchDirectory(k)
    <2>1. PICK k \in 1 .. Len(Here.dirs) : FetchDirectory(k)
      BY <1>2
    <2> QED BY <2>1, FetchDirectoryKeeps
  <1>3. CASE Cache
    BY <1>3, CacheKeeps
  <1>4. CASE PassOver
    BY <1>4, PassOverKeeps
  <1>5. CASE FollowLink
    BY <1>5, FollowLinkKeeps
  <1>6. CASE Attach
    BY <1>6, AttachKeeps
  <1>7. CASE AttachBase
    BY <1>7, AttachBaseKeeps
  <1>8. CASE Return
    BY <1>8, ReturnKeeps
  <1>9. CASE \E p \in Packages : Commit(p)
    <2>1. PICK p \in Packages : Commit(p)
      BY <1>9
    <2> QED BY <2>1, CommitKeeps
  <1>10. CASE UNCHANGED vars
    <2>1. /\ revs' = revs /\ commits' = commits /\ stack' = stack /\ heads' = heads
          /\ parents' = parents /\ outcome' = outcome
      BY <1>10 DEF vars, server, caches
    <2> USE DEF IInv
    <2>2. TypeInv' /\ NoPackageTwice' /\ StackFits'
      BY <2>1 DEF TypeInv, NoPackageTwice, StackFits, Cached
    <2>3. CachesFit' /\ HeadsFit'
      BY <2>1 DEF CachesFit, ParentFits, HeadsFit, Id, Expands, HeadOnServer, Linked
    <2>4. UNCHANGED server /\ Grown
      BY <2>1, ServerStays DEF server
    <2>5. ASSUME NEW j \in 1 .. Len(stack)
          PROVE  /\ ListFits(stack[j])' /\ WalkFits(stack[j])'
                 /\ RightSoFar(stack[j])' /\ AtLink(stack[j])'
      <3>1. PICK f \in Frames : f = stack[j] /\ f = stack'[j]
        BY <2>1, HereFields
      <3>2. ListFits(f) /\ WalkFits(f) /\ RightSoFar(f) /\ AtLink(f) /\ Kept(f.pkg)
        BY <2>1, <3>1 DEF FramesFit, AllRight, Kept
      <3>3. ListFits(f)' /\ WalkFits(f)' /\ RightSoFar(f)' /\ AtLink(f)'
        BY <2>4, <3>2, ListKeeps, WalkKeeps, RightKeeps, LinkKeeps
      <3> QED BY <3>1, <3>3
    <2>6. FramesFit'
      BY <2>1, <2>5 DEF FramesFit
    <2>7. \A p, k : Still(p)' = Still(p) /\ RightAt(p, k)' = RightAt(p, k)
      BY <2>1, ServerStays DEF Still, RightAt
    <2>8. AllRight'
      BY <2>1, <2>5, <2>7 DEF AllRight, Cached
    <2> QED BY <2>2, <2>3, <2>6, <2>8
  <1> QED BY <1>1, <1>2, <1>3, <1>4, <1>5, <1>6, <1>7, <1>8, <1>9, <1>10 DEF Next, Step

\* The invariant holds of every history call.
THEOREM Invariance == Spec => []IInv
PROOF
  <1> QED BY InitHolds, NextHolds, PTL DEF Spec

\* The stack, the caches and the outcome stay within their types.
THEOREM TypeCorrect == Spec => []TypeOK
PROOF
  <1>1. IInv => TypeOK
    <2> SUFFICES ASSUME IInv PROVE TypeOK
      OBVIOUS
    <2>1. /\ commits \in 0 .. MaxCommits /\ DOMAIN heads \subseteq Packages
          /\ outcome \in {"running", "done", "rejected", "badEnd", "badChain", "badHead", "badBase"}
      BY DEF IInv, TypeInv, Outcomes
    <2>2. \A p \in DOMAIN heads : heads[p] \in DOMAIN parents \cup {NoCommit}
      BY DEF IInv, CachesFit
    <2>3. /\ DOMAIN parents \subseteq Commits
          /\ \A c \in DOMAIN parents : \A i \in DOMAIN parents[c] : parents[c][i] \in DOMAIN parents
      BY DEF IInv, CachesFit, ParentFits
    <2> QED BY <2>1, <2>2, <2>3 DEF TypeOK
  <1> QED BY <1>1, Invariance, PTL

\* Packages that link to each other in a circle, of any length, are each on the stack
\* at most once.
THEOREM PackagesAreFetchedOnce == Spec => []NoPackageTwice
PROOF
  <1>1. IInv => NoPackageTwice
    BY DEF IInv
  <1> QED BY <1>1, Invariance, PTL

\* The assertions of the loop on the chain of commits never fail.
THEOREM ChainsHold == Spec => []ChainIsWalked
PROOF
  <1>1. IInv => ChainIsWalked
    BY DEF IInv, TypeInv, Outcomes, ChainIsWalked
  <1> QED BY <1>1, Invariance, PTL

\* A call that ends well, with nobody committing meanwhile, has given every commit of
\* every package on the way the parents that the rules ask for.
THEOREM RulesAreFollowed == Spec => []HistoryIsRight
PROOF
  <1>1. IInv => HistoryIsRight
    <2> SUFFICES ASSUME IInv, outcome = "done", commits = 0,
                        \A p \in DOMAIN heads : ~StoppedLinking(p),
                        NEW p \in DOMAIN heads, NEW k \in 1 .. Len(revs[p])
                 PROVE  RightAt(p, k)
      BY DEF HistoryIsRight, RightAt, Id
    <2>1. /\ Still(p) /\ Len(stack) = 1 /\ Cached(stack[1]) /\ stack[1].i > Len(stack[1].dirs)
          /\ stack[1] \in Frames /\ RightSoFar(stack[1])
      <3>1. Len(stack) = 1 /\ Cached(stack[1]) /\ stack[1].i > Len(stack[1].dirs)
        BY DEF IInv, AllRight
      <3>2. 1 \in 1 .. Len(stack)
        BY <3>1
      <3> QED BY <3>1, <3>2, HereFields DEF IInv, AllRight, Still
    <2>2. CASE p # stack[1].pkg
      <3>1. \A j \in 1 .. Len(stack) : stack[j].pkg # p
        BY <2>1, <2>2
      <3> QED BY <2>1, <3>1 DEF IInv, AllRight
    <2>3. CASE p = stack[1].pkg
      <3> DEFINE f == stack[1]
                 n == Len(f.dirs)
      <3>1. n = Len(revs[p]) /\ n \in Nat /\ f.i \in Nat /\ f.i > n
        <4>1. 1 \in 1 .. Len(stack) /\ f.pc # "list"
          BY <2>1 DEF Cached
        <4>2. n = Len(revs[p])
          BY <2>3, <4>1 DEF IInv, HeadsFit
        <4> QED BY <2>1, <4>2, FrameFields
      <3>2. \A at \in 1 .. n : at < f.i => RightAt(p, Revision(f, at))
        BY <2>1, <2>3 DEF RightSoFar
      <3>3. n + 1 - k \in 1 .. n /\ n + 1 - k < f.i /\ n + 1 - (n + 1 - k) = k
        <4> HIDE DEF n, f
        <4> QED BY <3>1
      <3> QED BY <3>2, <3>3 DEF Revision
    <2> QED BY <2>2, <2>3
  <1> QED BY <1>1, Invariance, PTL

-----------------------------------------------------------------------------
(* Ancestors.                                                              *)

\* Some commit of any set of commits has no parent in it: one of a package that links
\* to none of the others, and there the oldest.
LEMMA OldestCommit ==
  ASSUME IInv, ~Circular, NEW T \in SUBSET DOMAIN parents, T # {}
  PROVE  \E c \in T : ParentsOf({c}) \cap T = {}
PROOF
  <1> DEFINE pkgs == {c.pkg : c \in T}
  <1>1. \A c \in T : c \in Commits /\ c.pkg \in Packages /\ c.k \in Nat
    BY DEF IInv, CachesFit, Commits
  <1>2. pkgs \in SUBSET Packages /\ pkgs # {} /\ \A c \in T : c.pkg \in pkgs
    BY <1>1
  <1>3. PICK p \in pkgs : \A q \in pkgs : <<p, q>> \notin Linked
    BY <1>2 DEF Circular
  <1> DEFINE ks == {c.k : c \in {d \in T : d.pkg = p}}
  <1>4. ks \subseteq Nat /\ ks # {}
    BY <1>1, <1>3
  <1>5. PICK k \in ks : \A m \in ks : k <= m
    <2> HIDE DEF ks
    <2> QED BY <1>4, LeastNumber
  <1>6. PICK c \in T : c.pkg = p /\ c.k = k
    BY <1>5
  <1>7. ASSUME NEW d \in ParentsOf({c}), d \in T PROVE FALSE
    <2>1. PICK i \in DOMAIN parents[c] : d = parents[c][i]
      BY <1>7 DEF ParentsOf
    <2>2. (d.pkg = c.pkg /\ d.k < c.k) \/ <<c.pkg, d.pkg>> \in Linked
      BY <2>1 DEF IInv, CachesFit, ParentFits
    <2>3. CASE d.pkg = c.pkg /\ d.k < c.k
      <3>1. d.k \in ks /\ d.k \in Nat /\ k \in Nat
        BY <1>1, <1>4, <1>6, <1>7, <2>3
      <3>2. k <= d.k /\ d.k < k
        BY <1>5, <1>6, <2>3, <3>1
      <3> QED BY <3>1, <3>2
    <2>4. CASE <<c.pkg, d.pkg>> \in Linked
      BY <1>2, <1>3, <1>6, <1>7, <2>4
    <2> QED BY <2>2, <2>3, <2>4
  <1> QED BY <1>7

\* ParentsOf of sets of commits.
LEMMA ParentsOfSets ==
  ASSUME IInv
  PROVE  /\ \A S \in SUBSET DOMAIN parents : ParentsOf(S) \in SUBSET DOMAIN parents
         /\ \A S : \A d : d \in ParentsOf(S) <=> \E c \in S : d \in ParentsOf({c})
PROOF
  <1>1. ASSUME NEW S \in SUBSET DOMAIN parents, NEW d \in ParentsOf(S) PROVE d \in DOMAIN parents
    <2>1. PICK c \in S : \E i \in DOMAIN parents[c] : d = parents[c][i]
      BY DEF ParentsOf
    <2> QED BY <2>1 DEF IInv, CachesFit, ParentFits
  <1>2. ASSUME NEW S, NEW d PROVE d \in ParentsOf(S) <=> \E c \in S : d \in ParentsOf({c})
    BY DEF ParentsOf
  <1> QED BY <1>1, <1>2

\* A step that is repeated from some start on, as a function of how often.
Repeats(f, base, next) == f[0] = base /\ \A n \in Nat : f[n + 1] = next[f[n]]

LEMMA Repeated ==
  \A S : \A base \in S : \A next \in [S -> S] : \E f \in [Nat -> S] : Repeats(f, base, next)
BY RecursiveFunction DEF Repeats

\* The ancestors are in every set that has the parents of the commit and of its members.
LEMMA AncestorsWithin ==
  ASSUME IInv, NEW c \in DOMAIN parents, NEW M \in SUBSET DOMAIN parents,
         ParentsOf({c}) \subseteq M, ParentsOf(M) \subseteq M
  PROVE  Ancestors(c) \subseteq M
PROOF
  <1> DEFINE n == Cardinality(DOMAIN parents)
             first == ParentsOf({c})
             Law(u) == u = [m \in 0 .. n |-> IF m = 0 THEN first
                                             ELSE u[m - 1] \cup ParentsOf(u[m - 1])]
             up == CHOOSE u : Law(u)
             Sets == SUBSET DOMAIN parents
             next == [S \in Sets |-> S \cup ParentsOf(S)]
  <1>1. n \in Nat
    BY FS_CardinalityType DEF IInv, TypeInv
  <1>2. Ancestors(c) = up[n]
    BY DEF Ancestors
  <1>3. first \in Sets /\ next \in [Sets -> Sets]
    BY ParentsOfSets
  <1>4. \A S \in Sets : next[S] = S \cup ParentsOf(S)
    OBVIOUS
  <1> HIDE DEF n, first, Sets, next
  <1>5. PICK f \in [Nat -> Sets] : Repeats(f, first, next)
    BY <1>3, Repeated
  <1> DEFINE g == [m \in 0 .. n |-> f[m]]
  <1>6. Law(g)
    <2>1. ASSUME NEW m \in 0 .. n
          PROVE  f[m] = IF m = 0 THEN first ELSE g[m - 1] \cup ParentsOf(g[m - 1])
      <3>1. CASE m = 0
        BY <1>5, <3>1 DEF Repeats
      <3>2. CASE m # 0
        <4>1. m - 1 \in Nat /\ m - 1 \in 0 .. n /\ (m - 1) + 1 = m
          BY <1>1, <3>2
        <4>2. f[m] = next[f[m - 1]] /\ f[m - 1] \in Sets
          BY <1>5, <4>1 DEF Repeats
        <4>3. g[m - 1] = f[m - 1]
          BY <4>1
        <4> QED BY <1>4, <3>2, <4>2, <4>3
      <3> QED BY <3>1, <3>2
    <2> QED BY <2>1
  <1> HIDE DEF Law, g
  <1>7. Law(up)
    BY <1>6
  <1> HIDE DEF up
  <1>8. /\ up[0] = first
        /\ \A m \in 1 .. n : up[m] = up[m - 1] \cup ParentsOf(up[m - 1])
    <2>1. up = [m \in 0 .. n |-> IF m = 0 THEN first
                                 ELSE up[m - 1] \cup ParentsOf(up[m - 1])]
      BY <1>7 DEF Law
    <2>2. 0 \in 0 .. n /\ \A m \in 1 .. n : m \in 0 .. n /\ m # 0
      BY <1>1
    <2> QED BY <2>1, <2>2
  <1> DEFINE Within == {m \in Nat : m <= n => up[m] \subseteq M}
  <1>9. 0 \in Within
    BY <1>8 DEF first
  <1>10. ASSUME NEW m \in Nat, m \in Within PROVE m + 1 \in Within
    <2> SUFFICES ASSUME m + 1 <= n PROVE up[m + 1] \subseteq M
      OBVIOUS
    <2>1. m <= n /\ m + 1 \in 1 .. n /\ (m + 1) - 1 = m
      BY <1>1
    <2>2. up[m] \subseteq M /\ up[m + 1] = up[m] \cup ParentsOf(up[m])
      BY <1>8, <1>10, <2>1
    <2>3. ParentsOf(up[m]) \subseteq ParentsOf(M)
      BY <2>2, ParentsOfSets
    <2> QED BY <2>2, <2>3
  <1> HIDE DEF Within
  <1>11. n \in Within
    BY <1>1, <1>9, <1>10, AllNumbers
  <1> QED BY <1>1, <1>2, <1>11 DEF Within

\* The history of packages that do not link in a circle has no circle, however the
\* steps of the packages and the commits of others are interleaved.
THEOREM HistoryHasNoCircle == Spec => []NoCommitIsItsAncestor
PROOF
  <1>1. IInv => NoCommitIsItsAncestor
    <2> SUFFICES ASSUME IInv, ~Circular, NEW c \in DOMAIN parents PROVE c \notin Ancestors(c)
      BY DEF NoCommitIsItsAncestor
    <2> DEFINE Apart == {S \in SUBSET DOMAIN parents : ParentsOf(S) \subseteq S /\ c \notin S}
               M == UNION Apart
               T == {d \in DOMAIN parents : ~(ParentsOf({d}) \subseteq M)}
    <2>1. M \in SUBSET DOMAIN parents /\ c \notin M
      OBVIOUS
    <2>2. ParentsOf(M) \subseteq M
      <3> SUFFICES ASSUME NEW d \in ParentsOf(M) PROVE d \in M
        OBVIOUS
      <3>1. PICK e \in M : d \in ParentsOf({e})
        <4> HIDE DEF M
        <4> QED BY ParentsOfSets
      <3>2. PICK S \in Apart : e \in S

        BY <3>1
      <3>3. d \in ParentsOf(S)
        BY <3>1, <3>2, ParentsOfSets
      <3> QED BY <3>2, <3>3
    <2>3. \A S \in Apart : S \subseteq M
      OBVIOUS
    <2>4. \A S : S \in Apart <=> S \in SUBSET DOMAIN parents /\ ParentsOf(S) \subseteq S /\ c \notin S
      OBVIOUS
    <2> HIDE DEF M, Apart
    <2>5. CASE c \notin T
      <3>1. ParentsOf({c}) \subseteq M
        BY <2>5
      <3>2. Ancestors(c) \subseteq M
        BY <2>1, <2>2, <3>1, AncestorsWithin
      <3> QED BY <2>1, <3>2
    <2>6. CASE c \in T
      <3>1. T \in SUBSET DOMAIN parents /\ T # {}
        BY <2>6
      <3>2. \A d \in DOMAIN parents : d \in T <=> ~(ParentsOf({d}) \subseteq M)
        OBVIOUS
      <3> HIDE DEF T
      <3>3. PICK d \in T : ParentsOf({d}) \cap T = {}
        BY <3>1, OldestCommit
      <3> DEFINE more == M \cup ParentsOf({d})
      <3>4. ParentsOf({d}) \in SUBSET DOMAIN parents
        <4>1. {d} \in SUBSET DOMAIN parents
          BY <3>1
        <4> QED BY <4>1, ParentsOfSets
      <3>5. ParentsOf(more) \subseteq more
        <4> SUFFICES ASSUME NEW e \in ParentsOf(more) PROVE e \in more
          OBVIOUS
        <4>1. PICK x \in more : e \in ParentsOf({x})
          BY ParentsOfSets
        <4>2. CASE x \in M
          <5>1. e \in ParentsOf(M)
            BY <4>1, <4>2, ParentsOfSets
          <5> QED BY <2>2, <5>1
        <4>3. CASE x \in ParentsOf({d})
          <5>1. x \in DOMAIN parents /\ x \notin T
            BY <3>3, <3>4, <4>3
          <5> QED BY <3>2, <4>1, <5>1
        <4> QED BY <4>1, <4>2, <4>3
      <3>6. c \notin more
        BY <2>1, <2>6, <3>3
      <3>7. more \in Apart
        BY <2>1, <2>4, <3>4, <3>5, <3>6
      <3>8. ParentsOf({d}) \subseteq M
        BY <2>3, <3>7
      <3> QED BY <3>1, <3>2, <3>3, <3>8
    <2> QED BY <2>5, <2>6
  <1> QED BY <1>1, Invariance, PTL

=============================================================================

---------------------------- MODULE MCConversions ----------------------------
(***************************************************************************)
(* One call of each conversion, on bounded inputs: what a caller asks for  *)
(* or what the server sends.  The conversions have no state; `call` is the *)
(* question, and each property is about the questions of its kind.         *)
(***************************************************************************)
EXTENDS Conversions, Paths, FiniteSetsExt

UpToOf(n, s) == UNION {kSubset(k, s) : k \in 0 .. n}

\* Objects with all the required and up to n of the optional members.
RECURSIVE Variants(_, _)
Variants(optional, names) ==
  IF names = {} THEN {Empty}
  ELSE LET m == CHOOSE m \in names : TRUE IN
       {(m :> v) @@ rest : v \in optional[m], rest \in Variants(optional, names \ {m})}
ObjectsOf(required, optional, n) ==
  UNION {{required @@ o : o \in Variants(optional, names)} :
           names \in UpToOf(n, DOMAIN optional)}

-----------------------------------------------------------------------------
(* Flags: two elements per list; package over project, one per list.       *)

Counted(elements) ==
  [s \in Switches |-> Cardinality({i \in DOMAIN elements : elements[i] = s})]
ListsUpTo(n) == {Counted(elements) : elements \in UNION {[1 .. k -> Switches] : k \in 0 .. n}}
FlagsOf(n) == {FlagApi(on, off) : on, off \in ListsUpTo(n)}

\* A setting per architecture has different values.
Distinct(setting) == setting.all \/ ~Simplify(setting.values).all
DistinctSettings == [Repositories -> {s \in Settings : Distinct(s)}]

-----------------------------------------------------------------------------
(* Metas: two optional members at a time.                                  *)

SomeFlags == {FlagApi(Counted(<<Bare>>), NoSwitches),
              FlagApi(Counted(<<Switch("r1", "any"), Switch("r1", "any")>>), Counted(<<Bare>>))}
Pairs(a, b) == {<<a>>, <<a, b>>}
SomeDownloads ==
  ObjectsOf([arch |-> "x86_64", url |-> "u", repotype |-> "rpmmd"],
            [pubkey |-> {"k"}, archfilter |-> {Joined(<<"i586">>), Joined(<<"i586", "noarch">>)},
             master |-> {[url |-> "m", sslfingerprint |-> "f"]}], 3)
SomeTargets == ObjectsOf([project |-> "p", repository |-> "r1"],
                         [trigger |-> {NoRelease, "manual"}], 1)
RepositoriesOfMeta ==
  ObjectsOf([name |-> "r1"],
            [block |-> {"local"}, linkedbuild |-> {"all"}, rebuild |-> {"direct"},
             arch |-> Pairs("x86_64", "i586"),
             path |-> Pairs([project |-> "p", repository |-> "r1"],
                            [project |-> "q", repository |-> "r2"]),
             releasetarget |-> {<<t>> : t \in SomeTargets},
             download |-> {<<d>> : d \in SomeDownloads}], 2)

SomeMembers ==
  [url |-> {"u"}, build |-> SomeFlags, debuginfo |-> SomeFlags, publish |-> SomeFlags,
   useforbuild |-> SomeFlags, lock |-> SimpleFlags, sourceaccess |-> SimpleFlags,
   person |-> Pairs([userid |-> "me", role |-> "maintainer"], [userid |-> "you", role |-> "reader"]),
   group |-> Pairs([groupid |-> "us", role |-> "maintainer"], [groupid |-> "all", role |-> "reader"])]

SomeProjectMetas ==
  ObjectsOf([name |-> "p", title |-> "", description |-> ""],
            SomeMembers @@
            [access |-> SimpleFlags, kind |-> {"maintenance"}, mountproject |-> {"q"},
             link |-> {<<[project |-> "q"]>>, <<[project |-> "q", vrevmode |-> "extend"]>>},
             repository |-> {<<r>> : r \in RepositoriesOfMeta}], 2)

SomePackageMetas ==
  ObjectsOf([title |-> "", description |-> ""],
            SomeMembers @@
            [name |-> {"a"}, project |-> {"p"},
             devel |-> {[project |-> "q"], [project |-> "q", package |-> "b"]}], 3)

-----------------------------------------------------------------------------
(* Requests, reviews and branches: three or more optional members.         *)

SomeActions ==
  ObjectsOf([type |-> "submit"],
    [source |-> ObjectsOf([project |-> "p", package |-> "a"], [rev |-> {"1"}], 1)
                \cup {[project |-> "p"]},
     target |-> ObjectsOf([project |-> "p"],
                  [package |-> {"a"}, releaseproject |-> {"q"}, repository |-> {"r1"}], 3),
     person |-> ObjectsOf([name |-> "me"], [role |-> {"reader"}], 1),
     group |-> ObjectsOf([name |-> "us"], [role |-> {"reader"}], 1),
     options |-> ObjectsOf("sourceupdate" :> "cleanup",
                           [makeoriginolder |-> {"true", "false"}], 1),
     acceptinfo |-> ObjectsOf([rev |-> "2", srcmd5 |-> "new", osrcmd5 |-> "old"],
                      [oproject |-> {"p"}, opackage |-> {"a"}, xsrcmd5 |-> {"xnew"},
                       oxsrcmd5 |-> {"xold"}], 2)], 3)

SomeReviewers ==
  {Empty, "by_user" :> "me", "by_group" :> "us", "by_project" :> "p",
   [by_project |-> "p", by_package |-> "a"]}
Local == [zone |-> "none", shown |-> 12]
Utc == [zone |-> "UTC", shown |-> 12]
SomeReviews ==
  ObjectsOf([state |-> "new"],
    [who |-> {"you"}, when |-> {Local, Utc}, comment |-> {"no"},
     history |-> Pairs([who |-> "you", when |-> Local, description |-> "d"],
                       [who |-> "me", when |-> Utc, description |-> "d",
                        comment |-> "c"])], 4)

\* Users, projects, packages and the API all have one of these names.
Names == {"a", "b"}
ProjectNames == {<<"a">>, <<"home", "a">>}
SomeBranchOptions ==
  ObjectsOf(Empty, [targetProject |-> ProjectNames, targetPackage |-> Names], 2)

-----------------------------------------------------------------------------
(* Builds and paths                                                        *)

SomeBuildOptions ==
  ObjectsOf(Empty,
    [noStream |-> BOOLEAN, fetchFinishedLog |-> {"last", "lastsucceeded"},
     streamCallback |-> {"cb"}, streamTimeoutMs |-> {1}], 4)

\* Three projects with one repository each; one more project and one more
\* repository are named but are not there.
Projects == {"p", "q", "s"}
NamedPaths == {<<n, "r1">> : n \in Projects} \cup {<<"p", "gone">>, <<"gone", "r1">>}
PathLists == {<<>>} \cup {<<a>> : a \in NamedPaths} \cup {<<a, b>> : a, b \in NamedPaths}

AskPaths ==
  \E lists \in [Projects -> PathLists] :
    call' = [kind |-> "paths", metas |-> [n \in Projects |-> "r1" :> lists[n]]]

MCNext ==
  /\ call = None
  /\ \/ AskFlag(FlagsOf(2)) \/ AskSettings(DistinctSettings) \/ AskMerge(FlagsOf(1))
     \/ AskProjectMeta(SomeProjectMetas) \/ AskPackageMeta("p", "a", SomePackageMetas)
     \/ AskAction(SomeActions) \/ AskReview(SomeReviewers, SomeReviews)
     \/ AskTarget(Names, {0, 1}) \/ AskBranch(Names, ProjectNames, SomeBranchOptions)
     \/ AskBuild(Names, {NotGiven, Text("m")}, SomeBuildOptions) \/ AskPaths
MCSpec == Init /\ [][MCNext]_call

-----------------------------------------------------------------------------

\* The paths of a repository are expanded over the last path of each, as the
\* comment of fetchProjectsPathsRecursively() has it, and only a circle is endless.
PathsAreExpanded ==
  Asks("paths") => ExpandsPaths(call.metas, <<"p", "r1">>, Cardinality(Projects))
=============================================================================

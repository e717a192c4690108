----------------------------- MODULE Conversions ------------------------------
(***************************************************************************)
(* One call of a conversion: what the server sends, or what a caller asks  *)
(* for.  The conversions have no state; `call` is the question, and each   *)
(* property is about the questions of its kind.  A question takes what can *)
(* be asked as a parameter: Next asks everything, a model a part of it.    *)
(***************************************************************************)
EXTENDS Metas, Requests, BuildResults

VARIABLE call

None == [kind |-> "none"]
Asks(kind) == call.kind = kind

\* The objects with the given members, each with one of its values; those that
\* are not required may be left out.
Objects(members, required) ==
  UNION {{obj \in [names -> UNION {members[m] : m \in names}] :
            \A m \in names : obj[m] \in members[m]} :
           names \in {n \in SUBSET DOMAIN members : required \subseteq n}}

\* A list of elements in a reply: an empty one is not there.
ListsOf(S) == Seq(S) \ {<<>>}

-----------------------------------------------------------------------------
(* Flags                                                                   *)

\* What a list can hold, and a setting per repository be.
FlagApis == {FlagApi(enable, disable) : enable, disable \in Lists}
Settings == {One(v) : v \in Values} \cup {PerArch(s) : s \in [Architectures -> Values]}
SettingsOfSome == UNION {[names -> Settings] : names \in SUBSET Repositories}

AskFlag(apis) ==
  \E api \in apis :
    call' = [kind |-> "flag", api |-> api]

AskSettings(all) ==
  \E settings \in all, default \in Values :
    call' = [kind |-> "settings", settings |-> settings, default |-> default]

AskMerge(apis) ==
  \E proj, pkg \in apis, default \in Given :
    /\ ~Contradictory(proj) /\ ~Contradictory(pkg)
    /\ call' = [kind |-> "merge", proj |-> proj, pkg |-> pkg, default |-> default]

-----------------------------------------------------------------------------
(* Metas                                                                   *)

SimpleFlags == {"enable", "disable"}
\* A flag says its default at most once.
ClearFlags ==
  {api \in FlagApis :
     ~Contradictory(api) /\ api.enable[Bare] < 2 /\ api.disable[Bare] < 2}

CommonMembers ==
  [title |-> STRING, description |-> STRING, url |-> STRING,
   build |-> ClearFlags, debuginfo |-> ClearFlags, publish |-> ClearFlags,
   useforbuild |-> ClearFlags, lock |-> SimpleFlags, sourceaccess |-> SimpleFlags,
   person |-> ListsOf([userid : STRING, role : STRING]),
   group |-> ListsOf([groupid : STRING, role : STRING])]

Links == Objects([project |-> STRING, vrevmode |-> STRING], {"project"})
Targets == Objects([project |-> STRING, repository |-> STRING, trigger |-> STRING],
                   {"project", "repository"})
Downloads ==
  Objects([arch |-> STRING, url |-> STRING, repotype |-> STRING, pubkey |-> STRING,
           archfilter |-> {Joined(names) : names \in ListsOf(STRING)},
           master |-> [url : STRING, sslfingerprint : STRING]],
          {"arch", "url", "repotype"})
BaseRepositories ==
  Objects([name |-> STRING, block |-> STRING, linkedbuild |-> STRING, rebuild |-> STRING,
           arch |-> ListsOf(STRING),
           path |-> ListsOf([project : STRING, repository : STRING]),
           releasetarget |-> ListsOf(Targets), download |-> ListsOf(Downloads)],
          {"name"})

ProjectMetas ==
  Objects(CommonMembers @@
          [name |-> STRING, kind |-> STRING, mountproject |-> STRING,
           access |-> SimpleFlags, link |-> ListsOf(Links),
           repository |-> ListsOf(BaseRepositories)],
          {"name", "title", "description"})
PackageMetas(project, package) ==
  Objects(CommonMembers @@
          [name |-> {package}, project |-> {project},
           devel |-> Objects([project |-> STRING, package |-> STRING], {"project"})],
          {"title", "description"})

AskProjectMeta(apis) ==
  \E api \in apis :
    call' = [kind |-> "project meta", api |-> api]

AskPackageMeta(project, package, apis) ==
  \E api \in apis :
    call' = [kind |-> "package meta", project |-> project, package |-> package, api |-> api]

-----------------------------------------------------------------------------
(* Requests, reviews and branches                                          *)

\* Only a package has a revision.
Sources == {s \in Objects([project |-> STRING, package |-> STRING, rev |-> STRING],
                          {"project"}) :
              "rev" \in DOMAIN s => "package" \in DOMAIN s}
Actions ==
  Objects([type |-> STRING,
           source |-> Sources,
           target |-> Objects([project |-> STRING, package |-> STRING,
                               releaseproject |-> STRING, repository |-> STRING], {"project"}),
           person |-> Objects([name |-> STRING, role |-> STRING], {"name"}),
           group |-> Objects([name |-> STRING, role |-> STRING], {"name"}),
           options |-> Objects([sourceupdate |-> STRING,
                                makeoriginolder |-> {"true", "false"}], {}) \ {Empty},
           acceptinfo |->
             Objects([rev |-> STRING, srcmd5 |-> STRING, osrcmd5 |-> STRING,
                      oproject |-> STRING, opackage |-> STRING,
                      xsrcmd5 |-> STRING, oxsrcmd5 |-> STRING],
                     {"rev", "srcmd5", "osrcmd5"})],
          {"type"})

AskAction(apis) ==
  \E api \in apis :
    call' = [kind |-> "action", api |-> api]

Times == [zone : {"none", "UTC"}, shown : Int]

\* One of a user, a group, a project and a package is asked for a review, or none.
Reviewers ==
  {"by_user" :> name : name \in STRING} \cup {"by_group" :> name : name \in STRING}
  \cup {"by_project" :> name : name \in STRING}
  \cup [by_project : STRING, by_package : STRING] \cup {Empty}
Reviews ==
  Objects([state |-> STRING, who |-> STRING, when |-> Times, comment |-> STRING,
           history |-> ListsOf(Objects([who |-> STRING, when |-> Times,
                                        description |-> STRING, comment |-> STRING],
                                       {"who", "when", "description"}))],
          {"state"})

AskReview(reviewers, reviews) ==
  \E by \in reviewers, review \in reviews :
    call' = [kind |-> "review", api |-> by @@ review]

\* A project or a package as a target of a request, and the object with the API
\* that stands for it as well.
NamedProjects(names) == {"projectName" :> name : name \in names}
NamedPackages(names) == [projectName : names, packageName : names]
WithApi(named, url) ==
  IF "packageName" \in DOMAIN named
  THEN [apiUrl |-> url, name |-> named.packageName, projectName |-> named.projectName]
  ELSE [apiUrl |-> url, name |-> named.projectName]
Standing(named, url) == {named, WithApi(named, url)}

\* A request of the user with the id that the server gives; of another one it is
\* not.
AskTarget(names, ids) ==
  \E from \in NamedPackages(names), to \in NamedProjects(names) \cup NamedPackages(names),
     url, user, other \in names, id \in ids :
    \E source \in Standing(from, url), target \in Standing(to, url) :
      /\ user # other
      /\ call' = [kind |-> "target", from |-> from, source |-> source, to |-> to,
                  target |-> target, user |-> user, other |-> other, id |-> id]

\* The name of a project is a list of texts with colons between them.
BranchOptions(names, projects) ==
  Objects([targetProject |-> projects, targetPackage |-> names], {})

AskBranch(names, projects, options) ==
  \E url, user, package, otherPackage \in names, project, otherProject \in projects :
    \E given \in options :
      call' = [kind |-> "branch", user |-> user, options |-> given,
               pkg |-> [apiUrl |-> url, name |-> package, projectName |-> project],
               others |-> [targetproject |-> otherProject, targetpackage |-> otherPackage]]

-----------------------------------------------------------------------------
(* Builds                                                                  *)

BuildOptions ==
  Objects([noStream |-> BOOLEAN, fetchFinishedLog |-> {"last", "lastsucceeded"},
           streamCallback |-> STRING, streamTimeoutMs |-> Nat], {})

AskBuild(names, multibuilds, options) ==
  \E project, package, arch, repository \in names, multibuild \in multibuilds,
     given \in options :
    call' = [kind |-> "build", project |-> Text(project), package |-> Text(package),
             arch |-> Text(arch), repository |-> Text(repository),
             multibuild |-> multibuild, options |-> given]

-----------------------------------------------------------------------------

Init == call = None
Next ==
  /\ call = None
  /\ \/ AskFlag(FlagApis) \/ AskSettings(SettingsOfSome) \/ AskMerge(FlagApis)
     \/ AskProjectMeta(ProjectMetas)
     \/ \E project, package \in STRING :
          AskPackageMeta(project, package, PackageMetas(project, package))
     \/ AskAction(Actions) \/ AskReview(Reviewers, Reviews)
     \/ AskTarget(STRING, Nat)
     \/ AskBranch(STRING, Seq(STRING), BranchOptions(STRING, Seq(STRING)))
     \/ AskBuild(STRING, {NotGiven} \cup {Text(name) : name \in STRING}, BuildOptions)
Spec == Init /\ [][Next]_call

-----------------------------------------------------------------------------

\* A flag that the server sends survives being read and sent back with all of its
\* elements, in any order, unless it is enabled and disabled by default, which is
\* an error; and what a caller sets for repositories and architectures is what is
\* read after it was made into a flag, sent and received: what equals the default
\* may be left out, nothing else (flagFromApi, flagToApi,
\* repositorySettingToFlag, repositorySettingFromFlag).
FlagsSurvive ==
  /\ Asks("flag") => FlagSurvives(call.api)
  /\ Asks("settings") => SettingsSurvive(call.settings, call.default)

\* The setting of a repository follows the flag's elements by their precedence,
\* however many there are and however often each, but an element without an arch
\* is passed over if its list has another one for the repository: there the code
\* does not do what its comment says, "no arch field? => take this as the new
\* "global" default" (repositorySettingFromFlag).
SettingFollowsRules ==
  Asks("flag") /\ ~Contradictory(call.api) =>
    \A r \in Repositories, default \in Values :
      FollowsRule(r, FlagFromApi(call.api), default)

\* What a package's meta says of an architecture goes before its project's, also
\* where only one of them tells architectures apart (mergeFlags).
PackageOverridesProject ==
  Asks("merge") =>
    \A r \in Repositories :
      PackageGoesFirst(r, FlagFromApi(call.proj), FlagFromApi(call.pkg), call.default)

\* Fetching a meta, changing one thing and setting it loses nothing else: all of
\* the rest is written as it was read (fetchProjectMeta, modifyProjectMeta,
\* fetchPackageMeta, setPackageMeta).
MetasSurvive ==
  /\ Asks("project meta") => ProjectMetaSurvives(call.api)
  /\ Asks("package meta") => PackageMetaSurvives(call.project, call.package, call.api)

\* The same for the actions and reviews of requests, except that times without a
\* zone are taken as local and written as UTC: the text is another one, and so is
\* the time for a server whose clock is not the program's, but to the program it is
\* the same (requestActionFromApi, requestActionToApi, requestReviewFromApi,
\* requestReviewToApi, requestHistoryFromApi, requestHistoryToApi).
RequestsSurvive ==
  /\ Asks("action") => ActionSurvives(call.api)
  /\ Asks("review") => ReviewSurvives(call.api)

\* A request and a branch come out for the package or project that was asked for,
\* whichever of the objects that stand for it the caller has passed; a submission
\* to a project comes out for the package of the same name there (submitPackage,
\* requestDeletion, branchPackage).
CreatedForWhatWasAsked ==
  /\ Asks("target") =>
       LET submission == SubmitPackage(call.source, call.target)
           deletion == RequestDeletion(call.target)
       IN
       /\ CreatedForTarget(call.user, call.other, call.id, deletion, call.to)
       /\ CreatedForTarget(call.user, call.other, call.id, submission,
                           call.to @@ "packageName" :> call.from.packageName)
       /\ submission.action[1].source
            = [project |-> call.from.projectName, package |-> call.from.packageName]
  /\ Asks("branch") => FetchesTheBranch(call.user, call.pkg, call.options, call.others)

\* Both overloads of the functions for status and log ask for the same build
\* (fetchBuildStatus, fetchJobStatus, fetchBuildLog).
BuildIsFetchedAsAsked ==
  Asks("build") =>
    AskedByEither(call.project, call.package, call.arch, call.repository,
                  call.multibuild, call.options)
=============================================================================

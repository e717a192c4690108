------------------------------- MODULE Requests -------------------------------
(***************************************************************************)
(* Requests to submit or delete something (src/request.ts) and branching   *)
(* (src/package.ts): what is sent for what a caller asks for, what is read *)
(* of the reply, and which replies are rejected.                           *)
(***************************************************************************)
EXTENDS Integers, Objects

CONSTANT Offset   \* how far the clock of the program is ahead of UTC

ASSUME RequestsAssumption == Offset \in Int

\* A time as text: what a clock shows, in UTC or without a zone.  A Date is what
\* the clock shows in UTC; new Date() takes a text without a zone to be local.
DateOf(text) == IF text.zone = "none" THEN text.shown - Offset ELSE text.shown
ToISOString(date) == [zone |-> "UTC", shown |-> date]

-----------------------------------------------------------------------------
(* Actions                                                                 *)

SourceFromApi(source) ==
  Take(source, [project |-> "projectName", package |-> "packageName",
                rev |-> "revision"])
\* Only the source of a package has a revision.
SourceToApi(source) ==
  Take(source, IF "packageName" \in DOMAIN source
               THEN [projectName |-> "project", packageName |-> "package",
                     revision |-> "rev"]
               ELSE [projectName |-> "project"])

TargetFromApi(target) ==
  Take(target, [project |-> "projectName", package |-> "packageName",
                releaseproject |-> "releaseProject", repository |-> "repository"])
TargetToApi(target) ==
  Take(target, [projectName |-> "project", packageName |-> "package",
                releaseProject |-> "releaseproject", repository |-> "repository"])

\* Options without a member are none.
OptionsFromApi(options) ==
  Take(options, [sourceupdate |-> "sourceUpdate"])
  @@ Child(options, "makeoriginolder", "makeOriginOlder", LAMBDA text : text = "true")
\* makeOriginOlder is always sent.
OptionsToApi(options) ==
  Take(options, [sourceUpdate |-> "sourceupdate"])
  @@ "makeoriginolder" :>
       IF "makeOriginOlder" \in DOMAIN options /\ options.makeOriginOlder
       THEN "true" ELSE "false"

AcceptInfoFromApi(info) ==
  Take(info, [rev |-> "revision", srcmd5 |-> "sourceMd5", osrcmd5 |-> "originalSourceMd5",
              oproject |-> "originalProject", opackage |-> "originalPackage",
              xsrcmd5 |-> "expandedSourceMd5",
              oxsrcmd5 |-> "originalExpandedSourceMd5"])
AcceptInfoToApi(info) ==
  Take(info, [revision |-> "rev", sourceMd5 |-> "srcmd5", originalSourceMd5 |-> "osrcmd5",
              originalProject |-> "oproject", originalPackage |-> "opackage",
              expandedSourceMd5 |-> "xsrcmd5",
              originalExpandedSourceMd5 |-> "oxsrcmd5"])

PartyFromApi(party) == Take(party, [name |-> "id", role |-> "role"])
PartyToApi(party) == Take(party, [id |-> "name", role |-> "role"])

ActionFromApi(action) ==
  Take(action, [type |-> "type"])
  @@ Child(action, "source", "source", SourceFromApi)
  @@ Child(action, "target", "target", TargetFromApi)
  @@ Child(action, "person", "person", PartyFromApi)
  @@ Child(action, "group", "group", PartyFromApi)
  @@ (IF "options" \in DOMAIN action /\ OptionsFromApi(action.options) = Empty THEN Empty
      ELSE Child(action, "options", "options", OptionsFromApi))
  @@ Child(action, "acceptinfo", "acceptInfo", AcceptInfoFromApi)

\* Faulty: the options are not sent.
ActionToApiPlain(action) ==
  Take(action, [type |-> "type"])
  @@ Child(action, "source", "source", SourceToApi)
  @@ Child(action, "target", "target", TargetToApi)
ActionToApi(action) ==
  Take(action, [type |-> "type"])
  @@ Child(action, "source", "source", SourceToApi)
  @@ Child(action, "target", "target", TargetToApi)
  @@ Child(action, "person", "person", PartyToApi)
  @@ Child(action, "group", "group", PartyToApi)
  @@ Child(action, "options", "options", OptionsToApi)
  @@ Child(action, "acceptInfo", "acceptinfo", AcceptInfoToApi)

-----------------------------------------------------------------------------
(* Reviews and requests                                                    *)

HistoryFromApi(entry) ==
  Take(Converted(entry, "when", DateOf),
       [who |-> "userId", when |-> "time", description |-> "description",
        comment |-> "comment"])
HistoryToApi(entry) ==
  Converted(Take(entry, [userId |-> "who", time |-> "when",
                         description |-> "description", comment |-> "comment"]),
            "when", ToISOString)

\* A reply that names nobody is rejected; of several the user goes first, then
\* the group.
ReviewerFromApi(review) ==
  IF "by_user" \in DOMAIN review THEN Take(review, [by_user |-> "userId"])
  ELSE IF "by_group" \in DOMAIN review THEN Take(review, [by_group |-> "groupId"])
  ELSE Take(review, [by_project |-> "projectName", by_package |-> "packageName"])
ReviewFromApi(review) ==
  IF {"by_user", "by_group", "by_project"} \cap DOMAIN review = {} THEN Rejected
  ELSE "requestedReviewer" :> ReviewerFromApi(review)
       @@ Take(Converted(review, "when", DateOf),
               [state |-> "state", who |-> "reviewedBy", when |-> "reviewedAt",
                comment |-> "comment"])
       @@ List(review, "history", "reviewHistory", HistoryFromApi)

ReviewerToApi(reviewer) ==
  IF "userId" \in DOMAIN reviewer THEN Take(reviewer, [userId |-> "by_user"])
  ELSE IF "groupId" \in DOMAIN reviewer THEN Take(reviewer, [groupId |-> "by_group"])
  ELSE Take(reviewer, [projectName |-> "by_project", packageName |-> "by_package"])
ReviewToApi(review) ==
  ReviewerToApi(review.requestedReviewer)
  @@ Converted(Take(review, [state |-> "state", reviewedBy |-> "who",
                             reviewedAt |-> "when", comment |-> "comment"]),
               "when", ToISOString)
  @@ Children(review, "reviewHistory", "history", HistoryToApi)

StateFromApi(state) ==
  Take(Converted(state, "when", DateOf),
       [name |-> "state", who |-> "userId", when |-> "time",
        superseded_by |-> "supersededBy", approver |-> "approverUserId",
        comment |-> "comment"])

\* A review that names nobody spoils the whole reply.
RequestFromApi(request) ==
  IF \E i \in DOMAIN ListOf(request, "review", ReviewFromApi) :
       ReviewFromApi(request.review[i]) = Rejected
  THEN Rejected ELSE
  Take(Converted(request, "accept_at", DateOf),
       [id |-> "id", creator |-> "creatorUserId", description |-> "description",
        priority |-> "priority", accept_at |-> "autoAcceptAt"])
  @@ List(request, "action", "actions", ActionFromApi)
  @@ Child(request, "state", "state", StateFromApi)
  @@ List(request, "review", "reviews", ReviewFromApi)
  @@ List(request, "history", "history", HistoryFromApi)

\* id, creator, state and history are the server's.
RequestToApi(request) ==
  Converted(Take(request, [description |-> "description", priority |-> "priority",
                           autoAcceptAt |-> "accept_at"]),
            "accept_at", ToISOString)
  @@ Children(request, "actions", "action", ActionToApi)
  @@ Children(request, "reviews", "review", ReviewToApi)

\* createRequest() and fetchRequest(), given the server's reply.
CreateRequest(username, reply) ==
  LET request == RequestFromApi(reply) IN
  IF {"id", "creatorUserId"} \subseteq DOMAIN request
     /\ request.creatorUserId = username
  THEN request ELSE Rejected
FetchRequest(id, reply) ==
  LET request == RequestFromApi(reply) IN
  IF id >= 0 /\ {"id", "creatorUserId"} \subseteq DOMAIN request /\ request.id = id
  THEN request ELSE Rejected

-----------------------------------------------------------------------------
(* Submitting and deleting.  A package that the program has an object of   *)
(* has the name of its project, a project has not.                         *)

IsPackage(obj) == {"apiUrl", "projectName"} \subseteq DOMAIN obj
IsProject(obj) == "apiUrl" \in DOMAIN obj /\ "projectName" \notin DOMAIN obj

OfPackage(pkg) == Take(pkg, [projectName |-> "projectName", name |-> "packageName"])
\* Faulty: whatever belongs to an API is a project.
TargetOfProject(obj) ==
  IF "apiUrl" \in DOMAIN obj THEN "projectName" :> obj.name ELSE obj
TargetOf(obj) ==
  IF IsPackage(obj) THEN OfPackage(obj)
  ELSE IF IsProject(obj) THEN Take(obj, [name |-> "projectName"])
  ELSE obj

NewRequest(action) == [actions |-> <<action>>, reviews |-> <<>>, description |-> "text"]

SubmitPackage(source, target) ==
  RequestToApi(NewRequest(
    [type |-> "submit",
     source |-> IF IsPackage(source) THEN OfPackage(source) ELSE source,
     target |-> TargetOf(target)]))

RequestDeletion(target) ==
  RequestToApi(NewRequest([type |-> "delete", target |-> TargetOf(target)]))

-----------------------------------------------------------------------------
(* Branching                                                               *)

\* The home project of the user for branches of a project.
BranchesOf(username, project) == <<"home", username, "branches">> \o project

TargetOfBranch(username, pkg, options) ==
  Take(options, [targetProject |-> "targetproject", targetPackage |-> "targetpackage"])
  @@ [targetproject |-> BranchesOf(username, pkg.projectName),
      targetpackage |-> pkg.name]

\* Only what was given is sent, the server knows the same defaults.
BranchRoute(pkg, options) ==
  <<pkg.projectName, pkg.name>> \o
  (IF "targetPackage" \in DOMAIN options
   THEN <<[target_package |-> options.targetPackage]>> ELSE <<>>) \o
  (IF "targetProject" \in DOMAIN options
   THEN <<[target_project |-> options.targetProject]>> ELSE <<>>)

\* Everything that the reply tells must be as expected.
BranchPackage(url, username, pkg, options, reply) ==
  LET target == TargetOfBranch(username, pkg, options)
      expected == target @@ [sourcepackage |-> pkg.name, sourceproject |-> pkg.projectName]
  IN
  IF pkg.apiUrl # url
     \/ \E n \in DOMAIN reply \cap DOMAIN expected : reply[n] # expected[n]
  THEN Rejected ELSE target

-----------------------------------------------------------------------------

\* What is read of a request and sent again is the same, except that options
\* always say whether the origin is made older.
NormalAction(action) ==
  [m \in DOMAIN action |->
     IF m = "options" THEN action.options @@ "makeoriginolder" :> "false" ELSE action[m]]
ActionSurvives(action) ==
  ActionToApi(ActionFromApi(action)) = NormalAction(action)

\* A review is sent as it was read, except that its times are written as UTC,
\* those without a zone converted from the program's; and what is sent is read as
\* the same review.
InUtc(text) == ToISOString(DateOf(text))
ReviewInUtc(review) ==
  Converted(Converted(review, "when", InUtc), "history",
            LAMBDA list : [i \in DOMAIN list |-> Converted(list[i], "when", InUtc)])
ReviewSurvives(review) ==
  LET read == ReviewFromApi(review)
      sent == ReviewToApi(read)
  IN read # Rejected => sent = ReviewInUtc(review) /\ ReviewFromApi(sent) = read

\* The server names the package of a submission to a project after the submitted
\* one (the comment of submitPackage()).
Filled(action) ==
  IF action.type = "submit" /\ "package" \notin DOMAIN action.target
  THEN [action EXCEPT !.target = @ @@ "package" :> action.source.package]
  ELSE action

\* Whatever object stands for a package or a project, the request that the caller
\* gets back is about the target: the deletion of a package never becomes that of
\* its project.  It is a request of the user, which others do not take for theirs.
CreatedForTarget(username, other, id, payload, target) ==
  LET reply == [payload EXCEPT !.action = <<Filled(payload.action[1])>>]
               @@ [id |-> id, creator |-> username]
      created == CreateRequest(username, reply)
  IN
  /\ created.actions[1].target = target
  /\ FetchRequest(id, reply) = created
  /\ CreateRequest(other, reply) = Rejected

\* The branch that is fetched is the one that the server has made for the route,
\* whatever part of it the reply names; a reply that names another is rejected.
MadeFor(username, route) ==
  LET given == [i \in DOMAIN route |-> IF i > 2 THEN route[i] ELSE Empty]
      parameters == IF Len(route) = 2 THEN Empty
                    ELSE IF Len(route) = 3 THEN given[3] ELSE given[3] @@ given[4]
  IN
  Take(parameters, [target_project |-> "targetproject",
                    target_package |-> "targetpackage"])
  @@ [targetproject |-> BranchesOf(username, route[1]), targetpackage |-> route[2]]
FetchesTheBranch(username, pkg, options, others) ==
  LET made == MadeFor(username, BranchRoute(pkg, options)) IN
  \A named \in SUBSET DOMAIN made :
    LET reply == [n \in named |-> made[n]] IN
    /\ BranchPackage(pkg.apiUrl, username, pkg, options, reply) = made
    /\ \A n \in named :
         others[n] # made[n] =>
           BranchPackage(pkg.apiUrl, username, pkg, options,
                         [reply EXCEPT ![n] = others[n]]) = Rejected
=============================================================================

----------------------------- MODULE BuildResults -----------------------------
(***************************************************************************)
(* The requests for build status and logs (src/build-result.ts).           *)
(* Functions with two overloads take their arguments by position; text is  *)
(* a string, as opposed to an object.                                      *)
(***************************************************************************)
EXTENDS Objects

Text(string) == [text |-> string]
IsText(value) == DOMAIN value = {"text"}
\* An argument that is not given.
NotGiven == [undefined |-> TRUE]

\* The value of an option, if it is given.
OptionIn(options, name) == {options[n] : n \in DOMAIN options \cap {name}}
NameIn(options) ==
  IF "multibuildName" \in DOMAIN options THEN options.multibuildName ELSE NotGiven

WithSuffix(package, multibuild) ==
  IF multibuild = NotGiven THEN <<package>> ELSE <<package, multibuild>>

\* Faulty: the second overload has its arguments in the order of the first.
CreateBuildRouteMixed(first, second, third, fourth, fifth) ==
  IF IsText(first)
  THEN IF fourth = NotGiven THEN Rejected
       ELSE <<first, fourth, third, WithSuffix(second, fifth)>>
  ELSE IF fifth # NotGiven THEN Rejected
       ELSE <<first.projectName, second, third, WithSuffix(first.name, fourth)>>
\* createBuildRoute(): (projectName, packageName, arch, repositoryName,
\* multibuildName) or (pkg, arch, repositoryName, multibuildName).
CreateBuildRoute(first, second, third, fourth, fifth) ==
  IF IsText(first)
  THEN IF fourth = NotGiven THEN Rejected
       ELSE <<first, fourth, third, WithSuffix(second, fifth)>>
  ELSE IF fifth # NotGiven THEN Rejected
       ELSE <<first.projectName, third, second, WithSuffix(first.name, fourth)>>

\* fetchBuildStatus() and fetchJobStatus() only differ in the end of the route.
FetchStatus(first, second, third, fourth, fifth, what) ==
  LET route == CreateBuildRoute(first, second, third, fourth, fifth) IN
  IF route = Rejected THEN Rejected ELSE [route |-> Append(route, <<what>>)]

\* fetchBuildLog(): what depends on noStream but the parameter looks at the last
\* argument, which only the first overload has.
FetchBuildLog(first, second, third, fourth, fifth) ==
  LET options == IF IsText(fourth) THEN fifth ELSE fourth
      route == CreateBuildRoute(first, second, third,
                 IF IsText(fourth) THEN fourth ELSE NameIn(fourth), NameIn(fifth))
      unstreamed == OptionIn(fifth, "noStream") = {TRUE}
  IN
  IF route = Rejected \/ (unstreamed /\ "streamCallback" \in DOMAIN fifth)
  THEN Rejected
  ELSE [route |-> Append(route, <<"_log">>),
        query |-> {q \in {"nostream"} : OptionIn(options, "noStream") = {TRUE}}
                  \cup OptionIn(options, "fetchFinishedLog"),
        callback |-> OptionIn(options, "streamCallback"),
        timeout |-> IF ~unstreamed THEN {}
                    ELSE IF "streamTimeoutMs" \in DOMAIN options
                    THEN OptionIn(options, "streamTimeoutMs") ELSE {3600000},
        maxRetries |-> IF unstreamed THEN {0} ELSE {}]

-----------------------------------------------------------------------------

\* Either overload asks for the same build, the one that the caller names: its
\* status and its log, with the same parameters and the same callback.  (They
\* differ in timeout and tries, and only one rejects a callback without a
\* stream.)
AskedByEither(project, package, arch, repository, multibuild, options) ==
  LET pkg == [projectName |-> project, name |-> package]
      named == options @@ IF multibuild = NotGiven THEN Empty
                          ELSE "multibuildName" :> multibuild
      build == <<project, repository, arch, WithSuffix(package, multibuild)>>
      first == FetchBuildLog(project, package, arch, repository, named)
      second == FetchBuildLog(pkg, arch, repository, named, NotGiven)
      Same(member) == first = Rejected \/ first[member] = second[member]
  IN
  /\ FetchStatus(project, package, arch, repository, multibuild, "_status")
       = [route |-> Append(build, <<"_status">>)]
  /\ FetchStatus(pkg, arch, repository, multibuild, NotGiven, "_status")
       = [route |-> Append(build, <<"_status">>)]
  /\ second.route = Append(build, <<"_log">>)
  /\ Same("route") /\ Same("query") /\ Same("callback")
=============================================================================

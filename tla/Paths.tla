-------------------------------- MODULE Paths --------------------------------
(***************************************************************************)
(* The paths of a repository, expanded over its last path                  *)
(* (fetchProjectsPathsRecursively() in src/repository.ts).                 *)
(***************************************************************************)
EXTENDS Naturals, Sequences

LOCAL INSTANCE SequencesExt

\* metas: for each project on the server, the paths of its repositories; a path
\* is a project and a repository.  The number of calls within each other is bounded
\* by depth, an endless recursion exceeds every bound.
HasRepository(metas, path) ==
  path[1] \in DOMAIN metas /\ path[2] \in DOMAIN metas[path[1]]
PathsOf(metas, path) == metas[path[1]][path[2]]

Result(outcome, paths) == [outcome |-> outcome, paths |-> paths]

\* Faulty: the last path is listed before it is expanded.
RECURSIVE FetchPathsTwice(_, _, _), FetchProjectsPathsRecursively(_, _, _)
FetchPathsTwice(metas, path, depth) ==
  IF depth = 0 THEN Result("endless", <<>>)
  ELSE IF path[1] \notin DOMAIN metas THEN Result("rejected", <<>>)
  ELSE IF ~HasRepository(metas, path) THEN Result("done", <<>>)
  ELSE LET paths == PathsOf(metas, path)
           rest == FetchProjectsPathsRecursively(metas, Last(paths), depth - 1)
       IN
       IF paths = <<>> THEN Result("done", <<path>>)
       ELSE [rest EXCEPT !.paths = <<path>> \o paths \o @]

\* A project that is not there rejects the call, a repository that is not there has
\* no paths, not even itself.
FetchProjectsPathsRecursively(metas, path, depth) ==
  IF depth = 0 THEN Result("endless", <<>>)
  ELSE IF path[1] \notin DOMAIN metas THEN Result("rejected", <<>>)
  ELSE IF ~HasRepository(metas, path) THEN Result("done", <<>>)
  ELSE LET paths == PathsOf(metas, path)
           rest == FetchProjectsPathsRecursively(metas, Last(paths), depth - 1)
       IN
       IF paths = <<>> THEN Result("done", <<path>>)
       ELSE [rest EXCEPT !.paths = <<path>> \o Front(paths) \o @]

-----------------------------------------------------------------------------

\* The repositories along the last paths, the first one first; at the end one that
\* is not there or has no paths is repeated.
Along(metas, path, n) ==
  LET walk[i \in 1 .. n] ==
        IF i = 1 THEN path
        ELSE IF ~HasRepository(metas, walk[i - 1]) \/ PathsOf(metas, walk[i - 1]) = <<>>
        THEN walk[i - 1]
        ELSE Last(PathsOf(metas, walk[i - 1]))
  IN walk

\* With n repositories: the call ends unless the last paths lead in a circle, it is
\* rejected if they lead to a project that is not there, and otherwise each
\* repository on the way is listed with its paths but the last, in their order.
ExpandsPaths(metas, path, n) ==
  LET walk == Along(metas, path, n + 1)
      end == walk[n + 1]
      ends == ~HasRepository(metas, end) \/ PathsOf(metas, end) = <<>>
      steps == IF \E i \in 1 .. n : walk[i] = end
               THEN (CHOOSE i \in 1 .. n : walk[i] = end /\ \A j \in 1 .. i - 1 : walk[j] # end)
               ELSE n + 1
      Lists(p) == IF ~HasRepository(metas, p) THEN <<>>
                  ELSE <<p>> \o (IF PathsOf(metas, p) = <<>> THEN <<>>
                                 ELSE Front(PathsOf(metas, p)))
      result == FetchProjectsPathsRecursively(metas, path, n + 2)
  IN
  IF ~ends THEN result.outcome = "endless"
  ELSE IF end[1] \notin DOMAIN metas THEN result.outcome = "rejected"
  ELSE result = Result("done", FlattenSeq([i \in 1 .. steps |-> Lists(walk[i])]))
=============================================================================

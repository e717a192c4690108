----------------------------- MODULE HistoryDrawing -----------------------------
(***************************************************************************)
(* The graph that historyToGraphviz() draws of a history                   *)
(* (src/history.ts): its calls recur along the parents of the commits.     *)
(***************************************************************************)
EXTENDS History

\* A commit is drawn when it is met first, each of its arrows after its parent.
RECURSIVE AddNodes(_, _), AddParents(_, _, _)
AddNodes(drawn, commit) ==
  IF commit \in drawn.visited THEN drawn
  ELSE AddParents([drawn EXCEPT !.visited = @ \cup {commit},
                                !.nodes = Append(@, commit)],
                  commit, parents[commit])
\* Faulty: only the first parent is followed.
AddFirstParent(drawn, commit, left) ==
  IF left = <<>> THEN drawn
  ELSE LET below == AddNodes(drawn, Head(left)) IN
       [below EXCEPT !.edges = Append(@, <<commit, Head(left)>>)]
AddParents(drawn, commit, left) ==
  IF left = <<>> THEN drawn
  ELSE LET below == AddNodes(drawn, Head(left)) IN
       AddParents([below EXCEPT !.edges = Append(@, <<commit, Head(left)>>)],
                  commit, Tail(left))

HistoryToGraphviz(commit) ==
  AddNodes([visited |-> {}, nodes |-> <<>>, edges |-> <<>>], commit)

-----------------------------------------------------------------------------

\* The graph that is drawn has every commit that HEAD reaches once and every
\* arrow once, even if the history is circular.
DrawnOnce ==
  outcome = "done" /\ heads[Top] # NoCommit =>
    LET head == heads[Top]
        drawn == HistoryToGraphviz(head)
        reached == {head} \cup Ancestors(head)
    IN
    /\ {drawn.nodes[i] : i \in DOMAIN drawn.nodes} = reached
    /\ Len(drawn.nodes) = Cardinality(reached)
    /\ {drawn.edges[i] : i \in DOMAIN drawn.edges}
         = UNION {{<<c, parents[c][i]>> : i \in DOMAIN parents[c]} : c \in reached}
=============================================================================

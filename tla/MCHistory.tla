------------------------------- MODULE MCHistory -------------------------------
(***************************************************************************)
(* Two packages: a may have been a link to b from its first revision on,   *)
(* or later, with and without a base or a named revision, with a conflict, *)
(* and may have stopped to be one; b may link back to a.                   *)
(***************************************************************************)
EXTENDS HistoryDrawing

CONSTANTS a, b

LinkTo(p, rev, base, conflict) ==
  [to |-> p, rev |-> rev, base |-> base, conflict |-> conflict]

OfA == {NoLink, LinkTo(b, 0, 0, FALSE), LinkTo(b, 0, 1, FALSE), LinkTo(b, 0, 2, FALSE),
        LinkTo(b, 1, 0, FALSE), LinkTo(b, Numbered, 1, FALSE), LinkTo(b, 0, 1, TRUE)}
OfB == {NoLink, LinkTo(a, 0, 0, FALSE)}

UpTo(n, s) == UNION {[1 .. k -> s] : k \in 0 .. n}

\* A base is a revision that the linked package has.
Based(history, n) == \A k \in DOMAIN history : history[k].base <= n

MCHistories ==
  {[p \in {a, b} |-> IF p = a THEN h ELSE g] :
     h \in UpTo(3, OfA), g \in UpTo(2, OfB)}
MCPossible == {h \in MCHistories : Based(h[a], Len(h[b])) /\ Based(h[b], Len(h[a]))}
MCNewRevisions == {NoLink}

\* a was branched from a revision of b, which is no link.
MCBranched ==
  {h \in MCPossible :
     /\ h[b] \in UpTo(2, {NoLink})
     /\ h[a] \in UpTo(2, {LinkTo(b, 0, 1, FALSE), LinkTo(b, 0, 2, FALSE)})}
=============================================================================

--------------------------- MODULE MCTokensAccounts ---------------------------
(***************************************************************************)
(* Accounts and Tokens, which have nothing in common: a behaviour is about *)
(* one of them, and the other one does not move.                           *)
(***************************************************************************)
EXTENDS Accounts, Tokens, TLC

VARIABLE about

MCInit == Init /\ TokenInit /\ about \in {"accounts", "tokens"}
MCNext ==
  \/ about = "accounts" /\ Next /\ UNCHANGED <<tokenVars, about>>
  \/ about = "tokens" /\ TokenNext /\ UNCHANGED <<vars, about>>
MCSpec == MCInit /\ [][MCNext]_<<vars, tokenVars, about>>

\* Callers and URLs are alike.
MCSymmetry == Permutations(Urls) \cup Permutations(Adders) \cup Permutations(TokenCallers)
=============================================================================

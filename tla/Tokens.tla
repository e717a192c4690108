-------------------------------- MODULE Tokens --------------------------------
(***************************************************************************)
(* The tokens of one user (src/token.ts): calls that create, list and      *)
(* delete them, while others with the same account do so as well.          *)
(***************************************************************************)
EXTENDS Naturals, Sequences, FiniteSets, SequencesExt

CONSTANTS
  TokenCallers,   \* calls that may be in progress at the same time
  MaxTokens       \* bound on the tokens ever created

ASSUME TokenAssumption == MaxTokens \in Nat

VARIABLES
  tokens,   \* the ids on the server, in the order of their creation
  created,  \* how many were ever created, the next id
  call,     \* what each caller is doing
  result,   \* the id that each call returned last, 0 for undefined
  mine,     \* history: the id that the call created
  meddled   \* history: calls since whose creation somebody else created one

tokenVars == <<tokens, created, call, result, mine, meddled>>

TokenInit ==
  /\ tokens = <<>>
  /\ created = 0
  /\ call = [c \in TokenCallers |-> "idle"]
  /\ result = [c \in TokenCallers |-> 0]
  /\ mine = [c \in TokenCallers |-> 0]
  /\ meddled = {}

Ids == {tokens[i] : i \in DOMAIN tokens}

Resolve(c, id) ==
  /\ call' = [call EXCEPT ![c] = "returned"]
  /\ result' = [result EXCEPT ![c] = id]

\* The server has made a token and replies with its id and string, or with a
\* status only; then the tokens are listed.
CreateToken(c) ==
  /\ call[c] \in {"idle", "returned"}
  /\ created < MaxTokens
  /\ created' = created + 1
  /\ tokens' = Append(tokens, created')
  /\ mine' = [mine EXCEPT ![c] = created']
  /\ meddled' = (meddled \cup TokenCallers) \ {c}
  /\ \/ Resolve(c, created')
     \/ call' = [call EXCEPT ![c] = "list"] /\ UNCHANGED result
     \/ call' = [call EXCEPT ![c] = "idle"] /\ UNCHANGED result

\* Faulty: the first one is taken.
FirstOf(list) == IF list = <<>> THEN 0 ELSE list[1]
\* The token is the last one listed, undefined if there is none any more.
LastOf(list) == IF list = <<>> THEN 0 ELSE list[Len(list)]

FetchTokens(c) ==
  /\ call[c] = "list"
  /\ \/ Resolve(c, LastOf(tokens))
     \/ call' = [call EXCEPT ![c] = "idle"] /\ UNCHANGED result
  /\ UNCHANGED <<tokens, created, mine, meddled>>

\* Deleting one leaves the order of the others; an unknown id is refused.
DeleteToken(id) ==
  /\ \E i \in DOMAIN tokens : tokens[i] = id /\ tokens' = RemoveAt(tokens, i)
  /\ UNCHANGED <<created, call, result, mine, meddled>>

TokenNext ==
  \/ \E c \in TokenCallers : CreateToken(c) \/ FetchTokens(c)
  \/ \E id \in 1 .. MaxTokens : DeleteToken(id)

TokenSpec == TokenInit /\ [][TokenNext]_tokenVars

-----------------------------------------------------------------------------

\* createToken() never returns a token that is older than the one it has created
\* if that one still exists, and returns that one unless somebody else created
\* another one for the user before the fallback listed them.
ReturnsOwnToken ==
  [][\A c \in TokenCallers :
       call[c] = "list" /\ call'[c] = "returned" /\ mine[c] \in Ids
         => /\ result'[c] >= mine[c]
            /\ c \notin meddled => result'[c] = mine[c]]_tokenVars
=============================================================================

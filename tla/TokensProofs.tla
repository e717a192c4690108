------------------------------ MODULE TokensProofs ------------------------------
(***************************************************************************)
(* Theorems about Tokens, for any calls and any number of tokens.          *)
(***************************************************************************)
EXTENDS Tokens, SequenceTheorems, TLAPS

-----------------------------------------------------------------------------
(* The inductive invariant, in parts.                                      *)

TypeInv ==
  /\ tokens \in Seq(Nat) /\ created \in Nat
  /\ call \in [TokenCallers -> {"idle", "list", "returned"}]
  /\ result \in [TokenCallers -> Nat]
  /\ mine \in [TokenCallers -> Nat]
  /\ meddled \subseteq TokenCallers

\* The list is in the order of creation, and an id is never given twice.
InOrder ==
  /\ \A i, j \in 1 .. Len(tokens) : i < j => tokens[i] < tokens[j]
  /\ \A i \in 1 .. Len(tokens) : tokens[i] <= created

\* The token of a call is the newest one until somebody else creates another one.
MineIsNewest ==
  \A c \in TokenCallers :
    /\ mine[c] <= created
    /\ call[c] = "list" /\ c \notin meddled => mine[c] = created

IInv == TypeInv /\ InOrder /\ MineIsNewest

-----------------------------------------------------------------------------
(* The list of the tokens.                                                 *)

LEMMA RemovedFrom ==
  ASSUME NEW list \in Seq(Nat), NEW i \in 1 .. Len(list)
  PROVE  /\ RemoveAt(list, i) \in Seq(Nat)
         /\ Len(RemoveAt(list, i)) = Len(list) - 1
         /\ \A j \in 1 .. Len(list) - 1 :
              RemoveAt(list, i)[j] = IF j < i THEN list[j] ELSE list[j + 1]
PROOF
  <1> DEFINE front == SubSeq(list, 1, i - 1)
             back == SubSeq(list, i + 1, Len(list))
  <1>1. Len(list) \in Nat /\ \A j \in 1 .. Len(list) : list[j] \in Nat
    OBVIOUS
  <1>2. /\ front \in Seq(Nat) /\ Len(front) = i - 1
        /\ \A j \in 1 .. i - 1 : front[j] = list[j]
    <2>1. \A j \in 1 .. i - 1 : list[j] \in Nat
      BY <1>1
    <2> QED BY <1>1, <2>1, SubSeqProperties
  <1>3. /\ back \in Seq(Nat) /\ Len(back) = Len(list) - i
        /\ \A j \in 1 .. Len(list) - i : back[j] = list[i + j]
    <2>1. \A j \in i + 1 .. Len(list) : list[j] \in Nat
      BY <1>1
    <2>2. /\ back \in Seq(Nat) /\ Len(back) = Len(list) - i
          /\ \A j \in 1 .. Len(list) - (i + 1) + 1 : back[j] = list[i + 1 + j - 1]
      BY <1>1, <2>1, SubSeqProperties
    <2> QED BY <1>1, <2>2
  <1> HIDE DEF front, back
  <1>4. /\ front \o back \in Seq(Nat) /\ Len(front \o back) = Len(list) - 1
        /\ \A j \in 1 .. Len(list) - 1 :
             (front \o back)[j] = IF j <= Len(front) THEN front[j] ELSE back[j - Len(front)]
    <2>1. /\ front \o back \in Seq(Nat) /\ Len(front \o back) = Len(front) + Len(back)
          /\ \A j \in 1 .. Len(front) + Len(back) :
               (front \o back)[j] = IF j <= Len(front) THEN front[j] ELSE back[j - Len(front)]
      BY <1>2, <1>3, ConcatProperties
    <2>2. Len(front) + Len(back) = Len(list) - 1
      BY <1>1, <1>2, <1>3
    <2> QED BY <2>1, <2>2
  <1>5. \A j \in 1 .. Len(list) - 1 :

          (front \o back)[j] = IF j < i THEN list[j] ELSE list[j + 1]
    <2> SUFFICES ASSUME NEW j \in 1 .. Len(list) - 1
                 PROVE  (front \o back)[j] = IF j < i THEN list[j] ELSE list[j + 1]
      OBVIOUS
    <2>1. CASE j < i
      BY <1>1, <1>2, <1>4, <2>1
    <2>2. CASE ~(j < i)
      <3>1. j - Len(front) \in 1 .. Len(list) - i /\ i + (j - Len(front)) = j + 1
        BY <1>1, <1>2, <2>2
      <3>2. (front \o back)[j] = back[j - Len(front)]
        BY <1>1, <1>2, <1>4, <2>2
      <3> QED BY <1>3, <2>2, <3>1, <3>2
    <2> QED BY <2>1, <2>2
  <1> QED BY <1>4, <1>5 DEF RemoveAt, front, back

\* The last one listed is the newest one there is.
LEMMA LastIsNewest ==
  ASSUME TypeInv, InOrder, NEW id \in Ids
  PROVE  LastOf(tokens) \in Ids /\ LastOf(tokens) >= id
PROOF
  <1>1. PICK i \in 1 .. Len(tokens) : id = tokens[i]
    BY DEF Ids, TypeInv
  <1>2. /\ LastOf(tokens) = tokens[Len(tokens)] /\ Len(tokens) \in 1 .. Len(tokens)
    BY <1>1 DEF LastOf, TypeInv
  <1>3. LastOf(tokens) \in Ids
    BY <1>2 DEF Ids, TypeInv
  <1>4. tokens[i] \in Nat /\ tokens[Len(tokens)] \in Nat
    BY <1>1, <1>2 DEF TypeInv
  <1>5. i = Len(tokens) \/ i < Len(tokens)
    BY <1>1, <1>2 DEF TypeInv
  <1> QED BY <1>1, <1>2, <1>3, <1>4, <1>5 DEF InOrder

-----------------------------------------------------------------------------
(* The initial states, and each action.                                    *)

LEMMA InitHolds == TokenInit => IInv
PROOF
  <1> SUFFICES ASSUME TokenInit PROVE IInv
    OBVIOUS
  <1>1. TypeInv
    BY DEF TokenInit, TypeInv
  <1>2. InOrder /\ MineIsNewest
    BY DEF TokenInit, InOrder, MineIsNewest
  <1> QED BY <1>1, <1>2 DEF IInv

LEMMA CreateHolds ==
  ASSUME IInv, NEW c \in TokenCallers, CreateToken(c)
  PROVE  IInv'
PROOF
  <1> USE DEF IInv
  <1>1. /\ created' = created + 1 /\ created \in Nat /\ tokens \in Seq(Nat)
        /\ tokens' = Append(tokens, created')
        /\ mine' = [mine EXCEPT ![c] = created']
        /\ meddled' = (meddled \cup TokenCallers) \ {c}
    BY DEF CreateToken, TypeInv
  <1>2. /\ call' \in [TokenCallers -> {"idle", "list", "returned"}]
        /\ result' \in [TokenCallers -> Nat]
    <2>1. created' \in Nat
      BY <1>1
    <2>2. call \in [TokenCallers -> {"idle", "list", "returned"}]
          /\ result \in [TokenCallers -> Nat]
      BY DEF TypeInv
    <2>3. CASE Resolve(c, created')
      BY <2>1, <2>2, <2>3 DEF Resolve
    <2>4. CASE call' = [call EXCEPT ![c] = "list"] /\ UNCHANGED result
      BY <2>2, <2>4
    <2>5. CASE call' = [call EXCEPT ![c] = "idle"] /\ UNCHANGED result
      BY <2>2, <2>5
    <2> QED BY <2>3, <2>4, <2>5 DEF CreateToken
  <1>3. TypeInv'
    <2>1. tokens' \in Seq(Nat) /\ created' \in Nat
      BY <1>1
    <2>2. mine' \in [TokenCallers -> Nat] /\ meddled' \subseteq TokenCallers
      BY <1>1, <2>1 DEF TypeInv
    <2> QED BY <1>2, <2>1, <2>2 DEF TypeInv

  <1>4. /\ tokens' \in Seq(Nat) /\ Len(tokens') = Len(tokens) + 1 /\ Len(tokens) \in Nat
        /\ tokens'[Len(tokens) + 1] = created'
        /\ \A i \in 1 .. Len(tokens) : tokens'[i] = tokens[i] /\ tokens[i] \in Nat
    BY <1>1
  <1>5. InOrder'
    BY <1>1, <1>4 DEF InOrder
  <1>6. MineIsNewest'
    BY <1>1 DEF MineIsNewest, TypeInv
  <1> QED BY <1>3, <1>5, <1>6

LEMMA FetchHolds ==
  ASSUME IInv, NEW c \in TokenCallers, FetchTokens(c)
  PROVE  IInv'
PROOF
  <1> USE DEF IInv
  <1>1. LastOf(tokens) \in Nat
    BY DEF LastOf, TypeInv
  <1>2. /\ call' \in [TokenCallers -> {"idle", "list", "returned"}]
        /\ result' \in [TokenCallers -> Nat]
        /\ \A d \in TokenCallers : call'[d] = "list" => call[d] = "list"
        /\ UNCHANGED <<tokens, created, mine, meddled>>
    BY <1>1 DEF FetchTokens, Resolve, TypeInv
  <1> QED BY <1>2 DEF TypeInv, InOrder, MineIsNewest

LEMMA DeleteHolds ==
  ASSUME IInv, NEW id, DeleteToken(id)
  PROVE  IInv'
PROOF
  <1> USE DEF IInv
  <1>1. PICK i \in 1 .. Len(tokens) : tokens' = RemoveAt(tokens, i)
    BY DEF DeleteToken, TypeInv
  <1>2. UNCHANGED <<created, call, result, mine, meddled>> /\ tokens \in Seq(Nat)
        /\ created \in Nat
    BY DEF DeleteToken, TypeInv
  <1>3. /\ tokens' \in Seq(Nat) /\ Len(tokens') = Len(tokens) - 1
        /\ \A j \in 1 .. Len(tokens) - 1 :
             tokens'[j] = IF j < i THEN tokens[j] ELSE tokens[j + 1]
    BY <1>1, <1>2, RemovedFrom
  <1>4. TypeInv' /\ MineIsNewest'
    BY <1>2, <1>3 DEF TypeInv, MineIsNewest
  <1>5. Len(tokens) \in Nat /\ \A j \in 1 .. Len(tokens) : tokens[j] \in Nat
    BY <1>2
  <1>6. \A j, k \in 1 .. Len(tokens') : j < k => tokens'[j] < tokens'[k]
    <2> SUFFICES ASSUME NEW j \in 1 .. Len(tokens'), NEW k \in 1 .. Len(tokens'), j < k
                 PROVE  tokens'[j] < tokens'[k]
      OBVIOUS
    <2> DEFINE from(n) == IF n < i THEN n ELSE n + 1
    <2>1. /\ from(j) \in 1 .. Len(tokens) /\ from(k) \in 1 .. Len(tokens)
          /\ from(j) < from(k)
      BY <1>3, <1>5
    <2>2. tokens'[j] = tokens[from(j)] /\ tokens'[k] = tokens[from(k)]
      BY <1>3, <1>5
    <2> HIDE DEF from
    <2> QED BY <2>1, <2>2 DEF InOrder
  <1>7. \A j \in 1 .. Len(tokens') : tokens'[j] <= created'
    <2> SUFFICES ASSUME NEW j \in 1 .. Len(tokens') PROVE tokens'[j] <= created
      BY <1>2
    <2>1. \E k \in 1 .. Len(tokens) : tokens'[j] = tokens[k]
      BY <1>3, <1>5
    <2> QED BY <2>1 DEF InOrder
  <1>8. InOrder'
    BY <1>6, <1>7 DEF InOrder
  <1> QED BY <1>4, <1>8

LEMMA NextHolds == IInv /\ [TokenNext]_tokenVars => IInv'
PROOF
  <1> SUFFICES ASSUME IInv, [TokenNext]_tokenVars PROVE IInv'
    OBVIOUS
  <1>1. ASSUME NEW c \in TokenCallers, CreateToken(c) PROVE IInv'
    BY <1>1, CreateHolds
  <1>2. ASSUME NEW c \in TokenCallers, FetchTokens(c) PROVE IInv'
    BY <1>2, FetchHolds
  <1>3. ASSUME NEW id \in 1 .. MaxTokens, DeleteToken(id) PROVE IInv'
    BY <1>3, DeleteHolds
  <1>4. CASE UNCHANGED tokenVars
    BY <1>4 DEF tokenVars, IInv, TypeInv, InOrder, MineIsNewest
  <1> QED BY <1>1, <1>2, <1>3, <1>4 DEF TokenNext

\* The invariant holds in every reachable state: tokens are listed in the order of
\* their creation, and a call's token is the newest one while nobody has created
\* another one.
THEOREM Invariance == TokenSpec => []IInv
PROOF
  <1> QED BY InitHolds, NextHolds, PTL DEF TokenSpec

-----------------------------------------------------------------------------

\* createToken() returns no token older than the one it has created while that one
\* exists, and returns that one unless somebody else has created another one.
THEOREM OwnTokenIsReturned == TokenSpec => ReturnsOwnToken
PROOF
  <1> DEFINE Own ==
        \A c \in TokenCallers :
          call[c] = "list" /\ call'[c] = "returned" /\ mine[c] \in Ids
            => /\ result'[c] >= mine[c]
               /\ c \notin meddled => result'[c] = mine[c]
  <1>1. IInv /\ [TokenNext]_tokenVars => [Own]_tokenVars
    <2> SUFFICES ASSUME IInv, TokenNext, NEW c \in TokenCallers,
                        call[c] = "list", call'[c] = "returned", mine[c] \in Ids
                 PROVE  /\ result'[c] >= mine[c]
                        /\ c \notin meddled => result'[c] = mine[c]
      BY DEF Own
    <2> USE DEF IInv
    <2>1. call \in [TokenCallers -> {"idle", "list", "returned"}]
          /\ result \in [TokenCallers -> Nat]
      BY DEF TypeInv
    <2>2. ASSUME NEW d \in TokenCallers, CreateToken(d) PROVE FALSE
      <3>1. d # c
        BY <2>2 DEF CreateToken
      <3> QED BY <2>1, <2>2, <3>1 DEF CreateToken, Resolve
    <2>3. ASSUME NEW id \in 1 .. MaxTokens, DeleteToken(id) PROVE FALSE
      BY <2>3 DEF DeleteToken
    <2>4. PICK d \in TokenCallers : FetchTokens(d)
      BY <2>2, <2>3 DEF TokenNext
    <2>5. d = c
      BY <2>1, <2>4 DEF FetchTokens, Resolve
    <2>6. result'[c] = LastOf(tokens)
      BY <2>1, <2>4, <2>5 DEF FetchTokens, Resolve
    <2>7. LastOf(tokens) \in Ids /\ LastOf(tokens) >= mine[c]
      BY LastIsNewest
    <2>8. LastOf(tokens) <= created /\ LastOf(tokens) \in Nat
      BY <2>7 DEF InOrder, Ids, TypeInv
    <2>9. mine[c] \in Nat /\ created \in Nat
      BY DEF TypeInv
    <2>10. c \notin meddled => mine[c] = created
      BY DEF MineIsNewest
    <2> QED BY <2>6, <2>7, <2>8, <2>9, <2>10
  <1>2. TokenSpec => [][Own]_tokenVars
    BY <1>1, Invariance, PTL DEF TokenSpec
  <1> QED BY <1>2 DEF ReturnsOwnToken
=============================================================================

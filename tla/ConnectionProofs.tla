-------------------------- MODULE ConnectionProofs --------------------------
(***************************************************************************)
(* Theorems about Connection, for any finite set of calls, any methods,    *)
(* retry options and latencies and any value of maxConcurrentConnections.  *)
(***************************************************************************)
EXTENDS Connection, Induction, FiniteSetTheorems, TLAPS

(* The variables keep their types.                                         *)
THEOREM TypeCorrect == SafeSpec => []TypeOK
<1>1. Init => TypeOK
  BY ConnectionAssumption
  DEF Init, TypeOK, NoSession, NoReply, Urls, Outcomes
<1>2. TypeOK /\ [Next]_vars => TypeOK'
  <2> SUFFICES ASSUME TypeOK, [Next]_vars
               PROVE  TypeOK'
    OBVIOUS
  <2> USE ConnectionAssumption DEF TypeOK
  <2>1. ASSUME NEW c \in Calls, MakeApiCall(c)
        PROVE  TypeOK'
    BY <2>1 DEF MakeApiCall, SendRequest, TakeSlot, Requests
  <2>2. ASSUME NEW c \in Calls, Poll(c)
        PROVE  TypeOK'
    BY <2>2 DEF Poll, SendRequest, TakeSlot, Requests
  <2>3. ASSUME NEW c \in Calls, ReceiveReply(c)
        PROVE  TypeOK'
    <3> DEFINE r == reply[c]
    <3>1. r \in Replies /\ pc[c] = "awaiting"
      BY <2>3 DEF ReceiveReply
    <3>2. /\ r.status \in Statuses
          /\ r.location \in Locations
          /\ r.setCookie \in Nat
      BY <3>1 DEF Replies
    <3>3. /\ cookies' \in Nat
          /\ reply' \in [Calls -> Replies \cup {NoReply}]
          /\ last' \in [Calls -> Statuses \cup {"none", "timeout", "socket"}]
          /\ busy' \in [Calls -> Nat]
      BY <2>3, <3>2 DEF ReceiveReply, NewCookies
    <3>4. url' \in [Calls -> Urls]
      BY <2>3, <3>2 DEF ReceiveReply, NextUrl, Urls, Locations
    <3>5. /\ pc' \in [Calls -> {"unmade", "waiting", "awaiting", "sleeping", "settled"}]
          /\ outcome' \in [Calls -> Outcomes]
          /\ currentConnectionCount' \in Int
      BY <2>3 DEF ReceiveReply, Retry, Settle, ReleaseSlot, Outcomes
    <3> QED
      BY <2>3, <3>3, <3>4, <3>5 DEF ReceiveReply, serverVars
  <2>4. ASSUME NEW c \in Calls, RequestTimeout(c)
        PROVE  TypeOK'
    BY <2>4 DEF RequestTimeout, Abandon, NextTimeout, Retry, Settle,
                ReleaseSlot, Outcomes, serverVars
  <2>5. ASSUME NEW c \in Calls, RequestError(c)
        PROVE  TypeOK'
    BY <2>5 DEF RequestError, Abandon, Settle, ReleaseSlot, Outcomes, serverVars
  <2>6. ASSUME NEW c \in Calls, Wake(c)
        PROVE  TypeOK'
    BY <2>6 DEF Wake, SendRequest, Settle, ReleaseSlot, Outcomes, Requests
  <2>7. ASSUME NEW r \in pending, NEW status \in Statuses,
               NEW location \in Locations, NEW body \in Bodies,
               Process(r, status, location, body)
        PROVE  TypeOK'
    <3>1. PICK issue \in {0, 1} :
            /\ sessions' = sessions + issue
            /\ reply' =
                 IF pc[r.call] = "awaiting" /\ sent[r.call] = r.nr
                 THEN [reply EXCEPT ![r.call] =
                        [status |-> status, location |-> location,
                         body |-> body, setCookie |-> issue * (sessions + 1)]]
                 ELSE reply
      BY <2>7 DEF Process
    <3>2. issue * (sessions + 1) \in Nat
      <4>1. CASE issue = 0
        BY <4>1
      <4>2. CASE issue = 1
        BY <4>2
      <4> QED
        BY <4>1, <4>2
    <3> DEFINE answer == [status |-> status, location |-> location,
                          body |-> body, setCookie |-> issue * (sessions + 1)]
    <3>3. answer \in Replies
      BY <3>2 DEF Replies
    <3>4. r.call \in Calls
      BY DEF Requests
    <3>5. reply' \in [Calls -> Replies \cup {NoReply}]
      <4>1. CASE reply' = [reply EXCEPT ![r.call] = answer]
        BY <3>3, <4>1
      <4>2. CASE reply' = reply
        BY <4>2
      <4> QED
        BY <3>1, <4>1, <4>2
    <3>6. sessions' \in Nat
      BY <3>1
    <3>7. effects' \in [Calls -> Nat] /\ pending' \subseteq Requests
      BY <2>7, <3>4 DEF Process
    <3> QED
      BY <2>7, <3>5, <3>6, <3>7 DEF Process, callVars
  <2>8. CASE UNCHANGED vars
    BY <2>8 DEF vars, callVars, serverVars
  <2> QED
    BY <2>1, <2>2, <2>3, <2>4, <2>5, <2>6, <2>7, <2>8
    DEF Next, Server, Quiet
<1> QED
  BY <1>1, <1>2, PTL DEF SafeSpec

-----------------------------------------------------------------------------
(* The slots.                                                              *)

(* There are finitely many holders of a slot.                              *)
LEMMA HoldersFinite == IsFiniteSet(Holders) /\ Cardinality(Holders) \in Nat
  BY ConnectionAssumption, FS_Subset, FS_CardinalityType DEF Holders

(* A call that enters the section between the increment and the decrement  *)
(* makes one holder more.                                                  *)
LEMMA OneMoreHolder ==
  ASSUME TypeOK, NEW c \in Calls, pc[c] \notin {"awaiting", "sleeping"},
         NEW s \in {"awaiting", "sleeping"}, pc' = [pc EXCEPT ![c] = s]
  PROVE  Cardinality(Holders') = Cardinality(Holders) + 1
<1>1. Holders' = Holders \cup {c} /\ c \notin Holders
  BY DEF Holders, TypeOK
<1> QED
  BY <1>1, HoldersFinite, FS_AddElement

(* A call that leaves the section makes one holder less, and there was one *)
(* at least.                                                               *)
LEMMA OneHolderLess ==
  ASSUME TypeOK, NEW c \in Calls, pc[c] \in {"awaiting", "sleeping"},
         pc' = [pc EXCEPT ![c] = "settled"]
  PROVE  /\ Cardinality(Holders') = Cardinality(Holders) - 1
         /\ Cardinality(Holders) >= 1
<1>0. \A d \in Calls : pc'[d] = IF d = c THEN "settled" ELSE pc[d]
  BY DEF TypeOK
<1>1. Holders' = Holders \ {c} /\ c \in Holders
  <2>1. c \in Holders /\ c \notin Holders'
    BY <1>0 DEF Holders
  <2>2. \A d \in Calls \ {c} : d \in Holders' <=> d \in Holders
    BY <1>0 DEF Holders
  <2>3. Holders \subseteq Calls /\ Holders' \subseteq Calls
    BY DEF Holders
  <2> QED
    BY <2>1, <2>2, <2>3
<1>2. Cardinality(Holders \ {c}) = Cardinality(Holders) - 1
  BY <1>1, HoldersFinite, FS_RemoveElement
<1>3. Cardinality(Holders \ {c}) \in Nat
  BY HoldersFinite, FS_RemoveElement, FS_CardinalityType
<1> QED
  BY <1>1, <1>2, <1>3, HoldersFinite

(* A call that moves inside the section, or outside of it, changes nothing.*)
LEMMA SameHolders ==
  ASSUME TypeOK, NEW c \in Calls, NEW s,
         pc[c] \in {"awaiting", "sleeping"} <=> s \in {"awaiting", "sleeping"},
         pc' = [pc EXCEPT ![c] = s]
  PROVE  Holders' = Holders
  BY DEF Holders, TypeOK

(* The three ways a step moves the counter and the holders together.       *)
LEMMA TakingASlot ==
  ASSUME TypeOK, SlotAccounting, NEW c \in Calls,
         pc[c] \in {"unmade", "waiting"}, HasRoom, TakeSlot, SendRequest(c)
  PROVE  SlotAccounting'
<1>1. pc' = [pc EXCEPT ![c] = "awaiting"]
  BY DEF SendRequest
<1>2. Cardinality(Holders') = Cardinality(Holders) + 1
  BY <1>1, OneMoreHolder
<1>3. Limited => /\ currentConnectionCount' = currentConnectionCount + 1
                 /\ currentConnectionCount < MaxConnections
  BY DEF HasRoom, TakeSlot
<1>4. Limited => currentConnectionCount' = Cardinality(Holders')
  BY <1>2, <1>3 DEF SlotAccounting
<1>5. Limited => currentConnectionCount' <= MaxConnections
  BY <1>3, ConnectionAssumption DEF TypeOK
<1> QED
  BY <1>4, <1>5 DEF SlotAccounting, Limited

LEMMA SettlingACall ==
  ASSUME TypeOK, SlotAccounting, NEW c \in Calls, NEW result,
         pc[c] \in {"awaiting", "sleeping"}, Settle(c, result)
  PROVE  SlotAccounting'
<1>1. Cardinality(Holders') = Cardinality(Holders) - 1
  BY OneHolderLess DEF Settle
<1> QED
  BY <1>1, HoldersFinite, ConnectionAssumption
  DEF SlotAccounting, Settle, ReleaseSlot, Limited, TypeOK

LEMMA KeepingTheSlot ==
  ASSUME SlotAccounting, Holders' = Holders, UNCHANGED currentConnectionCount
  PROVE  SlotAccounting'
  BY DEF SlotAccounting, Limited

LEMMA RetryingACall ==
  ASSUME TypeOK, SlotAccounting, NEW c \in Calls, pc[c] = "awaiting", Retry(c)
  PROVE  SlotAccounting'
<1>1. CASE sent[c] <= MaxRetries(c)
  <2>1. Holders' = Holders
    BY <1>1, SameHolders DEF Retry
  <2> QED
    BY <1>1, <2>1, KeepingTheSlot DEF Retry
<1>2. CASE ~(sent[c] <= MaxRetries(c))
  BY <1>2, SettlingACall DEF Retry
<1> QED
  BY <1>1, <1>2

LEMMA SlotAccountingStep == TypeOK /\ SlotAccounting /\ [Next]_vars => SlotAccounting'
<1> SUFFICES ASSUME TypeOK, SlotAccounting, [Next]_vars
             PROVE  SlotAccounting'
  OBVIOUS
<1>1. ASSUME NEW c \in Calls, MakeApiCall(c)
      PROVE  SlotAccounting'
  <2>1. CASE HasRoom /\ TakeSlot /\ SendRequest(c)
    BY <1>1, <2>1, TakingASlot DEF MakeApiCall
  <2>2. CASE /\ pc' = [pc EXCEPT ![c] = "waiting"]
             /\ UNCHANGED currentConnectionCount
    BY <1>1, <2>2, SameHolders, KeepingTheSlot DEF MakeApiCall
  <2> QED
    BY <1>1, <2>1, <2>2 DEF MakeApiCall
<1>2. ASSUME NEW c \in Calls, Poll(c)
      PROVE  SlotAccounting'
  BY <1>2, TakingASlot DEF Poll
<1>3. ASSUME NEW c \in Calls, ReceiveReply(c)
      PROVE  SlotAccounting'
  <2>1. \/ Retry(c)
        \/ \E result \in Outcomes : Settle(c, result)
    BY <1>3 DEF ReceiveReply, Outcomes
  <2> QED
    BY <1>3, <2>1, RetryingACall, SettlingACall DEF ReceiveReply
<1>4. ASSUME NEW c \in Calls, RequestTimeout(c)
      PROVE  SlotAccounting'
  BY <1>4, RetryingACall DEF RequestTimeout
<1>5. ASSUME NEW c \in Calls, RequestError(c)
      PROVE  SlotAccounting'
  BY <1>5, SettlingACall DEF RequestError
<1>6. ASSUME NEW c \in Calls, Wake(c)
      PROVE  SlotAccounting'
  <2>1. CASE Settle(c, "AssertionError")
    BY <1>6, <2>1, SettlingACall DEF Wake
  <2>2. CASE SendRequest(c) /\ UNCHANGED currentConnectionCount
    BY <1>6, <2>2, SameHolders, KeepingTheSlot DEF Wake, SendRequest
  <2> QED
    BY <1>6, <2>1, <2>2 DEF Wake
<1>7. ASSUME NEW r \in pending, NEW status \in Statuses,
             NEW location \in Locations, NEW body \in Bodies,
             Process(r, status, location, body)
      PROVE  SlotAccounting'
  BY <1>7, KeepingTheSlot DEF Process, callVars, Holders
<1>8. CASE UNCHANGED vars
  BY <1>8, KeepingTheSlot DEF vars, callVars, Holders
<1> QED
  BY <1>1, <1>2, <1>3, <1>4, <1>5, <1>6, <1>7, <1>8 DEF Next, Server, Quiet

(* currentConnectionCount is exactly the number of calls that hold a slot  *)
(* and respects maxConcurrentConnections: the asserts of makeApiCall()     *)
(* never fail, and no way out of it leaks a slot.                          *)
THEOREM SlotsAccounted == SafeSpec => []SlotAccounting
<1>1. Init => SlotAccounting
  <2> SUFFICES ASSUME Init
               PROVE  SlotAccounting
    OBVIOUS
  <2>1. Holders = {}
    BY DEF Init, Holders
  <2> QED
    BY <2>1, FS_EmptySet, ConnectionAssumption DEF Init, SlotAccounting, Limited
<1> QED
  BY <1>1, SlotAccountingStep, TypeCorrect, PTL DEF SafeSpec

-----------------------------------------------------------------------------
(* The requests of a call.                                                 *)

(* The retry loop: nothing is sent before a slot is taken, a call sleeps   *)
(* only while it has tries left.                                           *)
LoopInv ==
  \A c \in Calls :
    /\ pc[c] \in {"unmade", "waiting"} => sent[c] = 0
    /\ pc[c] = "sleeping" => sent[c] <= MaxRetries(c)
    /\ sent[c] <= MaxRetries(c) + 1

(* maxRetries is never negative.                                           *)
LEMMA MaxRetriesType == \A c \in Calls : MaxRetries(c) \in Nat
  BY ConnectionAssumption DEF MaxRetries

LEMMA LoopStep == TypeOK /\ LoopInv /\ [Next]_vars => LoopInv'
<1> SUFFICES ASSUME TypeOK, LoopInv, [Next]_vars
             PROVE  LoopInv'
  OBVIOUS
<1> USE MaxRetriesType DEF TypeOK, LoopInv
<1>1. ASSUME NEW c \in Calls, MakeApiCall(c)
      PROVE  LoopInv'
  BY <1>1 DEF MakeApiCall, SendRequest
<1>2. ASSUME NEW c \in Calls, Poll(c)
      PROVE  LoopInv'
  BY <1>2 DEF Poll, SendRequest
<1>3. ASSUME NEW c \in Calls, ReceiveReply(c)
      PROVE  LoopInv'
  BY <1>3 DEF ReceiveReply, Retry, Settle
<1>4. ASSUME NEW c \in Calls, RequestTimeout(c)
      PROVE  LoopInv'
  BY <1>4 DEF RequestTimeout, Retry, Settle
<1>5. ASSUME NEW c \in Calls, RequestError(c)
      PROVE  LoopInv'
  BY <1>5 DEF RequestError, Settle
<1>6. ASSUME NEW c \in Calls, Wake(c)
      PROVE  LoopInv'
  BY <1>6 DEF Wake, SendRequest, Settle
<1>7. ASSUME NEW r \in pending, NEW status \in Statuses,
             NEW location \in Locations, NEW body \in Bodies,
             Process(r, status, location, body)
      PROVE  LoopInv'
  BY <1>7 DEF Process, callVars
<1>8. CASE UNCHANGED vars
  BY <1>8 DEF vars, callVars
<1> QED
  BY <1>1, <1>2, <1>3, <1>4, <1>5, <1>6, <1>7, <1>8 DEF Next, Server, Quiet

LEMMA LoopBounded == SafeSpec => []LoopInv
<1>1. Init => LoopInv
  BY MaxRetriesType DEF Init, LoopInv
<1> QED
  BY <1>1, LoopStep, TypeCorrect, PTL DEF SafeSpec

LEMMA OutcomeStep == TypeOK /\ LoopInv /\ OutcomeFits /\ [Next]_vars => OutcomeFits'
<1> SUFFICES ASSUME TypeOK, LoopInv, OutcomeFits, [Next]_vars
             PROVE  OutcomeFits'
  OBVIOUS
<1> USE MaxRetriesType DEF TypeOK, OutcomeFits
<1>1. ASSUME NEW c \in Calls, MakeApiCall(c)
      PROVE  OutcomeFits'
  BY <1>1 DEF MakeApiCall, SendRequest
<1>2. ASSUME NEW c \in Calls, Poll(c)
      PROVE  OutcomeFits'
  BY <1>2 DEF Poll, SendRequest
<1>3. ASSUME NEW c \in Calls, ReceiveReply(c)
      PROVE  OutcomeFits'
  <2>1. reply[c].status \in Statuses
    BY <1>3 DEF ReceiveReply, Replies
  <2> QED
    BY <1>3, <2>1 DEF ReceiveReply, Retry, Settle, Statuses, LoopInv
<1>4. ASSUME NEW c \in Calls, RequestTimeout(c)
      PROVE  OutcomeFits'
  BY <1>4 DEF RequestTimeout, Retry, Settle, LoopInv
<1>5. ASSUME NEW c \in Calls, RequestError(c)
      PROVE  OutcomeFits'
  BY <1>5 DEF RequestError, Settle
<1>6. ASSUME NEW c \in Calls, Wake(c)
      PROVE  OutcomeFits'
  BY <1>6 DEF Wake, SendRequest, Settle
<1>7. ASSUME NEW r \in pending, NEW status \in Statuses,
             NEW location \in Locations, NEW body \in Bodies,
             Process(r, status, location, body)
      PROVE  OutcomeFits'
  BY <1>7 DEF Process, callVars
<1>8. CASE UNCHANGED vars
  BY <1>8 DEF vars, callVars
<1> QED
  BY <1>1, <1>2, <1>3, <1>4, <1>5, <1>6, <1>7, <1>8 DEF Next, Server, Quiet

(* What a caller is told agrees with what its last request came to, and a  *)
(* TimeoutError means that all maxRetries + 1 requests were spent.         *)
THEOREM OutcomesFit == SafeSpec => []OutcomeFits
<1>1. Init => OutcomeFits
  BY DEF Init, OutcomeFits
<1> QED
  BY <1>1, OutcomeStep, LoopBounded, TypeCorrect, PTL DEF SafeSpec

-----------------------------------------------------------------------------
(* The effects of a call on the server.                                    *)

RequestsOf(c) == {r \in pending : r.call = c}

(* A request takes effect at most once: those that did and those that may  *)
(* still do are among the requests that were sent.  A promised result      *)
(* stands for an effect.                                                   *)
EffectsInv ==
  /\ \A r \in pending : r.nr <= sent[r.call]
  /\ \A c \in Calls :
       /\ IsFiniteSet(RequestsOf(c))
       /\ effects[c] + Cardinality(RequestsOf(c)) <= sent[c]
       /\ reply[c] # NoReply /\ reply[c].status = "ok" => effects[c] >= 1
       /\ outcome[c] \in {"ok", "TypeError"} => effects[c] >= 1

(* A request that is sent is new to the server.                            *)
LEMMA SendingARequest ==
  ASSUME TypeOK, EffectsInv, NEW c \in Calls, SendRequest(c),
         UNCHANGED <<effects, reply>>,
         \A d \in Calls : outcome'[d] \in {"ok", "TypeError"} =>
                           outcome[d] \in {"ok", "TypeError"}
  PROVE  EffectsInv'
<1> DEFINE r == [call |-> c, nr |-> sent[c] + 1, cookie |-> cookies]
<1>1. /\ pending' = pending \cup {r}
      /\ sent' = [sent EXCEPT ![c] = @ + 1]
  BY DEF SendRequest
<1>2. r \notin pending
  BY DEF EffectsInv, TypeOK
<1>3. \A q \in pending' : q.nr <= sent'[q.call]
  BY <1>1 DEF EffectsInv, TypeOK, Requests
<1>4. ASSUME NEW d \in Calls
      PROVE  /\ IsFiniteSet(RequestsOf(d)')
             /\ effects'[d] + Cardinality(RequestsOf(d)') <= sent'[d]
  <2>1. CASE d = c
    <3>1. RequestsOf(c)' = RequestsOf(c) \cup {r} /\ r \notin RequestsOf(c)
      BY <1>1, <1>2 DEF RequestsOf
    <3>2. /\ IsFiniteSet(RequestsOf(c)')
          /\ Cardinality(RequestsOf(c)') = Cardinality(RequestsOf(c)) + 1
      BY <3>1, FS_AddElement DEF EffectsInv
    <3>3. Cardinality(RequestsOf(c)) \in Nat
      BY FS_CardinalityType DEF EffectsInv
    <3> QED
      BY <1>1, <2>1, <3>2, <3>3 DEF EffectsInv, TypeOK
  <2>2. CASE d # c
    <3>1. RequestsOf(d)' = RequestsOf(d)
      BY <1>1, <2>2 DEF RequestsOf
    <3> QED
      BY <1>1, <2>2, <3>1 DEF EffectsInv, TypeOK
  <2> QED
    BY <2>1, <2>2
<1> QED
  BY <1>3, <1>4 DEF EffectsInv

(* A step that neither sends nor processes a request.                      *)
LEMMA NoRequestMoves ==
  ASSUME EffectsInv, UNCHANGED <<pending, sent, effects>>,
         \A d \in Calls :
           /\ reply'[d] \in {reply[d], NoReply}
           /\ outcome'[d] \in {"ok", "TypeError"} => effects[d] >= 1
  PROVE  EffectsInv'
  BY DEF EffectsInv, RequestsOf

LEMMA ProcessingARequest ==
  ASSUME TypeOK, EffectsInv, NEW r \in pending, NEW status \in Statuses,
         NEW location \in Locations, NEW body \in Bodies,
         Process(r, status, location, body)
  PROVE  EffectsInv'
<1>1. /\ pending' = pending \ {r}
      /\ effects' = [effects EXCEPT ![r.call] = IF status = "ok" THEN @ + 1 ELSE @]
      /\ UNCHANGED <<sent, outcome>>
  BY DEF Process, callVars
<1>2. r.call \in Calls
  BY DEF TypeOK, Requests
<1>3. \A q \in pending' : q.nr <= sent'[q.call]
  BY <1>1 DEF EffectsInv
<1>4. ASSUME NEW d \in Calls
      PROVE  /\ IsFiniteSet(RequestsOf(d)')
             /\ effects'[d] + Cardinality(RequestsOf(d)') <= sent'[d]
  <2>1. Cardinality(RequestsOf(d)) \in Nat
    BY FS_CardinalityType DEF EffectsInv
  <2>2. CASE d = r.call
    <3>1. RequestsOf(d)' = RequestsOf(d) \ {r} /\ r \in RequestsOf(d)
      BY <1>1, <2>2 DEF RequestsOf
    <3>2. /\ IsFiniteSet(RequestsOf(d)')
          /\ Cardinality(RequestsOf(d)') = Cardinality(RequestsOf(d)) - 1
      BY <3>1, FS_RemoveElement DEF EffectsInv
    <3> QED
      BY <1>1, <2>1, <2>2, <3>2 DEF EffectsInv, TypeOK
  <2>3. CASE d # r.call
    <3>1. RequestsOf(d)' = RequestsOf(d)
      BY <1>1, <2>3 DEF RequestsOf
    <3> QED
      BY <1>1, <2>3, <3>1 DEF EffectsInv, TypeOK
  <2> QED
    BY <2>2, <2>3
<1>5. ASSUME NEW d \in Calls
      PROVE  /\ reply'[d] # NoReply /\ reply'[d].status = "ok" => effects'[d] >= 1
             /\ outcome'[d] \in {"ok", "TypeError"} => effects'[d] >= 1
  <2>1. effects'[d] >= effects[d] /\ (d = r.call /\ status = "ok" => effects'[d] >= 1)
    BY <1>1 DEF TypeOK
  <2>2. reply'[d] = reply[d] \/ (d = r.call /\ reply'[d].status = status)
    BY <1>2 DEF Process, TypeOK
  <2>3. reply'[d] # NoReply /\ reply'[d].status = "ok" => effects'[d] >= 1
    <3>1. effects[d] \in Nat /\ effects'[d] \in Nat
      BY <1>1, <1>2 DEF TypeOK
    <3>2. CASE reply'[d] = reply[d]
      <4>1. reply[d] # NoReply /\ reply[d].status = "ok" => effects[d] >= 1
        BY DEF EffectsInv
      <4> QED
        BY <2>1, <3>1, <3>2, <4>1
    <3>3. CASE d = r.call /\ reply'[d].status = status
      BY <2>1, <3>3
    <3> QED
      BY <2>2, <3>2, <3>3
  <2>4. outcome'[d] \in {"ok", "TypeError"} => effects'[d] >= 1
    BY <1>1, <2>1 DEF EffectsInv, TypeOK
  <2> QED
    BY <2>3, <2>4
<1> QED
  BY <1>3, <1>4, <1>5 DEF EffectsInv

LEMMA EffectsStep == TypeOK /\ EffectsInv /\ [Next]_vars => EffectsInv'
<1> SUFFICES ASSUME TypeOK, EffectsInv, [Next]_vars
             PROVE  EffectsInv'
  OBVIOUS
<1>1. ASSUME NEW c \in Calls, MakeApiCall(c)
      PROVE  EffectsInv'
  <2>1. CASE SendRequest(c)
    BY <1>1, <2>1, SendingARequest DEF MakeApiCall
  <2>2. CASE UNCHANGED <<sent, pending>>
    BY <1>1, <2>2, NoRequestMoves DEF MakeApiCall, EffectsInv
  <2> QED
    BY <1>1, <2>1, <2>2 DEF MakeApiCall
<1>2. ASSUME NEW c \in Calls, Poll(c)
      PROVE  EffectsInv'
  BY <1>2, SendingARequest DEF Poll
<1>3. ASSUME NEW c \in Calls, ReceiveReply(c)
      PROVE  EffectsInv'
  <2>1. \A d \in Calls : reply'[d] \in {reply[d], NoReply}
    BY <1>3 DEF ReceiveReply, TypeOK
  <2>2. \A d \in Calls : outcome'[d] \in {"ok", "TypeError"} =>
          \/ outcome[d] \in {"ok", "TypeError"}
          \/ d = c /\ reply[c] # NoReply /\ reply[c].status = "ok"
    BY <1>3 DEF ReceiveReply, Retry, Settle, TypeOK
  <2> QED
    BY <1>3, <2>1, <2>2, NoRequestMoves DEF ReceiveReply, serverVars, EffectsInv
<1>4. ASSUME NEW c \in Calls, RequestTimeout(c)
      PROVE  EffectsInv'
  <2>1. \A d \in Calls : /\ reply'[d] \in {reply[d], NoReply}
                         /\ outcome'[d] \in {"ok", "TypeError"} =>
                           outcome[d] \in {"ok", "TypeError"}
    BY <1>4 DEF RequestTimeout, Abandon, Retry, Settle, TypeOK
  <2> QED
    BY <1>4, <2>1, NoRequestMoves DEF RequestTimeout, serverVars, EffectsInv
<1>5. ASSUME NEW c \in Calls, RequestError(c)
      PROVE  EffectsInv'
  <2>1. \A d \in Calls : /\ reply'[d] \in {reply[d], NoReply}
                         /\ outcome'[d] \in {"ok", "TypeError"} =>
                           outcome[d] \in {"ok", "TypeError"}
    BY <1>5 DEF RequestError, Abandon, Settle, TypeOK
  <2> QED
    BY <1>5, <2>1, NoRequestMoves DEF RequestError, serverVars, EffectsInv
<1>6. ASSUME NEW c \in Calls, Wake(c)
      PROVE  EffectsInv'
  <2>1. \A d \in Calls : outcome'[d] \in {"ok", "TypeError"} =>
                           outcome[d] \in {"ok", "TypeError"}
    <3>1. CASE outcome' = outcome
      BY <3>1
    <3>2. CASE outcome' = [outcome EXCEPT ![c] = "AssertionError"]
      BY <3>2 DEF TypeOK
    <3> QED
      BY <1>6, <3>1, <3>2 DEF Wake, Settle
  <2>2. CASE SendRequest(c)
    BY <1>6, <2>1, <2>2, SendingARequest DEF Wake
  <2>3. CASE UNCHANGED <<sent, pending>>
    BY <1>6, <2>1, <2>3, NoRequestMoves DEF Wake, EffectsInv
  <2> QED
    BY <1>6, <2>2, <2>3 DEF Wake
<1>7. ASSUME NEW r \in pending, NEW status \in Statuses,
             NEW location \in Locations, NEW body \in Bodies,
             Process(r, status, location, body)
      PROVE  EffectsInv'
  BY <1>7, ProcessingARequest
<1>8. CASE UNCHANGED vars
  BY <1>8, NoRequestMoves DEF vars, callVars, serverVars, EffectsInv
<1> QED
  BY <1>1, <1>2, <1>3, <1>4, <1>5, <1>6, <1>7, <1>8 DEF Next, Server, Quiet

(* A call sends at most maxRetries + 1 requests; one that is not a GET     *)
(* takes effect at most once, however late the server gets to it, and a    *)
(* call that was answered with a 2xx has taken effect.                     *)
THEOREM BudgetKept == SafeSpec => []RequestBudget
<1>1. Init => EffectsInv
  <2> SUFFICES ASSUME Init
               PROVE  EffectsInv
    OBVIOUS
  <2>1. \A c \in Calls : RequestsOf(c) = {}
    BY DEF Init, RequestsOf
  <2> QED
    BY <2>1, FS_EmptySet DEF Init, EffectsInv
<1>2. TypeOK /\ LoopInv /\ EffectsInv => RequestBudget
  <2> SUFFICES ASSUME TypeOK, LoopInv, EffectsInv, NEW c \in Calls
               PROVE  /\ sent[c] <= MaxRetries(c) + 1
                      /\ effects[c] <= sent[c]
                      /\ Method[c] # "GET" => effects[c] <= 1
                      /\ outcome[c] \in {"ok", "TypeError"} => effects[c] >= 1
    BY DEF RequestBudget
  <2>1. Cardinality(RequestsOf(c)) \in Nat
    BY FS_CardinalityType DEF EffectsInv
  <2>2. effects[c] <= sent[c]
    BY <2>1 DEF EffectsInv, TypeOK
  <2>3. sent[c] <= MaxRetries(c) + 1 /\ (Method[c] # "GET" => sent[c] <= 1)
    BY DEF LoopInv, MaxRetries
  <2> QED
    BY <2>2, <2>3 DEF EffectsInv, TypeOK
<1> QED
  BY <1>1, <1>2, EffectsStep, LoopBounded, TypeCorrect, PTL DEF SafeSpec

-----------------------------------------------------------------------------
(* A Connection implements the abstract pool of calls.                     *)

(* The calls the pool sees in progress are those that hold a slot.         *)
LEMMA ActiveAreHolders == TypeOK => Pool!Active = Holders
  BY DEF TypeOK, Pool!Active, PoolStage, StageOf, Holders

(* The code finds room exactly when the pool has a free slot.              *)
LEMMA RoomIsFree == TypeOK /\ SlotAccounting => (HasRoom <=> Pool!Free)
<1> SUFFICES ASSUME TypeOK, SlotAccounting
             PROVE  HasRoom <=> Pool!Free
  OBVIOUS
<1>1. Pool!Active = Holders
  BY ActiveAreHolders
<1>2. Pool!Cardinality(Holders) = Cardinality(Holders)
  BY DEF Cardinality, Pool!Cardinality
<1>3. Pool!Free <=> (Limited => Cardinality(Holders) < MaxConnections)
  BY <1>1, <1>2 DEF Pool!Free, Limited
<1>4. Limited => currentConnectionCount = Cardinality(Holders)
  BY DEF SlotAccounting
<1> QED
  BY <1>3, <1>4 DEF HasRoom

LEMMA StageOfMoved ==
  ASSUME TypeOK, NEW c \in Calls, NEW s, pc' = [pc EXCEPT ![c] = s]
  PROVE  PoolStage' = [PoolStage EXCEPT ![c] = StageOf(s)]
  BY DEF TypeOK, PoolStage

LEMMA AdmissionIsAdmit ==
  ASSUME TypeOK, SlotAccounting, NEW c \in Calls,
         pc[c] \in {"unmade", "waiting"}, HasRoom, SendRequest(c)
  PROVE  Pool!Admit(c)
<1>1. PoolStage[c] \in {"unmade", "queued"}
  BY DEF PoolStage, StageOf
<1>2. Pool!Free
  BY RoomIsFree
<1>3. pc' = [pc EXCEPT ![c] = "awaiting"]
  BY DEF SendRequest
<1>4. PoolStage' = [PoolStage EXCEPT ![c] = "active"]
  BY <1>3, StageOfMoved DEF StageOf
<1> QED
  BY <1>1, <1>2, <1>4 DEF Pool!Admit

LEMMA SettlingIsAnswer ==
  ASSUME TypeOK, NEW c \in Calls, NEW result,
         pc[c] \in {"awaiting", "sleeping"}, Settle(c, result)
  PROVE  Pool!Answer(c)
<1>1. PoolStage[c] = "active"
  BY DEF PoolStage, StageOf
<1>2. pc' = [pc EXCEPT ![c] = "settled"]
  BY DEF Settle
<1>3. PoolStage' = [PoolStage EXCEPT ![c] = "answered"]
  BY <1>2, StageOfMoved DEF StageOf
<1> QED
  BY <1>1, <1>3 DEF Pool!Answer

LEMMA StayingIsStuttering ==
  ASSUME TypeOK, NEW c \in Calls, NEW s \in {"awaiting", "sleeping"},
         pc[c] \in {"awaiting", "sleeping"}, pc' = [pc EXCEPT ![c] = s]
  PROVE  UNCHANGED PoolStage
  BY DEF TypeOK, PoolStage, StageOf

LEMMA RetryingIsAnswerOrStuttering ==
  ASSUME TypeOK, NEW c \in Calls, pc[c] = "awaiting", Retry(c)
  PROVE  Pool!Answer(c) \/ UNCHANGED PoolStage
<1>1. CASE sent[c] <= MaxRetries(c)
  BY <1>1, StayingIsStuttering DEF Retry
<1>2. CASE ~(sent[c] <= MaxRetries(c))
  BY <1>2, SettlingIsAnswer DEF Retry
<1> QED
  BY <1>1, <1>2

LEMMA PoolStep == TypeOK /\ SlotAccounting /\ [Next]_vars => [Pool!Next]_PoolStage
<1> SUFFICES ASSUME TypeOK, SlotAccounting, [Next]_vars
             PROVE  [Pool!Next]_PoolStage
  OBVIOUS
<1>1. ASSUME NEW c \in Calls, MakeApiCall(c)
      PROVE  Pool!Next
  <2>1. CASE HasRoom /\ SendRequest(c)
    BY <1>1, <2>1, AdmissionIsAdmit DEF MakeApiCall, Pool!Next
  <2>2. CASE ~HasRoom /\ pc' = [pc EXCEPT ![c] = "waiting"]
    <3>1. PoolStage[c] = "unmade"
      BY <1>1 DEF MakeApiCall, PoolStage, StageOf
    <3>2. ~Pool!Free
      BY <2>2, RoomIsFree
    <3>3. PoolStage' = [PoolStage EXCEPT ![c] = "queued"]
      BY <2>2, StageOfMoved DEF StageOf
    <3> QED
      BY <3>1, <3>2, <3>3 DEF Pool!Queue, Pool!Next
  <2> QED
    BY <1>1, <2>1, <2>2 DEF MakeApiCall
<1>2. ASSUME NEW c \in Calls, Poll(c)
      PROVE  Pool!Next
  BY <1>2, AdmissionIsAdmit DEF Poll, Pool!Next
<1>3. ASSUME NEW c \in Calls, ReceiveReply(c)
      PROVE  Pool!Next \/ UNCHANGED PoolStage
  <2>1. \/ Retry(c)
        \/ \E result \in Outcomes : Settle(c, result)
    BY <1>3 DEF ReceiveReply, Outcomes
  <2> QED
    BY <1>3, <2>1, RetryingIsAnswerOrStuttering, SettlingIsAnswer
    DEF ReceiveReply, Pool!Next
<1>4. ASSUME NEW c \in Calls, RequestTimeout(c)
      PROVE  Pool!Next \/ UNCHANGED PoolStage
  BY <1>4, RetryingIsAnswerOrStuttering DEF RequestTimeout, Pool!Next
<1>5. ASSUME NEW c \in Calls, RequestError(c)
      PROVE  Pool!Next
  BY <1>5, SettlingIsAnswer DEF RequestError, Pool!Next
<1>6. ASSUME NEW c \in Calls, Wake(c)
      PROVE  Pool!Next \/ UNCHANGED PoolStage
  <2>1. CASE Settle(c, "AssertionError")
    BY <1>6, <2>1, SettlingIsAnswer DEF Wake, Pool!Next
  <2>2. CASE SendRequest(c)
    BY <1>6, <2>2, StayingIsStuttering DEF Wake, SendRequest
  <2> QED
    BY <1>6, <2>1, <2>2 DEF Wake
<1>7. ASSUME NEW r \in pending, NEW status \in Statuses,
             NEW location \in Locations, NEW body \in Bodies,
             Process(r, status, location, body)
      PROVE  UNCHANGED PoolStage
  BY <1>7 DEF Process, callVars, PoolStage
<1>8. CASE UNCHANGED vars
  BY <1>8 DEF vars, callVars, PoolStage
<1> QED
  BY <1>1, <1>2, <1>3, <1>4, <1>5, <1>6, <1>7, <1>8 DEF Next, Server, Quiet

(* Every behaviour of a Connection is one of the pool of calls: a call is  *)
(* admitted only below the limit and answered at most once.  (That each is *)
(* answered eventually is a liveness property and left to TLC.)            *)
THEOREM SafelyImplementsPool == SafeSpec => Pool!SafeSpec
<1>1. Init => Pool!Init
  BY DEF Init, Pool!Init, PoolStage, StageOf
<1> QED
  BY <1>1, PoolStep, TypeCorrect, SlotsAccounted, PTL DEF SafeSpec, Pool!SafeSpec

-----------------------------------------------------------------------------
(* The sessions the server has issued.                                     *)

(* Requests without a cookie whose answer nobody waits for any more.       *)
Forgotten ==
  {r \in pending : /\ r.cookie = NoSession
                   /\ ~(pc[r.call] = "awaiting" /\ r.nr = sent[r.call])}

(* Calls whose current request, without a cookie, the server has not       *)
(* processed yet, and those to which it has issued a session in an answer  *)
(* that is on its way.                                                     *)
Asking ==
  {c \in Calls : /\ pc[c] = "awaiting"
                 /\ [call |-> c, nr |-> sent[c], cookie |-> NoSession] \in pending}
Offered == {c \in Calls : reply[c] # NoReply /\ reply[c].setCookie # NoSession}

(* The most calls that can be in progress.                                 *)
Slots == IF Limited THEN MaxConnections ELSE Cardinality(Calls)

(* A request is sent once, and its answer is there only once it has been   *)
(* processed.                                                              *)
AnswersInv ==
  /\ IsFiniteSet(pending)
  /\ \A r \in pending : r.nr <= sent[r.call]
  /\ \A q, r \in pending : q.call = r.call /\ q.nr = r.nr => q = r
  /\ \A c \in Calls :
       reply[c] # NoReply =>
         /\ pc[c] = "awaiting"
         /\ \A r \in pending : r.call = c => r.nr # sent[c]

(* As long as no session has arrived, each one issued was given up or is   *)
(* on its way; afterwards only requests sent before can start another one. *)
SessionInv ==
  /\ cookies = NoSession =>
       sessions + Cardinality(Forgotten) <= lost + Cardinality(Offered)
  /\ cookies # NoSession =>
       sessions + Cardinality(Forgotten) + Cardinality(Asking) <= lost + Slots

(* Only what is in progress is asking or has been offered a session.       *)
LEMMA CountsFit ==
  ASSUME TypeOK, SlotAccounting, AnswersInv
  PROVE  /\ IsFiniteSet(Forgotten) /\ Cardinality(Forgotten) \in Nat
         /\ IsFiniteSet(Asking) /\ Cardinality(Asking) \in Nat
         /\ IsFiniteSet(Offered) /\ Cardinality(Offered) \in Nat
         /\ Asking \cap Offered = {}
         /\ Cardinality(Asking) + Cardinality(Offered) <= Slots
         /\ Slots \in Int
<1>1. IsFiniteSet(Forgotten) /\ Cardinality(Forgotten) \in Nat
  <2>1. Forgotten \in SUBSET pending
    BY DEF Forgotten
  <2> QED
    BY <2>1, FS_Subset, FS_CardinalityType DEF AnswersInv
<1>2. Asking \in SUBSET Calls /\ Offered \in SUBSET Calls /\ Holders \in SUBSET Calls
  BY DEF Asking, Offered, Holders
<1>3. /\ IsFiniteSet(Asking) /\ Cardinality(Asking) \in Nat
      /\ IsFiniteSet(Offered) /\ Cardinality(Offered) \in Nat
  BY <1>2, FS_Subset, FS_CardinalityType, ConnectionAssumption
<1>4. Asking \cap Offered = {}
  BY DEF Asking, Offered, AnswersInv
<1>5. Cardinality(Asking \cup Offered) = Cardinality(Asking) + Cardinality(Offered)
  <2>1. Cardinality(Asking \cup Offered)
          = Cardinality(Asking) + Cardinality(Offered) - Cardinality({})
    BY <1>3, <1>4, FS_Union
  <2> QED
    BY <1>3, <2>1, FS_EmptySet
<1>6. Asking \cup Offered \in SUBSET Holders
  BY DEF Asking, Offered, Holders, AnswersInv
<1>7. /\ Cardinality(Asking \cup Offered) <= Cardinality(Holders)
      /\ Cardinality(Holders) <= Cardinality(Calls)
      /\ Cardinality(Calls) \in Nat
  BY <1>2, <1>6, HoldersFinite, FS_Subset, FS_CardinalityType, ConnectionAssumption
<1>8. Cardinality(Holders) <= Slots /\ Slots \in Int
  BY <1>7, ConnectionAssumption DEF Slots, SlotAccounting, Limited
<1> QED
  BY <1>1, <1>3, <1>4, <1>5, <1>7, <1>8, HoldersFinite

(* A request that is sent is the current one of its call.                  *)
LEMMA SendingAsks ==
  ASSUME TypeOK, AnswersInv, SessionInv, NEW c \in Calls, pc[c] # "awaiting",
         SendRequest(c), UNCHANGED <<reply, cookies, sessions, lost>>
  PROVE  AnswersInv' /\ SessionInv'
<1> DEFINE r == [call |-> c, nr |-> sent[c] + 1, cookie |-> cookies]
<1>1. /\ pending' = pending \cup {r}
      /\ sent'[c] = sent[c] + 1 /\ pc'[c] = "awaiting"
      /\ \A d \in Calls \ {c} : sent'[d] = sent[d] /\ pc'[d] = pc[d]
  BY DEF SendRequest, TypeOK
<1>2. \A q \in pending : /\ q.call \in Calls /\ q.nr \in Nat
                         /\ q.call = c => q.nr <= sent[c]
  BY DEF TypeOK, Requests, AnswersInv
<1>3. sent[c] \in Nat /\ r.call = c /\ r.nr = sent[c] + 1 /\ r.cookie = cookies
  BY DEF TypeOK
<1>4. reply[c] = NoReply
  BY DEF AnswersInv
<1>5. AnswersInv'
  <2>1. IsFiniteSet(pending')
    BY <1>1, FS_AddElement DEF AnswersInv
  <2>2. \A q \in pending' : q.nr <= sent'[q.call]
    BY <1>1, <1>2, <1>3 DEF AnswersInv
  <2>3. \A p, q \in pending' : p.call = q.call /\ p.nr = q.nr => p = q
    BY <1>1, <1>2, <1>3 DEF AnswersInv
  <2>4. \A d \in Calls : reply'[d] # NoReply =>
          /\ pc'[d] = "awaiting"
          /\ \A q \in pending' : q.call = d => q.nr # sent'[d]
    BY <1>1, <1>2, <1>3, <1>4 DEF AnswersInv
  <2> HIDE DEF r
  <2> QED
    BY <2>1, <2>2, <2>3, <2>4 DEF AnswersInv
<1>6. Forgotten' = Forgotten /\ Offered' = Offered
  <2>1. \A q \in pending :
          q.nr = sent'[q.call] /\ pc'[q.call] = "awaiting"
            <=> q.nr = sent[q.call] /\ pc[q.call] = "awaiting"
    BY <1>1, <1>2, <1>3
  <2>2. Forgotten' = Forgotten
    BY <1>1, <1>3, <2>1 DEF Forgotten
  <2> QED
    BY <2>2 DEF Offered
<1>7. cookies # NoSession => Asking' = Asking
  <2> SUFFICES ASSUME cookies # NoSession
               PROVE  Asking' = Asking
    OBVIOUS
  <2>1. [call |-> c, nr |-> sent[c] + 1, cookie |-> NoSession] \notin pending'
    BY <1>1, <1>2, <1>3
  <2>2. c \notin Asking' /\ c \notin Asking
    BY <1>1, <2>1 DEF Asking
  <2>3. \A d \in Calls \ {c} :
          [call |-> d, nr |-> sent[d], cookie |-> NoSession] \in pending'
            <=> [call |-> d, nr |-> sent[d], cookie |-> NoSession] \in pending
    BY <1>1
  <2> HIDE DEF r
  <2>4. \A d \in Calls \ {c} : d \in Asking' <=> d \in Asking
    BY <1>1, <2>3 DEF Asking
  <2>5. Asking' \subseteq Calls /\ Asking \subseteq Calls
    BY DEF Asking
  <2> QED
    BY <2>2, <2>4, <2>5
<1> QED
  BY <1>5, <1>6, <1>7 DEF SessionInv, Slots, Limited

(* What is given up is counted, also if a session comes of it.             *)
LEMMA AbandoningCounts ==
  ASSUME TypeOK, SlotAccounting, AnswersInv, SessionInv, NEW c \in Calls,
         pc[c] = "awaiting", NEW s, s # "awaiting", pc' = [pc EXCEPT ![c] = s],
         Abandon(c), UNCHANGED <<sent, cookies, sessions, pending>>
  PROVE  AnswersInv' /\ SessionInv'
<1> DEFINE r == [call |-> c, nr |-> sent[c], cookie |-> NoSession]
<1>1. /\ pc'[c] = s /\ reply'[c] = NoReply
      /\ \A d \in Calls \ {c} : pc'[d] = pc[d] /\ reply'[d] = reply[d]
  BY DEF Abandon, TypeOK
<1>2. AnswersInv'
  BY <1>1 DEF AnswersInv
<1>3. lost' = IF c \in Asking \cup Offered THEN lost + 1 ELSE lost
  BY DEF Abandon, Asking, Offered
<1>4. Asking' = Asking \ {c} /\ Offered' = Offered \ {c}
  BY <1>1 DEF Asking, Offered
<1>5. Forgotten' = IF c \in Asking THEN Forgotten \cup {r} ELSE Forgotten
  <2>1. \A q \in pending : q.call \in Calls
    BY DEF TypeOK, Requests
  <2>2. \A q \in pending : q.call = c /\ q.nr = sent[c] /\ q.cookie = NoSession <=> q = r
    BY DEF TypeOK, Requests
  <2>3. c \in Asking <=> r \in pending
    BY DEF Asking
  <2>4. \A q \in pending :
          q \in Forgotten' <=> q \in Forgotten \/ q = r
    BY <1>1, <2>1, <2>2 DEF Forgotten
  <2>5. Forgotten \subseteq pending /\ Forgotten' \subseteq pending
    BY DEF Forgotten
  <2> HIDE DEF r
  <2> QED
    BY <2>3, <2>4, <2>5
<1>6. r \notin Forgotten
  BY DEF Forgotten
<1>7. /\ Cardinality(Asking') = IF c \in Asking THEN Cardinality(Asking) - 1 ELSE Cardinality(Asking)
      /\ Cardinality(Offered') = IF c \in Offered THEN Cardinality(Offered) - 1 ELSE Cardinality(Offered)
  BY <1>4, CountsFit, FS_RemoveElement
<1>8. Cardinality(Forgotten') = IF c \in Asking THEN Cardinality(Forgotten) + 1 ELSE Cardinality(Forgotten)
  <2> HIDE DEF r
  <2> QED
    BY <1>5, <1>6, CountsFit, FS_AddElement
<1>9. SessionInv'
  <2>1. lost \in Nat /\ sessions \in Nat /\ Slots' = Slots /\ cookies' = cookies /\ sessions' = sessions
    BY DEF TypeOK, Slots, Limited
  <2>2. ~(c \in Asking /\ c \in Offered)
    BY CountsFit
  <2> QED
    BY <1>3, <1>7, <1>8, <2>1, <2>2, CountsFit DEF SessionInv
<1> QED
  BY <1>2, <1>9

(* The first cookie that arrives is sent with every later request.         *)
LEMMA ReceivingStarts ==
  ASSUME TypeOK, SlotAccounting, AnswersInv, SessionInv, NEW c \in Calls,
         ReceiveReply(c)
  PROVE  AnswersInv' /\ SessionInv'
<1>1. /\ pc[c] = "awaiting" /\ reply[c] # NoReply
      /\ cookies' = NewCookies(reply[c])
      /\ reply' = [reply EXCEPT ![c] = NoReply]
      /\ UNCHANGED <<sent, lost, pending, sessions, effects>>
  BY DEF ReceiveReply, serverVars
<1>2. PICK s \in {"sleeping", "settled"} : pc' = [pc EXCEPT ![c] = s]
  BY DEF ReceiveReply, Retry, Settle
<1>3. /\ pc'[c] = s /\ reply'[c] = NoReply
      /\ \A d \in Calls \ {c} : pc'[d] = pc[d] /\ reply'[d] = reply[d]
  BY <1>1, <1>2 DEF TypeOK
<1>4. AnswersInv'
  BY <1>1, <1>2, <1>3 DEF AnswersInv
<1>5. \A q \in pending : q.call = c => q.nr # sent[c]
  BY <1>1 DEF AnswersInv
<1>6. Forgotten' = Forgotten
  <2>1. \A q \in pending : q.call \in Calls
    BY DEF TypeOK, Requests
  <2> QED
    BY <1>1, <1>2, <1>3, <1>5, <2>1 DEF Forgotten
<1>7. Asking' = Asking
  <2>1. c \notin Asking /\ c \notin Asking'
    BY <1>1, <1>2, <1>3, <1>5 DEF Asking
  <2>2. \A d \in Calls \ {c} : d \in Asking' <=> d \in Asking
    BY <1>1, <1>3 DEF Asking
  <2>3. Asking' \subseteq Calls /\ Asking \subseteq Calls
    BY DEF Asking
  <2> QED
    BY <2>1, <2>2, <2>3
<1>8. Offered' = Offered \ {c}
  BY <1>3 DEF Offered
<1>9. c \in Offered <=> reply[c].setCookie # NoSession
  BY <1>1 DEF Offered
<1>10. Cardinality(Offered') = IF c \in Offered THEN Cardinality(Offered) - 1 ELSE Cardinality(Offered)
  BY <1>8, CountsFit, FS_RemoveElement
<1>11. SessionInv'
  <2>1. lost \in Nat /\ sessions \in Nat /\ Slots' = Slots
    BY DEF TypeOK, Slots, Limited
  <2>2. CASE cookies' = NoSession
    <3>1. cookies = NoSession /\ c \notin Offered
      BY <1>1, <1>9, <2>2 DEF NewCookies
    <3> QED
      BY <1>1, <1>6, <1>10, <2>1, <2>2, <3>1, CountsFit DEF SessionInv
  <2>3. CASE cookies' # NoSession /\ cookies = NoSession
    BY <1>1, <1>6, <1>7, <2>1, <2>3, CountsFit DEF SessionInv
  <2>4. CASE cookies' # NoSession /\ cookies # NoSession
    BY <1>1, <1>6, <1>7, <2>1, <2>4, CountsFit DEF SessionInv
  <2> QED
    BY <2>2, <2>3, <2>4
<1> QED
  BY <1>4, <1>11

(* The server starts a session only for a request without a cookie.        *)
LEMMA ProcessingIssues ==
  ASSUME TypeOK, SlotAccounting, AnswersInv, SessionInv, NEW r \in pending,
         NEW status \in Statuses, NEW location \in Locations, NEW body \in Bodies,
         Process(r, status, location, body)
  PROVE  AnswersInv' /\ SessionInv'
<1> DEFINE c == r.call
           current == pc[c] = "awaiting" /\ sent[c] = r.nr
<1>1. /\ c \in Calls /\ r.nr \in Nat /\ r.cookie \in Nat
      /\ r = [call |-> c, nr |-> r.nr, cookie |-> r.cookie]
      /\ \A q \in pending : q.call \in Calls
  BY DEF TypeOK, Requests
<1>2. PICK issue \in {0, 1} :
        /\ r.cookie # NoSession => issue = 0
        /\ sessions' = sessions + issue
        /\ reply' =
             IF current
             THEN [reply EXCEPT ![c] =
                    [status |-> status, location |-> location, body |-> body,
                     setCookie |-> issue * (sessions + 1)]]
             ELSE reply
  BY DEF Process
<1>3. pending' = pending \ {r} /\ UNCHANGED <<pc, sent, cookies, lost>>
  BY DEF Process, callVars
<1>4. issue * (sessions + 1) = NoSession <=> issue = 0
  BY DEF TypeOK, NoSession
<1>5. /\ current => (reply'[c].setCookie = NoSession <=> issue = 0)

      /\ current /\ issue = 1 => reply'[c] # NoReply
      /\ current => reply[c] = NoReply
      /\ \A d \in Calls : d # c \/ ~current => reply'[d] = reply[d]
  <2>1. current => reply'[c] = [status |-> status, location |-> location, body |-> body,
                                setCookie |-> issue * (sessions + 1)]
    BY <1>1, <1>2 DEF TypeOK
  <2>2. current => reply'[c] # NoReply
    BY <2>1 DEF NoReply
  <2>3. current => reply[c] = NoReply
    BY <1>1 DEF AnswersInv
  <2>4. current => (reply'[c].setCookie = NoSession <=> issue = 0)
    BY <1>4, <2>1
  <2> QED
    BY <1>2, <2>2, <2>3, <2>4 DEF TypeOK
<1>6. AnswersInv'
  <2>1. IsFiniteSet(pending')
    BY <1>3, FS_RemoveElement DEF AnswersInv
  <2>2. ASSUME NEW d \in Calls, reply'[d] # NoReply
        PROVE  /\ pc'[d] = "awaiting"
               /\ \A q \in pending' : q.call = d => q.nr # sent'[d]
    <3>1. CASE d = c /\ current
      BY <1>3, <3>1 DEF AnswersInv
    <3>2. CASE d # c \/ ~current
      BY <1>3, <1>5, <2>2, <3>2 DEF AnswersInv
    <3> QED
      BY <3>1, <3>2
  <2> QED
    BY <1>3, <2>1, <2>2 DEF AnswersInv
<1>7. /\ lost \in Nat /\ sessions \in Nat /\ Slots' = Slots
      /\ UNCHANGED <<cookies, lost>> /\ sessions' = sessions + issue
  BY <1>2, <1>3 DEF TypeOK, Slots, Limited
<1>8. Forgotten' = IF r.cookie = NoSession /\ ~current THEN Forgotten \ {r} ELSE Forgotten
  BY <1>1, <1>3 DEF Forgotten
<1>9. r.cookie = NoSession /\ ~current => r \in Forgotten
  BY DEF Forgotten
<1>10. Asking' = IF r.cookie = NoSession /\ current THEN Asking \ {c} ELSE Asking
  <2>1. ASSUME NEW d \in Calls, pc[d] = "awaiting"
        PROVE  [call |-> d, nr |-> sent[d], cookie |-> NoSession] = r
                 <=> d = c /\ r.cookie = NoSession /\ current
    BY <1>1, <2>1
  <2>2. \A d \in Calls : d \in Asking' <=>
          d \in Asking /\ ~(d = c /\ r.cookie = NoSession /\ current)
    BY <1>3, <2>1 DEF Asking
  <2>3. Asking' \subseteq Calls /\ Asking \subseteq Calls
    BY DEF Asking
  <2> HIDE DEF c, current
  <2> QED
    BY <2>2, <2>3
<1>11. r.cookie = NoSession /\ current => c \in Asking
  BY <1>1 DEF Asking
<1>12. Offered' = IF current /\ issue = 1 THEN Offered \cup {c} ELSE Offered
  <2>1. current => (c \in Offered' <=> issue = 1) /\ c \notin Offered
    BY <1>1, <1>5 DEF Offered
  <2>2. \A d \in Calls : d # c \/ ~current => (d \in Offered' <=> d \in Offered)
    BY <1>5 DEF Offered
  <2>3. Offered' \subseteq Calls /\ Offered \subseteq Calls
    BY DEF Offered
  <2> HIDE DEF c, current
  <2> QED
    BY <1>1, <2>1, <2>2, <2>3
<1>13. current => c \notin Offered
  BY <1>5 DEF Offered
<1> HIDE DEF c, current
<1>14. Cardinality(Forgotten') = IF r.cookie = NoSession /\ ~current
                                 THEN Cardinality(Forgotten) - 1 ELSE Cardinality(Forgotten)
  BY <1>8, <1>9, CountsFit, FS_RemoveElement
<1>15. Cardinality(Asking') = IF r.cookie = NoSession /\ current
                              THEN Cardinality(Asking) - 1 ELSE Cardinality(Asking)
  BY <1>10, <1>11, CountsFit, FS_RemoveElement
<1>16. Cardinality(Offered') = IF current /\ issue = 1
                               THEN Cardinality(Offered) + 1 ELSE Cardinality(Offered)
  BY <1>12, <1>13, CountsFit, FS_AddElement
<1>17. SessionInv'
  BY <1>2, <1>7, <1>14, <1>15, <1>16, CountsFit DEF SessionInv
<1> QED
  BY <1>6, <1>17

(* A call that sleeps, waits or ends between two requests changes nothing. *)
LEMMA NoRequestInvolved ==
  ASSUME TypeOK, AnswersInv, SessionInv,
         UNCHANGED <<sent, pending, reply, cookies, sessions, lost>>,
         \A d \in Calls : pc'[d] = "awaiting" <=> pc[d] = "awaiting"
  PROVE  AnswersInv' /\ SessionInv'
<1>1. AnswersInv'
  BY DEF AnswersInv
<1>2. \A q \in pending : q.call \in Calls
  BY DEF TypeOK, Requests
<1>3. Forgotten' = Forgotten /\ Asking' = Asking /\ Offered' = Offered
  BY <1>2 DEF Forgotten, Asking, Offered
<1> QED
  BY <1>1, <1>3 DEF SessionInv, Slots, Limited

LEMMA SessionStep ==
  TypeOK /\ SlotAccounting /\ AnswersInv /\ SessionInv /\ [Next]_vars
    => AnswersInv' /\ SessionInv'
<1> SUFFICES ASSUME TypeOK, SlotAccounting, AnswersInv, SessionInv, [Next]_vars
             PROVE  AnswersInv' /\ SessionInv'
  OBVIOUS
<1>1. ASSUME NEW c \in Calls, MakeApiCall(c)
      PROVE  AnswersInv' /\ SessionInv'
  <2>1. CASE SendRequest(c)
    BY <1>1, <2>1, SendingAsks DEF MakeApiCall
  <2>2. CASE pc' = [pc EXCEPT ![c] = "waiting"] /\ UNCHANGED <<sent, pending>>
    BY <1>1, <2>2, NoRequestInvolved DEF MakeApiCall, TypeOK
  <2> QED
    BY <1>1, <2>1, <2>2 DEF MakeApiCall
<1>2. ASSUME NEW c \in Calls, Poll(c)
      PROVE  AnswersInv' /\ SessionInv'
  BY <1>2, SendingAsks DEF Poll
<1>3. ASSUME NEW c \in Calls, ReceiveReply(c)
      PROVE  AnswersInv' /\ SessionInv'
  BY <1>3, ReceivingStarts
<1>4. ASSUME NEW c \in Calls, RequestTimeout(c)
      PROVE  AnswersInv' /\ SessionInv'
  <2>1. PICK s \in {"sleeping", "settled"} : pc' = [pc EXCEPT ![c] = s]
    BY <1>4 DEF RequestTimeout, Retry, Settle
  <2> QED
    BY <1>4, <2>1, AbandoningCounts DEF RequestTimeout, serverVars
<1>5. ASSUME NEW c \in Calls, RequestError(c)
      PROVE  AnswersInv' /\ SessionInv'
  BY <1>5, AbandoningCounts DEF RequestError, Settle, serverVars
<1>6. ASSUME NEW c \in Calls, Wake(c)
      PROVE  AnswersInv' /\ SessionInv'
  <2>1. CASE SendRequest(c)
    BY <1>6, <2>1, SendingAsks DEF Wake
  <2>2. CASE Settle(c, "AssertionError") /\ UNCHANGED <<sent, pending>>
    BY <1>6, <2>2, NoRequestInvolved DEF Wake, Settle, TypeOK
  <2> QED
    BY <1>6, <2>1, <2>2 DEF Wake
<1>7. ASSUME NEW r \in pending, NEW status \in Statuses,
             NEW location \in Locations, NEW body \in Bodies,
             Process(r, status, location, body)
      PROVE  AnswersInv' /\ SessionInv'
  BY <1>7, ProcessingIssues
<1>8. CASE UNCHANGED vars
  BY <1>8, NoRequestInvolved DEF vars, callVars, serverVars
<1> QED
  BY <1>1, <1>2, <1>3, <1>4, <1>5, <1>6, <1>7, <1>8 DEF Next, Server, Quiet

(* The server starts at most one session per slot, and one more for each   *)
(* request that the client gave up: once a cookie has arrived, every later *)
(* request carries one.                                                    *)
THEOREM SessionsAreBounded == SafeSpec => []SessionsBounded
<1>1. Init => AnswersInv /\ SessionInv
  <2> SUFFICES ASSUME Init
               PROVE  AnswersInv /\ SessionInv
    OBVIOUS
  <2>1. Forgotten = {} /\ Offered = {}
    BY DEF Init, Forgotten, Offered
  <2>2. AnswersInv
    BY FS_EmptySet DEF Init, AnswersInv
  <2>3. SessionInv
    BY <2>1, FS_EmptySet DEF Init, SessionInv
  <2> QED
    BY <2>2, <2>3
<1>2. TypeOK /\ SlotAccounting /\ AnswersInv /\ SessionInv => SessionsBounded
  <2> SUFFICES ASSUME TypeOK, SlotAccounting, AnswersInv, SessionInv
               PROVE  sessions <= lost + Slots
    BY DEF SessionsBounded, Slots
  <2>1. sessions \in Nat /\ lost \in Nat
    BY DEF TypeOK
  <2> QED
    BY <2>1, CountsFit DEF SessionInv
<1> QED
  BY <1>1, <1>2, SessionStep, SlotsAccounted, TypeCorrect, PTL DEF SafeSpec

-----------------------------------------------------------------------------
(* How long a slow server is waited for.                                   *)

Power(n) == PowerOfTwo[n]

(* The recursive definition of PowerOfTwo does define a function.          *)
LEMMA PowersDouble == Power(0) = 1 /\ \A n \in Nat : Power(n + 1) = 2 * Power(n)
PROOF
  <1> DEFINE double == [k \in Nat |-> 2 * k]
             numbers == Nat
             one == 1
  <1>1. double \in [numbers -> numbers] /\ one \in numbers
    OBVIOUS
  <1>2. \E f \in [Nat -> numbers] : f[0] = one /\ \A n \in Nat : f[n + 1] = double[f[n]]
    <2> HIDE DEF double, numbers, one
    <2> QED BY <1>1, RecursiveFunction
  <1> HIDE DEF double
  <1>3. PICK f \in [Nat -> Nat] : f[0] = 1 /\ \A n \in Nat : f[n + 1] = double[f[n]]
    BY <1>2
  <1>4. ASSUME NEW n \in Nat PROVE f[n] = IF n = 0 THEN 1 ELSE 2 * f[n - 1]
    <2> SUFFICES ASSUME n # 0 PROVE f[n] = 2 * f[n - 1]
      BY <1>3
    <2>1. n - 1 \in Nat /\ (n - 1) + 1 = n /\ f[n - 1] \in Nat
      OBVIOUS
    <2>2. f[(n - 1) + 1] = double[f[n - 1]]
      BY <1>3, <2>1
    <2>3. double[f[n - 1]] = 2 * f[n - 1]
      BY <2>1 DEF double
    <2> QED BY <2>1, <2>2, <2>3
  <1>5. f = [n \in Nat |-> IF n = 0 THEN 1 ELSE 2 * f[n - 1]]
    BY <1>4
  <1>6. PowerOfTwo = [n \in Nat |-> IF n = 0 THEN 1 ELSE 2 * PowerOfTwo[n - 1]]
    BY <1>5 DEF PowerOfTwo
  <1> QED BY <1>6 DEF Power

(* The requests of a call that have come to an end.                        *)
Tried(c) == IF pc[c] = "awaiting" THEN sent[c] - 1 ELSE sent[c]

(* Of the requests of a call that goes on, all that were not answered with *)
(* "come back" have timed out, and each has doubled the timeout.           *)
DoublingInv ==
  \A c \in Calls :
    /\ pc[c] = "awaiting" => sent[c] >= 1
    /\ outcome[c] = "none" <=> pc[c] # "settled"
    /\ outcome[c] \in {"none", "TimeoutError"} =>
         /\ busy[c] <= Tried(c)
         /\ timeoutMs[c] = Power(Tried(c) - busy[c])
         /\ busy[c] < Tried(c) => Latency[c] > Power(Tried(c) - busy[c] - 1)

(* What a step does to one call; the others stay as they are.              *)
LEMMA DoublingOfOne ==
  ASSUME TypeOK, DoublingInv, NEW c \in Calls, TypeOK',
         \A d \in Calls \ {c} :
           /\ pc'[d] = pc[d] /\ sent'[d] = sent[d] /\ outcome'[d] = outcome[d]
           /\ busy'[d] = busy[d] /\ timeoutMs'[d] = timeoutMs[d],
         pc'[c] = "awaiting" => sent'[c] >= 1,
         outcome'[c] = "none" <=> pc'[c] # "settled",
         outcome'[c] \in {"none", "TimeoutError"} =>
           \/ /\ outcome[c] = "none" /\ Tried(c)' = Tried(c)
              /\ busy'[c] = busy[c] /\ timeoutMs'[c] = timeoutMs[c]
           \/ /\ outcome[c] = "none" /\ Tried(c)' = Tried(c) + 1
              /\ busy'[c] = busy[c] + 1 /\ timeoutMs'[c] = timeoutMs[c]
           \/ /\ outcome[c] = "none" /\ Tried(c)' = Tried(c) + 1
              /\ busy'[c] = busy[c] /\ timeoutMs'[c] = 2 * timeoutMs[c]
              /\ timeoutMs[c] < Latency[c],
         \A n \in Nat : Power(n + 1) = 2 * Power(n)
  PROVE  DoublingInv'
<1>1. \A d \in Calls \ {c} : Tried(d)' = Tried(d)
  BY DEF Tried
<1>2. Tried(c) \in Int /\ Tried(c)' \in Int /\ busy[c] \in Nat /\ timeoutMs[c] \in Nat
  BY DEF Tried, TypeOK
<1>3. ASSUME outcome'[c] \in {"none", "TimeoutError"}
      PROVE  /\ busy'[c] <= Tried(c)'
             /\ timeoutMs'[c] = Power(Tried(c)' - busy'[c])
             /\ busy'[c] < Tried(c)' => Latency[c] > Power(Tried(c)' - busy'[c] - 1)
  <2>1. /\ outcome[c] = "none"
        /\ busy[c] <= Tried(c)
        /\ timeoutMs[c] = Power(Tried(c) - busy[c])
        /\ busy[c] < Tried(c) => Latency[c] > Power(Tried(c) - busy[c] - 1)
    BY <1>3 DEF DoublingInv
  <2>2. CASE /\ Tried(c)' = Tried(c)
             /\ busy'[c] = busy[c] /\ timeoutMs'[c] = timeoutMs[c]
    BY <2>1, <2>2
  <2>3. CASE /\ Tried(c)' = Tried(c) + 1
             /\ busy'[c] = busy[c] + 1 /\ timeoutMs'[c] = timeoutMs[c]
    <3>1. Tried(c)' - busy'[c] = Tried(c) - busy[c]
      BY <1>2, <2>3
    <3> QED
      BY <1>2, <2>1, <2>3, <3>1
  <2>4. CASE /\ Tried(c)' = Tried(c) + 1
             /\ busy'[c] = busy[c] /\ timeoutMs'[c] = 2 * timeoutMs[c]
             /\ timeoutMs[c] < Latency[c]
    <3> DEFINE n == Tried(c) - busy[c]
    <3>1. n \in Nat /\ Tried(c)' - busy'[c] = n + 1 /\ Tried(c)' - busy'[c] - 1 = n
      BY <1>2, <2>1, <2>4
    <3>2. Power(n + 1) = 2 * Power(n) /\ timeoutMs[c] = Power(n)
      BY <2>1, <3>1
    <3>3. Latency[c] > Power(n)
      BY <1>2, <2>4, <3>2, ConnectionAssumption
    <3> HIDE DEF n
    <3> QED
      BY <1>2, <2>1, <2>4, <3>1, <3>2, <3>3
  <2> QED
    BY <1>3, <2>1, <2>2, <2>3, <2>4
<1>4. ASSUME NEW d \in Calls
      PROVE  /\ pc'[d] = "awaiting" => sent'[d] >= 1
             /\ outcome'[d] = "none" <=> pc'[d] # "settled"
             /\ outcome'[d] \in {"none", "TimeoutError"} =>
                  /\ busy'[d] <= Tried(d)'
                  /\ timeoutMs'[d] = Power(Tried(d)' - busy'[d])
                  /\ busy'[d] < Tried(d)' => Latency[d] > Power(Tried(d)' - busy'[d] - 1)
  <2>1. CASE d = c
    BY <1>3, <2>1
  <2>2. CASE d # c
    BY <1>1, <2>2 DEF DoublingInv
  <2> QED
    BY <2>1, <2>2
<1> QED
  BY <1>4 DEF DoublingInv

LEMMA DoublingStep ==
  ASSUME TypeOK, TypeOK', LoopInv, DoublingInv, [Next]_vars,
         \A n \in Nat : Power(n + 1) = 2 * Power(n)
  PROVE  DoublingInv'
<1> USE DEF TypeOK
<1>1. ASSUME NEW c \in Calls, MakeApiCall(c) \/ Poll(c)
      PROVE  DoublingInv'
  <2>1. outcome[c] = "none" /\ sent[c] = 0 /\ pc[c] # "awaiting"
    BY <1>1 DEF MakeApiCall, Poll, DoublingInv, LoopInv
  <2>2. /\ UNCHANGED <<outcome, busy, timeoutMs>>
        /\ \/ pc' = [pc EXCEPT ![c] = "awaiting"] /\ sent' = [sent EXCEPT ![c] = @ + 1]
           \/ pc' = [pc EXCEPT ![c] = "waiting"] /\ sent' = sent
    BY <1>1 DEF MakeApiCall, Poll, SendRequest
  <2>3. Tried(c)' = Tried(c) /\ pc'[c] # "settled" /\ (pc'[c] = "awaiting" => sent'[c] >= 1)
    BY <2>1, <2>2 DEF Tried
  <2> QED
    BY <2>1, <2>2, <2>3, DoublingOfOne
<1>2. ASSUME NEW c \in Calls, ReceiveReply(c)
      PROVE  DoublingInv'
  <2>1. /\ pc[c] = "awaiting" /\ sent[c] >= 1 /\ outcome[c] = "none" /\ Tried(c) = sent[c] - 1
        /\ UNCHANGED <<sent, timeoutMs>>
    BY <1>2 DEF ReceiveReply, DoublingInv, Tried
  <2>2. busy' = [busy EXCEPT ![c] = IF reply[c].status \in {"busy", "moved"} THEN @ + 1 ELSE @]
    BY <1>2 DEF ReceiveReply
  <2>3. \/ /\ reply[c].status \in {"busy", "moved"}
           /\ \/ pc' = [pc EXCEPT ![c] = "sleeping"] /\ outcome' = outcome
              \/ pc' = [pc EXCEPT ![c] = "settled"]
                   /\ outcome' = [outcome EXCEPT ![c] = "TimeoutError"]
        \/ /\ pc' = [pc EXCEPT ![c] = "settled"]
           /\ \E result \in {"XmlParseError", "ApiError", "TypeError", "ok"} :
                outcome' = [outcome EXCEPT ![c] = result]
    BY <1>2 DEF ReceiveReply, Retry, Settle
  <2>4. Tried(c)' = Tried(c) + 1
    BY <2>1, <2>3 DEF Tried
  <2> QED
    BY <2>1, <2>2, <2>3, <2>4, DoublingOfOne
<1>3. ASSUME NEW c \in Calls, RequestTimeout(c)
      PROVE  DoublingInv'
  <2>1. /\ pc[c] = "awaiting" /\ sent[c] >= 1 /\ outcome[c] = "none" /\ Tried(c) = sent[c] - 1
        /\ UNCHANGED <<sent, busy>> /\ timeoutMs[c] < Latency[c]
        /\ timeoutMs' = [timeoutMs EXCEPT ![c] = 2 * timeoutMs[c]]
    BY <1>3 DEF RequestTimeout, DoublingInv, Tried, NextTimeout
  <2>2. \/ pc' = [pc EXCEPT ![c] = "sleeping"] /\ outcome' = outcome
        \/ pc' = [pc EXCEPT ![c] = "settled"]
             /\ outcome' = [outcome EXCEPT ![c] = "TimeoutError"]
    BY <1>3 DEF RequestTimeout, Retry, Settle
  <2>3. Tried(c)' = Tried(c) + 1
    BY <2>1, <2>2 DEF Tried
  <2> QED
    BY <2>1, <2>2, <2>3, DoublingOfOne
<1>4. ASSUME NEW c \in Calls, RequestError(c)
      PROVE  DoublingInv'
  BY <1>4, DoublingOfOne DEF RequestError, Settle
<1>5. ASSUME NEW c \in Calls, Wake(c)
      PROVE  DoublingInv'
  <2>1. outcome[c] = "none" /\ pc[c] = "sleeping" /\ UNCHANGED <<busy, timeoutMs>>
    BY <1>5 DEF Wake, DoublingInv
  <2>2. CASE Settle(c, "AssertionError") /\ sent' = sent
    BY <2>1, <2>2, DoublingOfOne DEF Settle
  <2>3. CASE SendRequest(c) /\ outcome' = outcome
    <3>1. Tried(c)' = Tried(c) /\ pc'[c] = "awaiting" /\ sent'[c] >= 1
      BY <2>1, <2>3 DEF Tried, SendRequest
    <3> QED
      BY <2>1, <2>3, <3>1, DoublingOfOne DEF SendRequest
  <2> QED
    BY <1>5, <2>2, <2>3 DEF Wake
<1>6. ASSUME UNCHANGED callVars
      PROVE  DoublingInv'
  BY <1>6 DEF callVars, DoublingInv, Tried
<1> QED
  BY <1>1, <1>2, <1>3, <1>4, <1>5, <1>6 DEF Next, Server, Quiet, Process, vars

(* A call gives up on a slow server only after a wait of 2^n times its     *)
(* first timeout, n being the retries that were not spent on answers that  *)
(* asked it to come back: doubling timeoutMs pays off.                     *)
THEOREM SlowServersAreAwaited == SafeSpec => []SlowServerIsAwaited
<1>1. Power(0) = 1 /\ \A n \in Nat : Power(n + 1) = 2 * Power(n)
  BY PowersDouble
<1>2. Init => DoublingInv
  BY <1>1, ConnectionAssumption DEF Init, DoublingInv, Tried
<1>3. TypeOK /\ TypeOK' /\ LoopInv /\ DoublingInv /\ [Next]_vars => DoublingInv'
  BY <1>1, DoublingStep
<1>4. TypeOK /\ OutcomeFits /\ DoublingInv => SlowServerIsAwaited
  <2> SUFFICES ASSUME TypeOK, OutcomeFits, DoublingInv, NEW c \in Calls,
                      outcome[c] = "TimeoutError"
               PROVE  \/ busy[c] = MaxRetries(c) + 1
                      \/ Latency[c] > Power(MaxRetries(c) - busy[c])
    BY DEF SlowServerIsAwaited, Power
  <2>1. sent[c] = MaxRetries(c) + 1 /\ pc[c] = "settled"
    BY DEF OutcomeFits
  <2>2. Tried(c) = MaxRetries(c) + 1 /\ MaxRetries(c) \in Nat /\ busy[c] \in Nat
    BY <2>1, MaxRetriesType DEF Tried, TypeOK
  <2>3. Tried(c) - busy[c] - 1 = MaxRetries(c) - busy[c]
    BY <2>2
  <2> QED
    BY <2>2, <2>3 DEF DoublingInv
<1> QED
  BY <1>2, <1>3, <1>4, LoopBounded, OutcomesFit, TypeCorrect, PTL DEF SafeSpec

=============================================================================

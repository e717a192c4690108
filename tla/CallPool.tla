------------------------------ MODULE CallPool ------------------------------
(***************************************************************************)
(* What a Connection promises about the calls made through it, with every  *)
(* detail of HTTP left out: at most MaxConnections calls are in progress   *)
(* at any time (no limit when the number is not positive), and a call that *)
(* was made is answered once and for good.                                 *)
(***************************************************************************)
EXTENDS Integers, FiniteSets

CONSTANTS
  Calls,           \* the calls that are made through the connection
  MaxConnections   \* maxConcurrentConnections

VARIABLE stage     \* where each call is on its way to its answer

Stages == {"unmade", "queued", "active", "answered"}

Active == {c \in Calls : stage[c] = "active"}

Free == MaxConnections > 0 => Cardinality(Active) < MaxConnections

Init == stage = [c \in Calls |-> "unmade"]

\* A call is made while every slot is taken.
Queue(c) ==
  /\ stage[c] = "unmade"
  /\ ~Free
  /\ stage' = [stage EXCEPT ![c] = "queued"]

\* A call that is made, or that waits, gets a slot.
Admit(c) ==
  /\ stage[c] \in {"unmade", "queued"}
  /\ Free
  /\ stage' = [stage EXCEPT ![c] = "active"]

\* A call in progress is answered, with a result or an error.
Answer(c) ==
  /\ stage[c] = "active"
  /\ stage' = [stage EXCEPT ![c] = "answered"]

Next == \E c \in Calls : Queue(c) \/ Admit(c) \/ Answer(c)

\* A call that waits takes a slot that stays free; a call in progress ends.
Fairness ==
  \A c \in Calls :
    /\ WF_stage(stage[c] = "queued" /\ Admit(c))
    /\ WF_stage(Answer(c))

SafeSpec == Init /\ [][Next]_stage

Spec == SafeSpec /\ Fairness

=============================================================================

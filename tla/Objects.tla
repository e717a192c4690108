-------------------------------- MODULE Objects --------------------------------
(***************************************************************************)
(* Objects as the conversions between the program and the API see them: a  *)
(* function from the names of the members that are not undefined to their  *)
(* values.  What xml2js reads has no members for absent elements, and what *)
(* is undefined is not written.  Attributes and elements are told apart by *)
(* their names, lists of one element from that element are not.            *)
(***************************************************************************)
EXTENDS Sequences

\* An object with one member, and the members of one object before those of another.
m :> value == [n \in {m} |-> value]
obj @@ rest ==
  [n \in DOMAIN obj \cup DOMAIN rest |-> IF n \in DOMAIN obj THEN obj[n] ELSE rest[n]]

Empty == [m \in {} |-> m]
Rejected == [rejected |-> TRUE]

\* Members under their new names; undefined ones stay undefined.
Take(obj, names) ==
  [n \in {names[m] : m \in DOMAIN obj \cap DOMAIN names} |->
     obj[CHOOSE m \in DOMAIN names : names[m] = n]]

\* An object with one of its members converted, if it has it.
Converted(obj, m, Convert(_)) ==
  [n \in DOMAIN obj |-> IF n = m THEN Convert(obj[n]) ELSE obj[n]]

\* A member that is converted itself.
Child(obj, from, to, Convert(_)) ==
  IF from \in DOMAIN obj THEN to :> Convert(obj[from]) ELSE Empty

\* extractElementAsArray(), mapOrApplyOptional(): an absent list is empty.
ListOf(obj, from, Convert(_)) ==
  IF from \in DOMAIN obj
  THEN [i \in DOMAIN obj[from] |-> Convert(obj[from][i])] ELSE <<>>
List(obj, from, to, Convert(_)) == to :> ListOf(obj, from, Convert)
\* The same within deleteUndefinedAndEmptyMembers(), or when written: an empty
\* list is left out.
Children(obj, from, to, Convert(_)) ==
  IF ListOf(obj, from, Convert) = <<>> THEN Empty
  ELSE List(obj, from, to, Convert)

Copied(value) == value
=============================================================================

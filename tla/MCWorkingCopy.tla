---------------------------- MODULE MCWorkingCopy ----------------------------
(***************************************************************************)
(* A package with one file checked out and room for another one.           *)
(***************************************************************************)
EXTENDS WorkingCopy

CONSTANTS f1, f2, x, y

MCCheckedOut == [f \in Files |-> IF f = f1 THEN x ELSE None]

=============================================================================

---------------------------- MODULE MCConnection ----------------------------
(***************************************************************************)
(* Connection on small instances: calls share fewer slots than there are   *)
(* calls; c2 changes state on the server (POST), c1 and c3 read (GET), c1  *)
(* with retries and without decoding its replies.                          *)
(***************************************************************************)
EXTENDS Connection

CONSTANTS c1, c2, c3

MCMethod == [c \in Calls |-> IF c = c2 THEN "POST" ELSE "GET"]
MCRetryOption == [c \in Calls |-> IF c = c3 THEN 0 ELSE 1]
MCDecode == [c \in Calls |-> c # c1]
MCPatientRetryOption == [c \in Calls |-> IF c = c1 THEN 2 ELSE 1]
MCDecodeAll == [c \in Calls |-> TRUE]
MCLatency == [c \in Calls |-> IF c = c3 THEN 0 ELSE 2]

=============================================================================

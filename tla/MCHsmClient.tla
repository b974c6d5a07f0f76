---------------------------- MODULE MCHsmClient ----------------------------
(* Instances of HsmClient: calls of different kinds that come to share headers. *)
EXTENDS HsmClient, TLC

CONSTANTS c1, c2, c3, c4

KindOf == [c \in Calls |-> IF c = c1 THEN "translate" ELSE IF c = c4 THEN "mac" ELSE "pin"]
VerdictOf == [c \in Calls |-> IF c = c2 THEN "05" ELSE "00"]
=============================================================================

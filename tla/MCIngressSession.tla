-------------------------- MODULE MCIngressSession --------------------------
(* Instances of IngressSession: a request, a malformed frame and a retry of    *)
(* the request on one connection.                                             *)
EXTENDS IngressSession, TLC
CONSTANTS c1, f1, f2, f3

OneConn == c1 :> <<f1, f3, f2>>
Sizes == [f \in Frames |-> IF f = f3 THEN 0 ELSE IF f = f1 THEN 2 ELSE 1]
Kinds == [f \in Frames |-> IF f = f3 THEN "malformed" ELSE "request"]
SameKey == [f \in Frames |-> IF f = f2 THEN f1 ELSE f]
=============================================================================

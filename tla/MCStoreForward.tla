--------------------------- MODULE MCStoreForward ---------------------------
(* Instances of StoreForward: two banks, an advice for each, one request.     *)
EXTENDS StoreForward, TLC

CONSTANTS visa, mastercard, f1, f2, f3

HomeOf == [f \in Frames |-> IF f = f2 THEN mastercard ELSE visa]
OwnKey == [f \in Frames |-> IF f = f1 THEN 1 ELSE IF f = f2 THEN 2 ELSE 3]
=============================================================================

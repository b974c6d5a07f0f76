-------------------------- MODULE MCWalSettlement --------------------------
(* Instances of WalSettlement: amounts are powers of two, so that a total    *)
(* determines the records behind it.                                         *)
EXTENDS WalSettlement, TLC

CONSTANTS r1, r2, r3, bankA, bankB

Acquirer3 == r1 :> bankA @@ r2 :> bankA @@ r3 :> bankB
Amount3 == r1 :> 1 @@ r2 :> 2 @@ r3 :> 4

\* Approved 0100s, and one declined.
Mti3 == [r \in Records |-> "0100"]
Rc3 == [r \in Records |-> "00"]
RcOneDeclined == r1 :> "00" @@ r2 :> "00" @@ r3 :> "51"

\* As the switch writes them: a request has no response code.
MtiSwitch == r1 :> "0100" @@ r2 :> "0110" @@ r3 :> "0110"
RcSwitch == r1 :> "" @@ r2 :> "00" @@ r3 :> "51"
=============================================================================

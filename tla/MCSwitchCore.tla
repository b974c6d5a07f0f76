---------------------------- MODULE MCSwitchCore ----------------------------
(***************************************************************************)
(* Small instances of SwitchCore for TLC.  STANs are 0 .. StanMod - 1 and  *)
(* the switch's own counter starts at 0, so the STANs terminals choose     *)
(* here (0 and 1) meet the egress STANs, as they do in production, where   *)
(* both are six digits.                                                    *)
(***************************************************************************)
EXTENDS SwitchCore

CONSTANTS a1, a2, a3, a4, visa, mc

\* Two transactions with crossed STANs: a1 uses 1, a2 uses 0.
DistinctId == [a \in Attempts |-> a]
CrossedStan == [a \in Attempts |-> IF a = a2 THEN 0 ELSE 1]

\* Every attempt is the same transaction: a1, the 0420 of a1's session when its
\* terminal hangs up (a2), a reversal by the terminal (a3) and an echo test (a4).
SameId == [a \in Attempts |-> a1]
SameStan == [a \in Attempts |-> 1]
SecondAdvice == [a \in Attempts |-> IF a = a2 THEN "0420" ELSE "0100"]
SecondUnheld == [a \in Attempts |-> a # a2]

SecondEcho == [a \in Attempts |-> IF a = a2 THEN "0800" ELSE "0100"]
AllHeld == [a \in Attempts |-> TRUE]

SecondSecured == [a \in Attempts |-> IF a = a2 THEN "secured" ELSE "plain"]
ThirdReversesFourthEcho ==
    [a \in Attempts |-> CASE a = a3 -> "reversal" [] a = a4 -> "echo" [] OTHER -> "plain"]

\* The STAN a terminal's reversal carries in Field 90.
NoOrig == [a \in Attempts |-> NoStan]
NamesOne == [a \in Attempts |-> IF Kind[a] = "reversal" THEN 1 ELSE NoStan]

ToVisa == [a \in Attempts |-> [primary |-> visa, failover |-> NoNode]]
\* All cards go to visa; only a2's has a failover node.
FailoverForSecond ==
    [a \in Attempts |-> [primary |-> visa, failover |-> IF a = a2 THEN mc ELSE NoNode]]
=============================================================================

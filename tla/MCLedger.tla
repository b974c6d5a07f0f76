------------------------------ MODULE MCLedger ------------------------------
(* Instances of Ledger: a transaction and three messages that name its STAN, one  *)
(* that repeats its amount and card, one for another amount, and one on a card    *)
(* that cannot be sliced; one BIN, whose rule is live at the start.               *)
EXTENDS Ledger, TLC

CONSTANTS c1, r1, r2, r3, stan, card, odd, bin, rule

StanOf == [m \in Messages |-> stan]

CardOf == [m \in Messages |-> IF m = r3 THEN odd ELSE card]

AmountOf == [m \in Messages |-> IF m = r2 THEN 2 ELSE 1]

BinOf == [k \in Cards |-> bin]

ChargeOf == [r \in Rules |-> [a \in Amounts |-> a]]

MCInit == Init /\ rules = [k \in RuleKeys |-> IF k = bin THEN rule ELSE NoRule]
MCFairSpec == MCInit /\ [][Next]_vars /\ WF_vars(WorkerStep) /\ WF_vars(Tick)
=============================================================================

--------------------------- MODULE SimTransactions ---------------------------
(***************************************************************************)
(* The transactions of the load generator, as messages on the wire           *)
(* (ISO8583PaymentSimulator/src/engine.rs): what it generates, the codec and *)
(* the port it picks for a dialect name, and how it reads the answer.        *)
(***************************************************************************)
EXTENDS IsoDialects

SimDialects == {"Base24", "Connex", "Interac", "UK FPS", "ISO 1987", "ISO 1993", "ISO 2003"}

\* generate_transaction: an Apple Pay card is a token with a cryptogram.  No
\* transaction has a PIN block: the one made for POS entry is not used.
generate_transaction(card, apple, amount) ==
    [Blank("0200") EXCEPT
        !.is_tokenized = apple,
        !.v = [f \in Fields |->
                 CASE f = 2 -> card
                   [] f = 4 -> amount
                   [] f = 48 /\ apple -> [risk |-> None, text |-> "tavv"]
                   [] f \in {3, 11, 12, 13, 32, 37} -> "set"
                   [] OTHER -> None]]

SimCodec(dialect) ==
    IF dialect \in {"ISO 1987", "ISO 1993", "ISO 2003"} THEN "standard" ELSE "connex"

SimMti(dialect) ==
    CASE dialect = "ISO 1993" -> "1200" [] dialect = "ISO 2003" -> "2200" [] OTHER -> "0200"

target_port(dialect) ==
    CASE dialect = "Interac" -> "interac" [] dialect = "UK FPS" -> "ukfps" [] OTHER -> "standard"

SimMessage(dialect, e) ==
    [port |-> target_port(dialect), reader |-> SimCodec(dialect),
     frame |-> Build(SimCodec(dialect), [e EXCEPT !.mti = SimMti(dialect)])]
=============================================================================

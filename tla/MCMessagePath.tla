---------------------------- MODULE MCMessagePath ----------------------------
EXTENDS MessagePath, SimTransactions

CONSTANTS r1, r2, Bad

MCEgress == [r \in Requests |-> IF r = r1 THEN "e1" ELSE "e2"]

Card(digits, len) == [digits |-> digits, len |-> len, ukfps |-> FALSE]

MCBin == [visa |-> "b1", fraud |-> "b1", mc |-> "b2", amex |-> "b3", token |-> "b4", account |-> "b5"]
MCNetwork == [visa |-> "VISA", fraud |-> "VISA", mc |-> "MASTERCARD", amex |-> "DEFAULT",
              token |-> "VISA", account |-> "DEFAULT"]
MCVault == [token |-> "visa"]
MCMaxRisk == [VISA |-> 70, MASTERCARD |-> 100, DEFAULT |-> 100]
MCProfiles == {[balance |-> 100, is_blocked |-> FALSE], [balance |-> 100, is_blocked |-> TRUE]}

\* Frames with every field of bits in its place.
BodyOrder == <<2, 3, 4, 11, 12, 13, 18, 22, 32, 37, 39, 48, 52, 63, 64, 70, 90, 102, 103, 128>>
Text(risk, text) == [risk |-> risk, text |-> text]
Plain == [f \in 1 .. 128 |->
            CASE f = 2 -> Card("visa", 16)
              [] f = 4 -> 60
              [] f = 22 -> "010"
              [] f = 48 -> Text(None, "text")
              [] f \in {102, 103} -> Card("account", 12)
              [] OTHER -> "set"]
Frame(mti, bits, v) ==
    LET fields == SelectSeq(BodyOrder, LAMBDA f : f \in bits)
    IN  [mti |-> mti, bits |-> bits,
         body |-> [i \in DOMAIN fields |-> [field |-> fields[i], value |-> v[fields[i]]]]]
Cut(m) == [m EXCEPT !.body = SubSeq(@, 1, Len(@) - 1)]

Base == {2, 3, 4, 11, 12, 13, 32, 37}
Account == (Base \ {2}) \cup {1, 102, 103}
Frames0 ==
    {Frame(mti, Base, Plain) : mti \in {"0100", "0220", "0420", "0421", "0430", "0800", "0810"}}
    \cup {Frame("0800", {11}, Plain)}
    \cup {Frame("0200", Base \cup more, Plain) :
             more \in {{}, {39}, {48}, {52}, {63}, {64}, {18}, {1, 70, 90}, {1, 90}, {1, 64, 128}, {1, 65},
                       {1, 102, 103}, {52, 63}, {63, 64}}}
    \cup {Frame("0200", Account, Plain),
          Frame("0200", Account, [Plain EXCEPT ![102] = Card("account", 94)]),
          Cut(Frame("0200", Base, Plain)), Cut(Frame("0200", Account, Plain)),
          Frame("0200", Base \cup {22, 48, 52}, [Plain EXCEPT ![2] = Card("token", 16), ![22] = "071"]),
          Frame("0200", Base, [Plain EXCEPT ![4] = Bad]),
          Frame("0200", Base, [Plain EXCEPT ![2] = Card("mc", 16), ![4] = 60000]),
          Frame("0200", Base, [Plain EXCEPT ![2] = Card("fraud", 16)])}
    \cup {Frame("0200", Base \cup {22, 48},
                [Plain EXCEPT ![2] = Card(y[1], 16), ![22] = y[2], ![48] = y[3]]) :
             y \in {<<"token", "071", Text(None, "tavv")>>, <<"token", "072", Text(60, "tavv")>>,
                   <<"token", "071", Text(80, "tavv")>>, <<"token", "072", Text(Bad, None)>>,
                   <<"mc", "071", Text(None, "tavv")>>, <<"mc", "010", Text(60, None)>>}}

Ports == {"standard", "interac", "ukfps"}
Own(port, frame) == [port |-> port, reader |-> port, frame |-> frame]
Single ==
    {Own(port, frame) : port \in Ports, frame \in Frames0}
    \cup {SimMessage(d, generate_transaction(Card(c, 16), c = "token", 60)) :
             d \in SimDialects, c \in {"visa", "amex", "token"}}

\* One request of any kind while the list changes, two for the same card, two of
\* which one, with a PIN, has the STAN that the other is given, and none while the
\* list changes often.
Debit(amount) == Own("standard", Frame("0200", Base, [Plain EXCEPT ![4] = amount]))
PinDebit(stan) == Own("standard", Frame("0200", Base \cup {52}, [Plain EXCEPT ![11] = stan]))
Workload(m, p, l, c) == [messages |-> m, publishes |-> p, loads |-> l, crashes |-> c]
MCWorkloads ==
    {Workload([r \in {r1} |-> x], 1, 0, 0) : x \in Single}
    \cup {Workload([r \in {r1, r2} |-> IF r = r1 THEN Debit(60) ELSE Debit(b)], 0, 2, 1) :
             b \in {40, 60}}
    \cup {Workload([r \in {r1, r2} |-> IF r = r1 THEN Debit(60) ELSE PinDebit(stan)], 0, 0, 0) :
             stan \in {"set", "e1"}}
    \cup {Workload([r \in {r1} |-> Debit(60)], 2, 1, 1), Workload(<<>>, 4, 0, 1)}
=============================================================================

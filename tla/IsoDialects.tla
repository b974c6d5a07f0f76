----------------------------- MODULE IsoDialects -----------------------------
(***************************************************************************)
(* The message conversions: the dialects of the terminals' ports             *)
(* (payment-proto/src/iso_dialect.rs and dialects/), the one the upstream    *)
(* clients, the mock bank and the load generator use (iso-dialect/src/       *)
(* lib.rs), and the journal's protobuf record (switch-core/src/lib.rs).      *)
(*                                                                           *)
(* A frame is its MTI, its bitmap as a set of field numbers, and a body: the *)
(* encoded fields one after the other.  A reader walks the bitmap upwards    *)
(* and takes the next stretch of the body for every field it knows, so what  *)
(* it gets depends on what the sender put there.  Fixed fields keep their     *)
(* value through read_fixed and write_fixed: what is written as one was read *)
(* as one, of the same width, or made by the switch in that width.           *)
(***************************************************************************)
EXTENDS Integers, Sequences, FiniteSets

CONSTANTS
    None,       \* an absent value
    PrefixLen   \* length of "UKFPS-" (6 in the code)

ASSUME PrefixAssumption == PrefixLen \in Nat /\ None \notin Nat

\* Fields an event keeps, each under its field number: PAN, processing code,
\* amount, STAN, time, date, acquirer, RRN, response code, cryptogram, PIN
\* block, settlement data, MAC, original data elements, the two accounts.
Fields == {2, 3, 4, 11, 12, 13, 32, 37, 39, 48, 52, 63, 64, 90, 102, 103}

Dialects == {"standard", "interac", "ukfps", "connex"}

\* Longest value an LLVAR length prefix can announce.
MaxLlvar == 99

-----------------------------------------------------------------------------
(* Events *)

MessageClass(mti) ==
    CASE mti \in {"0100", "0110"} -> "Authorization"
      [] mti \in {"0420", "0421"} -> "ReversalAdvice"
      [] mti = "0430"             -> "ReversalResponse"
      [] mti = "0800"             -> "NetworkManagement"
      [] mti = "0810"             -> "NetworkManagementResponse"
      [] OTHER                    -> "Financial"

\* A UniversalPaymentEvent with no field set.
Blank(mti) ==
    [mti |-> mti, class |-> MessageClass(mti), is_tokenized |-> FALSE,
     risk_score |-> 0, is_reversal |-> FALSE,
     v |-> [f \in Fields |-> IF f = 4 THEN 0 ELSE None]]

-----------------------------------------------------------------------------
(* Frames *)

\* Number of 64-bit bitmaps a frame with these bits holds: the first bit of one
\* announces the next, up to three.
Bitmaps(bits) == IF 1 \notin bits THEN 1 ELSE IF 65 \notin bits THEN 2 ELSE 3

\* Number of bitmaps a reader of a dialect takes.
BitmapsRead(d, bits) ==
    CASE d = "standard" -> Bitmaps(bits)
      [] d = "ukfps"    -> IF 1 \in bits THEN 2 ELSE 1
      [] OTHER          -> 1

\* Fields a reader takes from the body.
Known(d) ==
    {2, 3, 4, 11, 12, 13, 22, 32, 37, 39, 52} \cup
    CASE d = "standard" -> {48, 64, 90, 128}
      [] d = "interac"  -> {48, 63}
      [] d = "ukfps"    -> {102, 103}
      [] d = "connex"   -> {48}

\* Bits that stand for no field: the standard reader skips all three, the
\* UK FPS reader the first.
Extension(d) ==
    CASE d = "standard" -> {1, 65, 129}
      [] d = "ukfps"    -> {1}
      [] OTHER          -> {}

Visible(d, m) == {f \in m.bits : f <= 64 * BitmapsRead(d, m.bits)}
ReadFields(d, m) == Visible(d, m) \cap Known(d)
Foreign(d, m) == Visible(d, m) \ (Known(d) \cup Extension(d))

\* The place in the body where the reader finds itself at field f.
Place(d, m, f) == Cardinality({g \in ReadFields(d, m) : g <= f})

\* It takes the bytes of another field: of one it stepped over, or of a bitmap
\* it did not read.
Misread(d, m) ==
    \/ Bitmaps(m.bits) > BitmapsRead(d, m.bits) /\ ReadFields(d, m) # {}
    \/ \E f \in ReadFields(d, m) :
          Place(d, m, f) <= Len(m.body) /\ m.body[Place(d, m, f)].field # f

\* It runs out of bytes: read_fixed's LengthError.
Short(d, m) == \E f \in ReadFields(d, m) : Place(d, m, f) > Len(m.body)

\* The value under field f of a frame that is read in step.
Item(d, m, f) ==
    IF f \in ReadFields(d, m) THEN m.body[Place(d, m, f)].value ELSE None

\* What field 48 says: a value there has a network risk score in front (Bad if
\* it is not a number) or none, and a text or none.
Cryptogram(d, tokenized, x) ==
    IF x = None THEN None
    ELSE IF d = "interac" THEN x
    ELSE IF ~tokenized THEN None
    ELSE IF x.risk = None THEN x
    ELSE IF x.text = None THEN None
    ELSE [risk |-> None, text |-> x.text]

RiskScore(d, x) ==
    IF d = "interac" \/ x = None THEN 0
    ELSE IF x.risk \in 0 .. 255 THEN x.risk ELSE 0

\* The PAN; UK FPS makes one from the source account when there is none.
Fpan(d, m) ==
    LET account == Item(d, m, 102) IN
    IF d = "ukfps" /\ Item(d, m, 2) = None /\ account # None
    THEN [account EXCEPT !.ukfps = TRUE, !.len = @ + PrefixLen]
    ELSE Item(d, m, 2)

\* The MAC is in field 64, or in field 128 when there is a second bitmap.
MacData(d, m) == Item(d, m, IF 1 \in m.bits THEN 128 ELSE 64)

IsReversal(d, mti) == d \in {"standard", "connex"} /\ mti \in {"0400", "0420", "1420"}

Decoded(d, m) ==
    LET tokenized == Item(d, m, 22) \in {"071", "072"} IN
    [mti |-> m.mti, class |-> MessageClass(m.mti), is_tokenized |-> tokenized,
     risk_score |-> RiskScore(d, Item(d, m, 48)), is_reversal |-> IsReversal(d, m.mti),
     v |-> [f \in Fields |->
              CASE f = 2  -> Fpan(d, m)
                [] f = 4  -> IF Item(d, m, 4) \in Nat THEN Item(d, m, 4) ELSE 0
                [] f = 48 -> Cryptogram(d, tokenized, Item(d, m, 48))
                [] f = 64 -> MacData(d, m)
                [] OTHER  -> Item(d, m, f)]]

\* The plausible mistake: fields that are not in the dictionary are stepped over.
ParseLenient(d, m) ==
    IF Misread(d, m) THEN [is |-> "misread"]
    ELSE IF Short(d, m) THEN [is |-> "error"]
    ELSE [is |-> "event", event |-> Decoded(d, m)]

\* parse and decode: an error, a misreading (whose outcome is anything), or an
\* event.  Only the standard reader refuses fields it does not know.
Parse(d, m) ==
    IF d = "standard" /\ Foreign(d, m) # {} THEN [is |-> "error"]
    ELSE IF Misread(d, m) THEN [is |-> "misread"]
    ELSE IF Short(d, m) THEN [is |-> "error"]
    ELSE [is |-> "event", event |-> Decoded(d, m)]

-----------------------------------------------------------------------------
(* Building *)

\* The plausible mistake: the cryptogram is written after the PIN block.
WriteOrderLate == <<2, 3, 4, 11, 12, 13, 22, 32, 37, 39, 52, 48, 63, 102, 103>>

\* Fields a writer considers, in the order of the code.
WriteOrder == <<2, 3, 4, 11, 12, 13, 22, 32, 37, 39, 48, 52, 63, 102, 103>>

Writes(d) ==
    {3, 4, 11, 12, 13, 22, 32, 37, 39, 52} \cup
    CASE d = "interac" -> {2, 48, 63}
      [] d = "ukfps"   -> {102, 103}
      [] OTHER         -> {2, 48}

Financial02 == {"0200", "0210", "0220"}

\* The bit of field f is set.
Sets(d, e, f) ==
    /\ f \in Writes(d)
    /\ CASE f = 4  -> e.v[4] > 0 \/ (e.mti \in Financial02 /\ e.class = "Financial")
         [] f = 22 -> e.is_tokenized
         [] f = 48 -> e.v[48] # None /\ (d = "interac" \/ e.is_tokenized)
         [] OTHER  -> e.v[f] # None

\* write_llvar writes nothing at all when the value is too long.
Overlong(e, f) == f \in {2, 102, 103} /\ e.v[f] # None /\ e.v[f].len > MaxLlvar

\* The fields in S one after the other, in that order.
Nth == [f \in {WriteOrder[i] : i \in 1 .. Len(WriteOrder)} |->
          CHOOSE i \in 1 .. Len(WriteOrder) : WriteOrder[i] = f]
Turn(S, f) == Cardinality({g \in S : Nth[g] <= Nth[f]})
Written(S) == [i \in 1 .. Cardinality(S) |-> CHOOSE f \in S : Turn(S, f) = i]

FieldValue(e, f) == IF f = 22 THEN "071" ELSE e.v[f]

Build(d, e) ==
    LET set == {f \in Writes(d) : Sets(d, e, f)}
        written == Written({f \in set : ~Overlong(e, f)})
    IN  [mti |-> e.mti,
         bits |-> set \cup (IF set \cap {102, 103} # {} THEN {1} ELSE {}),
         body |-> [i \in DOMAIN written |->
                     [field |-> written[i], value |-> FieldValue(e, written[i])]]]

-----------------------------------------------------------------------------
(* The protobuf record of journal, guard, reply channel and SAF database *)

PbFields == {2, 3, 4, 11, 12, 13, 32, 37, 39, 52}

to_pb(e) == [mti |-> e.mti, v |-> [f \in PbFields |-> e.v[f]]]

from_pb(p) ==
    [Blank(p.mti) EXCEPT
        !.v = [f \in Fields |-> IF f \in PbFields THEN p.v[f] ELSE None]]
=============================================================================

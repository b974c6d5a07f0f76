------------------------------- MODULE Ledger -------------------------------
(***************************************************************************)
(* The shadow ledger.  The engine sends an event for every plain transaction *)
(* it forwards and, for a reversal message, one for every transaction in     *)
(* flight whose STAN it names: the message itself, its own amount and card,  *)
(* under that transaction's RRN (switch-core/src/engine.rs).  The ledger     *)
(* worker books them in batches with fees from a cache that a polling thread *)
(* refreshes, and dies of a statement it cannot prepare and of a card it     *)
(* cannot slice (ledger_worker.rs); the nightly sweep (settlement_cron.rs)   *)
(* and the control plane's endpoint (ops-control-plane/src/main.rs,          *)
(* trigger_settlement) settle shadow rows.                                   *)
(***************************************************************************)
EXTENDS Integers, Sequences, FiniteSets, Functions

CONSTANTS
    Captures,   \* transactions the engine admits, 0420s it does not take for reversals included
    Reversals,  \* reversal messages of the terminals
    Stans,
    Stan,       \* Stan[c]: the STAN of c; Stan[m]: the STAN message m names
    Cards,
    Card,       \* Card[m]: the card message m bears
    Amounts,
    Amount,     \* Amount[m]: the amount message m bears
    Bins,       \* first six digits of a card
    Default,    \* the key of the default fee
    Bin,        \* Bin[k]: the first six digits of card k
    ShortPan,   \* cards of fewer than six bytes
    Unsliceable,  \* cards with a character across one of the byte positions sliced at
    Rules,      \* rules of the fee matrix
    Charge,     \* Charge[r][a]: the fee rule r makes of amount a
    NoRule,
    Batch,      \* size that forces a commit (1000 in the code)
    ChanCap,    \* capacity of the ledger channel (10000 in the code)
    MaxEdits,   \* bound: edits of the fee matrix
    MaxErrors   \* bound: database errors

Messages == Captures \cup Reversals

ASSUME MessageAssumption ==
    /\ Captures \cap Reversals = {} /\ Stan \in [Messages -> Stans]
    /\ Card \in [Messages -> Cards] /\ Amounts \subseteq Nat
    /\ Amount \in [Messages -> Amounts]
ASSUME FeeAssumption ==
    /\ Bin \in [Cards -> Bins] /\ ShortPan \subseteq Cards /\ Unsliceable \subseteq Cards
    /\ NoRule \notin Rules /\ Default \notin Bins
    /\ Charge \in [Rules -> [Amounts -> Int]]
ASSUME SizeAssumption ==
    /\ Batch \in Nat \ {0} /\ ChanCap \in Nat \ {0}
    /\ MaxEdits \in Nat /\ MaxErrors \in Nat

\* Keys of the fee cache.
RuleKeys == Bins \cup {Default}

\* Message msg, to be booked under the RRN of tx: a capture's own, or that of a
\* transaction a reversal names.
Events == {e \in [tx : Captures, msg : Messages] : e.msg \in Reversals \/ e.msg = e.tx}

is_reversal(e) == e.msg \in Reversals

VARIABLES
    life,     \* life[c]: what became of transaction c
    guard,    \* transactions in the idempotency guard
    sent,     \* transactions forwarded to their bank
    named,    \* named[m]: transactions reversal m found in the guard so far
    chan,     \* the ledger channel
    wpc, buf, \* the worker: phase ("dead" after a panic), batch_buffer
    due,      \* 100 ms have passed since its last commit
    txn,      \* rows of its open transaction
    ledger,   \* committed rows
    lost,     \* events dropped after a database error or by a dead worker
    rules, cache,   \* fee_matrix, and the worker's copy
    epoch,    \* number of changes of the cache so far
    edits, errors

workVars == <<wpc, buf, due, txn, ledger, errors>>
feeVars == <<rules, cache, epoch, edits>>
engVars == <<life, guard, sent, named>>
vars == <<engVars, chan, lost, workVars, feeVars>>

Row == [event : Events, principal : Int, fee : Int, status : {"shadow", "hold", "settled"},
        epoch : Nat]

EngineType ==
    /\ life \in [Captures -> {"new", "open", "answered", "timeout"}]
    /\ guard \subseteq Captures /\ sent \subseteq Captures
    /\ named \in [Reversals -> SUBSET Captures]
    /\ chan \in Seq(Events) /\ Len(chan) <= ChanCap

WorkerType ==
    /\ wpc \in {"receive", "check", "insert", "dead"}
    /\ buf \in Seq(Events) /\ Len(buf) <= Batch
    /\ txn \in Seq(Row) /\ ledger \in Seq(Row)
    /\ lost \subseteq Events /\ errors \in 0 .. MaxErrors

FeeType ==
    /\ rules \in [RuleKeys -> Rules \cup {NoRule}] /\ cache \in [RuleKeys -> Rules \cup {NoRule}]
    /\ epoch \in Nat /\ edits \in 0 .. MaxEdits

TypeOK == EngineType /\ WorkerType /\ due \in BOOLEAN /\ FeeType

\* The worker may die of the connection it cannot open.
Init ==
    /\ life = [c \in Captures |-> "new"] /\ guard = {} /\ sent = {}
    /\ named = [m \in Reversals |-> {}] /\ chan = <<>> /\ wpc \in {"receive", "dead"}
    /\ buf = <<>> /\ due = FALSE /\ txn = <<>> /\ ledger = <<>> /\ lost = {}
    /\ rules \in [RuleKeys -> Rules \cup {NoRule}]
    /\ cache = [k \in RuleKeys |-> NoRule] /\ epoch = 0 /\ edits = 0 /\ errors = 0
-----------------------------------------------------------------------------
(* The engine's side.                                                      *)

\* A send waits for room in the channel.  With the worker dead it fails, which the
\* engine does not look at.
Emit(e) ==
    IF wpc = "dead" THEN lost' = lost \cup {e} /\ UNCHANGED chan
    ELSE Len(chan) < ChanCap /\ chan' = Append(chan, e) /\ UNCHANGED lost

Admit(c) ==
    /\ life[c] = "new"
    /\ life' = [life EXCEPT ![c] = "open"] /\ guard' = guard \cup {c}
    /\ UNCHANGED <<sent, named, chan, lost, workVars, feeVars>>

\* The plain path books a capture.
Forward(c) ==
    /\ life[c] # "new" /\ c \notin sent
    /\ Emit([tx |-> c, msg |-> c])
    /\ sent' = sent \cup {c}
    /\ UNCHANGED <<life, guard, named, workVars, feeVars>>

\* The path through the HSM books nothing.
HsmForward(c) ==
    /\ life[c] # "new" /\ c \notin sent
    /\ sent' = sent \cup {c}
    /\ UNCHANGED <<life, guard, named, chan, lost, workVars, feeVars>>

\* The scan for reversal m reaches a transaction in the guard whose STAN m names, of
\* whatever card and acquirer.  It may wait in each send, so the rest comes later.
TerminalReversal(m, c) ==
    /\ c \in guard /\ Stan[c] = Stan[m] /\ c \notin named[m]
    /\ Emit([tx |-> c, msg |-> m])
    /\ named' = [named EXCEPT ![m] = @ \cup {c}]
    /\ UNCHANGED <<life, guard, sent, workVars, feeVars>>

\* The bank answers, or the reaper answers 68 and sends a 0420, which it does only
\* to a transaction no terminal reversed: nothing is booked.
Complete(c, end) ==
    /\ life[c] = "open"
    /\ end = "answered" => c \in sent
    /\ end = "timeout" => \A m \in Reversals : c \notin named[m]
    /\ life' = [life EXCEPT ![c] = end]
    /\ UNCHANGED <<guard, sent, named, chan, lost, workVars, feeVars>>

Evict(c) ==
    /\ c \in guard /\ life[c] \in {"answered", "timeout"}
    /\ guard' = guard \ {c}
    /\ UNCHANGED <<life, sent, named, chan, lost, workVars, feeVars>>
-----------------------------------------------------------------------------
(* The ledger worker.                                                      *)

Receive ==
    /\ wpc = "receive"
    /\ IF chan = <<>> THEN UNCHANGED <<chan, buf>>
       ELSE buf' = Append(buf, Head(chan)) /\ chan' = Tail(chan)
    /\ wpc' = "check"
    /\ UNCHANGED <<engVars, due, txn, ledger, lost, errors, feeVars>>

\* Faulty variant: only a full batch is committed.
FlushNowWhenFull == Len(buf) >= Batch

FlushNow == Len(buf) >= Batch \/ (buf # <<>> /\ due)

\* The whole batch is dropped if the transaction cannot be opened.
Check(ok) ==
    /\ wpc = "check" /\ (ok \/ (FlushNow /\ errors < MaxErrors))
    /\ wpc' = IF FlushNow /\ ok THEN "insert" ELSE "receive"
    /\ IF ok THEN UNCHANGED <<buf, due, lost, errors>>
       ELSE /\ lost' = lost \cup {buf[i] : i \in 1 .. Len(buf)} /\ buf' = <<>>
            /\ due' = FALSE /\ errors' = errors + 1
    /\ UNCHANGED <<engVars, chan, txn, ledger, feeVars>>

\* A statement that cannot be prepared and a card that cannot be sliced panic: the
\* thread ends, its transaction is rolled back, and its channel goes with it.
Die ==
    /\ wpc' = "dead" /\ chan' = <<>> /\ buf' = <<>> /\ txn' = <<>>
    /\ lost' = lost \cup Range(chan) \cup Range(buf) \cup {txn[i].event : i \in 1 .. Len(txn)}
    /\ UNCHANGED <<engVars, due, ledger, errors, feeVars>>

PrepareFails == wpc = "check" /\ FlushNow /\ Die

Sliceable(e) == Card[e.msg] \notin Unsliceable

SliceFails == wpc = "insert" /\ buf # <<>> /\ ~Sliceable(Head(buf)) /\ Die

\* The rule for a card, if there is one.
RuleOf(k) ==
    IF k \in ShortPan THEN NoRule
    ELSE IF cache[Bin[k]] # NoRule THEN cache[Bin[k]] ELSE cache[Default]

\* The fee of a message: by its own card and its own amount.
FeeOf(m) == IF RuleOf(Card[m]) = NoRule THEN 0 ELSE Charge[RuleOf(Card[m])][Amount[m]]

\* Faulty variant: the fee of a reversal keeps its sign.
BookedFeeUnsigned(e) ==
    [principal |-> IF is_reversal(e) THEN -Amount[e.msg] ELSE Amount[e.msg], fee |-> FeeOf(e.msg)]

\* Principal and fee of the row for event e.
BookedFee(e) ==
    IF is_reversal(e) THEN [principal |-> -Amount[e.msg], fee |-> -FeeOf(e.msg)]
    ELSE [principal |-> Amount[e.msg], fee |-> FeeOf(e.msg)]

RowFor(e) ==
    [event |-> e, principal |-> BookedFee(e).principal, fee |-> BookedFee(e).fee,
     status |-> IF is_reversal(e) THEN "hold" ELSE "shadow", epoch |-> epoch]

\* drain(..): one INSERT per event; one that fails is reported and forgotten.
InsertRow(ok) ==
    /\ wpc = "insert" /\ buf # <<>> /\ Sliceable(Head(buf)) /\ (ok \/ errors < MaxErrors)
    /\ buf' = Tail(buf)
    /\ IF ok THEN txn' = Append(txn, RowFor(Head(buf))) /\ UNCHANGED <<lost, errors>>
       ELSE lost' = lost \cup {Head(buf)} /\ errors' = errors + 1 /\ UNCHANGED txn
    /\ UNCHANGED <<engVars, chan, wpc, due, ledger, feeVars>>

\* Faulty variant: a failed commit leaves the transaction's rows to the next one.
CommitRetrying(ok) ==
    /\ wpc = "insert" /\ buf = <<>> /\ (ok \/ errors < MaxErrors)
    /\ ledger' = ledger \o txn
    /\ IF ok THEN txn' = <<>> /\ UNCHANGED errors ELSE errors' = errors + 1 /\ UNCHANGED txn
    /\ wpc' = "receive" /\ due' = FALSE
    /\ UNCHANGED <<engVars, chan, buf, lost, feeVars>>

\* commit; the whole batch is gone if it fails.
Commit(ok) ==
    /\ wpc = "insert" /\ buf = <<>> /\ (ok \/ errors < MaxErrors)
    /\ IF ok THEN ledger' = ledger \o txn /\ UNCHANGED <<lost, errors>>
       ELSE /\ lost' = lost \cup {txn[i].event : i \in 1 .. Len(txn)}
            /\ errors' = errors + 1 /\ UNCHANGED ledger
    /\ txn' = <<>> /\ wpc' = "receive" /\ due' = FALSE
    /\ UNCHANGED <<engVars, chan, buf, feeVars>>

Tick ==
    /\ ~due
    /\ due' = TRUE
    /\ UNCHANGED <<engVars, chan, lost, wpc, buf, txn, ledger, errors, feeVars>>
-----------------------------------------------------------------------------
(* Fees, settlement.                                                       *)

\* The operator edits the fee matrix, or takes a rule out.
EditRule(k, f) ==
    /\ edits < MaxEdits /\ rules[k] # f
    /\ edits' = edits + 1 /\ rules' = [rules EXCEPT ![k] = f]
    /\ UNCHANGED <<engVars, chan, lost, workVars, cache, epoch>>

\* The polling thread copies a live rule; a rule that is gone stays in the cache.
PollRule(k) ==
    /\ rules[k] # NoRule /\ cache[k] # rules[k]
    /\ cache' = [cache EXCEPT ![k] = rules[k]] /\ epoch' = epoch + 1
    /\ UNCHANGED <<engVars, chan, lost, workVars, rules, edits>>

\* UPDATE general_ledger SET status = 'settled' over the first n rows.
Settled(rows, n) ==
    [i \in 1 .. Len(rows) |-> IF i <= n /\ rows[i].status = "shadow"
                             THEN [rows[i] EXCEPT !.status = "settled"] ELSE rows[i]]

\* The midnight sweep settles the shadow rows older than a minute, which are the
\* first n; the endpoint settles all.
Settle(n) ==
    /\ Settled(ledger, n) # ledger
    /\ ledger' = Settled(ledger, n)
    /\ UNCHANGED <<engVars, chan, wpc, buf, due, txn, lost, errors, feeVars>>
-----------------------------------------------------------------------------
WorkerStep ==
    \/ Receive \/ PrepareFails \/ SliceFails
    \/ \E ok \in BOOLEAN : Check(ok) \/ InsertRow(ok) \/ Commit(ok)

Next ==
    \/ \E c \in Captures : \/ Admit(c) \/ Evict(c) \/ Forward(c) \/ HsmForward(c)
                           \/ \E m \in Reversals : TerminalReversal(m, c)
                           \/ \E end \in {"answered", "timeout"} : Complete(c, end)
    \/ WorkerStep \/ Tick
    \/ \E k \in RuleKeys : PollRule(k) \/ \E f \in Rules \cup {NoRule} : EditRule(k, f)
    \/ \E n \in 1 .. Len(ledger) : Settle(n)

Spec == Init /\ [][Next]_vars

\* The worker thread runs while it lives, and its clock advances.
FairSpec == Spec /\ WF_vars(WorkerStep) /\ WF_vars(Tick)
-----------------------------------------------------------------------------
(* Properties.                                                             *)

Booked(e) == {i \in 1 .. Len(ledger) : ledger[i].event = e}

\* No event is booked twice, and none that was dropped is booked after all,
\* whatever inserts and commits fail and whatever ends the worker (ledger_worker.rs,
\* start_worker).
BookedOnce == \A e \in Events : Cardinality(Booked(e)) <= 1 /\ (e \in lost => Booked(e) = {})

\* A reversal row and the row of the transaction whose RRN it bears.
Reverses(b, a) == a.event.tx = b.event.tx /\ ~is_reversal(a.event) /\ is_reversal(b.event)

\* The message is one of the card and for the amount of the transaction.
SameCharge(m, c) == Card[m] = Card[c] /\ Amount[m] = Amount[c]

\* A reversal row takes back the principal of the transaction whose RRN it bears
\* exactly if the message was for its amount, and its fee if it was for its card too
\* and no fee was refreshed between the two; a transaction that merely shares the
\* STAN gets a row that need not cancel (ledger_worker.rs, is_reversal).
ReversalCancels ==
    \A i, j \in 1 .. Len(ledger) :
        LET a == ledger[i]
            b == ledger[j]
        IN  Reverses(b, a) =>
              /\ a.principal + b.principal = 0 <=> Amount[b.event.msg] = Amount[a.event.msg]
              /\ SameCharge(b.event.msg, a.event.msg) /\ a.epoch = b.epoch => a.fee + b.fee = 0

\* An event the engine queued is eventually booked, or given up after an error or
\* with the worker: a batch does not wait to be full (ledger_worker.rs, recv_timeout
\* and last_commit).
EventuallyBooked ==
    \A e \in Events : (\E i \in 1 .. Len(chan) : chan[i] = e) ~> (Booked(e) # {} \/ e \in lost)
-----------------------------------------------------------------------------
(* The inductive invariants behind BookedOnce and ReversalCancels.         *)

EventsOf(rows) == [i \in 1 .. Len(rows) |-> rows[i].event]

\* A capture is sent once, and a reversal once for each transaction it names.
Emitted == {e \in Events : IF is_reversal(e) THEN e.tx \in named[e.msg] ELSE e.tx \in sent}

\* The loop checks after every event it takes.
BatchInv == wpc = "receive" => Len(buf) < Batch

\* An event that was sent is in one place: the channel, the batch, the open
\* transaction, the ledger, or lost.
OnceInv ==
    /\ IsInjective(chan) /\ IsInjective(buf)
    /\ IsInjective(EventsOf(txn)) /\ IsInjective(EventsOf(ledger))
    /\ Range(chan) \cup Range(buf) \cup Range(EventsOf(txn)) \cup Range(EventsOf(ledger))
          \cup lost \subseteq Emitted
    /\ Range(chan) \cap (Range(buf) \cup Range(EventsOf(txn)) \cup Range(EventsOf(ledger))
          \cup lost) = {}
    /\ Range(buf) \cap (Range(EventsOf(txn)) \cup Range(EventsOf(ledger)) \cup lost) = {}
    /\ Range(EventsOf(txn)) \cap (Range(EventsOf(ledger)) \cup lost) = {}
    /\ Range(EventsOf(ledger)) \cap lost = {}

Rows == Range(txn) \cup Range(ledger)

Cancels(x, y) ==
    Reverses(y, x) =>
      /\ x.principal + y.principal = 0 <=> Amount[y.event.msg] = Amount[x.event.msg]
      /\ SameCharge(y.event.msg, x.event.msg) /\ x.epoch = y.epoch => x.fee + y.fee = 0

\* A row of the current epoch has the fee the cache gives now, and rows of one
\* epoch were booked with one cache.
FeeInv ==
    /\ \A x \in Rows : /\ x.epoch <= epoch
                       /\ x.principal = BookedFee(x.event).principal
                       /\ x.epoch = epoch => x.fee = BookedFee(x.event).fee
    /\ \A x, y \in Rows : Cancels(x, y)

LedgerInv == TypeOK /\ BatchInv /\ OnceInv /\ FeeInv
-----------------------------------------------------------------------------
(* What a document says and the code does not do.                          *)

\* ISO8583PaymentEngine/README.md 27: the reaper's automatic reversals avoid double
\* settlement.  A transaction it reversed should not be settled.
TimedOutNotSettled ==
    \A i \in 1 .. Len(ledger) :
        ledger[i].status = "settled" => life[ledger[i].event.tx] # "timeout"

\* The row of a reversal is the reversed_offset_hold of ledger_worker.rs 157: it
\* should offset the transaction whose RRN it bears.
ReversalOffsets ==
    \A i, j \in 1 .. Len(ledger) :
        Reverses(ledger[j], ledger[i]) => ledger[i].principal + ledger[j].principal = 0
=============================================================================

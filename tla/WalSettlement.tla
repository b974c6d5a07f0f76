--------------------------- MODULE WalSettlement ---------------------------
(***************************************************************************)
(* The write-ahead log and the settlement tally computed from it.  The      *)
(* daemon's journal thread (switch-core/src/journal.rs) copies records from *)
(* a bounded channel into a memory-mapped file; the settle process          *)
(* (switch-core/src/bin/settle.rs) maps the file it is given the name of,   *)
(* sweeps it from a saved cursor and keeps totals in its own sled database. *)
(* Nothing synchronises the two.  As shipped the names differ: the daemon   *)
(* writes "live_payment_wal.log" (payment-daemon/src/main.rs:27), settle's  *)
(* main passes "test_wal.log" to run_settlement_loop (settle.rs:23), finds  *)
(* no such file and tallies nothing.  SameFile says whether the two agree;  *)
(* what follows about the tally is about a Journaler and a settlement loop  *)
(* that were given one file.  Records are taken to have equal encoded       *)
(* length, so offsets count records; a database insert is the unit a crash  *)
(* of settle can separate from the next one.                                *)
(***************************************************************************)
EXTENDS Integers, Sequences, FiniteSets

CONSTANTS
    Records,      \* transactions handed to Journaler::append
    NoRecord,
    Acquirers,
    Acquirer,     \* Acquirer[r], Mti[r], Rc[r], Amount[r]: the fields settle reads
    Mti, Rc, Amount,
    SameFile,     \* settle is given the file the journal thread writes
    WalCap,       \* records the log file has space for (100 MB in the daemon)
    ChanCap,      \* capacity of the journal channel (50_000)
    MaxCrashes,   \* bound: crashes of settle
    MaxRestarts,  \* bound: restarts of the daemon
    MaxCutoffs    \* bound: cutoffs (0 in the shipped process, which makes none)

ASSUME FieldAssumption ==
    /\ NoRecord \notin Records
    /\ Acquirer \in [Records -> Acquirers]
    /\ Amount \in [Records -> Nat \ {0}]
    /\ Mti \in [Records -> {"0100", "0110"}] /\ Rc \in [Records -> {"", "00", "51"}]
ASSUME CapAssumption ==
    /\ SameFile \in BOOLEAN
    /\ WalCap \in Nat \ {0} /\ ChanCap \in Nat \ {0}
    /\ MaxCrashes \in Nat /\ MaxRestarts \in Nat /\ MaxCutoffs \in Nat

VARIABLES
    appended,  \* records whose append has returned Ok
    chan,      \* the journal channel
    wal,       \* the file: zero, a length with an empty body, or a record
    jpc,       \* the journal thread: between records, or between length and body
    offset,    \* its write position
    total, count, cursor,  \* settle's database; an absent key counts as 0
    spc, pos,  \* settle: where it is, and its cursor variable
    held,      \* the record it has decoded
    left,      \* the keys a cutoff still has to remove
    exported,  \* what cutoff reports have said so far, per acquirer
    skipped,   \* slots passed over because the body was not there yet
    crashes, restarts, cutoffs

daemonVars == <<appended, chan, wal, jpc, offset>>
dbVars == <<total, count, cursor>>
ghostVars == <<exported, skipped>>
boundVars == <<crashes, restarts, cutoffs>>
vars == <<daemonVars, dbVars, spc, pos, held, left, ghostVars, boundVars>>

Zero == [state |-> "zero"]
Slot == [state : {"length", "whole"}, rec : Records] \cup {Zero}
Report == [amount : Nat, count : Nat]

TypeOK ==
    /\ appended \subseteq Records
    /\ chan \in Seq(Records) /\ Len(chan) <= ChanCap
    /\ wal \in [1 .. WalCap -> Slot]
    /\ jpc \in {"record", "body"}
    /\ offset \in 0 .. WalCap
    /\ total \in [Acquirers -> Nat] /\ count \in [Acquirers -> Nat]
    /\ cursor \in 0 .. WalCap /\ pos \in 0 .. WalCap
    /\ spc \in {"idle", "scan", "total", "count", "reset"}
    /\ held \in Records \cup {NoRecord}
    /\ left \subseteq Acquirers \X {"total", "count"}
    /\ exported \in [Acquirers -> Report]
    /\ skipped \subseteq 1 .. WalCap
    /\ crashes \in 0 .. MaxCrashes /\ restarts \in 0 .. MaxRestarts
    /\ cutoffs \in 0 .. MaxCutoffs

Init ==
    /\ appended = {} /\ chan = <<>> /\ offset = 0 /\ jpc = "record"
    /\ wal = [i \in 1 .. WalCap |-> Zero]
    /\ total = [a \in Acquirers |-> 0] /\ count = [a \in Acquirers |-> 0]
    /\ cursor = 0 /\ pos = 0 /\ spc = "idle" /\ held = NoRecord /\ left = {}
    /\ exported = [a \in Acquirers |-> [amount |-> 0, count |-> 0]]
    /\ skipped = {}
    /\ crashes = 0 /\ restarts = 0 /\ cutoffs = 0
-----------------------------------------------------------------------------
(* The daemon.                                                             *)

\* The caller goes on as soon as the record is in the channel.
JournalAppend(r) ==
    /\ r \notin appended /\ Len(chan) < ChanCap
    /\ chan' = Append(chan, r)
    /\ appended' = appended \cup {r}
    /\ UNCHANGED <<wal, jpc, offset, dbVars, spc, pos, held, left, ghostVars, boundVars>>

\* Faulty variant: the free space is not checked.
JournalLengthUnchecked ==
    /\ jpc = "record" /\ chan # <<>>
    /\ chan' = Tail(chan)
    /\ wal' = [wal EXCEPT ![offset + 1] = [state |-> "length", rec |-> Head(chan)]]
    /\ jpc' = "body"
    /\ UNCHANGED <<appended, offset, dbVars, spc, pos, held, left, ghostVars, boundVars>>

\* A record that does not fit is dropped; otherwise its length is written.
JournalLength ==
    /\ jpc = "record" /\ chan # <<>>
    /\ chan' = Tail(chan)
    /\ IF offset + 1 > WalCap
       THEN UNCHANGED <<wal, jpc>>
       ELSE /\ wal' = [wal EXCEPT ![offset + 1] = [state |-> "length", rec |-> Head(chan)]]
            /\ jpc' = "body"
    /\ UNCHANGED <<appended, offset, dbVars, spc, pos, held, left, ghostVars, boundVars>>

JournalBody ==
    /\ jpc = "body"
    /\ wal' = [wal EXCEPT ![offset + 1].state = "whole"]
    /\ offset' = offset + 1
    /\ jpc' = "record"
    /\ UNCHANGED <<appended, chan, dbVars, spc, pos, held, left, ghostVars, boundVars>>

\* The daemon dies and starts again: Journaler::new truncates the file.
DaemonRestart ==
    /\ restarts < MaxRestarts
    /\ restarts' = restarts + 1
    /\ chan' = <<>> /\ jpc' = "record" /\ offset' = 0
    /\ wal' = [i \in 1 .. WalCap |-> Zero]
    /\ UNCHANGED <<appended, dbVars, spc, pos, held, left, ghostVars, crashes, cutoffs>>
-----------------------------------------------------------------------------
(* settle: the sweep.                                                      *)

Qualifies(r) == Mti[r] = "0100" /\ Rc[r] = "00"

\* Faulty variant: the database cursor is advanced before the totals.
SweepStartSavesCursor ==
    /\ SameFile /\ spc = "idle" /\ cursor < WalCap
    /\ spc' = "scan" /\ pos' = cursor /\ cursor' = offset
    /\ UNCHANGED <<daemonVars, total, count, held, left, ghostVars, boundVars>>

\* A tick of the timer.  A file that cannot be opened is left for the next tick.
SweepStart ==
    /\ SameFile /\ spc = "idle" /\ cursor < WalCap
    /\ spc' = "scan" /\ pos' = cursor
    /\ UNCHANGED <<daemonVars, dbVars, held, left, ghostVars, boundVars>>

\* Faulty variant: a record that is not tallied is not passed over.
SweepRecordStuck ==
    /\ spc = "scan" /\ pos < WalCap /\ wal[pos + 1].state = "whole"
    /\ Qualifies(wal[pos + 1].rec)
    /\ spc' = "total" /\ held' = wal[pos + 1].rec
    /\ UNCHANGED <<pos, skipped, daemonVars, dbVars, left, exported, boundVars>>

\* Decode the record at the cursor.  A body that is still zeros does not decode
\* and is passed over, like any record that is not an approved 0100.
SweepRecord ==
    LET s == wal[pos + 1]
    IN  /\ spc = "scan" /\ pos < WalCap /\ s # Zero
        /\ IF s.state = "whole" /\ Qualifies(s.rec)
           THEN spc' = "total" /\ held' = s.rec /\ UNCHANGED <<pos, skipped>>
           ELSE /\ pos' = pos + 1 /\ UNCHANGED <<spc, held>>
                /\ skipped' = IF s.state = "length" THEN skipped \cup {pos + 1} ELSE skipped
        /\ UNCHANGED <<daemonVars, dbVars, left, exported, boundVars>>

InsertTotal ==
    /\ spc = "total"
    /\ total' = [total EXCEPT ![Acquirer[held]] = @ + Amount[held]]
    /\ spc' = "count"
    /\ UNCHANGED <<daemonVars, count, cursor, pos, held, left, ghostVars, boundVars>>

InsertCount ==
    /\ spc = "count"
    /\ count' = [count EXCEPT ![Acquirer[held]] = @ + 1]
    /\ pos' = pos + 1 /\ spc' = "scan" /\ held' = NoRecord
    /\ UNCHANGED <<daemonVars, total, cursor, left, ghostVars, boundVars>>

\* Zero length or end of file: save the cursor and flush.
SweepEnd ==
    /\ spc = "scan" /\ (pos < WalCap => wal[pos + 1] = Zero)
    /\ cursor' = pos /\ spc' = "idle"
    /\ UNCHANGED <<daemonVars, total, count, pos, held, left, ghostVars, boundVars>>
-----------------------------------------------------------------------------
(* settle: the end-of-day cutoff, and crashes.  execute_cutoff is written   *)
(* for the settlement database, but only the unit test calls it, between    *)
(* two sweeps and in their thread; so it is taken here.                     *)

\* Write and flush the report of every acquirer that has a total.
CutoffReport ==
    LET due == {a \in Acquirers : total[a] > 0}
    IN  /\ spc = "idle" /\ cutoffs < MaxCutoffs /\ due # {}
        /\ cutoffs' = cutoffs + 1
        /\ exported' = [a \in Acquirers |->
               [amount |-> exported[a].amount + total[a],
                count  |-> exported[a].count + (IF a \in due THEN count[a] ELSE 0)]]
        /\ left' = due \X {"total", "count"}
        /\ spc' = "reset"
        /\ UNCHANGED <<daemonVars, dbVars, pos, held, skipped, crashes, restarts>>

\* Faulty variant: only the totals are cleared for the next day.
CutoffResetTotals(a, k) ==
    /\ spc = "reset" /\ <<a, k>> \in left
    /\ left' = left \ {<<a, k>>}
    /\ total' = [total EXCEPT ![a] = 0] /\ UNCHANGED count
    /\ spc' = IF left' = {} THEN "idle" ELSE "reset"
    /\ UNCHANGED <<daemonVars, cursor, pos, held, ghostVars, boundVars>>

\* Remove the reported keys one by one, an acquirer's total before its count.
CutoffReset(a, k) ==
    /\ spc = "reset" /\ <<a, k>> \in left
    /\ k = "count" => <<a, "total">> \notin left
    /\ left' = left \ {<<a, k>>}
    /\ total' = IF k = "total" THEN [total EXCEPT ![a] = 0] ELSE total
    /\ count' = IF k = "count" THEN [count EXCEPT ![a] = 0] ELSE count
    /\ spc' = IF left' = {} THEN "idle" ELSE "reset"
    /\ UNCHANGED <<daemonVars, cursor, pos, held, ghostVars, boundVars>>

\* settle dies and starts again with what its database holds.  sled recovers a
\* prefix of its inserts, which is the state after an earlier crash.
SettleCrash ==
    /\ crashes < MaxCrashes /\ spc # "idle"
    /\ crashes' = crashes + 1
    /\ spc' = "idle" /\ pos' = 0 /\ held' = NoRecord /\ left' = {}
    /\ UNCHANGED <<daemonVars, dbVars, ghostVars, restarts, cutoffs>>
-----------------------------------------------------------------------------
DaemonStep == JournalLength \/ JournalBody
SettleStep ==
    \/ SweepStart \/ SweepRecord \/ InsertTotal \/ InsertCount \/ SweepEnd
    \/ \E a \in Acquirers, k \in {"total", "count"} : CutoffReset(a, k)

Next ==
    \/ \E r \in Records : JournalAppend(r)
    \/ DaemonStep \/ DaemonRestart
    \/ SettleStep \/ CutoffReport \/ SettleCrash

\* The journal thread runs and settle's 15 minute timer keeps firing.
Spec == Init /\ [][Next]_vars
FairSpec == Spec /\ WF_vars(DaemonStep) /\ WF_vars(SettleStep)
-----------------------------------------------------------------------------
(* Properties.                                                             *)

\* The slots among the first n that hold an approved record of acquirer a and
\* were not passed over.
Swept(a, n) ==
    {i \in 1 .. n : /\ wal[i] # Zero /\ i \notin skipped
                    /\ Qualifies(wal[i].rec) /\ Acquirer[wal[i].rec] = a}

\* The sum of f over S, as the size of a disjoint union.
SumOver(f, S) == Cardinality(UNION {{i} \X (1 .. f[i]) : i \in S})
Worth == [i \in 1 .. WalCap |-> IF wal[i] = Zero THEN 0 ELSE Amount[wal[i].rec]]
AmountOf(S) == SumOver(Worth, S)

\* Between sweeps, and while neither process has died, what an acquirer is paid
\* is the amount, and what it is told is the number, of one and the same set of
\* its approvals in the log: none is tallied twice by consecutive sweeps, and a
\* cutoff resets amount and number together (settle.rs, sweep and cutoff).
TallyExact ==
    crashes = 0 /\ restarts = 0 /\ spc \in {"idle", "scan"} =>
        \A a \in Acquirers : LET S == Swept(a, IF spc = "idle" THEN cursor ELSE pos)
                             IN  /\ total[a] + exported[a].amount = AmountOf(S)
                                 /\ count[a] + exported[a].count = Cardinality(S)

\* Whatever settle dies in the middle of, a record behind the saved cursor was
\* tallied at least once (settle.rs: the cursor is saved after the totals).
TalliedAtLeastOnce ==
    restarts = 0 =>
        \A a \in Acquirers :
            total[a] + exported[a].amount >= AmountOf(Swept(a, cursor))

\* The inductive invariant behind them: what the file holds, ...
LogInv ==
    /\ jpc = "body" => offset < WalCap /\ wal[offset + 1].state = "length"
    /\ \A i \in 1 .. WalCap : wal[i] = Zero <=> i > offset + (IF jpc = "body" THEN 1 ELSE 0)

\* ... where the sweep is in it, ...
Tallying == spc \in {"total", "count"}
SweepInv ==
    /\ Tallying => held \in Records /\ pos < WalCap
    /\ restarts = 0 =>
        /\ \A i \in 1 .. cursor : wal[i] # Zero
        /\ spc \in {"scan", "total", "count"} =>
               cursor <= pos /\ \A i \in 1 .. pos : wal[i] # Zero
        /\ Tallying => Qualifies(held) /\ wal[pos + 1] = [state |-> "whole", rec |-> held]

\* ... what the database and the reports are known to cover at each point of it,
\* whatever has crashed, ...
Base == IF spc \in {"idle", "reset"} THEN cursor ELSE pos
Inserted(a) == Swept(a, Base) \cup (IF spc = "count" /\ Acquirer[held] = a THEN {pos + 1} ELSE {})
CoverInv ==
    restarts = 0 =>
        \A a \in Acquirers :
            (IF spc = "reset" THEN 0 ELSE total[a]) + exported[a].amount >= AmountOf(Inserted(a))

\* ... and, as long as nothing has, exactly.
Standing(a, k, n) == IF spc = "reset" /\ <<a, k>> \in left THEN 0 ELSE n
ExactInv ==
    crashes = 0 /\ restarts = 0 =>
        /\ \A i \in skipped : i <= Base
        /\ \A a \in Acquirers :
               /\ Standing(a, "total", total[a]) + exported[a].amount = AmountOf(Inserted(a))
               /\ Standing(a, "count", count[a]) + exported[a].count = Cardinality(Swept(a, Base))

WalInv == TypeOK /\ LogInv /\ SweepInv /\ CoverInv /\ ExactInv

\* Where settle is given the journal's file, every record written to it is
\* eventually behind settle's cursor: no record, and no crash of settle, stops the
\* sweeps for good.  A restart of the daemon ends the claim, as it empties the
\* file (settle.rs, run_settlement_loop).
EventuallySwept ==
    SameFile => \A i \in 1 .. WalCap : wal[i] # Zero ~> (cursor >= i \/ restarts > 0)
-----------------------------------------------------------------------------
(* What comments and documents say and the code does not do.               *)

\* README.md 10: the WAL guarantees durability.  A record in it should stay.
WalKeepsRecords ==
    [][\A i \in 1 .. WalCap : wal[i] # Zero => wal'[i] # Zero /\ wal'[i].rec = wal[i].rec]_vars

\* RUN_INSTRUCTIONS.md 85: every request is persisted to the physical disk.
EveryRequestPersisted ==
    \A r \in Records :
        r \in appended ~> \E i \in 1 .. WalCap : wal[i] = [state |-> "whole", rec |-> r]

\* ISO8583PaymentEngine/README.md 35: settle makes its report from the WAL.  With
\* the names the two programs use (SameFile = FALSE) it never opens it.
SettleReadsLog == wal[1] # Zero ~> (cursor >= 1 \/ restarts > 0)

\* settle.rs 73-76: an "incomplete flush" ends the sweep; the cursor should not
\* pass a record whose body is not there.
IncompleteWaits == skipped = {}

\* ISO8583PaymentEngine/README.md 35: settle reports settlement from the WAL.  The
\* approvals the switch journals are the bank's 0110 replies.
ApprovalsTallied ==
    spc = "idle" => \A i \in 1 .. cursor :
        LET r == wal[i].rec
        IN  wal[i].state = "whole" /\ Mti[r] = "0110" /\ Rc[r] = "00" =>
                total[Acquirer[r]] + exported[Acquirer[r]].amount >= Amount[r]
=============================================================================

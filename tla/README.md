# TLA+ models of the ISO 8583 payments engine

This directory holds TLA+ specifications of the payment switch in
`ISO8583PaymentEngine/`, of the control plane that feeds it and of the load
generator that drives it, the TLC configurations that check them on small instances, and TLAPS proofs of some of
their properties for every instance. Every definition is translated from the
Rust (or SQL) it names in `PROJECT.json` under `map`; the documents of the
repository are used only as a source of claims to compare the code with.

## 1. Inventory

A terminal connects to the daemon, which parses its ISO 8583 frames and hands
each to the engine as a *context* (transaction and one-shot responder). The
engine screens it, enters it in the *idempotency guard*, routes it by the
card's BIN prefix, gives it a switch-wide STAN (*NAT*), journals it, books it
and sends it on the egress channel of a bank. The bank's reply comes back
through one shared channel, is translated back and delivered through the
responder in the guard. A *reaper* thread answers 68 to requests whose time is
up and sends the bank a 0420.

| part | state | operations | talks to |
|---|---|---|---|
| engine (`switch-core/src/engine.rs`, `context.rs`, `state.rs`) | guard, NAT table, STAN counter, node health, channels | ingress workers, HSM task, reaper, reply workers | all parts below |
| BIN routing (`routing.rs`) | trie behind an `ArcSwap` | insert, find, hot reload | engine reads, daemon swaps |
| write-ahead log (`journal.rs`) | memory-mapped file, offset, channel | append, write, truncate on start | engine appends |
| settlement tally (`bin/settle.rs`) | sled database: cursor, totals, counts | sweep, cutoff | meant to read the log, from another process; as wired it opens `test_wal.log` and the daemon writes `live_payment_wal.log` |
| shadow ledger (`ledger_worker.rs`, `settlement_cron.rs`) | batch, fee cache, `general_ledger` | receive, flush, poll, settle | engine sends events, control plane settles |
| HSM client (`hsm_client.rs`) | header counter, correlation map, bounded channel to the writer | verify PIN, translate PIN, verify MAC | the HSM over TCP |
| upstream clients (`edge-egress/src/client.rs`) | connection, writer queue, shared SAF database | send, store, drain | the banks over TCP |
| terminal sessions (`edge-ingress/src/server.rs`, `codec.rs`) | byte buffer, a task per frame, reply channel, connection count | decode, forward, reply, reverse on socket drop, write | terminals, engine |
| network manager (`payment-daemon/src/network_manager.rs`) | node health | probe with 0800 | egress channels |
| control plane (`ops-control-plane`) | versioned SQLite tables | create, update, publish, settle | daemon's hot-reload handlers |
| screening (`compliance.rs`, `tsp_vault.rs`, `lib.rs`) | map of blocked prefixes, poller thread, token map | poll, evaluate, detokenize | engine; the control plane's database |
| stand-in store (`lib.rs`, `engine.rs`, `bin/stip_loader.rs`) | sled database of card profiles | load, evaluate, deduct | engine |
| codecs and dialects (`payment-proto`, `iso-dialect`) | none | parse, build, to and from the protobuf record | ingress, egress, SAF database |
| load generator (`ISO8583PaymentSimulator`) | run flag, shared counters, a connection per worker | start, cancel, generate, wait, monitor | the daemon's ports |
| dashboard, test tools, `iso-parser` | - | display, scripts; a crate nobody calls | outside |

What is hard about it:

* **Concurrency.** Eight or more threads work on the guard and the NAT table,
  which are locked per key and only for the duration of one access. Decisions
  taken under the lock are used after it is released.
* **Failure.** Connections break with frames queued; the HSM may not answer;
  channels fill and peers stop reading; inserts, commits and single rows of a
  query fail; the journal and ledger threads can die while the engine goes on;
  settle and the daemon restart independently.
* **Time.** The reaper races the bank, HSM time-outs race late answers, health
  bits are up to a minute old.
* **Identity.** A retry has the key of the attempt it repeats; probe STANs,
  terminal STANs and egress STANs share one number space; HSM headers wrap.

What makes each part correct, in a sentence: the switch reverses nothing of its
own accord without a 68 and approves nothing without the bank's word; every
terminal answered; the journal says
what the terminals were told; a lookup uses one table and its longest prefix;
every approved record is tallied, once; every event is booked at most once and
a reversal for the same card and amount cancels its capture; a call never takes another command's answer; a
stored advice is kept until it was written; frames are read whole and each is
answered or reversed, not both; one live version per row; what bank and
terminal read is what was sent; a listed prefix that no query
misses stays blocked; the deductions of
the stand-in decisions add up; a worker of the load generator takes the answer
to its own transaction.

## 2. Modules

| module | models | depends on |
|---|---|---|
| `PaymentLifecycle` | abstract: what the switch promises terminals and bank | - |
| `SwitchCore` | the engine, with the bank, the links and the network manager as its environment | instantiates `PaymentLifecycle` |
| `SwitchCoreProofs` | theorems about `SwitchCore` | |
| `WalSettlement`, `WalSettlementProofs` | journal thread and a settle process that is pointed at its file | |
| `StoreForward` | upstream clients on the shared SAF database | |
| `HsmClient` | HSM calls, writer, reader, HSM | |
| `LinkProofs` | theorems about the two links, bank and HSM | extends `StoreForward`, `HsmClient` |
| `BinRouting` | trie, reloads and lookups | |
| `ControlPlane` | versioned tables, updates, publishes | |
| `TableProofs` | theorems about the tables, where they are edited and where they are used | extends `ControlPlane`, `BinRouting` |
| `Ledger`, `LedgerProofs` | ledger events, worker, fees, settlement | |
| `IngressSession`, `IngressSessionProofs` | terminal connections in front of the engine's guard | |
| `IsoDialects` | readers, writers and the protobuf record, as operators | |
| `Compliance` | the sanctions list, its poller and the map | |
| `StandIn` | card profiles: loader, deductions, flush, crash | |
| `MessagePath`, `MessagePathProofs` | a request as data on its way through the daemon | extends `IsoDialects`, `Compliance`, `StandIn` |
| `SimTransactions` | the messages of the load generator, as operators | extends `IsoDialects` |
| `LoadGenerator`, `LoadGeneratorProofs` | runs, workers, counters and connections of the simulator | |
| `MC*` | constants for TLC | the module of the same name |

Where two components share a proof module, one of them has its component's name
in its top-level formulas (`HsmSpec`, `HsmTypeOK`, `RoutingSpec`).

### SwitchCore

State: `guard[k]`, the entry of key `k` (state, attempt, responder held, egress
STAN, age); `nat`, `counter`; `egress[n]`, a bounded channel per node;
`replies`; `health`; per attempt its program counter `pc[a]`, node and egress
STAN; the reaper's `rpc`, its scan result and the key it holds; per reply worker
`wpc`, `wkey`, `wmsg`; `walUp`, whether the journal thread still takes records;
and what the outside has seen: `answer`, `bank`, `journal`, `ledger`, `acked`,
with the stand-in decisions (`stip`), the requests the reaper sent a 0420 for
(`advised`) and those whose reply could not be journaled (`unjournaled`).

`Kind` is how the engine classifies a context, `Mti` what the bank takes its
frame for, and the two are independent: the Interac and UK FPS readers leave
`is_reversal` false on a 0420 (`interac.rs:51`, `uk_fps.rs:59`), and such a
0420 goes through guard, NAT and routing like a request and to the bank without
a 68. So does the 0420 of a session whose terminal hung up (`server.rs:91-97`)
when the entry of its request is gone by then; its context has no responder
(`Held`). Whether the journal thread is dead (`JournalFails`) is found out by
the append: on the way in the request goes on without a record
(`RouteUnjournaled`), on the way back the reply worker has already set the
entry to `Completed` and leaves it with its terminal unanswered
(`ReplyUnjournaled`, `engine.rs:721-728`).

An attempt's program counter walks through the worker's handler and stops at
every point where another thread can see a difference: screening, guard
insertion, routing, NAT insertion, recording the egress STAN, booking, sending,
stand-in fallback, eviction. The HSM task, the reaper (scan; reverse and answer;
advise; collect the NAT entry; evict; sweep; prune) and the reply worker
(translate; apply; evict) are divided the same way. The reaper holds the entry's
lock while it blocks on a full egress channel; `Locked` keeps the others out.
`LoseFrame` and the bank's silence stand for everything a link can do to a
frame.

Abstractions: each ingress attempt has a worker of its own, so that a run
interleaves any number of them; the reply channel is a set, because reply
workers take from it in any order and finish in any order; a scan of the map is
one step (what it found is rechecked entry by entry, which is where it matters);
screening declines are a choice; failures inside the HSM task are one action,
`HsmDrop`; "no rule" and `InternalCrdb` both give `NoNode`, as neither has an
egress channel; amounts, cards and fields other than key, STAN, MTI and response
code are left out.

### WalSettlement

The module is about a settle process that sweeps the journal's file, which is
what `settle.rs` is written for. The two programs as they are built do not share
one: `settle.rs:23` opens `test_wal.log`, the daemon's `main.rs:27` writes
`live_payment_wal.log`. `SameFile` says which of the two is meant; `tally` runs
with TRUE, where the interleavings are, and with FALSE settle never opens the log
(`SettleReadsLog`). The cutoff (`execute_cutoff`, `settle.rs:114`) is called
by the unit test only; it is modelled as the operation it is, beside the sweeps.

A slot of the file is zero, a length with an empty body, or a record; the
journal thread writes length and body in two steps and settle can look between
them. Records have equal encoded length, so offsets count records. Every sled
insert is a step, and a crash of settle keeps a prefix of its inserts. A daemon
restart empties the file. `skipped` holds the slots that a sweep passed over
because their body was not there yet. A sum of amounts is the size of a disjoint
union (`SumOver`), which TLC evaluates and the prover can reason about.

### StoreForward

Per client: channel, main-loop phase, frame tasks, the writer's queue, the drain
task with its position in key order and its list of keys to remove. `got`,
`written`, `stored`, `lost` record what happened to a frame. `PeerUp` and
`PeerDown` are the bank's. Writing to an intact connection reaches the bank;
writing to a broken one is reported by an error or not at all. A bank that is
there may stop reading (`StopReading`, `deaf`): the drain's `write_all`
(`client.rs:90`) has no time limit and waits, and so does the writer, so that its
queue fills (`SinkCap`, 100,000 in the code).

### HsmClient

A call takes a header, registers its sender, formats the PAN (and panics if it
has 12 digits), sends, and waits for an answer, for its sender to be dropped or
for the time-out. `SlotsWithout(h)` is what replacing or removing an entry does
to the sender that was there. The HSM answers in order; writer and reader can
end at any time. The channel to the writer has `QueueCap` places (100,000 in the
code), and the send (`hsm_client.rs:100`) is outside the two-second time-out:
behind an HSM that stopped reading, a call that finds no `Room` waits as long as
that lasts. An answer is compared with the call by header and command kind
only, so an earlier call's answer of the same kind passes.

### BinRouting

A trie is a function from prefixes to routes. A reload compiles the rows one by
one and stores the trie; a lookup loads the trie once and descends digit by
digit, so that swaps fall between its steps.

### ControlPlane

The rows of one table in rowid order. An update reads, takes SQLite's write lock
on its first write or fails, and commits; or a statement fails and all is rolled
back (`UpdateFails`). Creates are single statements. A
publish reads the live rows and posts them; the daemon replaces its table.
`AutoId` tells tables whose id numbers itself from those whose id stays NULL
(`routing_rules`). SQLite's locking is external and taken from its documented
behaviour for deferred transactions.

### Ledger

Engine side: transactions are admitted, forwarded (booked unless they take the
HSM path), answered or timed out, evicted. A reversal is a message of its own, with
its own card and amount, and nothing makes these agree with those of the
transaction it names: the engine sends one event for every entry of the guard with
that STAN, of any acquirer and card (`engine.rs:194-200`), and the worker books
each under the RRN of its entry with the card and amount of the message. Worker
side: receive, check, one insert per event, commit; each can fail. The worker
can also die, at the connection it cannot open, at a `prepare_cached` after the deferred
BEGIN has succeeded (`PrepareFails`), or at a PAN that cannot be sliced
(`SliceFails`); what it held is then lost, and the engine goes on sending. `epoch` counts changes of the fee
cache, so that a property can speak of rows booked under the same fees.

### IngressSession

Per connection: the peer's side of the socket, the bytes under way and received,
the reading task, the bounded reply channel and the writing task. A byte is
known by its frame and its place in it, and the first two give the length, so
that decoding is exact for any split of the stream (`Stream(c)`, the frames of
the connection one after the other); whether a payload parses is
an attribute of the frame. Per frame: its task (send, wait, reply or reverse)
and its one-shot. The wait is a `select!` of the answer and the drop signal, two
actions that may both be enabled. A terminal may stop reading (`StopReading`,
`stalled`): the writer's flush (`server.rs:54`) then waits once `SinkCap` is
reached, the reply channel fills, and the tasks behind it wait too. The engine is its bounded ingress channel, a
pool of workers and the guard: a context is answered at once, rejected as a
duplicate or admitted; an entry is answered or evicted at any time, or never.
`SwitchCore` has what lies behind.

### IsoDialects, MessagePath

`SwitchCore` follows the control of a request and leaves its content out;
`MessagePath` follows the content. A frame is an MTI, the set of bits in its
bitmaps and a body, the sequence of its encoded fields. A reader takes the
bitmaps it knows of, then one item of the body for each field it knows, in
order: `Misread` says when a field it steps over without skipping its bytes
shifts the ones after it. What comes of a misread frame depends on bytes the
model does not have, so the request ends there. A writer puts the fields of its
dialect in order; a variable-length field that is longer than its two-digit
length prefix can say sets its bit and writes nothing, as in the code. Fixed
fields keep their value (padding and number formats are left out), and
`universal_encode` never fails. `to_pb` and `from_pb` are the record that goes
into the SAF database and the reply channel, with the fields it drops.

A request's `pc` says where it is: read, screened (limits, risk score, list,
token, by content), forwarded with its egress STAN or through the HSM task,
refused, at the bank, replied, delivered, reaped. `Screen`, `Forwarded`,
`BankResponse`, `Approval`, `TimeoutReply` and `Reversal` are the records the
code builds at these places. When each step is taken is open: guard, channels,
clock and failures decide that in `SwitchCore`, so here a request may be
forwarded, stood in for, refused, reaped or answered whenever the code has a
path that does so. The NAT table `nat` is one for all requests, as in the code
(`Mapped`, `Unmapped`): the reply worker takes out whatever it finds under the STAN
the reply bears, so a PIN or MAC request, sent under its terminal's STAN, or a
request whose egress STAN wrapped, or the answer to a probe (`ProbeReply`), may
take another request's mapping. `Shares` says that a request's STAN is one that
somebody else under way uses too; a reply that got a wrong key ends `astray`.

### Compliance, StandIn

Both are state of `MessagePath`, with modules of their own. The poller reads the
live rows in one query and then changes the concurrent map one entry at a time
(`retain`, then `insert`), while workers call `evaluate`. The query is lazy and a
row whose step fails is skipped (`compliance.rs:39-44`), so its result is any
part of the rows, and `retain` then unblocks prefixes that are still listed.
`covered` names the prefixes that a finished refresh entered, that no query has
missed since, and that stayed listed. The loader writes the
rows of its CSV file while the daemon is down (sled allows one process). A worker
reads a profile, decides, and writes back the profile with the amount deducted:
two steps. Flushing is sled's and a crash goes back to what was flushed; both are
external. `disturbed` names the cards where approvals overlapped or a crash took
one back; there the balance is not exact, and `DeductionsExact` says in which
direction.

### LoadGenerator, SimTransactions

Workers claim a transaction with `fetch_add`, give it back when the target was
already reached, send it on their connection, and wait for the answer, the time
limit or the cancel notice. `/sim/start` checks the run flag in one step and
starts the run in another, so that two handlers may both start; the stores and
spawns of the second step are taken together (another thread can fall between
them only if something of an earlier run is left, and then the run is not
`clean`, or if it cancels the run). A cancel first stores the flag and then notifies.
Counters are taken modulo `UsizeMod`; rates, latencies and pulses are display
and left out. The decrement of `in_flight` and the increment of `completed` are
two steps (`Land`, `Complete`). Each worker has one port. `SimTransactions` builds the generated
message with the codec of each dialect name, and the run of `MessagePath` sends
these messages too.

## 3. Runs

Passing runs (states are distinct states):

| run | instance | shows |
|---|---|---|
| `mixed` | a plain and a PIN request with crossed STANs, a failover node for one, screening, a probe, ages up to 2 so that pass 2 of the reaper prunes (1.7M) | `ApprovalHasOrigin`, `JournalMatchesTerminal`, `SoloTracked` |
| `retry` | a transaction, its session's 0420 under the same key and without a responder, a terminal reversal naming it, an echo (1.8M) | `TypeOK`, `ReversalMeansTimeout`, `LifecycleSpec` (refinement) |
| `live` | a plain request and a 0420 with a MAC that is not marked as a reversal, a journal thread that may die (230k) | `EventuallyAnswered`, `EntriesLeave` |
| `tally` | three records for a file of two, a crash, a restart, two cutoffs (36k) | `TypeOK`, `TallyExact`, `TalliedAtLeastOnce`, `EventuallySwept` |
| `saf` | two clients, an advice for each bank, one break, a writer's queue of one (325k) | `StoredUntilWritten`, `AdviceLostInBreak`, `DatabaseDrains` |
| `hsm` | four calls, two headers, a counter that wraps at 3, a channel of one (195k) | `EntryLive`, `AnswerMatches`, `CallReturns` |
| `routing` | two reload handlers, three tables with nested and repeated prefixes (18k) | `LookupExact` |
| `control` | two updates, two publishes, four rows, one failure (1.4M) | `OneLiveVersion`, `ServesLiveRows` |
| `ledger` | a transaction and three messages that name its STAN (its card and amount; another amount; a card that cannot be sliced), one fee edit, one database error, a worker that may be dead or die (383k) | `BookedOnce`, `ReversalCancels`, `EventuallyBooked` |
| `session` | a request, a malformed frame and a retry on one connection, channels and socket of one, two workers (85k) | `FramesIntact`, `ReversedNotAnswered`, `TeardownCompletes`, `AnswersReachTerminal` |
| `path` | one frame of any kind at any port or of the simulator while the list changes; two debits of one card with loads and a crash; a list that changes often, with partial queries; one NAT table (55k) | `MisreadCause`, `BankSeesRequest`, `ReplyFindsEntry`, `AnswerReadable`, `ReversalMatchesRequest`, `CoveredBlocked`, `DeductionsExact`, `CacheConverges` |
| `load` | two workers, two runs, a volume of two, one cancel (981k) | `CountersExact`, `OwnAnswer`, `RunCompletes` |

Why the bounds are enough. The races of the engine are between one transaction
and one of: another attempt under its key, its reversal, another transaction with
its STAN, a probe, the reaper. The second attempt under a key is the session's
0420 in `retry`; it differs from a terminal's retry in that nobody waits for it,
and the theorems take any mixture of the two. Two to four attempts contain each of
these; a STAN space of two
makes the egress counter wrap and meet terminal STANs; a
channel of one makes the send time out; ages 0, 1, 2 are fresh, past the
time-out and past the grace period. A file of two slots for three records fills;
two headers for four calls wrap while a call waits; a counter modulus that is
not a multiple of the number of headers keeps the wrap of the `u32` visible; two
clients are what it takes to share a database; a batch of two separates a full
batch from a lone event; connections share only the engine, so one with two
live frames has every race of a session, and two workers let a 0420 overtake
its request. `Workloads` fixes the messages of a behaviour and how often the
list changes, the loader runs and the daemon crashes: requests meet one another
only in the stand-in store, so two for one card are enough there, and one of
each kind of frame elsewhere. `MaxLeft` bounds the workers of an earlier run that
are still at work when the next one starts; `UsizeMod` is above every count, so
that only a counter below zero wraps. The larger instances (more attempts, larger channels)
add no kind of interleaving and are what the theorems are for. Deadlock is
checked in the engine's and the routing runs; the other systems stop when their
bounded inputs are used up, and their configurations say so.

Mutants: every property of a passing run is violated when one definition is
replaced by a plausible wrong version kept beside it (named `...Unchecked`,
`...Unguarded`, and so on, and marked *Faulty variant* or *The plausible mistake*). `PROJECT.json` lists
the pairs.

### Fairness

Only `live`, `tally`, `saf`, `hsm`, `ledger`, `session`, `path` and `load` assume any.
It is weak fairness of a thread or task of the program, with one exception: in `hsm`
a call that waits for a place in the channel has strong fairness, because tokio
gives the places of a channel to its waiters in order.
the OS runs the engine's threads; the upstream client takes from its channel
whether or not it is connected; the reaper's clock advances; the journal thread
and settle's 15-minute timer run; the tokio runtime polls a call whose two-second
timer has fired; the ledger worker's `recv_timeout` returns while its thread
lives; the runtime polls the frame and
writing tasks of a session; the compliance poller wakes up; the simulator's
workers, handlers and monitors are polled and the 20-second limit of a wait
expires. Terminals, banks, the HSM, operators and the network manager owe
nothing. What a property needs of them is in its own words: `DatabaseDrains`
supposes a bank that from some time on stays reachable and reads,
`AnswersReachTerminal` a terminal that stays and reads, `TeardownCompletes` one
that does not keep its side open and unread, `CallReturns` excepts a call that
waits for room for ever, and `CacheConverges` supposes that from some time on no
query misses a row; fairness there also means an operator who starts the daemon
again after a crash and a database that the poller can open.

### Where the code and its documents differ

The modules state, in their last section, sentences of comments and documents
that the code does not meet. They have no run of their own; adding the name to
the configuration given here (as an INVARIANT, as a PROPERTY where it says so, or as a PROPERTY under
`FairSpec` where marked *) makes TLC print a trace.

| property | module, configuration | in short |
|---|---|---|
| `GenuineApproval` | `SwitchCore`, `Retry.cfg` | the 0430 for a reversal completes a retry as approved (`engine.rs:717`: "Return genuine approval back.") |
| `DropReversesUpstream` | `IngressSession`, `Session.cfg` | the 0420 of a dropped connection is taken for a duplicate of its request (`server.rs:89`) |
| `RetryTracked` | `SwitchCore`, `Retry.cfg` | a late reply's unconditional remove deletes the entry of a retry |
| `StipDecisionDelivered` | `SwitchCore`, `Mixed.cfg` | the stand-in decision has no responder, the terminal gets 68 |
| `NonFinancialHasNoNat` | `SwitchCore`, `Mixed.cfg` | a 0810 or 0430 consumes another transaction's NAT entry |
| `CapturesBooked` | `SwitchCore`, `Mixed.cfg` | the HSM path never reaches the ledger |
| `ReversalIsFinal` (PROPERTY) | `SwitchCore`, `Mixed.cfg` | a 0420 can reach the bank before its 0100 |
| `GuardDrains` * | `SwitchCore`, `Retry.cfg` | `ReversedPending` entries are never pruned |
| `NatDrains` * | `SwitchCore`, `Live.cfg` | a NAT entry recorded too late is never collected |
| `WalKeepsRecords` (PROPERTY) | `WalSettlement`, `Tally.cfg` | a restart empties the log |
| `EveryRequestPersisted` * | `WalSettlement`, `Tally.cfg` | a full file drops acknowledged records |
| `IncompleteWaits` | `WalSettlement`, `Tally.cfg` | settle passes over a half-written record |
| `ApprovalsTallied` | `WalSettlement`, `Tally.cfg` with `MtiSwitch`, `RcSwitch` | no record the switch writes qualifies |
| `AdviceNotLost` | `StoreForward`, `Saf.cfg` | advices queued at a broken connection are lost |
| `StoredReachesItsBank` | `StoreForward`, `Saf.cfg` | a stored advice goes to the wrong bank |
| `SeedRoutesPublished` | `ControlPlane`, `Control.cfg` with `AutoId = FALSE` | publishing routes swaps in an empty table |
| `SettleReadsLog` * | `WalSettlement`, `Tally.cfg` with `SameFile = FALSE` | settle opens another file than the daemon writes |
| `TimedOutNotSettled` | `Ledger`, `Ledger.cfg` | a timed-out capture is settled |
| `ReversalOffsets` | `Ledger`, `Ledger.cfg` | a reversal for another amount does not offset what it reverses |
| `RefreshKeepsListed` (PROPERTY) | `Compliance`, `Path.cfg` | a query that misses a row unblocks a listed prefix |
| `TeardownAlways` * | `IngressSession`, `Session.cfg` | a half-closed terminal that does not read keeps its writer |

Further differences met while reading, which no property states:

* The answer on the plain path carries the egress STAN, not the terminal's, and
  the reaper's 0420 carries the terminal's, while the bank knows the request
  under the egress STAN. `AnswerReadable` and `ReversalMatchesRequest` therefore
  speak of the other fields.
* The UK FPS reader puts a prefix in front of the account number; one that is
  94 digits or longer then no longer fits an LLVAR field, and the upstream frame
  has a bit with no bytes behind it (`Outgrown`).
* The list is consulted before a token is exchanged for its card, and the map is
  empty after a restart until the first refresh has finished (`covered` is empty
  then).
* `RUN_INSTRUCTIONS.md:104` says that a cancel "terminates loop executions
  instantly". A worker that waits for an answer hears of it; one that is
  elsewhere goes on into a run that is started soon after, and the counters of
  that run then include its transactions, or wrap below zero (`clean`).
* A reply whose journal append fails is not delivered, and its entry stays
  `Completed` with the terminal waiting until the reaper prunes it; `SoloTracked`
  and `EventuallyAnswered` except it (`unjournaled`), `JournalMatchesTerminal`
  does not need to.
* The 0430 that answers a reversal can complete the entry of a request of the same
  RRN and acquirer. `ApprovalHasOrigin` therefore only says that an approval comes
  from the bank's word on some message of that RRN.
* The simulator generates a PIN block for POS entry and does not use it.

## 4. Proofs

All proofs are checked by TLAPS from the assumptions the modules name about
their constants (types, non-empty bounds, finite sets, model values that are not
members of the sets they complete, and for the messages `WireAssumption`, given
below), with no further hypothesis.

* `SwitchCoreProofs!TypeCorrect`, `PipelineInvariant`, `ReversalSafety`.
  "A queued or delivered 0420 means 68" is not inductive: one has to know that
  the entry the reaper marks is still waiting and that a waiting entry's
  terminal has no answer. The invariant `IInv` adds: an entry sits under its own
  key (`GuardInv`); while it is `UpstreamSent` it holds the responder, and while
  it holds the responder its terminal is unanswered; a `Reversed` entry's
  terminal has 68; the entry the reaper has locked keeps its state
  (`ThreadInv`); attempts past routing know their node and STAN (`ContextInv`);
  and every 0420 in a channel or at the bank belongs to an attempt with 68 or to
  one that came in as a 0420, from a terminal's port that does not mark it or from a
  session. One lemma per action shows that it is preserved.
* `SwitchCoreProofs!FullInvariant`, `SoloSafety`, `ApprovalSafety`,
  `JournalSafety`. `PipelineInv` adds to `IInv`: an entry gives its responder up
  only to answer with it, and whoever is about to remove a key (a worker, a
  reply worker, either pass of the reaper) does so only after some request under
  it was answered, so an admitted request is in the guard until then
  (`TrackInv`); a request is queued once, by the thread that had its context, and
  the bank decides it once (`RequestInv`); a reply, in the channel or in a
  worker's hands, says what the bank decided and is applied under the RRN of its
  own attempt (`WordInv`); the entry of a request that is neither retried nor named by a
  reversal is completed by the bank's answer, or by the worker that
  found no channel and sent nothing (`JournalInv`). A request whose reply could not be
  journaled is excepted from `SoloTracked` by name.
* `SwitchCoreProofs!Refinement`. `Spec => LifecycleSpec`: the initial states map
  to initial states, and each action of the engine, bank and reaper maps to a
  step of `PaymentLifecycle` or to a stutter, from `PipelineInv`. The abstract
  lifecycle knows the messages that are 0420s themselves (`Reversals`): it passes
  them on like requests, and only sends one of its own after a 68.
* `LedgerProofs!LedgerInvariant`, `BookingSafety`, `ReversalSafety`. `BookedOnce`
  is about the rows of the ledger alone, which a commit extends by the rows of
  the open transaction and a rollback does not. `OnceInv` therefore says that an event that
  was sent is in one place only: channel, batch, open transaction, ledger, or
  lost; for that the next event a worker sends must be a new one (`Emitted`).
  A worker that dies moves what it held to lost.
  `FeeInv`: a row, committed or not, has the principal of its own message and, if it
  is of the current fee epoch, the fee the cache gives now; and of a capture and
  a reversal under its RRN the principals cancel exactly if the two messages were
  for one amount, the fees if also for one card and booked in one epoch.
* `LinkProofs!StoredSafety`. A row holds a frame of its own key
  (`RowInv`), and a key is on a drain's removal list only once its frame was
  written (`SentInv`), provided no two frames share STAN and RRN: with shared
  keys the removal takes a row that was never written, which is why the theorem
  is about `DistinctKeys`.
* `LinkProofs!EntrySafety`, `AnswerSafety`. Headers are reused, so an
  answer may come from an earlier call: the invariant says that an answer in a
  one-shot comes from a call with the same header that was sent (`FullInv`,
  `QueueInv`), that a call not yet registered has no answer (`FreshInv`), and
  that a result was computed from the answer held (`ResultInv`).
* `TableProofs!LookupCorrect`. `Represents(t, rows)` relates a trie to the
  rows inserted so far (prefix closed, last usable row of each path);
  `BestSoFar` says that a walk holds the deepest route on the digits it has
  read. Swaps preserve both because a walk keeps the trie it loaded.

* `LinkProofs!LossSafety`. `NoBreakInv`: before the first break every
  main loop that believes itself connected is, every writer has an intact
  socket, and nothing was lost or is stray; so a frame whose send fails is
  stored.
* `MessagePathProofs!ComplianceSafety`. `CoverInv`: what is covered is live
  and in the result of the query under way, which may be any part of the rows, so
  `retain` keeps it and the map holds it. Every
  step of the poller and of the operators is considered; requests change none of
  it.
* `MessagePathProofs!StandInSafety`. The bound of `DeductionsExact` on the stored
  balance does not survive a write by itself, since a worker writes what it
  computed from a copy, nor a crash, which brings back the flushed value. `Sound`
  is therefore required of every copy: stored, flushed (`StoreInv`) and in a
  worker's hands (`CopyInv`, which also says that on an undisturbed card the copy
  is the stored profile); `RequestInv` says that amounts are naturals.
* `MessagePathProofs!NatInvariant`. Every entry of the shared table was made for a
  request that is under way, under the egress STAN that request got, and the
  entry under the STAN of a request that shares it with nobody is its own. Hence
  `ReplyFindsEntry` for those; for the others it makes no claim, and
  `NonFinancialHasNoNat` shows a reply that takes another's entry.
* `MessagePathProofs!WayInvariant`, `MisreadSafety`, `BankSafety`, `ReplySafety`,
  `AnswerSafety`, `ReversalMessageSafety`. The first half is about frames, with
  no state: a writer's order is the order of the bits, so the place at which a
  reader looks for a field, a cardinality, is the turn in which it was written
  (`UpToTurn`, `WrittenInTurn`); hence a frame without a value that outgrew its
  prefix is read with every field in its place (`ReadBack`), and one with such a
  value is never read as an event (`ReadOnlyIfFits`). The second half is `WayInv`:
  at every stage a request is what the conversions and checks up to there made
  of its message, so a reply carries the fields of the request however many
  dialects and records it went through, and with `NatInv` its key. The assumption
  `WireAssumption` is about terminals: they put fields in the order of their
  bits (a frame may end early and may hold any field), their length
  prefixes are true, and a terminal reads in the dialect of its port, or in
  the simulator's codec if it sends nothing that codec does not know.
* `LoadGeneratorProofs!AnswerSafety`, `CounterSafety`. `SocketInv`: a connection
  owes or holds something only while its worker waits, then exactly one answer,
  to the transaction at hand. It rests on the code closing the connection
  whenever a wait is given up. `CountInv`: completed and in-flight transactions are not
  the whole of what the target allows, since a worker that has incremented
  `generated` has yet to compare what it got; those that got a number below the
  target are part of it, and so are those whose answer has left `in_flight` and
  not reached `completed` (`Claimed`). It uses that the workers are finitely many.
* `TableProofs!VersionSafety`, `PublishSafety`. `LineInv`: of two versions
  of a row the live one is the higher, and one is live. To keep it through a
  commit one needs `UpdateInv`: a transaction that can still write has read a
  row that is live, and the one that has written is alone; a rollback takes back what it
  wrote. `PublishInv` says the
  same of a table fetched and not yet posted, so long as publishes do not
  overlap and nothing was edited or failed since. They use the assumption that
  the seeded keys are finitely many.
* `WalSettlementProofs!TallyInvariant`, `TypeCorrect`, `TallySafety`,
  `CoverSafety`. The tallies are stated between inserts, and neither is inductive:
  between the insert of a total and that of its count the two disagree, and
  during a cutoff the report and the keys not yet removed say the same thing
  twice. `CoverInv` and `ExactInv` therefore name, for every point of settle's
  program, the slots whose record is in (`Inserted`) and the keys that still
  stand (`Standing`). They need `SweepInv`, that the sweep is within what was
  written and that the record it holds is the one in the file, and `LogInv`, that
  the file is filled from the front: otherwise a step of the journal thread could
  change what is behind the cursor. `ExactInv` also says that no slot ahead of
  the sweep was skipped. That holds only until a crash, after which a slot once
  skipped may be tallied; so the exact tally is claimed only before one, the
  cover through any number of crashes of settle (a restart of the daemon empties
  the file, and ends both). Both are about a settle process given the journal's file. Since sums are cardinalities, what an insert adds to one follows
  from the library's theorems about finite sets, without an induction.
* `IngressSessionProofs!SessionInvariant`, `FrameSafety`, `ReversalSafety`.
  `Placed`: the byte at any place of the buffer or of the line is the byte of the
  stream at that place after the frames decoded so far. Hence a buffer that is
  not empty starts with the two length bytes of the next frame, and a decode
  takes off exactly its bytes. That a place lies in some frame (`Stream`'s
  `CHOOSE`) is shown with the least frame that ends at or after it. `Placed` also says
  that no frame that is still to be decoded has a task: a task starts once, and
  this is what `ReversedNotAnswered` needs, since a task that could start again
  might answer after it had reversed. `OnceInv` adds that whatever is queued,
  fed, delivered or submitted as a 0420 comes from a task that is done. `ConnsInv`
  (`CURRENT_CONNS` counts the reading tasks) is there for the type: the counter
  never goes below zero. The assumption is that no frame is sent twice, by one
  terminal or by two (a retry is another frame with the same key).

Only model-checked: the liveness properties, since fairness and `ENABLED` are
outside the prover's reach. Every invariant, and every action property and
refinement, that a run checks is stated by a theorem.

## 5. Not modelled

* The bytes of a field: padding, number formats, character sets. A misread frame
  ends in an outcome the model does not describe. The Thales codec: `HsmClient`
  takes frames as whole messages.
* The threads of the async runtime: a task that blocks (the send on a full
  ingress channel, `server.rs:80`) holds up no other task in `IngressSession`.
* Publishes that overlap, and a restart of the daemon between a fetch and the
  post: `ServesLiveRows` excepts the first and the second does not occur.
* Start-up order, metrics, telemetry, the journal viewer and the dashboard: none
  of them changes what the engine does.
* The test tools (`mock_atm`, `test-orchestrator`), which send canned traffic;
  the models let terminals send any field in any message. The listeners of the mock bank and
  the mock HSM.
* Code without a caller: the `iso-parser` and `hsm-client` crates, the
  `edge-egress` adapters.

## 6. Plan

What is left, in this order:

1. `IngressSession` composed with `SwitchCore` over a bounded set of runtime
   threads: can blocked sends, the reaper's lock and the egress clients wait for
   one another?
2. `NetworkManager`: probe period, channel room as health, failover and
   fail-open, with liveness of recovery.

---------------------------- MODULE StoreForward ----------------------------
(***************************************************************************)
(* The upstream clients (edge-egress/src/client.rs).  Each client owns one   *)
(* egress channel and one bank host; all of them share the store-and-forward *)
(* database saf_db that payment-daemon/src/main.rs opens.  A client runs a   *)
(* main loop (connected or not), one task per frame, a writer task that owns *)
(* the socket, and a drain task that replays the database over a connection  *)
(* of its own.                                                               *)
(***************************************************************************)
EXTENDS Integers, Sequences, FiniteSets

CONSTANTS
    Clients,   \* upstream clients, each with its bank
    Frames,    \* contexts put into the egress channels
    Home,      \* Home[f]: the client whose channel f is put into
    Advices,   \* frames with MTI 0420 or 0220
    Key,       \* Key[f]: the rank of "{stan}-{rrn}", the key f is stored under
    NoFrame,
    SinkCap,   \* capacity of the channel to a writer task (100_000)
    MaxBreaks  \* bound: number of times a bank becomes unreachable

Keys == {Key[f] : f \in Frames}

ASSUME FrameAssumption ==
    /\ Home \in [Frames -> Clients] /\ Advices \subseteq Frames
    /\ Key \in [Frames -> Nat \ {0}]
    /\ NoFrame \notin Frames /\ SinkCap \in Nat \ {0} /\ MaxBreaks \in Nat

VARIABLES
    fresh,   \* frames the engine has not sent yet
    chan,    \* chan[c]: the egress channel
    peer,    \* peer[c]: the bank is reachable
    deaf,    \* clients whose bank, though connected, has stopped reading
    mpc,     \* mpc[c]: main loop outside or inside a connection
    conn,    \* conn[c]: that connection: "none", "open", or "broken" unnoticed
    writer,  \* writer[c]: the writer task still receives
    tasks,   \* tasks[c]: frames taken from the channel, one task each
    sinkq,   \* sinkq[c]: frames queued for the writer
    stray,   \* tasks of connections the main loop has left
    saf,     \* saf_db
    dpc, at, sent,  \* the drain task of c: phase, last key visited, keys_to_remove
    dconn,   \* dconn[c]: its connection is intact
    got,     \* got[c]: frames that reached the bank of c
    stored,  \* frames ever inserted into saf_db
    written, \* frames a drain task wrote to a socket without error
    lost,    \* frames that left the client and reached nobody
    breaks

linkVars == <<peer, deaf, conn, writer, breaks>>
queueVars == <<chan, tasks, sinkq, stray>>
drainVars == <<dpc, at, sent, dconn>>
vars == <<fresh, queueVars, linkVars, mpc, saf, drainVars, got, stored, written, lost>>

TypeOK ==
    /\ fresh \subseteq Frames /\ chan \in [Clients -> Seq(Frames)]
    /\ peer \in [Clients -> BOOLEAN] /\ writer \in [Clients -> BOOLEAN] /\ deaf \subseteq Clients
    /\ mpc \in [Clients -> {"out", "in"}] /\ conn \in [Clients -> {"none", "open", "broken"}]
    /\ tasks \in [Clients -> SUBSET Frames] /\ sinkq \in [Clients -> Seq(Frames)]
    /\ stray \subseteq Frames
    /\ saf \in [Keys -> Frames \cup {NoFrame}]
    /\ dpc \in [Clients -> {"sleep", "iter", "remove"}]
    /\ at \in [Clients -> Keys \cup {0}] /\ sent \in [Clients -> SUBSET Keys]
    /\ dconn \in [Clients -> BOOLEAN]
    /\ got \in [Clients -> SUBSET Frames]
    /\ stored \subseteq Frames /\ written \subseteq Frames /\ lost \subseteq Frames
    /\ breaks \in 0 .. MaxBreaks

Init ==
    /\ fresh = Frames
    /\ chan = [c \in Clients |-> <<>>] /\ sinkq = [c \in Clients |-> <<>>]
    /\ peer \in [Clients -> BOOLEAN] /\ deaf = {}
    /\ mpc = [c \in Clients |-> "out"] /\ conn = [c \in Clients |-> "none"]
    /\ writer = [c \in Clients |-> FALSE]
    /\ tasks = [c \in Clients |-> {}] /\ stray = {}
    /\ saf = [k \in Keys |-> NoFrame]
    /\ dpc = [c \in Clients |-> "sleep"]
    /\ at = [c \in Clients |-> 0] /\ sent = [c \in Clients |-> {}]
    /\ dconn = [c \in Clients |-> FALSE]
    /\ got = [c \in Clients |-> {}]
    /\ stored = {} /\ written = {} /\ lost = {} /\ breaks = 0
-----------------------------------------------------------------------------
Submit(f) ==
    /\ f \in fresh
    /\ fresh' = fresh \ {f}
    /\ chan' = [chan EXCEPT ![Home[f]] = Append(@, f)]
    /\ UNCHANGED <<tasks, sinkq, stray, linkVars, mpc, saf, drainVars, got, stored,
                   written, lost>>

\* db.insert for an advice; any other frame is dropped.
Store(f) ==
    IF f \in Advices
    THEN /\ saf' = [saf EXCEPT ![Key[f]] = f]
         /\ stored' = stored \cup {f} /\ UNCHANGED lost
    ELSE lost' = lost \cup {f} /\ UNCHANGED <<saf, stored>>

\* The bank comes and goes; a connection to it breaks without being noticed.
PeerUp(c) ==
    /\ ~peer[c]
    /\ peer' = [peer EXCEPT ![c] = TRUE]
    /\ UNCHANGED <<fresh, queueVars, deaf, conn, writer, breaks, mpc, saf, drainVars, got,
                   stored, written, lost>>

\* A bank keeps its connections and stops reading: once the socket buffers are full
\* nothing that is written to it gets further, and no write has a time limit.
StopReading(c) ==
    /\ peer[c] /\ c \notin deaf
    /\ deaf' = deaf \cup {c}
    /\ UNCHANGED <<fresh, queueVars, peer, conn, writer, breaks, mpc, saf, drainVars, got,
                   stored, written, lost>>

PeerDown(c) ==
    /\ peer[c] /\ breaks < MaxBreaks
    /\ breaks' = breaks + 1
    /\ peer' = [peer EXCEPT ![c] = FALSE] /\ deaf' = deaf \ {c}
    /\ conn' = [conn EXCEPT ![c] = IF @ = "open" THEN "broken" ELSE @]
    /\ dconn' = [dconn EXCEPT ![c] = FALSE]
    /\ UNCHANGED <<fresh, queueVars, writer, mpc, saf, dpc, at, sent, got, stored, written,
                   lost>>
-----------------------------------------------------------------------------
(* The main loop and its tasks.                                            *)

Connect(c) ==
    /\ mpc[c] = "out" /\ peer[c]
    /\ mpc' = [mpc EXCEPT ![c] = "in"]
    /\ conn' = [conn EXCEPT ![c] = "open"]
    /\ writer' = [writer EXCEPT ![c] = TRUE]
    /\ UNCHANGED <<fresh, queueVars, peer, deaf, breaks, saf, drainVars, got, stored,
                   written, lost>>

\* connect fails: take one frame and store it.
TakeOffline(c) ==
    /\ mpc[c] = "out" /\ ~peer[c] /\ chan[c] # <<>>
    /\ chan' = [chan EXCEPT ![c] = Tail(@)]
    /\ Store(Head(chan[c]))
    /\ UNCHANGED <<fresh, tasks, sinkq, stray, linkVars, mpc, drainVars, got, written>>

\* Connected: take one frame and spawn its task.
TakeOnline(c) ==
    /\ mpc[c] = "in" /\ chan[c] # <<>>
    /\ chan' = [chan EXCEPT ![c] = Tail(@)]
    /\ tasks' = [tasks EXCEPT ![c] = @ \cup {Head(chan[c])}]
    /\ UNCHANGED <<fresh, sinkq, stray, linkVars, mpc, saf, drainVars, got, stored,
                   written, lost>>

\* A task waits for room in the writer's channel and hands its frame over, or stores
\* it when the writer is gone.
HandOver(c, f) ==
    /\ f \in tasks[c] /\ (writer[c] => Len(sinkq[c]) < SinkCap)
    /\ tasks' = [tasks EXCEPT ![c] = @ \ {f}]
    /\ IF writer[c]
       THEN /\ sinkq' = [sinkq EXCEPT ![c] = Append(@, f)]
            /\ UNCHANGED <<saf, stored, lost>>
       ELSE Store(f) /\ UNCHANGED sinkq
    /\ UNCHANGED <<fresh, chan, stray, linkVars, mpc, drainVars, got, written>>

\* sink.feed and flush: they wait for the bank to read, and on a broken connection
\* the kernel may still accept.
WriterFeed(c) ==
    LET f == Head(sinkq[c])
    IN  /\ writer[c] /\ sinkq[c] # <<>> /\ (conn[c] = "open" => c \notin deaf)
        /\ sinkq' = [sinkq EXCEPT ![c] = Tail(@)]
        /\ IF conn[c] = "open"
           THEN got' = [got EXCEPT ![c] = @ \cup {f}] /\ UNCHANGED lost
           ELSE lost' = lost \cup {f} /\ UNCHANGED got
        /\ UNCHANGED <<fresh, chan, tasks, stray, linkVars, mpc, saf, drainVars, stored,
                       written>>

\* sink.feed fails: the writer ends and what is queued for it is dropped.
WriterFail(c) ==
    /\ writer[c] /\ sinkq[c] # <<>> /\ conn[c] = "broken"
    /\ writer' = [writer EXCEPT ![c] = FALSE]
    /\ sinkq' = [sinkq EXCEPT ![c] = <<>>]
    /\ lost' = lost \cup {sinkq[c][i] : i \in 1 .. Len(sinkq[c])}
    /\ UNCHANGED <<fresh, chan, tasks, stray, peer, deaf, conn, breaks, mpc, saf, drainVars, got,
                   stored, written>>

\* Faulty variant: an empty channel is reason enough to leave the connection.
LeaveConnectionEarly(c) ==
    /\ mpc[c] = "in" /\ chan[c] = <<>>
    /\ mpc' = [mpc EXCEPT ![c] = "out"]
    /\ conn' = [conn EXCEPT ![c] = "none"]
    /\ writer' = [writer EXCEPT ![c] = FALSE]
    /\ lost' = lost \cup {sinkq[c][i] : i \in 1 .. Len(sinkq[c])}
    /\ sinkq' = [sinkq EXCEPT ![c] = <<>>]
    /\ stray' = stray \cup tasks[c] /\ tasks' = [tasks EXCEPT ![c] = {}]
    /\ UNCHANGED <<fresh, chan, peer, deaf, breaks, saf, drainVars, got, stored, written>>

\* The channel is empty and the read task has finished: leave the connection.
\* Its queue goes with it; its tasks run on.
LeaveConnection(c) ==
    /\ mpc[c] = "in" /\ chan[c] = <<>> /\ conn[c] = "broken"
    /\ mpc' = [mpc EXCEPT ![c] = "out"]
    /\ conn' = [conn EXCEPT ![c] = "none"]
    /\ writer' = [writer EXCEPT ![c] = FALSE]
    /\ lost' = lost \cup {sinkq[c][i] : i \in 1 .. Len(sinkq[c])}
    /\ sinkq' = [sinkq EXCEPT ![c] = <<>>]
    /\ stray' = stray \cup tasks[c] /\ tasks' = [tasks EXCEPT ![c] = {}]
    /\ UNCHANGED <<fresh, chan, peer, deaf, breaks, saf, drainVars, got, stored, written>>

\* A task of a connection that was left: its send succeeds into a queue nobody
\* can deliver any more, or fails.
StrayTask(f, accepted) ==
    /\ f \in stray
    /\ stray' = stray \ {f}
    /\ IF accepted THEN lost' = lost \cup {f} /\ UNCHANGED <<saf, stored>> ELSE Store(f)
    /\ UNCHANGED <<fresh, chan, tasks, sinkq, linkVars, mpc, drainVars, got, written>>
-----------------------------------------------------------------------------
(* The drain task.                                                         *)

DrainConnect(c) ==
    /\ dpc[c] = "sleep" /\ peer[c]
    /\ dpc' = [dpc EXCEPT ![c] = "iter"]
    /\ at' = [at EXCEPT ![c] = 0]
    /\ dconn' = [dconn EXCEPT ![c] = TRUE]
    /\ UNCHANGED <<fresh, queueVars, linkVars, mpc, saf, sent, got, stored, written, lost>>

\* saf_db.iter() goes through the keys in order, over the database as it is now.
NextRow(c, k) ==
    /\ k > at[c] /\ saf[k] # NoFrame
    /\ \A j \in Keys : at[c] < j /\ j < k => saf[j] = NoFrame

\* Faulty variant: the key is removed whether or not the write succeeded.
DrainRowUnchecked(c, k, ok) ==
    /\ dpc[c] = "iter" /\ NextRow(c, k)
    /\ dconn[c] => ok /\ c \notin deaf
    /\ at' = [at EXCEPT ![c] = k]
    /\ sent' = [sent EXCEPT ![c] = @ \cup {k}]
    /\ written' = IF ok THEN written \cup {saf[k]} ELSE written
    /\ got' = IF dconn[c] THEN [got EXCEPT ![c] = @ \cup {saf[k]}] ELSE got
    /\ UNCHANGED <<fresh, queueVars, linkVars, mpc, saf, dpc, dconn, stored, lost>>

\* The next row, whichever client stored it, is written to this client's bank;
\* write_all waits until that bank reads, however long, and on a broken connection
\* it may fail or be accepted in vain.
DrainRow(c, k, ok) ==
    /\ dpc[c] = "iter" /\ NextRow(c, k)
    /\ dconn[c] => ok /\ c \notin deaf
    /\ at' = [at EXCEPT ![c] = k]
    /\ sent' = IF ok THEN [sent EXCEPT ![c] = @ \cup {k}] ELSE sent
    /\ written' = IF ok THEN written \cup {saf[k]} ELSE written
    /\ got' = IF dconn[c] THEN [got EXCEPT ![c] = @ \cup {saf[k]}] ELSE got
    /\ UNCHANGED <<fresh, queueVars, linkVars, mpc, saf, dpc, dconn, stored, lost>>

DrainEnd(c) ==
    /\ dpc[c] = "iter" /\ \A k \in Keys : k > at[c] => saf[k] = NoFrame
    /\ dpc' = [dpc EXCEPT ![c] = "remove"]
    /\ UNCHANGED <<fresh, queueVars, linkVars, mpc, saf, at, sent, dconn, got, stored,
                   written, lost>>

\* Faulty variant: the keys that were sent are forgotten, not removed.
DrainRemoveNothing(c) ==
    /\ dpc[c] = "remove"
    /\ sent' = [sent EXCEPT ![c] = {}]
    /\ dpc' = [dpc EXCEPT ![c] = "sleep"]
    /\ UNCHANGED <<fresh, queueVars, linkVars, mpc, saf, at, dconn, got, stored, written,
                   lost>>

\* Remove the sent keys one by one, whatever is under them by now.
DrainRemove(c) ==
    /\ dpc[c] = "remove"
    /\ IF sent[c] = {}
       THEN dpc' = [dpc EXCEPT ![c] = "sleep"] /\ UNCHANGED <<saf, sent>>
       ELSE \E k \in sent[c] :
                /\ saf' = [saf EXCEPT ![k] = NoFrame]
                /\ sent' = [sent EXCEPT ![c] = @ \ {k}]
                /\ UNCHANGED dpc
    /\ UNCHANGED <<fresh, queueVars, linkVars, mpc, at, dconn, got, stored, written, lost>>
-----------------------------------------------------------------------------
MainStep(c) ==
    \/ Connect(c) \/ TakeOffline(c) \/ TakeOnline(c) \/ LeaveConnection(c)
    \/ WriterFeed(c) \/ WriterFail(c)
    \/ \E f \in Frames : HandOver(c, f)
DrainStep(c) ==
    \/ DrainConnect(c) \/ DrainEnd(c) \/ DrainRemove(c)
    \/ \E k \in Keys, ok \in BOOLEAN : DrainRow(c, k, ok)

Next ==
    \/ \E f \in Frames : Submit(f) \/ \E accepted \in BOOLEAN : StrayTask(f, accepted)
    \/ \E c \in Clients : MainStep(c) \/ DrainStep(c)
                        \/ PeerUp(c) \/ PeerDown(c) \/ StopReading(c)

\* The tasks of the runtime make progress; the banks owe nothing.
Fairness == \A c \in Clients : WF_vars(MainStep(c)) /\ WF_vars(DrainStep(c))

Spec == Init /\ [][Next]_vars
FairSpec == Spec /\ Fairness
-----------------------------------------------------------------------------
(* Properties.                                                             *)

\* Frames with the same STAN and RRN would share a database row.
DistinctKeys == \A f, g \in Frames : Key[f] = Key[g] => f = g

\* A stored advice leaves the database only after some drain task wrote it to a
\* socket, although two drain tasks and the main loops work on the database at
\* once (client.rs, keys_to_remove).
StoredUntilWritten ==
    DistinctKeys => \A f \in stored : saf[Key[f]] = f \/ f \in written

\* An advice is lost only with a connection that broke: none is while the banks
\* merely stay unreachable or come back, whichever task holds the frame when its
\* client connects (client.rs, frame, writer and main loop).
AdviceLostInBreak == breaks = 0 => lost \cap Advices = {}

\* The inductive invariant behind it: connections end only by breaking.
NoBreakInv ==
    breaks = 0 =>
        /\ stray = {} /\ lost \cap Advices = {}
        /\ \A c \in Clients : /\ conn[c] # "broken"
                              /\ mpc[c] = "in" => conn[c] = "open"
                              /\ writer[c] => conn[c] = "open"

\* The inductive invariant behind StoredUntilWritten: a row holds a frame of that
\* key, and a key waits for removal only once its frame was written.
RowInv == \A k \in Keys : saf[k] # NoFrame => Key[saf[k]] = k
SentInv == \A c \in Clients : \A k \in sent[c] : \A f \in Frames : Key[f] = k => f \in written
IInv == TypeOK /\ RowInv /\ (DistinctKeys => SentInv) /\ StoredUntilWritten

\* If some bank stays reachable and reads from some time on, the database is
\* emptied, whatever the other clients' drains are stuck in (client.rs, drain task).
DatabaseDrains ==
    (\E c \in Clients : <>[](peer[c] /\ c \notin deaf)) => \A k \in Keys : saf[k] # NoFrame ~> saf[k] = NoFrame
-----------------------------------------------------------------------------
(* What a document says and the code does not do.                          *)

\* ISO8583PaymentEngine/README.md 31: if the mainframe disconnects, 0420 and 0220
\* frames go to the database and are retried.  None should be lost.
AdviceNotLost == lost \cap Advices = {}

\* The same sentence: an advice that was stored is retried until the bank it is
\* for has it.
StoredReachesItsBank == \A f \in stored : saf[Key[f]] = f \/ f \in got[Home[f]]
=============================================================================

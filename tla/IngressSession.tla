--------------------------- MODULE IngressSession ---------------------------
(***************************************************************************)
(* Terminal sessions (edge-ingress/src/server.rs, codec.rs): the task that *)
(* reads a connection, one task per frame that waits for the answer or for *)
(* the socket to drop, and the task that writes the answers.  The engine   *)
(* behind the ingress channel is reduced to its idempotency guard and the  *)
(* oneshot responders; SwitchCore has the rest of it.                      *)
(***************************************************************************)
EXTENDS Integers, Sequences, FiniteSets, SequencesExt

CONSTANTS
    Conns,     \* connections
    Frames,    \* frames terminals send
    Script,    \* Script[c]: the frames sent on connection c, in order
    Size,      \* Size[f]: payload bytes of frame f
    Kind,      \* Kind[f]: what parsing and the engine make of f
    Key,       \* Key[f]: the RRN, STAN and acquirer of f
    Workers,   \* ingress worker threads of the engine
    CoreCap,   \* capacity of the ingress channel (10_000 in the code)
    ReplyCap,  \* capacity of a connection's reply channel (10_000 in the code)
    SinkCap    \* answers the sink takes before it writes

ASSUME FrameAssumption ==
    /\ Script \in [Conns -> Seq(Frames)]
    /\ \A f \in Frames : \E c \in Conns : f \in Range(Script[c])
    /\ \A c, d \in Conns : IsInjective(Script[c])
           /\ (c # d => Range(Script[c]) \cap Range(Script[d]) = {})
    /\ Size \in [Frames -> Nat]
    /\ Kind \in [Frames -> {"request", "other", "malformed"}]
    /\ DOMAIN Key = Frames
ASSUME CapacityAssumption == CoreCap \in Nat \ {0} /\ ReplyCap \in Nat \ {0} /\ SinkCap \in Nat \ {0}

VARIABLES
    socket,    \* the peer: "up", "half" (it will send no more) or "down"
    stalled,   \* connections whose peer reads no more
    line,      \* bytes the terminal has still to send
    buf,       \* bytes received and not decoded
    decoded,   \* payloads decoded so far
    session,   \* the reading task
    conns,     \* CURRENT_CONNS
    task,      \* task[f]: the task of frame f
    slot,      \* slot[f]: its oneshot channel
    queue,     \* the reply channel of a connection
    fed,       \* answers fed to the sink and not flushed
    writer,    \* the writing task
    delivered, \* frames whose answer reached the terminal
    core,      \* the engine's ingress channel
    worker,    \* worker[w]: the context a worker holds
    guard,     \* idempotency_guard: key -> entry
    upstream,  \* messages routed to the bank
    refused    \* frames whose 0420 was taken for a duplicate

peerVars  == <<socket, stalled>>
readVars  == <<line, buf, decoded, session, conns>>
writeVars == <<queue, fed, writer, delivered>>
coreVars  == <<worker, guard, upstream, refused>>
vars == <<peerVars, readVars, task, slot, writeVars, core, coreVars>>

Keys == {Key[f] : f \in Frames}
ConnOf(f) == CHOOSE c \in Conns : f \in Range(Script[c])
TasksOf(c) == {f \in Range(Script[c]) : task[f] \notin {"none", "done"}}

\* A byte is known by its frame and its place; the first two carry the length.
Bytes(f) == [i \in 1 .. Size[f] + 2 |-> <<f, i>>]
Body(f) == SubSeq(Bytes(f), 3, Size[f] + 2)

\* The bytes that the first n frames of connection c take, and all the frames
\* the terminal sends on it, one after the other.
Before(c, n) == Cardinality(UNION {{i} \X DOMAIN Bytes(Script[c][i]) : i \in 1 .. n})
Stream(c) ==
    [p \in 1 .. Before(c, Len(Script[c])) |->
        LET i == CHOOSE i \in DOMAIN Script[c] : Before(c, i - 1) < p /\ p <= Before(c, i)
        IN  Bytes(Script[c][i])[p - Before(c, i - 1)]]

\* A context: the frame's transaction with its responder, or the copy of it
\* with MTI 0420 and no responder.
Context == [mti : {"0100", "0420"}, frame : Frames]
NoContext == [mti |-> "none"]
Entry == [frame : Frames, resp : BOOLEAN]
NoEntry == [resp |-> FALSE]

TypeOK ==
    /\ socket \in [Conns -> {"up", "half", "down"}] /\ stalled \subseteq Conns
    /\ session \in [Conns -> {"none", "reading", "ended"}]
    /\ conns \in Nat
    /\ task \in [Frames -> {"none", "send", "wait", "reply", "reverse", "done"}]
    /\ slot \in [Frames -> {"empty", "full", "closed"}]
    /\ queue \in [Conns -> Seq(Frames)] /\ fed \in [Conns -> SUBSET Frames]
    /\ writer \in [Conns -> {"none", "running", "ended"}]
    /\ delivered \subseteq Frames
    /\ core \in Seq(Context) /\ worker \in [Workers -> Context \cup {NoContext}]
    /\ guard \in [Keys -> Entry \cup {NoEntry}]
    /\ upstream \subseteq Context /\ refused \subseteq Frames

Init ==
    /\ socket = [c \in Conns |-> "up"] /\ stalled = {}
    /\ line = [c \in Conns |-> Stream(c)]
    /\ buf = [c \in Conns |-> <<>>] /\ decoded = [c \in Conns |-> <<>>]
    /\ session = [c \in Conns |-> "none"] /\ conns = 0
    /\ task = [f \in Frames |-> "none"] /\ slot = [f \in Frames |-> "empty"]
    /\ queue = [c \in Conns |-> <<>>] /\ fed = [c \in Conns |-> {}]
    /\ writer = [c \in Conns |-> "none"] /\ delivered = {}
    /\ core = <<>> /\ worker = [w \in Workers |-> NoContext]
    /\ guard = [k \in Keys |-> NoEntry]
    /\ upstream = {} /\ refused = {}
-----------------------------------------------------------------------------
(* The network and the terminal.                                           *)

\* A read returns some of what the terminal has sent.
Arrive(c, n) ==
    /\ session[c] = "reading" /\ socket[c] = "up" /\ n \in 1 .. Len(line[c])
    /\ buf' = [buf EXCEPT ![c] = @ \o SubSeq(line[c], 1, n)]
    /\ line' = [line EXCEPT ![c] = SubSeq(@, n + 1, Len(@))]
    /\ UNCHANGED <<peerVars, decoded, session, conns, task, slot, writeVars, core, coreVars>>

\* The terminal shuts its side down, or the connection is lost.
HangUp(c, s) ==
    /\ session[c] # "none"
    /\ \/ socket[c] = "up" /\ s \in {"half", "down"}
       \/ socket[c] = "half" /\ s = "down"
    /\ socket' = [socket EXCEPT ![c] = s]
    /\ UNCHANGED <<stalled, readVars, task, slot, writeVars, core, coreVars>>

\* The terminal stops reading and its window fills, without closing anything.
StopReading(c) ==
    /\ session[c] # "none" /\ socket[c] # "down" /\ c \notin stalled
    /\ stalled' = stalled \cup {c}
    /\ UNCHANGED <<socket, readVars, task, slot, writeVars, core, coreVars>>
-----------------------------------------------------------------------------
(* The reading task.                                                       *)

Accept(c) ==
    /\ session[c] = "none"
    /\ session' = [session EXCEPT ![c] = "reading"]
    /\ writer' = [writer EXCEPT ![c] = "running"]
    /\ conns' = conns + 1
    /\ UNCHANGED <<peerVars, line, buf, decoded, task, slot, queue, fed, delivered, core, coreVars>>

FrameLength(b) == Size[b[1][1]]
Complete(b) == Len(b) >= 2 /\ Len(b) >= 2 + FrameLength(b)

\* Faulty variant: the length prefix is not skipped.
PayloadWithPrefix(b) == SubSeq(b, 1, FrameLength(b))

Payload(b) == SubSeq(b, 3, 2 + FrameLength(b))
Rest(b) == SubSeq(b, 3 + FrameLength(b), Len(b))

\* A frame is decoded and parsed; a task is spawned for it, or it is dropped.
Decode(c) ==
    LET f == buf[c][1][1]
    IN  /\ session[c] = "reading" /\ Complete(buf[c])
        /\ decoded' = [decoded EXCEPT ![c] = Append(@, Payload(buf[c]))]
        /\ buf' = [buf EXCEPT ![c] = Rest(@)]
        /\ task' = IF Kind[f] = "malformed" THEN task ELSE [task EXCEPT ![f] = "send"]
        /\ UNCHANGED <<peerVars, line, session, conns, slot, writeVars, core, coreVars>>

\* End of stream, clean or within a frame: the drop signal goes to every task
\* of the connection and the guard object counts the connection off.
EndSession(c) ==
    /\ session[c] = "reading" /\ socket[c] # "up" /\ ~Complete(buf[c])
    /\ session' = [session EXCEPT ![c] = "ended"]
    /\ conns' = conns - 1
    /\ UNCHANGED <<peerVars, line, buf, decoded, task, slot, writeVars, core, coreVars>>
-----------------------------------------------------------------------------
(* The task of a frame.                                                    *)

Enqueue(mti, f) ==
    /\ Len(core) < CoreCap
    /\ core' = Append(core, [mti |-> mti, frame |-> f])

TaskSend(f) ==
    /\ task[f] = "send" /\ Enqueue("0100", f)
    /\ task' = [task EXCEPT ![f] = "wait"]
    /\ UNCHANGED <<peerVars, readVars, slot, writeVars, coreVars>>

\* select!: the answer is there, or the responder was dropped ...
TaskAnswered(f) ==
    /\ task[f] = "wait" /\ slot[f] # "empty"
    /\ task' = [task EXCEPT ![f] = IF slot[f] = "full" THEN "reply" ELSE "done"]
    /\ UNCHANGED <<peerVars, readVars, slot, writeVars, core, coreVars>>

\* Faulty variant: the reading task ends without notifying anybody.
TaskDroppedNever(f) == FALSE /\ UNCHANGED vars

\* ... or the drop signal is; with both there, either branch may run.
TaskDropped(f) ==
    /\ task[f] = "wait" /\ session[ConnOf(f)] = "ended"
    /\ task' = [task EXCEPT ![f] = "reverse"]
    /\ UNCHANGED <<peerVars, readVars, slot, writeVars, core, coreVars>>

\* Faulty variant: try_send, which gives up on a full channel.
TaskReplyTry(f) ==
    LET c == ConnOf(f)
    IN  /\ task[f] = "reply"
        /\ queue' = IF Len(queue[c]) < ReplyCap THEN [queue EXCEPT ![c] = Append(@, f)] ELSE queue
        /\ task' = [task EXCEPT ![f] = "done"]
        /\ UNCHANGED <<peerVars, readVars, slot, fed, writer, delivered, core, coreVars>>

\* Send the built response to the writing task, waiting for room.
TaskReply(f) ==
    LET c == ConnOf(f)
    IN  /\ task[f] = "reply" /\ Len(queue[c]) < ReplyCap
        /\ queue' = [queue EXCEPT ![c] = Append(@, f)]
        /\ task' = [task EXCEPT ![f] = "done"]
        /\ UNCHANGED <<peerVars, readVars, slot, fed, writer, delivered, core, coreVars>>

\* Faulty variant: the task goes on waiting for the answer.
TaskReverseAndWait(f) ==
    /\ task[f] = "reverse" /\ Enqueue("0420", f)
    /\ task' = [task EXCEPT ![f] = "wait"]
    /\ UNCHANGED <<peerVars, readVars, slot, writeVars, coreVars>>

\* Submit the transaction again with its MTI set to 0420.
TaskReverse(f) ==
    /\ task[f] = "reverse" /\ Enqueue("0420", f)
    /\ task' = [task EXCEPT ![f] = "done"]
    /\ UNCHANGED <<peerVars, readVars, slot, writeVars, coreVars>>
-----------------------------------------------------------------------------
(* The writing task: feed all there is, then flush.                        *)

\* The sink has room; otherwise a feed writes first.
WriterFeed(c) ==
    /\ writer[c] = "running" /\ queue[c] # <<>> /\ Cardinality(fed[c]) < SinkCap
    /\ fed' = [fed EXCEPT ![c] = @ \cup {Head(queue[c])}]
    /\ queue' = [queue EXCEPT ![c] = Tail(@)]
    /\ UNCHANGED <<peerVars, readVars, task, slot, writer, delivered, core, coreVars>>

\* try_recv found the channel empty, or the sink is full.  Errors of feed and flush
\* are ignored.  A write has no time limit: it waits for a peer that does not read.
WriterFlush(c) ==
    /\ writer[c] = "running" /\ fed[c] # {} /\ (socket[c] = "down" \/ c \notin stalled)
    /\ delivered' = IF socket[c] = "down" THEN delivered ELSE delivered \cup fed[c]
    /\ fed' = [fed EXCEPT ![c] = {}]
    /\ UNCHANGED <<peerVars, readVars, task, slot, queue, writer, core, coreVars>>

\* The channel is empty and its last sender, the reading task's or a frame
\* task's, is gone.
WriterEnd(c) ==
    /\ writer[c] = "running" /\ queue[c] = <<>> /\ fed[c] = {}
    /\ session[c] = "ended" /\ TasksOf(c) = {}
    /\ writer' = [writer EXCEPT ![c] = "ended"]
    /\ UNCHANGED <<peerVars, readVars, task, slot, queue, fed, delivered, core, coreVars>>
-----------------------------------------------------------------------------
(* The engine behind the channel.                                          *)

\* The receiver is gone once the task has left select!.
Listening(f) == task[f] \in {"send", "wait"}
Resolve(f, how) ==
    slot' = IF Listening(f) THEN [slot EXCEPT ![f] = how] ELSE slot

WorkerTake(w) ==
    /\ worker[w] = NoContext /\ core # <<>>
    /\ worker' = [worker EXCEPT ![w] = Head(core)]
    /\ core' = Tail(core)
    /\ UNCHANGED <<peerVars, readVars, task, slot, writeVars, guard, upstream, refused>>

Release(w) == worker' = [worker EXCEPT ![w] = NoContext]

\* The context's own responder, if it has one.
Answer(x) == IF x.mti = "0100" THEN Resolve(x.frame, "full") ELSE UNCHANGED slot

\* Screening declines the context, or a 0800 or a terminal's reversal is
\* answered at once.
WorkerAnswer(w) ==
    /\ worker[w] # NoContext
    /\ Answer(worker[w])
    /\ Release(w)
    /\ UNCHANGED <<peerVars, readVars, task, writeVars, core, guard, upstream, refused>>

Request(x) == x # NoContext /\ Kind[x.frame] = "request"

\* Entry::Occupied: the key does not depend on the MTI.
WorkerDuplicate(w) ==
    LET x == worker[w]
    IN  /\ Request(x) /\ guard[Key[x.frame]] # NoEntry
        /\ Answer(x)
        /\ refused' = IF x.mti = "0420" THEN refused \cup {x.frame} ELSE refused
        /\ Release(w)
        /\ UNCHANGED <<peerVars, readVars, task, writeVars, core, guard, upstream>>

\* Entry::Vacant; the transaction reaches the bank unless it finds no egress.
WorkerAdmit(w) ==
    LET x == worker[w]
    IN  /\ Request(x) /\ guard[Key[x.frame]] = NoEntry
        /\ guard' = [guard EXCEPT ![Key[x.frame]] =
                         [frame |-> x.frame, resp |-> x.mti = "0100"]]
        /\ upstream' \in {upstream, upstream \cup {x}}
        /\ Release(w)
        /\ UNCHANGED <<peerVars, readVars, task, slot, writeVars, core, refused>>

\* A reply, a decline or the reaper takes the responder of an entry and answers.
GuardAnswer(k) ==
    /\ guard[k] # NoEntry /\ guard[k].resp
    /\ guard' = [guard EXCEPT ![k] = [@ EXCEPT !.resp = FALSE]]
    /\ Resolve(guard[k].frame, "full")
    /\ UNCHANGED <<peerVars, readVars, task, writeVars, core, worker, upstream, refused>>

\* An entry is removed; a responder still in it is dropped.
GuardEvict(k) ==
    /\ guard[k] # NoEntry
    /\ guard' = [guard EXCEPT ![k] = NoEntry]
    /\ IF guard[k].resp THEN Resolve(guard[k].frame, "closed") ELSE UNCHANGED slot
    /\ UNCHANGED <<peerVars, readVars, task, writeVars, core, worker, upstream, refused>>
-----------------------------------------------------------------------------
TaskStep(f) ==
    TaskSend(f) \/ TaskAnswered(f) \/ TaskDropped(f) \/ TaskReply(f) \/ TaskReverse(f)
WriterStep(c) == WriterFeed(c) \/ WriterFlush(c) \/ WriterEnd(c)
WorkerStep(w) == WorkerTake(w) \/ WorkerAnswer(w) \/ WorkerDuplicate(w) \/ WorkerAdmit(w)

Next ==
    \/ \E c \in Conns : \/ Accept(c) \/ Decode(c) \/ EndSession(c) \/ StopReading(c) \/ WriterStep(c)
                        \/ \E n \in 1 .. Len(line[c]) : Arrive(c, n)
                        \/ \E s \in {"half", "down"} : HangUp(c, s)
    \/ \E f \in Frames : TaskStep(f)
    \/ \E w \in Workers : WorkerStep(w)
    \/ \E k \in Keys : GuardAnswer(k) \/ GuardEvict(k)

\* The runtime polls every ready task and the worker threads keep running.  The bank
\* has to do nothing; a terminal has to read, or to go, for a write to it to end.
Fairness ==
    /\ \A f \in Frames : WF_vars(TaskStep(f))
    /\ \A c \in Conns : WF_vars(WriterStep(c))
    /\ \A w \in Workers : WF_vars(WorkerStep(w))

Spec == Init /\ [][Next]_vars
FairSpec == Spec /\ Fairness
-----------------------------------------------------------------------------
(* Properties.                                                             *)

\* However reads split the byte stream, the payloads decoded from a connection
\* are those the terminal sent, whole and in order (codec.rs, decode).
FramesIntact ==
    \A c \in Conns : IsPrefix(decoded[c], [i \in DOMAIN Script[c] |-> Body(Script[c][i])])

\* Contexts with MTI 0420 on their way to the bank or there.
Reversing == {f \in Frames : LET x == [mti |-> "0420", frame |-> f]
                             IN  x \in Range(core) \cup Range(worker) \cup upstream}

\* A transaction that the session reverses is one whose terminal gets no answer,
\* even when the answer and the drop come together (server.rs, select!).
ReversedNotAnswered ==
    \A f \in Reversing : f \notin delivered \cup fed[ConnOf(f)] \cup Range(queue[ConnOf(f)])

\* The inductive invariant behind them: CURRENT_CONNS counts the reading tasks, ...
Readers == {c \in Conns : session[c] = "reading"}
ConnsInv == IsFiniteSet(Readers) /\ conns = Cardinality(Readers)

\* ... what is buffered and what is still to come is the rest of the stream after
\* the frames decoded, and no later frame has a task yet, ...
Byte == Frames \X Nat
Placed(c) ==
    LET n == Len(decoded[c])
        p == Before(c, n)
        q == p + Len(buf[c])
    IN  /\ n <= Len(Script[c])
        /\ \A i \in 1 .. n : decoded[c][i] = Body(Script[c][i])
        /\ \A i \in 1 .. Len(buf[c]) : buf[c][i] = Stream(c)[p + i]
        /\ \A i \in 1 .. Len(line[c]) : line[c][i] = Stream(c)[q + i]
        /\ q + Len(line[c]) = Before(c, Len(Script[c]))
        /\ \A i \in DOMAIN Script[c] : i > n => task[Script[c][i]] = "none"
StreamInv ==
    /\ line \in [Conns -> Seq(Byte)] /\ buf \in [Conns -> Seq(Byte)]
    /\ decoded \in [Conns -> Seq(Seq(Byte))]
    /\ \A c \in Conns : Placed(c)

\* ... and a frame that is answered or reversed has had its task end so.
Answering == delivered \cup {f \in Frames : \E c \in Conns : f \in fed[c] \cup Range(queue[c])}
OnceInv ==
    /\ \A f \in Reversing \cup Answering : task[f] = "done"
    /\ Reversing \cap Answering = {}

SessionInv == TypeOK /\ ConnsInv /\ StreamInv /\ OnceInv

\* A connection whose terminal is gone lets go of its socket, even if no pending
\* transaction is ever answered; one whose terminal only closed its sending side and
\* does not read may hold it (server.rs, drop_notifier_tx and the writing task).
TeardownCompletes ==
    \A c \in Conns :
        session[c] = "ended" ~> writer[c] = "ended" \/ (socket[c] = "half" /\ c \in stalled)

\* An answer the engine has given reaches the terminal unless the connection fails or
\* the terminal stops reading, also when the reply channel is full (server.rs, reply_tx).
AnswersReachTerminal ==
    \A f \in Frames :
        slot[f] = "full" ~> \/ f \in delivered
                           \/ socket[ConnOf(f)] # "up" \/ ConnOf(f) \in stalled
-----------------------------------------------------------------------------
(* What a comment says and the code does not do.                           *)

\* server.rs 89-90: when the socket drops before the bank has replied, a 0420
\* goes to the bank.
DropReversesUpstream ==
    \A f \in refused : [mti |-> "0100", frame |-> f] \notin upstream

\* server.rs 115: the drop signal tears down everything on the socket at once.
TeardownAlways == \A c \in Conns : session[c] = "ended" ~> writer[c] = "ended"
=============================================================================

---------------------------- MODULE LoadGenerator ----------------------------
(***************************************************************************)
(* The load generator (ISO8583PaymentSimulator/src): the terminal end of the *)
(* message path.  Workers of a run generate transactions up to a target,     *)
(* send each on a connection of their own and wait for its answer; counters  *)
(* shared by all workers are reset by /sim/start; /sim/cancel stops a run; a *)
(* monitor per run ends it when enough transactions are completed.           *)
(***************************************************************************)
EXTENDS Integers, Sequences, FiniteSets

CONSTANTS
    Workers,    \* workers of a run
    Volume,     \* transactions of a run
    MaxRuns,    \* bound: runs started
    MaxCancels, \* bound: cancel requests
    MaxLeft,    \* bound: workers of earlier runs still at work when one starts
    UsizeMod    \* modulus of the counters (2^64 in the code)

ASSUME SimAssumption ==
    /\ IsFiniteSet(Workers)
    /\ Volume \in Nat \ {0} /\ MaxRuns \in Nat \ {0} /\ MaxCancels \in Nat /\ MaxLeft \in Nat
    /\ UsizeMod \in Nat \ {0} /\ UsizeMod > (Volume + Cardinality(Workers)) * MaxRuns

-----------------------------------------------------------------------------
Runs == 1 .. MaxRuns
Ids == Runs \X Workers

VARIABLES
    running, generated, in_flight, completed,
    tallied,  \* success + timeout + decline
    runs,     \* runs started
    starters, \* /sim/start handlers that found no run in progress
    cancels,  \* cancel requests so far
    sending,  \* /sim/cancel handlers that have yet to notify the workers
    wk,       \* wk[i]: a worker: pc, what fetch_add gave it, pending cancel
    stream,   \* stream[i]: its connection: open, requests owed an answer, answers
              \* that have come; each is of this transaction or of an "earlier" one
    monitor,  \* monitor[r]: the monitor of a run
    clean,    \* the run in progress started with nothing left of earlier ones
    cancelled \* a cancel was asked for in the run in progress

counters == <<generated, in_flight, completed, tallied>>
ctlVars == <<running, runs, starters, cancels, sending, monitor, clean, cancelled>>
vars == <<counters, ctlVars, wk, stream>>

Pcs == {"absent", "top", "check", "send", "wait", "complete", "landed", "tally", "exit"}
Worker(pc) == [pc |-> pc, prior |-> 0, cancel |-> FALSE]
Closed == [open |-> FALSE, owed |-> {}, answers |-> <<>>]

Init ==
    /\ running = FALSE /\ runs = 0 /\ starters = 0 /\ cancels = 0 /\ sending = 0
    /\ generated = 0 /\ in_flight = 0 /\ completed = 0
    /\ tallied = 0
    /\ wk = [i \in Ids |-> Worker("absent")]
    /\ stream = [i \in Ids |-> Closed]
    /\ monitor = [r \in Runs |-> "absent"]
    /\ clean = TRUE /\ cancelled = FALSE

Gone == {i \in Ids : wk[i].pc \in {"absent", "exit"}}

-----------------------------------------------------------------------------
(* /sim/start and /sim/cancel *)

StartCheck ==
    /\ ~running
    /\ runs + starters < MaxRuns
    /\ starters' = starters + 1
    /\ UNCHANGED <<counters, running, runs, cancels, sending, monitor, clean, cancelled, wk, stream>>

StartRun ==
    /\ starters > 0
    /\ Cardinality(Ids \ Gone) <= MaxLeft
    /\ starters' = starters - 1
    /\ runs' = runs + 1
    /\ running' = TRUE
    /\ generated' = 0 /\ in_flight' = 0 /\ completed' = 0
    /\ tallied' = 0
    /\ wk' = [i \in Ids |-> IF i[1] = runs + 1 THEN [wk[i] EXCEPT !.pc = "top"] ELSE wk[i]]
    /\ monitor' = [monitor EXCEPT ![runs + 1] = "wait"]
    /\ clean' = (Gone = Ids /\ starters = 1 /\ sending = 0
                   /\ \A r \in Runs : monitor[r] \in {"absent", "exit"})
    /\ cancelled' = FALSE
    /\ UNCHANGED <<cancels, sending, stream>>

CancelStore ==
    /\ cancels < MaxCancels
    /\ cancels' = cancels + 1
    /\ running' = FALSE
    /\ sending' = sending + 1
    /\ cancelled' = TRUE
    /\ UNCHANGED <<counters, runs, starters, monitor, clean, wk, stream>>

\* The notification goes to the workers of the latest run.
CancelSend ==
    /\ sending > 0
    /\ sending' = sending - 1
    /\ wk' = [i \in Ids |-> IF i[1] = runs THEN [wk[i] EXCEPT !.cancel = TRUE] ELSE wk[i]]
    /\ UNCHANGED <<counters, running, runs, starters, cancels, monitor, clean, cancelled, stream>>

\* The monitor looks every half second, and ends a run that is complete.
Monitor(r) ==
    /\ monitor[r] = "wait"
    /\ ~running \/ completed >= Volume
    /\ running' = FALSE
    /\ monitor' = [monitor EXCEPT ![r] = "exit"]
    /\ UNCHANGED <<counters, runs, starters, cancels, sending, clean, cancelled, wk, stream>>

-----------------------------------------------------------------------------
(* run_worker *)

\* A worker leaves; its connections close.
Leave(i) ==
    /\ wk' = [wk EXCEPT ![i] = Worker("exit")]
    /\ stream' = [stream EXCEPT ![i] = Closed]

Goes(i, pc, prior) ==
    wk' = [wk EXCEPT ![i] = [pc |-> pc, prior |-> prior, cancel |-> wk[i].cancel]]

\* The loop's head: leave when the run is over, else generated.fetch_add.
Claim(i) ==
    /\ wk[i].pc = "top"
    /\ \/ ~running /\ Leave(i) /\ UNCHANGED generated
       \/ /\ running
          /\ generated' = (generated + 1) % UsizeMod
          /\ Goes(i, "check", generated)
          /\ UNCHANGED stream
    /\ UNCHANGED <<in_flight, completed, tallied, ctlVars>>

\* The plausible mistake: the target is checked with > instead of >=.
CheckTargetLoose(i) ==
    /\ wk[i].pc = "check"
    /\ \/ /\ wk[i].prior > Volume
          /\ generated' = (generated - 1) % UsizeMod
          /\ Leave(i)
          /\ UNCHANGED <<in_flight>>
       \/ /\ wk[i].prior <= Volume
          /\ in_flight' = (in_flight + 1) % UsizeMod
          /\ Goes(i, "send", 0)
          /\ UNCHANGED <<generated, stream>>
    /\ UNCHANGED <<completed, tallied, ctlVars>>

CheckTarget(i) ==
    /\ wk[i].pc = "check"
    /\ \/ /\ wk[i].prior >= Volume
          /\ generated' = (generated - 1) % UsizeMod
          /\ Leave(i)
          /\ UNCHANGED <<in_flight>>
       \/ /\ wk[i].prior < Volume
          /\ in_flight' = (in_flight + 1) % UsizeMod
          /\ Goes(i, "send", 0)
          /\ UNCHANGED <<generated, stream>>
    /\ UNCHANGED <<completed, tallied, ctlVars>>

\* The six pauses of the forward animation look for a cancel, and the worker that
\* finds one leaves its transaction counted as in flight.  Then connect, if there
\* is no connection, and write.
Send(i) ==
    /\ wk[i].pc = "send"
    /\ \/ wk[i].cancel /\ Leave(i)
       \/ /\ ~wk[i].cancel
          /\ stream' = [stream EXCEPT ![i] =
                [open |-> TRUE, owed |-> {"this"} \cup {"earlier" : n \in stream[i].owed},
                 answers |-> [k \in DOMAIN stream[i].answers |-> "earlier"]]]
          /\ Goes(i, "wait", 0)
       \/ /\ ~wk[i].cancel /\ ~stream[i].open
          /\ Goes(i, "complete", 0)
          /\ UNCHANGED stream
    /\ UNCHANGED <<counters, ctlVars>>

\* The daemon answers a request, at any time or never.
DaemonAnswers(i) ==
    /\ stream[i].open
    /\ \E n \in stream[i].owed :
          stream' = [stream EXCEPT ![i] = [open |-> TRUE, owed |-> stream[i].owed \ {n},
                                           answers |-> Append(stream[i].answers, n)]]
    /\ UNCHANGED <<counters, ctlVars, wk>>

\* The next frame on the connection is taken for the answer.
TakeAnswer(i) ==
    /\ wk[i].pc = "wait" /\ stream[i].answers # <<>>
    /\ Goes(i, "complete", 0)
    /\ stream' = [stream EXCEPT ![i] = [open |-> TRUE, owed |-> stream[i].owed,
                                        answers |-> Tail(stream[i].answers)]]
    /\ UNCHANGED <<counters, ctlVars>>

\* The plausible mistake: the connection is kept for the next transaction.
GiveUpKeeps(i) ==
    /\ wk[i].pc = "wait"
    /\ Goes(i, "complete", 0)
    /\ UNCHANGED <<stream, counters, ctlVars>>

\* The plausible mistake: the worker goes on to its next transaction.
GiveUpContinues(i) ==
    /\ wk[i].pc = "wait"
    /\ Goes(i, "top", 0)
    /\ stream' = [stream EXCEPT ![i] = Closed]
    /\ in_flight' = (in_flight - 1) % UsizeMod
    /\ UNCHANGED <<generated, completed, tallied, ctlVars>>

\* Twenty seconds, a socket error or a frame that does not decode: the
\* connection is given up.
GiveUp(i) ==
    /\ wk[i].pc = "wait"
    /\ Goes(i, "complete", 0)
    /\ stream' = [stream EXCEPT ![i] = Closed]
    /\ UNCHANGED <<counters, ctlVars>>

\* in_flight.fetch_sub; completed.fetch_add is a step of its own.
Land(i) ==
    /\ wk[i].pc = "complete"
    /\ in_flight' = (in_flight - 1) % UsizeMod
    /\ Goes(i, "landed", 0)
    /\ UNCHANGED <<generated, completed, tallied, ctlVars, stream>>

Complete(i) ==
    /\ wk[i].pc = "landed"
    /\ completed' = (completed + 1) % UsizeMod
    /\ Goes(i, "tally", 0)
    /\ UNCHANGED <<generated, in_flight, tallied, ctlVars, stream>>

\* The response code and the time taken decide which of the three status counters
\* goes up.
TallyStatus(i) ==
    /\ wk[i].pc = "tally"
    /\ tallied' = (tallied + 1) % UsizeMod
    /\ Goes(i, "top", 0)
    /\ UNCHANGED <<generated, in_flight, completed, ctlVars, stream>>

WorkerStep(i) ==
    \/ Claim(i) \/ CheckTarget(i) \/ Send(i) \/ TakeAnswer(i) \/ GiveUp(i)
    \/ Land(i) \/ Complete(i) \/ TallyStatus(i)

Next ==
    \/ StartCheck \/ StartRun \/ CancelStore \/ CancelSend
    \/ \E r \in Runs : Monitor(r)
    \/ \E i \in Ids : WorkerStep(i) \/ DaemonAnswers(i)

Spec == Init /\ [][Next]_vars

\* The runtime polls workers, handlers and monitors; the net task has a timer.
FairSpec ==
    /\ Spec
    /\ WF_vars(StartRun) /\ WF_vars(CancelSend)
    /\ \A r \in Runs : WF_vars(Monitor(r))
    /\ \A i \in Ids : WF_vars(WorkerStep(i))

-----------------------------------------------------------------------------
(* Properties *)

At(pcs) == Cardinality({i \in Ids : wk[i].pc \in pcs})
InFlightPcs == {"send", "wait", "complete"}
\* Counted as generated, and for the moment neither in flight nor completed.
BetweenPcs == {"check", "landed"}

\* In a run that nothing of an earlier run disturbs, fetch_add and the late
\* fetch_sub let at most Volume transactions through, each of them is counted
\* once, and as long as nobody cancels in_flight is what the workers are doing.
CountersExact ==
    clean =>
        /\ completed + in_flight + At({"landed"}) <= Volume
        /\ generated = completed + in_flight + At(BetweenPcs)
        /\ completed = tallied + At({"tally"})
        /\ ~cancelled => in_flight = At(InFlightPcs)

\* An answer that a worker takes is the answer to the transaction it waits for,
\* although the daemon may answer a request that was given up long ago.
OwnAnswer ==
    \A i \in Ids :
        wk[i].pc = "wait" /\ stream[i].answers # <<>> => Head(stream[i].answers) = "this"

\* The inductive invariant behind it: a connection owes or holds something only
\* while its worker waits, and then one answer, to the transaction at hand; the
\* workers of runs to come are absent.
SocketOK(i) ==
    /\ wk[i].pc # "wait" => stream[i].owed = {} /\ stream[i].answers = <<>>
    /\ wk[i].pc = "wait" =>
          \/ stream[i].owed = {"this"} /\ stream[i].answers = <<>>
          \/ stream[i].owed = {} /\ stream[i].answers = <<"this">>
    /\ i[1] > runs => wk[i].pc = "absent"

SocketInv ==
    /\ runs \in Nat
    /\ wk \in [Ids -> [pc : Pcs, prior : Int, cancel : BOOLEAN]]
    /\ stream \in [Ids -> [open : BOOLEAN, owed : SUBSET {"this", "earlier"},
                           answers : Seq({"this", "earlier"})]]
    /\ generated \in Int
    /\ \A i \in Ids : SocketOK(i)

\* The inductive invariant behind CountersExact: workers that have claimed a
\* transaction below the target, or have one that has landed and is not yet
\* completed, are part of what the target allows, and in a run that nobody
\* cancelled no worker has a cancel to find.
Claims(w) == w.pc = "landed" \/ (w.pc = "check" /\ w.prior < Volume)
Claimed == {i \in Ids : Claims(wk[i])}

CountType ==
    /\ wk \in [Ids -> [pc : Pcs, prior : Nat, cancel : BOOLEAN]]
    /\ generated \in Nat /\ in_flight \in Nat /\ completed \in Nat /\ tallied \in Nat
    /\ runs \in Nat

Exact ==
    /\ completed + in_flight + Cardinality(Claimed) <= Volume
    /\ generated = completed + in_flight + At(BetweenPcs)
    /\ completed = tallied + At({"tally"})
    /\ in_flight >= At(InFlightPcs)

Uncancelled ==
    /\ in_flight = At(InFlightPcs)
    /\ sending = 0 /\ \A i \in Ids \ Gone : ~wk[i].cancel

CountInv ==
    /\ CountType
    /\ \A i \in Ids : i[1] > runs => wk[i] = Worker("absent")
    /\ clean => Exact /\ (~cancelled => Uncancelled)

\* A run that is not disturbed and not cancelled comes to an end by itself, with
\* all its transactions completed and nothing in flight.
RunCompletes ==
    (running /\ clean) ~>
        (cancelled \/ ~clean \/ (~running /\ completed = Volume /\ in_flight = 0))
=============================================================================

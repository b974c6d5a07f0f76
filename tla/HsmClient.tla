------------------------------ MODULE HsmClient ------------------------------
(***************************************************************************)
(* The HSM client (switch-core/src/hsm_client.rs).  Concurrent calls share   *)
(* one connection; answers find their call through correlation_map, keyed by *)
(* a four digit header that wraps.  verify_pin, translate_pin and verify_mac *)
(* follow one scheme; Kind tells them apart.                                 *)
(***************************************************************************)
EXTENDS Integers, Sequences

CONSTANTS
    Calls,       \* invocations of verify_pin, translate_pin and verify_mac
    NoCall,
    Kind,        \* Kind[c]: which of the three, hence the command of the answer
    Verdict,     \* Verdict[c]: the two digits the HSM answers
    Pan12,       \* calls whose PAN has exactly 12 digits
    QueueCap,    \* capacity of the channel to the writer task (100_000)
    HeaderMod,   \* number of headers (10000 in the code)
    CounterMod   \* width of the AtomicU32 counter (2^32 in the code)

Kinds == {"pin", "translate", "mac"}
Headers == 0 .. HeaderMod - 1

ASSUME CallAssumption ==
    /\ NoCall \notin Calls /\ Pan12 \subseteq Calls
    /\ Kind \in [Calls -> Kinds] /\ Verdict \in [Calls -> {"00", "05", "01"}]
ASSUME ModAssumption == HeaderMod \in Nat \ {0} /\ CounterMod \in Nat \ {0}
ASSUME QueueAssumption == QueueCap \in Nat \ {0}

VARIABLES
    counter,  \* the atomic counter
    header,   \* header[c], meaningless while pc[c] = "idle"
    pc,       \* where call c is
    corr,     \* correlation_map: whose oneshot sender is under a header
    outq,     \* the mpsc channel to the writer task
    wire,     \* requests on their way to the HSM
    back,     \* answers on their way back, as the call each one answers
    slot,     \* slot[c]: the oneshot of c: empty, full, or closed by a dropped sender
    from,     \* from[c]: the call whose answer is in it
    result,   \* result[c]: what c returned
    writing, reading  \* the two tasks are running

netVars == <<outq, wire, back, writing, reading>>
hsmVars == <<counter, header, pc, corr, slot, from, result, netVars>>

HsmTypeOK ==
    /\ counter \in 0 .. CounterMod - 1
    /\ header \in [Calls -> Headers]
    /\ pc \in [Calls -> {"idle", "numbered", "registered", "waiting", "panicked", "done"}]
    /\ corr \in [Headers -> Calls \cup {NoCall}]
    /\ outq \in Seq(Calls) /\ wire \in Seq(Calls) /\ back \in Seq(Calls)
    /\ slot \in [Calls -> {"empty", "full", "closed"}] /\ from \in [Calls -> Calls \cup {NoCall}]
    /\ result \in [Calls -> {"none", "ok", "refused", "error"}]
    /\ writing \in BOOLEAN /\ reading \in BOOLEAN

HsmInit ==
    /\ counter = 0
    /\ header = [c \in Calls |-> 0]
    /\ pc = [c \in Calls |-> "idle"]
    /\ corr = [h \in Headers |-> NoCall]
    /\ outq = <<>> /\ wire = <<>> /\ back = <<>>
    /\ slot = [c \in Calls |-> "empty"] /\ from = [c \in Calls |-> NoCall]
    /\ result = [c \in Calls |-> "none"]
    /\ writing = TRUE /\ reading = TRUE
-----------------------------------------------------------------------------
(* A call.                                                                 *)

\* fetch_add, and the remainder as header.
NextHeader(c) ==
    /\ pc[c] = "idle"
    /\ header' = [header EXCEPT ![c] = counter % HeaderMod]
    /\ counter' = (counter + 1) % CounterMod
    /\ pc' = [pc EXCEPT ![c] = "numbered"]
    /\ UNCHANGED <<corr, slot, from, result, netVars>>

\* The oneshots after the entry of header h is dropped from the map.
SlotsWithout(h) ==
    IF corr[h] = NoCall \/ slot[corr[h]] # "empty" THEN slot
    ELSE [slot EXCEPT ![corr[h]] = "closed"]

\* insert: a sender already under the header is dropped.
Register(c) ==
    /\ pc[c] = "numbered"
    /\ slot' = SlotsWithout(header[c])
    /\ corr' = [corr EXCEPT ![header[c]] = c]
    /\ pc' = [pc EXCEPT ![c] = "registered"]
    /\ UNCHANGED <<counter, header, from, result, netVars>>

\* pan.len() - 13 underflows for a PAN of 12 digits: the task panics here.
FormatPanPanics(c) ==
    /\ pc[c] = "registered" /\ c \in Pan12
    /\ pc' = [pc EXCEPT ![c] = "panicked"]
    /\ UNCHANGED <<counter, header, corr, slot, from, result, netVars>>

\* Remove whatever is under the header of c, and return an error.
GiveUp(c) ==
    /\ slot' = SlotsWithout(header[c])
    /\ corr' = [corr EXCEPT ![header[c]] = NoCall]
    /\ result' = [result EXCEPT ![c] = "error"]
    /\ pc' = [pc EXCEPT ![c] = "done"]

\* The send waits for room in the channel, outside the two seconds of Timeout: for
\* ever, if the HSM has stopped reading.  Messages of calls that timed out stay.
Room == ~writing \/ Len(outq) < QueueCap
SendRequest(c) ==
    /\ pc[c] = "registered" /\ c \notin Pan12 /\ Room
    /\ IF writing
       THEN /\ outq' = Append(outq, c)
            /\ pc' = [pc EXCEPT ![c] = "waiting"]
            /\ UNCHANGED <<corr, slot, result>>
       ELSE GiveUp(c) /\ UNCHANGED outq
    /\ UNCHANGED <<counter, header, from, wire, back, writing, reading>>

\* Faulty variant: the command of the answer is not compared.
OutcomeOfAnyCommand(c, d) ==
    CASE Verdict[d] = "00" -> "ok"
      [] Verdict[d] = "05" /\ Kind[c] # "translate" -> "refused"
      [] OTHER -> "error"

\* What c makes of the answer to d: the command must be the one of its own kind,
\* and translate_pin knows no refusal.
Outcome(c, d) ==
    CASE Kind[d] = Kind[c] /\ Verdict[d] = "00" -> "ok"
      [] Kind[d] = Kind[c] /\ Verdict[d] = "05" /\ Kind[c] # "translate" -> "refused"
      [] OTHER -> "error"

ReceiveAnswer(c) ==
    /\ pc[c] = "waiting" /\ slot[c] = "full"
    /\ result' = [result EXCEPT ![c] = Outcome(c, from[c])]
    /\ pc' = [pc EXCEPT ![c] = "done"]
    /\ UNCHANGED <<counter, header, corr, slot, from, netVars>>

\* The sender was dropped; translate_pin also clears the header.
ReceiverDropped(c) ==
    /\ pc[c] = "waiting" /\ slot[c] = "closed"
    /\ IF Kind[c] = "translate" THEN GiveUp(c)
       ELSE /\ result' = [result EXCEPT ![c] = "error"]
            /\ pc' = [pc EXCEPT ![c] = "done"]
            /\ UNCHANGED <<corr, slot>>
    /\ UNCHANGED <<counter, header, from, netVars>>

\* Faulty variant: the entry stays in the map.
TimeoutKeepsEntry(c) ==
    /\ pc[c] = "waiting" /\ slot[c] = "empty"
    /\ result' = [result EXCEPT ![c] = "error"]
    /\ pc' = [pc EXCEPT ![c] = "done"]
    /\ UNCHANGED <<counter, header, corr, slot, from, netVars>>

\* Faulty variant: the answer is awaited without a timeout.
TimeoutNever(c) ==
    /\ pc[c] = "waiting" /\ slot[c] = "empty" /\ FALSE
    /\ UNCHANGED hsmVars

\* Two seconds without an answer.
Timeout(c) ==
    /\ pc[c] = "waiting" /\ slot[c] = "empty"
    /\ GiveUp(c)
    /\ UNCHANGED <<counter, header, from, netVars>>
-----------------------------------------------------------------------------
(* The connection.                                                         *)

WriterSend ==
    /\ writing /\ outq # <<>>
    /\ outq' = Tail(outq) /\ wire' = Append(wire, Head(outq))
    /\ UNCHANGED <<counter, header, pc, corr, slot, from, result, back, writing, reading>>

\* A write fails: the task ends and the channel closes.
WriterEnds ==
    /\ writing /\ outq # <<>>
    /\ writing' = FALSE /\ outq' = <<>>
    /\ UNCHANGED <<counter, header, pc, corr, slot, from, result, wire, back, reading>>

\* process_hsm_command: requests are answered in order, under their header.
HsmAnswer ==
    /\ wire # <<>>
    /\ wire' = Tail(wire) /\ back' = Append(back, Head(wire))
    /\ UNCHANGED <<counter, header, pc, corr, slot, from, result, outq, writing, reading>>

\* Hand the answer to whoever is registered under its header now.
ReaderDeliver ==
    LET d == Head(back)
        c == corr[header[d]]
    IN  /\ reading /\ back # <<>>
        /\ back' = Tail(back)
        /\ corr' = [corr EXCEPT ![header[d]] = NoCall]
        /\ slot' = IF c = NoCall THEN slot ELSE [slot EXCEPT ![c] = "full"]
        /\ from' = IF c = NoCall THEN from ELSE [from EXCEPT ![c] = d]
        /\ UNCHANGED <<counter, header, pc, result, outq, wire, writing, reading>>

\* A read fails: answers are no longer received.
ReaderEnds ==
    /\ reading
    /\ reading' = FALSE
    /\ UNCHANGED <<counter, header, pc, corr, slot, from, result, outq, wire, back, writing>>
-----------------------------------------------------------------------------
CallStep(c) ==
    \/ NextHeader(c) \/ Register(c) \/ FormatPanPanics(c) \/ SendRequest(c)
    \/ ReceiveAnswer(c) \/ ReceiverDropped(c) \/ Timeout(c)

HsmNext ==
    \/ \E c \in Calls : CallStep(c)
    \/ WriterSend \/ WriterEnds \/ HsmAnswer \/ ReaderDeliver \/ ReaderEnds

HsmSpec == HsmInit /\ [][HsmNext]_hsmVars

\* The runtime polls a call until it returns and its timer fires; tokio's channel
\* gives a free place to the senders in the order they came.
HsmFairSpec ==
    /\ HsmSpec
    /\ \A c \in Calls : WF_hsmVars(CallStep(c))
    /\ \A c \in Calls \ Pan12 : SF_hsmVars(SendRequest(c))
-----------------------------------------------------------------------------
(* Properties.                                                             *)

\* An entry of the map belongs to a call that is still under way (or whose task
\* panicked), under that call's own header: no path of the three functions
\* leaves its sender behind (hsm_client.rs, correlation_map.remove).
EntryLive ==
    \A h \in Headers : corr[h] # NoCall =>
        /\ header[corr[h]] = h
        /\ pc[corr[h]] \in {"registered", "waiting", "panicked"}
        /\ slot[corr[h]] = "empty"

\* Whatever wraps, times out or arrives late, a PIN or MAC is accepted only on a
\* positive, and refused only on a negative, answer of the HSM to a request of
\* the same kind that was sent under the same header.
AnswerMatches ==
    \A c \in Calls : result[c] \in {"ok", "refused"} =>
        /\ from[c] \in Calls
        /\ header[from[c]] = header[c] /\ Kind[from[c]] = Kind[c]
        /\ Verdict[from[c]] = (IF result[c] = "ok" THEN "00" ELSE "05")

\* The inductive invariant behind both: a header is kept while anything refers to
\* its call, and an answer sits in the oneshot of a call with the same header.
Elems(s) == {s[i] : i \in 1 .. Len(s)}
FreshInv == \A c \in Calls : pc[c] \in {"idle", "numbered"} => slot[c] = "empty"
QueueInv == \A d \in Elems(outq) \cup Elems(wire) \cup Elems(back) : pc[d] # "idle"
FullInv ==
    \A c \in Calls : slot[c] = "full" =>
        /\ from[c] \in Calls /\ header[from[c]] = header[c]
        /\ pc[from[c]] # "idle" /\ pc[c] # "idle"
ResultInv ==
    \A c \in Calls : result[c] \in {"ok", "refused"} =>
        /\ pc[c] = "done" /\ slot[c] = "full"
        /\ result[c] = Outcome(c, from[c])
HsmInv == HsmTypeOK /\ EntryLive /\ FreshInv /\ QueueInv /\ FullInv /\ ResultInv

\* A call that is not cut short by a panic returns, answered or not, except one
\* that finds the channel full and never sees room again: its send has no time
\* limit.  In particular whatever was sent returns, even if the HSM never answers
\* (hsm_client.rs, tx.send and timeout).
CallReturns ==
    \A c \in Calls \ Pan12 :
        pc[c] # "idle" ~> (pc[c] = "done" \/ [](pc[c] = "registered" /\ ~Room))
=============================================================================

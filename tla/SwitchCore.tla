----------------------------- MODULE SwitchCore -----------------------------
(***************************************************************************)
(* The transaction pipeline of SwitchEngine::start                         *)
(* (switch-core/src/engine.rs): the ingress workers, the HSM thread, the   *)
(* timeout reaper and the bank reply workers, which share the idempotency  *)
(* guard (a DashMap), the STAN translation table stan_nat and the bounded  *)
(* egress channels.  The egress client, the link and the bank behind it    *)
(* are the environment, as is the passing of time.                         *)
(*                                                                         *)
(* An "attempt" is one TransactionContext taken from the ingress channel:  *)
(* one frame of one terminal with its oneshot responder.  Attempts with    *)
(* equal RRN, acquirer and STAN have the same guard key: they are retries, *)
(* or the 0420 that the session sends when the terminal of a request hangs *)
(* up, a context without a responder.                                      *)
(***************************************************************************)
EXTENDS Integers, Sequences, FiniteSets

CONSTANTS
    Attempts,     \* ingress contexts
    NoAttempt,    \* the sender of the switch's own 0800 probes
    Nodes,        \* names in GlobalState.egress_channels
    NoNode,       \* no usable egress channel
    Repliers,     \* bank reply worker threads
    StanMod,      \* size of the STAN space (1_000_000 in the code)
    EgressCap,    \* capacity of an egress channel (10_000 in the code)
    MaxProbes,    \* bound: number of 0800 probes per behaviour
    ScreenCodes,  \* bound: the codes screening declines with, of 93, 56, 59
    StipCodes,    \* bound: the stand-in decisions taken, of 00, 41, 51, 05
    MaxAge,       \* bound: 1 leaves out entries older than prune_after
    JournalDies,  \* bound: may the journal thread panic?
    Id,           \* Id[a]: the RRN and acquirer of attempt a
    Stan,         \* Stan[a]: the STAN the terminal put in Field 11
    Kind,         \* Kind[a]: how the engine classifies attempt a
    Mti,          \* Mti[a]: what the bank takes a's frame for; 0100 stands for every
                  \* MTI but 0420 and 0800
    Held,         \* Held[a]: a's context has a responder
    OrigStan,     \* OrigStan[a]: STAN in Field 90 of a terminal's reversal
    Route         \* Route[a]: what BinTrie::find returns for a's card

Stans == 0 .. StanMod - 1
NoStan == -1
Ids == {Id[a] : a \in Attempts}
Keys == Ids \X Stans
\* "reversal" is is_reversal: a 0420 that came in by the Interac or the UK FPS port
\* is not one, and goes through guard and NAT like a request.
Kinds == {"plain", "secured", "reversal", "echo"}
Mtis == {"0100", "0420", "0800"}
Routes == [primary : Nodes \cup {NoNode}, failover : Nodes \cup {NoNode}]

ASSUME SentinelAssumption == NoAttempt \notin Attempts /\ NoNode \notin Nodes
ASSUME BoundAssumption ==
    /\ StanMod \in Nat \ {0}
    /\ EgressCap \in Nat \ {0}
    /\ MaxProbes \in Nat
    /\ ScreenCodes \subseteq {"93", "56", "59"}
    /\ StipCodes \subseteq {"00", "41", "51", "05"} /\ StipCodes # {}
    /\ MaxAge \in {1, 2}
    /\ JournalDies \in BOOLEAN
ASSUME AttributeAssumption ==
    /\ Stan \in [Attempts -> Stans]
    /\ OrigStan \in [Attempts -> Stans \cup {NoStan}]
    /\ Kind \in [Attempts -> Kinds]
    /\ Mti \in [Attempts -> Mtis]
    /\ Held \in [Attempts -> BOOLEAN]
    /\ Route \in [Attempts -> Routes]
\* A context without a responder is the session's 0420 for a request that it sent.
ASSUME SessionAssumption ==
    \A d \in Attempts : ~Held[d] =>
        /\ Mti[d] = "0420"
        /\ \E a \in Attempts : Held[a] /\ Id[a] = Id[d] /\ Stan[a] = Stan[d]

VARIABLES
    pc,        \* pc[a]: where the thread that holds attempt a's context is
    node,      \* node[a]: the egress channel chosen for a
    estan,     \* estan[a]: the egress STAN written into a's context
    guard,     \* idempotency_guard
    nat,       \* stan_nat: egress STAN -> ingress STAN
    counter,   \* stan_counter, already reduced modulo StanMod
    health,    \* node_health
    egress,    \* egress[n]: the bounded channel to node n
    replies,   \* the bank_reply channel; the pool of workers reorders it
    bank,      \* bank[a]: what the bank decided on a's request
    acked,     \* attempts whose 0420 the bank has received
    answer,    \* answer[a]: the response code sent through a's responder
    journal,   \* records handed to the write-ahead log
    ledger,    \* events handed to the ledger worker
    stip,      \* stip[a]: the stand-in decision taken for a
    unjournaled, \* attempts whose entry was completed by a reply that the journal
               \* did not take
    advised,   \* attempts for which a 0420 was put on an egress channel
    rpc, rtodo, rkey, rstan,  \* the reaper thread
    wpc, wmsg, wkey,          \* the reply workers
    probes,    \* number of 0800 probes sent
    walUp      \* the journal thread has not panicked

ctxVars   == <<pc, node, estan>>
envVars   == <<health, probes, walUp>>
bankVars  == <<bank, acked>>
histVars  == <<journal, ledger, stip, unjournaled>>
reapVars  == <<rpc, rtodo, rkey, rstan>>
replyVars == <<wpc, wmsg, wkey>>
vars == <<ctxVars, guard, nat, counter, egress, replies, bankVars, answer,
          histVars, advised, envVars, reapVars, replyVars>>
-----------------------------------------------------------------------------
(* Guard entries: ActiveTransaction, with its age in place of created_at.  *)

States == {"UpstreamSent", "Reversed", "ReversedPending", "Completed"}
Fresh == 0    \* younger than timeout_ms
Overdue == 1  \* older than timeout_ms
Stale == 2    \* older than prune_after

Entry == [state : States, att : Attempts, resp : BOOLEAN,
          stan : Stans \cup {NoStan}, age : {Fresh, Overdue, Stale}]
NoEntry == [state |-> "Absent"]

NewEntry(a) == [state |-> "UpstreamSent", att |-> a, resp |-> Held[a],
                stan |-> NoStan, age |-> Fresh]

Present(k) == guard[k].state # "Absent"
Key(a) == <<Id[a], Stan[a]>>

(* The reaper sends the 0420 on a blocking channel while it holds the      *)
(* DashMap shard of the entry it reverses; nobody else reaches that entry. *)
Locked(k) == rpc = "advise" /\ rkey = k

PCs == {"new", "route", "nat", "record", "send", "decline", "evict",
        "hsm", "forward", "done"}
Codes == {"none", "00", "05", "51", "56", "59", "68", "93", "94"}

Frame == [mti : Mtis, att : Attempts, stan : Stans]
         \cup [mti : {"0800"}, att : {NoAttempt}, stan : Stans]
Reply == [mti : {"0110", "0430", "0810"}, att : Attempts, stan : Stans, rc : {"00", "51"}]
         \cup [mti : {"0810"}, att : {NoAttempt}, stan : Stans, rc : {"00", "51"}]
NoReply == [mti |-> "none"]
Records == Attempts \X (Mtis \cup {"stip", "0110", "0430", "0810"})
Postings == {"shadow", "offset"} \X Attempts \X Attempts

TypeOK ==
    /\ pc \in [Attempts -> PCs]
    /\ node \in [Attempts -> Nodes \cup {NoNode}]
    /\ estan \in [Attempts -> Stans \cup {NoStan}]
    /\ guard \in [Keys -> Entry \cup {NoEntry}]
    /\ nat \in [Stans -> Stans \cup {NoStan}]
    /\ counter \in Stans
    /\ health \in [Nodes -> {"absent", "up", "down"}]
    /\ egress \in [Nodes -> Seq(Frame)]
    /\ replies \subseteq Reply
    /\ bank \in [Attempts -> {"none", "approved", "declined"}]
    /\ acked \subseteq Attempts
    /\ answer \in [Attempts -> Codes]
    /\ journal \subseteq Records
    /\ ledger \subseteq Postings
    /\ stip \in [Attempts -> StipCodes \cup {"none"}]
    /\ unjournaled \subseteq Attempts
    /\ advised \subseteq Attempts
    /\ rpc \in {"scan", "next", "advise", "gc", "evict", "prune"}
    /\ rtodo \subseteq Keys
    /\ rkey \in Keys \cup {<<>>}
    /\ rstan \in Stans \cup {NoStan}
    /\ wpc \in [Repliers -> {"idle", "apply", "evict"}]
    /\ wmsg \in [Repliers -> Reply \cup {NoReply}]
    /\ wkey \in [Repliers -> Keys \cup {<<>>}]
    /\ probes \in 0 .. MaxProbes
    /\ walUp \in BOOLEAN

Init ==
    /\ pc = [a \in Attempts |-> "new"]
    /\ node = [a \in Attempts |-> NoNode]
    /\ estan = [a \in Attempts |-> NoStan]
    /\ guard = [k \in Keys |-> NoEntry]
    /\ nat = [s \in Stans |-> NoStan]
    /\ counter = 0
    /\ health = [n \in Nodes |-> "absent"]
    /\ egress = [n \in Nodes |-> <<>>]
    /\ replies = {}
    /\ bank = [a \in Attempts |-> "none"]
    /\ acked = {}
    /\ answer = [a \in Attempts |-> "none"]
    /\ journal = {}
    /\ ledger = {}
    /\ stip = [a \in Attempts |-> "none"]
    /\ unjournaled = {}
    /\ advised = {}
    /\ rpc = "scan" /\ rtodo = {} /\ rkey = <<>> /\ rstan = NoStan
    /\ wpc = [w \in Repliers |-> "idle"]
    /\ wmsg = [w \in Repliers |-> NoReply]
    /\ wkey = [w \in Repliers |-> <<>>]
    /\ probes = 0
    /\ walUp = TRUE
-----------------------------------------------------------------------------
(* Steps shared by the threads.                                            *)

HasRoom(n) == Len(egress[n]) < EgressCap

Send(n, mti, a, s) ==
    egress' = [egress EXCEPT ![n] = Append(@, [mti |-> mti, att |-> a, stan |-> s])]

\* a's own frame is put on an egress channel; a 0420 is counted as advised.
Advised(a) == IF Mti[a] = "0420" THEN advised \cup {a} ELSE advised

\* responder.send(..) on a context that is not in the guard.
Tell(a, rc) == answer' = IF Held[a] THEN [answer EXCEPT ![a] = rc] ELSE answer

\* responder.take() followed by responder.send(..) on a guard entry.
Respond(e, rc) ==
    answer' = IF e.resp THEN [answer EXCEPT ![e.att] = rc] ELSE answer

Goto(a, l) == pc' = [pc EXCEPT ![a] = l]

\* An absent health entry counts as online.
Usable(n) == n # NoNode /\ health[n] # "down"

\* NoNode as primary stands for "no rule" and for InternalCrdb, whose channel
\* CRDB_DOMAIN_2 nobody inserts into egress_channels.
TargetNode(r) ==
    IF r.primary = NoNode \/ Usable(r.primary) THEN r.primary
    ELSE IF Usable(r.failover) THEN r.failover ELSE NoNode
-----------------------------------------------------------------------------
(* Ingress workers.  A worker takes a context, screens it and settles its   *)
(* guard entry before anything another thread can see; every later access   *)
(* to shared state is a step of its own.                                    *)

\* Compliance, detokenization or risk screening declines the context, whose
\* responder, if there is one, it still holds.
ScreenDecline(a, rc) ==
    /\ pc[a] = "new"
    /\ Goto(a, "done")
    /\ Tell(a, rc)
    /\ UNCHANGED <<node, estan, guard, nat, counter, egress, replies, bankVars,
                   histVars, advised, envVars, reapVars, replyVars>>

\* A 0800 for the switch itself is echoed.
EchoReply(a) ==
    /\ pc[a] = "new" /\ Kind[a] = "echo"
    /\ Goto(a, "done")
    /\ Tell(a, "00")
    /\ UNCHANGED <<node, estan, guard, nat, counter, egress, replies, bankVars,
                   histVars, advised, envVars, reapVars, replyVars>>

\* A terminal's reversal marks every entry whose STAN is the one in Field 90,
\* books an offset for each, is answered at once and never goes upstream.
TerminalReversal(a) ==
    LET hit == {k \in Keys : Present(k) /\ k[2] = OrigStan[a]}
    IN  /\ pc[a] = "new" /\ Kind[a] = "reversal"
        /\ rpc # "advise"
        /\ guard' = [k \in Keys |-> IF k \in hit
                                     THEN [guard[k] EXCEPT !.state = "ReversedPending"]
                                     ELSE guard[k]]
        /\ ledger' = ledger \cup {<<"offset", a, guard[k].att>> : k \in hit}
        /\ Tell(a, "00")
        /\ Goto(a, "done")
        /\ UNCHANGED <<node, estan, nat, counter, egress, replies, bankVars, journal,
                       stip, unjournaled, advised, envVars, reapVars, replyVars>>

\* Faulty variant: a duplicate of a request in flight is acknowledged as approved.
RejectDuplicateAsApproved(a) ==
    /\ pc[a] = "new" /\ Kind[a] \in {"plain", "secured"}
    /\ ~Locked(Key(a)) /\ Present(Key(a))
    /\ Goto(a, "done")
    /\ Tell(a, "00")
    /\ UNCHANGED <<node, estan, guard, nat, counter, egress, replies, bankVars,
                   histVars, advised, envVars, reapVars, replyVars>>

\* Entry::Occupied.
RejectDuplicate(a) ==
    /\ pc[a] = "new" /\ Kind[a] \in {"plain", "secured"}
    /\ ~Locked(Key(a)) /\ Present(Key(a))
    /\ Goto(a, "done")
    /\ Tell(a, "94")
    /\ UNCHANGED <<node, estan, guard, nat, counter, egress, replies, bankVars,
                   histVars, advised, envVars, reapVars, replyVars>>

\* Entry::Vacant: the responder moves into the guard; a context with a PIN
\* block or a MAC goes to the HSM thread, any other is journaled and routed.
Admit(a) ==
    /\ pc[a] = "new" /\ Kind[a] \in {"plain", "secured"}
    /\ ~Locked(Key(a)) /\ ~Present(Key(a))
    /\ guard' = [guard EXCEPT ![Key(a)] = NewEntry(a)]
    /\ Goto(a, IF Kind[a] = "secured" THEN "hsm" ELSE "route")
    /\ UNCHANGED <<node, estan, nat, counter, egress, replies, bankVars, answer,
                   histVars, advised, envVars, reapVars, replyVars>>

\* Append the request to the journal, then pick the egress channel.
RouteTransaction(a) ==
    /\ pc[a] = "route" /\ walUp
    /\ journal' = journal \cup {<<a, Mti[a]>>}
    /\ node' = [node EXCEPT ![a] = TargetNode(Route[a])]
    /\ Goto(a, IF TargetNode(Route[a]) = NoNode THEN "decline" ELSE "nat")
    /\ UNCHANGED <<estan, guard, nat, counter, egress, replies, bankVars, answer,
                   ledger, stip, unjournaled, advised, envVars, reapVars, replyVars>>

\* The append fails: the context is dropped, and its entry left to the reaper.
RouteUnjournaled(a) ==
    /\ pc[a] = "route" /\ ~walUp
    /\ Goto(a, "done")
    /\ UNCHANGED <<node, estan, guard, nat, counter, egress, replies, bankVars, answer,
                   histVars, advised, envVars, reapVars, replyVars>>

\* Faulty variant: the counter is not reduced to six digits.
AssignEgressStanUnwrapped(a) ==
    /\ pc[a] = "nat"
    /\ estan' = [estan EXCEPT ![a] = counter]
    /\ nat' = [nat EXCEPT ![counter] = Stan[a]]
    /\ counter' = counter + 1
    /\ Goto(a, "record")
    /\ UNCHANGED <<node, guard, egress, replies, bankVars, answer, histVars, advised,
                   envVars, reapVars, replyVars>>

\* fetch_add on the counter, then the NAT entry egress STAN -> ingress STAN.
AssignEgressStan(a) ==
    /\ pc[a] = "nat"
    /\ estan' = [estan EXCEPT ![a] = counter]
    /\ nat' = [nat EXCEPT ![counter] = Stan[a]]
    /\ counter' = (counter + 1) % StanMod
    /\ Goto(a, "record")
    /\ UNCHANGED <<node, guard, egress, replies, bankVars, answer, histVars, advised,
                   envVars, reapVars, replyVars>>

\* Note the egress STAN in whatever entry the key has now, then hand the
\* request to the ledger worker.
RecordEgressStan(a) ==
    /\ pc[a] = "record" /\ ~Locked(Key(a))
    /\ guard' = IF Present(Key(a))
                THEN [guard EXCEPT ![Key(a)] = [@ EXCEPT !.stan = estan[a]]]
                ELSE guard
    /\ ledger' = ledger \cup {<<"shadow", a, a>>}
    /\ Goto(a, "send")
    /\ UNCHANGED <<node, estan, nat, counter, egress, replies, bankVars, answer,
                   journal, stip, unjournaled, advised, envVars, reapVars, replyVars>>

\* send_timeout succeeds.
ForwardUpstream(a) ==
    /\ pc[a] = "send" /\ HasRoom(node[a])
    /\ Send(node[a], Mti[a], a, estan[a])
    /\ advised' = Advised(a)
    /\ Goto(a, "done")
    /\ UNCHANGED <<node, estan, guard, nat, counter, replies, bankVars, answer,
                   histVars, envVars, reapVars, replyVars>>

\* send_timeout expires on a full channel: a stand-in decision is taken and
\* journaled.  failed_ctx.responder was moved into the guard by Admit, so the
\* decision is sent to nobody.
StipFallback(a, rc) ==
    /\ pc[a] = "send" /\ ~HasRoom(node[a])
    /\ stip' = [stip EXCEPT ![a] = rc]
    /\ journal' = IF walUp THEN journal \cup {<<a, "stip">>} ELSE journal
    /\ Goto(a, "done")
    /\ UNCHANGED <<node, estan, guard, nat, counter, egress, replies, bankVars, answer,
                   ledger, unjournaled, advised, envVars, reapVars, replyVars>>

\* Faulty variant: the entry is completed without answering its responder.
DeclineUnroutedSilently(a) ==
    LET k == Key(a)
    IN  /\ pc[a] = "decline" /\ ~Locked(k)
        /\ guard' = IF Present(k)
                    THEN [guard EXCEPT ![k] = [@ EXCEPT !.state = "Completed", !.resp = FALSE]]
                    ELSE guard
        /\ Goto(a, "evict")
        /\ UNCHANGED <<node, estan, nat, counter, egress, replies, bankVars, answer,
                       histVars, advised, envVars, reapVars, replyVars>>

\* No channel: answer 05 through the entry the key has now and complete it.
DeclineUnrouted(a) ==
    LET k == Key(a)
    IN  /\ pc[a] = "decline" /\ ~Locked(k)
        /\ IF Present(k)
           THEN /\ Respond(guard[k], "05")
                /\ guard' = [guard EXCEPT
                      ![k] = [@ EXCEPT !.state = "Completed", !.resp = FALSE]]
           ELSE UNCHANGED <<answer, guard>>
        /\ Goto(a, "evict")
        /\ UNCHANGED <<node, estan, nat, counter, egress, replies, bankVars, histVars,
                       advised, envVars, reapVars, replyVars>>

\* The guard.remove(&key) that follows, once the entry's lock is released.
EvictUnrouted(a) ==
    /\ pc[a] = "evict" /\ ~Locked(Key(a))
    /\ guard' = [guard EXCEPT ![Key(a)] = NoEntry]
    /\ Goto(a, "done")
    /\ UNCHANGED <<node, estan, nat, counter, egress, replies, bankVars, answer,
                   histVars, advised, envVars, reapVars, replyVars>>
-----------------------------------------------------------------------------
(* The HSM thread and the task it spawns for every context.                *)

\* The HSM cannot be reached, or MAC, PIN or PIN translation fails, or the journal
\* does not take the request.  The context is dropped; on a failed verification the
\* code sends RC 55 through context.responder, which Admit left empty: again
\* nothing but the drop happens.
HsmDrop(a) ==
    /\ pc[a] = "hsm"
    /\ Goto(a, "done")
    /\ UNCHANGED <<node, estan, guard, nat, counter, egress, replies, bankVars, answer,
                   histVars, advised, envVars, reapVars, replyVars>>

\* Everything verifies: choose the channel and journal the request.
HsmAccept(a) ==
    /\ pc[a] = "hsm" /\ walUp
    /\ node' = [node EXCEPT ![a] = TargetNode(Route[a])]
    /\ journal' = journal \cup {<<a, Mti[a]>>}
    /\ Goto(a, IF TargetNode(Route[a]) = NoNode THEN "done" ELSE "forward")
    /\ UNCHANGED <<estan, guard, nat, counter, egress, replies, bankVars, answer,
                   ledger, stip, unjournaled, advised, envVars, reapVars, replyVars>>

\* The blocking send: the frame keeps the terminal's STAN, no NAT entry.
HsmForward(a) ==
    /\ pc[a] = "forward" /\ HasRoom(node[a])
    /\ Send(node[a], Mti[a], a, Stan[a])
    /\ advised' = Advised(a)
    /\ Goto(a, "done")
    /\ UNCHANGED <<node, estan, guard, nat, counter, replies, bankVars, answer,
                   histVars, envVars, reapVars, replyVars>>
-----------------------------------------------------------------------------
(* The reaper thread.                                                      *)

\* Faulty variant: only entries that were given an egress STAN can time out.
OverdueKeysWithStan == {k \in Keys : /\ guard[k].state = "UpstreamSent"
                                     /\ guard[k].age # Fresh
                                     /\ guard[k].stan # NoStan}

OverdueKeys == {k \in Keys : /\ guard[k].state = "UpstreamSent"
                             /\ guard[k].age # Fresh}
StaleKeys == {k \in Keys : /\ guard[k].state \in {"Completed", "Reversed"}
                           /\ guard[k].age = Stale}

\* Faulty variant: the state is not tested again under the lock.
ReversibleWithoutRecheck(e) == e.state # "Absent"

\* Faulty variant: an entry without an egress STAN is passed over.
ReversibleWithStan(e) == e.state = "UpstreamSent" /\ e.stan # NoStan

\* What the second look at an entry, under its lock, tests: the state again,
\* but not the age again.
Reversible(e) == e.state = "UpstreamSent"

\* Wake up; a pass that finds nothing to do changes nothing.
ReaperScan ==
    /\ rpc = "scan"
    /\ rtodo' = OverdueKeys
    /\ rpc' = IF OverdueKeys \cup StaleKeys = {} THEN "scan" ELSE "next"
    /\ UNCHANGED <<ctxVars, guard, nat, counter, egress, replies, bankVars, answer,
                   histVars, advised, envVars, rkey, rstan, replyVars>>

\* Reverse one collected entry and tell its terminal 68.
ReaperReverse(k) ==
    /\ rpc = "next" /\ k \in rtodo /\ Reversible(guard[k])
    /\ guard' = [guard EXCEPT
          ![k] = [@ EXCEPT !.state = "Reversed", !.stan = NoStan, !.resp = FALSE]]
    /\ Respond(guard[k], "68")
    /\ rpc' = "advise" /\ rkey' = k /\ rstan' = guard[k].stan
    /\ rtodo' = rtodo \ {k}
    /\ UNCHANGED <<ctxVars, nat, counter, egress, replies, bankVars, histVars,
                   advised, envVars, replyVars>>

\* The entry is gone or is no longer waiting: next key.
ReaperSkip(k) ==
    /\ rpc = "next" /\ k \in rtodo /\ ~Reversible(guard[k])
    /\ rtodo' = rtodo \ {k}
    /\ UNCHANGED <<ctxVars, guard, nat, counter, egress, replies, bankVars, answer,
                   histVars, advised, envVars, rpc, rkey, rstan, replyVars>>

\* Still under the entry's lock: the 0420, built from the stored request and
\* so with the terminal's STAN, goes to the primary node whatever its health.
ReaperAdvise ==
    LET a == guard[rkey].att
        n == Route[a].primary
    IN  /\ rpc = "advise"
        /\ IF n = NoNode
           THEN UNCHANGED <<egress, advised>>
           ELSE /\ HasRoom(n)
                /\ Send(n, "0420", a, Stan[a])
                /\ advised' = advised \cup {a}
        /\ rpc' = "gc"
        /\ UNCHANGED <<ctxVars, guard, nat, counter, replies, bankVars, answer,
                       histVars, envVars, rtodo, rkey, rstan, replyVars>>

\* stan_nat.remove of the captured egress STAN.
ReaperGc ==
    /\ rpc = "gc"
    /\ nat' = IF rstan = NoStan THEN nat ELSE [nat EXCEPT ![rstan] = NoStan]
    /\ rpc' = "evict"
    /\ UNCHANGED <<ctxVars, guard, counter, egress, replies, bankVars, answer,
                   histVars, advised, envVars, rtodo, rkey, rstan, replyVars>>

\* guard.remove of the key, whatever is under it by now.
ReaperEvict ==
    /\ rpc = "evict"
    /\ guard' = [guard EXCEPT ![rkey] = NoEntry]
    /\ rpc' = "next" /\ rkey' = <<>> /\ rstan' = NoStan
    /\ UNCHANGED <<ctxVars, nat, counter, egress, replies, bankVars, answer,
                   histVars, advised, envVars, rtodo, replyVars>>

\* Pass 2: collect, then remove, the terminal entries past the grace period.
ReaperSweep ==
    /\ rpc = "next" /\ rtodo = {}
    /\ rtodo' = StaleKeys
    /\ rpc' = IF StaleKeys = {} THEN "scan" ELSE "prune"
    /\ UNCHANGED <<ctxVars, guard, nat, counter, egress, replies, bankVars, answer,
                   histVars, advised, envVars, rkey, rstan, replyVars>>

ReaperPrune(k) ==
    /\ rpc = "prune" /\ k \in rtodo
    /\ guard' = [guard EXCEPT ![k] = NoEntry]
    /\ rtodo' = rtodo \ {k}
    /\ rpc' = IF rtodo' = {} THEN "scan" ELSE "prune"
    /\ UNCHANGED <<ctxVars, nat, counter, egress, replies, bankVars, answer,
                   histVars, advised, envVars, rkey, rstan, replyVars>>
-----------------------------------------------------------------------------
(* Bank reply workers.                                                     *)

\* Reverse translation, with the reply's own STAN when there is no NAT entry.
IngressStan(s) == IF nat[s] = NoStan THEN s ELSE nat[s]

\* Faulty variant: the reply is matched by its translated STAN alone.
ReplyKeyByStan(m) ==
    LET match == {k \in Keys : Present(k) /\ k[2] = IngressStan(m.stan)}
    IN  IF match = {} THEN <<Id[m.att], IngressStan(m.stan)>> ELSE CHOOSE k \in match : TRUE

\* The key a reply is looked up under; a probe's RRN is no attempt's.
ReplyKey(m) == <<Id[m.att], IngressStan(m.stan)>>

\* Faulty variant: no reply is ever too late.
NeverLate(e) == FALSE

\* Is this reply too late for the entry it finds?
Late(e) == e.state = "Reversed"

\* Take a reply, whatever its MTI, and consume the NAT entry of its STAN.
ReplyTranslate(w, m) ==
    /\ wpc[w] = "idle" /\ m \in replies
    /\ replies' = replies \ {m}
    /\ nat' = [nat EXCEPT ![m.stan] = NoStan]
    /\ IF m.att = NoAttempt
       THEN UNCHANGED replyVars
       ELSE /\ wpc' = [wpc EXCEPT ![w] = "apply"]
            /\ wmsg' = [wmsg EXCEPT ![w] = m]
            /\ wkey' = [wkey EXCEPT ![w] = ReplyKey(m)]
    /\ UNCHANGED <<ctxVars, guard, counter, egress, bankVars, answer, histVars,
                   advised, envVars, reapVars>>

\* Under the entry's lock: drop a late reply; otherwise complete the entry,
\* journal the reply and forward it as a 0110 through the responder.
ReplyApply(w) ==
    LET k == wkey[w]
        e == guard[k]
        m == wmsg[w]
    IN  /\ wpc[w] = "apply" /\ ~Locked(k)
        /\ Present(k) /\ ~Late(e) => walUp
        /\ IF Present(k) /\ ~Late(e)
           THEN /\ guard' = [guard EXCEPT
                      ![k] = [@ EXCEPT !.state = "Completed", !.resp = FALSE]]
                /\ journal' = journal \cup {<<m.att, m.mti>>}
                /\ Respond(e, m.rc)
           ELSE UNCHANGED <<guard, journal, answer>>
        /\ wpc' = [wpc EXCEPT ![w] = IF Present(k) THEN "evict" ELSE "idle"]
        /\ wmsg' = [wmsg EXCEPT ![w] = NoReply]
        /\ wkey' = [wkey EXCEPT ![w] = IF Present(k) THEN @ ELSE <<>>]
        /\ UNCHANGED <<ctxVars, nat, counter, egress, replies, bankVars, ledger, stip,
                       unjournaled, advised, envVars, reapVars>>

\* The append fails: the entry is completed all the same, but keeps its responder
\* and is not removed.
ReplyUnjournaled(w) ==
    LET k == wkey[w]
    IN  /\ wpc[w] = "apply" /\ ~Locked(k)
        /\ Present(k) /\ ~Late(guard[k]) /\ ~walUp
        /\ guard' = [guard EXCEPT ![k] = [@ EXCEPT !.state = "Completed"]]
        /\ unjournaled' = unjournaled \cup {guard[k].att}
        /\ wpc' = [wpc EXCEPT ![w] = "idle"]
        /\ wmsg' = [wmsg EXCEPT ![w] = NoReply]
        /\ wkey' = [wkey EXCEPT ![w] = <<>>]
        /\ UNCHANGED <<ctxVars, nat, counter, egress, replies, bankVars, answer, journal,
                       ledger, stip, advised, envVars, reapVars>>

\* guard.remove of the key, whatever is under it by now.
ReplyEvict(w) ==
    /\ wpc[w] = "evict" /\ ~Locked(wkey[w])
    /\ guard' = [guard EXCEPT ![wkey[w]] = NoEntry]
    /\ wpc' = [wpc EXCEPT ![w] = "idle"]
    /\ wkey' = [wkey EXCEPT ![w] = <<>>]
    /\ UNCHANGED <<ctxVars, nat, counter, egress, replies, bankVars, answer, histVars,
                   advised, envVars, reapVars, wmsg>>
-----------------------------------------------------------------------------
(* Environment: time, the network manager, the egress client, the bank.    *)

Age(k) ==
    /\ Present(k) /\ guard[k].age < MaxAge
    /\ guard' = [guard EXCEPT ![k].age = @ + 1]
    /\ UNCHANGED <<ctxVars, nat, counter, egress, replies, bankVars, answer, histVars,
                   advised, envVars, reapVars, replyVars>>

\* try_send of a 0800: the node counts as healthy iff its channel has room.
Probe(n, s) ==
    /\ probes < MaxProbes
    /\ probes' = probes + 1
    /\ IF HasRoom(n)
       THEN Send(n, "0800", NoAttempt, s) /\ health' = [health EXCEPT ![n] = "up"]
       ELSE UNCHANGED egress /\ health' = [health EXCEPT ![n] = "down"]
    /\ UNCHANGED <<ctxVars, guard, nat, counter, replies, bankVars, answer, histVars,
                   advised, walUp, reapVars, replyVars>>

\* The journal thread panics when it cannot open, size or map its file; what is
\* appended before it has come so far is accepted, later appends fail.
JournalFails ==
    /\ JournalDies /\ walUp
    /\ walUp' = FALSE
    /\ UNCHANGED <<ctxVars, guard, nat, counter, egress, replies, bankVars, answer,
                   histVars, advised, health, probes, reapVars, replyVars>>

\* The egress client takes the next frame and it is lost on the way.
LoseFrame(n) ==
    /\ egress[n] # <<>>
    /\ egress' = [egress EXCEPT ![n] = Tail(@)]
    /\ UNCHANGED <<ctxVars, guard, nat, counter, replies, bankVars, answer, histVars,
                   advised, envVars, reapVars, replyVars>>

\* The bank's response code and the record it keeps of the frame.
BankDecides(f, rc) ==
    \/ f.mti = "0420" /\ rc = "00" /\ acked' = acked \cup {f.att} /\ UNCHANGED bank
    \/ f.att = NoAttempt /\ rc = "00" /\ UNCHANGED bankVars
    \/ /\ f.mti # "0420" /\ f.att # NoAttempt
       /\ f.mti = "0800" => rc = "00"
       /\ bank' = [bank EXCEPT ![f.att] = IF rc = "00" THEN "approved" ELSE "declined"]
       /\ UNCHANGED acked

ReplyMti(mti) ==
    IF mti = "0100" THEN "0110" ELSE IF mti = "0420" THEN "0430" ELSE "0810"

\* The bank processes the next frame; its reply mirrors RRN, acquirer and
\* STAN, and may be lost.
BankAnswer(n, rc, delivered) ==
    LET f == Head(egress[n])
    IN  /\ egress[n] # <<>>
        /\ egress' = [egress EXCEPT ![n] = Tail(@)]
        /\ BankDecides(f, rc)
        /\ replies' = IF delivered
                      THEN replies \cup {[mti |-> ReplyMti(f.mti), att |-> f.att,
                                          stan |-> f.stan, rc |-> rc]}
                      ELSE replies
        /\ UNCHANGED <<ctxVars, guard, nat, counter, answer, histVars, advised,
                       envVars, reapVars, replyVars>>
-----------------------------------------------------------------------------
\* Steps by which the thread that holds context a moves on.
WorkerStep(a) ==
    \/ RouteTransaction(a) \/ RouteUnjournaled(a) \/ AssignEgressStan(a) \/ RecordEgressStan(a)
    \/ ForwardUpstream(a) \/ (\E rc \in StipCodes : StipFallback(a, rc))
    \/ DeclineUnrouted(a) \/ EvictUnrouted(a)
    \/ HsmDrop(a) \/ HsmAccept(a) \/ HsmForward(a)

\* A context is taken from the ingress channel.
IngressStep(a) ==
    \/ \E rc \in ScreenCodes : ScreenDecline(a, rc)
    \/ EchoReply(a) \/ TerminalReversal(a) \/ RejectDuplicate(a) \/ Admit(a)

ReaperStep ==
    \/ ReaperScan \/ ReaperAdvise \/ ReaperGc \/ ReaperEvict
    \/ ReaperSweep
    \/ \E k \in Keys : ReaperReverse(k) \/ ReaperSkip(k) \/ ReaperPrune(k)

ReplyStep(w) ==
    \/ \E m \in replies : ReplyTranslate(w, m)
    \/ ReplyApply(w) \/ ReplyUnjournaled(w) \/ ReplyEvict(w)

LinkStep(n) ==
    \/ LoseFrame(n)
    \/ \E rc \in {"00", "51"}, delivered \in BOOLEAN : BankAnswer(n, rc, delivered)

Next ==
    \/ \E a \in Attempts : IngressStep(a) \/ WorkerStep(a)
    \/ ReaperStep
    \/ \E w \in Repliers : ReplyStep(w)
    \/ \E n \in Nodes : LinkStep(n)
    \/ \E k \in Keys : Age(k)
    \/ \E n \in Nodes, s \in Stans : Probe(n, s)
    \/ JournalFails

\* Every thread of the engine runs, the egress client drains its channel
\* whether or not it is connected, and time passes.  Nothing obliges a
\* terminal to send, the bank to answer or the network manager to probe.
Fairness ==
    /\ \A a \in Attempts : WF_vars(WorkerStep(a))
    /\ WF_vars(ReaperStep)
    /\ \A w \in Repliers : WF_vars(ReplyStep(w))
    /\ \A n \in Nodes : WF_vars(LinkStep(n))
    /\ \A k \in Keys : WF_vars(Age(k))

Spec == Init /\ [][Next]_vars
FairSpec == Spec /\ Fairness
-----------------------------------------------------------------------------
(* Properties.                                                             *)

\* What takes a guard entry.
Online == {a \in Attempts : Kind[a] \in {"plain", "secured"}}

\* No other attempt has a's RRN and acquirer: a is never retried.
Solo(a) == \A b \in Attempts : Id[b] = Id[a] => b = a

\* No terminal reversal names a's STAN in Field 90.
Unnamed(a) == \A r \in Attempts : Kind[r] = "reversal" => OrigStan[r] # Stan[a]

\* A 0420 for a is on its way to the bank, or has reached it.
Voided(a) ==
    \/ a \in acked
    \/ \E n \in Nodes : \E i \in 1 .. Len(egress[n]) :
           egress[n][i].mti = "0420" /\ egress[n][i].att = a

\* The bank is asked to reverse a request only if that request's terminal was
\* told 68, or the request is itself a 0420, of a terminal on a port that does not
\* mark it or of the session of a terminal that hung up.  No interleaving of the
\* reaper with reply workers, duplicates, retries and 0420s under the same key or
\* marked reversals makes the switch void, of its own accord, a payment whose
\* terminal holds any other answer (engine.rs, reaper pass 1 and reply loop).
ReversalMeansTimeout ==
    \A a \in Attempts : Voided(a) => answer[a] = "68" \/ Mti[a] = "0420"

\* An approval given to a terminal comes from the bank's reply to a request of
\* the same transaction, whatever NAT entry the reply was translated with
\* (engine.rs, reply loop: key of RRN, translated STAN and acquirer).
ApprovalHasOrigin ==
    \A a \in Online : answer[a] = "00" =>
        \E b \in Attempts : Id[b] = Id[a] /\ (bank[b] = "approved" \/ b \in acked)

\* A request that is not itself a 0420, is not retried and not reversed.
Undisturbed(a) == a \in Online /\ Mti[a] # "0420" /\ Solo(a) /\ Unnamed(a)

\* For such a request the journal, from which settlement is computed, holds the
\* bank's answer exactly when that answer was given to the terminal: a reply that
\* loses the race against the reaper is in neither (engine.rs, LateBankReplyDropped).
JournalMatchesTerminal ==
    \A a \in Attempts : Undisturbed(a) =>
        ((<<a, ReplyMti(Mti[a])>> \in journal) <=> (answer[a] \in {"00", "51"}))

\* A request that is not retried stays in the guard, with its responder, until
\* it is answered: none of the four places that remove a key unconditionally
\* removes it too early (engine.rs, guard.remove in workers, reaper, replies).  The
\* exception is a request whose reply the journal did not take: it keeps the
\* responder, unused, until the reaper prunes it.
SoloTracked ==
    \A a \in Online \ unjournaled : Solo(a) /\ pc[a] # "new" /\ answer[a] = "none" =>
        LET e == guard[Key(a)] IN e.state # "Absent" /\ e.resp /\ e.att = a

\* A request that was admitted, is not retried and not reversed by its terminal
\* is eventually answered, whichever thread, channel or bank fails it: at the
\* latest by the reaper's 68 (engine.rs, reaper pass 1).  The exception is again a
\* request whose reply the journal did not take (engine.rs 721-728).
EventuallyAnswered ==
    \A a \in Attempts : Solo(a) /\ Unnamed(a) =>
        (pc[a] # "new" ~> answer[a] # "none" \/ a \in unjournaled)

\* Whatever became of its transaction, an entry leaves the guard, so that its key
\* can be used again: by a worker, a reply worker or one of the reaper's passes.
\* The exception is an entry that a terminal reversal has marked ReversedPending,
\* which neither pass collects (engine.rs, reaper pass 2).
EntriesLeave ==
    \A a \in Attempts :
        LET k == Key(a) IN Present(k) ~> ~Present(k) \/ guard[k].state = "ReversedPending"

\* The pipeline implements the lifecycle the two sides rely on: one answer per
\* request, approvals only on the bank's word, advices only after a 68 or at the
\* word of a 0420 that came in.
Lifecycle == INSTANCE PaymentLifecycle
                 WITH Upstream <- Online, Reversals <- {a \in Online : Mti[a] = "0420"}
LifecycleSpec == Lifecycle!Spec
-----------------------------------------------------------------------------
(* The inductive invariant behind ReversalMeansTimeout.                    *)

\* What a thread that holds a context knows of it.
ContextInv ==
    \A a \in Attempts :
        /\ pc[a] \in {"nat", "record", "send", "forward"} => node[a] \in Nodes
        /\ pc[a] \in {"record", "send"} => estan[a] \in Stans
        /\ pc[a] = "new" => answer[a] = "none"

\* The reaper and the reply workers hold real keys, and nobody touches the
\* state of the entry the reaper has locked.
ThreadInv ==
    /\ rpc \in {"advise", "gc", "evict"} => rkey \in Keys
    /\ rpc = "advise" => guard[rkey].state = "Reversed"
    /\ \A w \in Repliers :
           /\ wpc[w] \in {"apply", "evict"} => wkey[w] \in Keys
           /\ wpc[w] = "apply" => wmsg[w] \in Reply /\ wmsg[w].att \in Attempts

\* An entry sits under its own key; it holds the responder, if its context had one,
\* as long as it waits for the bank, and its terminal is unanswered as long as it
\* holds it.
GuardInv ==
    \A k \in Keys : Present(k) =>
        /\ Key(guard[k].att) = k
        /\ pc[guard[k].att] # "new" /\ guard[k].att \in Online
        /\ guard[k].state = "UpstreamSent" /\ Held[guard[k].att] => guard[k].resp
        /\ guard[k].resp => answer[guard[k].att] = "none"
        /\ guard[k].state = "Reversed" /\ Held[guard[k].att] => answer[guard[k].att] = "68"

\* Every 0420, queued or received, was sent by the reaper after a 68, or came in.
AdviceInv ==
    /\ \A a \in advised : answer[a] = "68" \/ Mti[a] = "0420"
    /\ acked \subseteq advised
    /\ \A n \in Nodes : \A i \in 1 .. Len(egress[n]) :
           egress[n][i].mti = "0420" => egress[n][i].att \in advised

IInv == TypeOK /\ ContextInv /\ ThreadInv /\ GuardInv /\ AdviceInv

(* The inductive invariants behind SoloTracked, ApprovalHasOrigin,         *)
(* JournalMatchesTerminal and LifecycleSpec.                               *)

\* Some request under key k has its answer, or had nobody to give it to, or was lost
\* to the journal.
Served(a) == answer[a] # "none" \/ a \in unjournaled \/ (~Held[a] /\ pc[a] # "new")
Answered(k) == \E a \in Attempts : Key(a) = k /\ Served(a)

\* An entry gives its responder up only to answer with it.
EntryTrack ==
    \A k \in Keys : Present(k) =>
        /\ ~guard[k].resp => answer[guard[k].att] # "none" \/ ~Held[guard[k].att]
        /\ guard[k].state = "Completed" => ~guard[k].resp \/ guard[k].att \in unjournaled

\* The key of an admitted request stays in the guard until some request under
\* it is answered, and a worker removes a key only after that.
ContextTrack ==
    \A a \in Attempts :
        /\ pc[a] \notin {"new", "done"} => a \in Online
        /\ a \in Online /\ pc[a] # "new" => Present(Key(a)) \/ Answered(Key(a))
        /\ pc[a] = "evict" => Answered(Key(a))

\* So do the reaper and the reply workers.
ThreadTrack ==
    /\ rpc \in {"gc", "evict"} => Answered(rkey)
    /\ rpc = "prune" => \A k \in rtodo : Answered(k)
    /\ \A w \in Repliers : wpc[w] = "evict" => Answered(wkey[w])

TrackInv == EntryTrack /\ ContextTrack /\ ThreadTrack

QueuedAt(a, n, i) ==
    i \in 1 .. Len(egress[n]) /\ egress[n][i].mti # "0420" /\ egress[n][i].att = a

\* A request is queued once, with its own MTI, by the thread that had its context,
\* and the bank decides it once.
RequestInv ==
    \A a \in Attempts :
        /\ bank[a] # "none" => pc[a] = "done" /\ node[a] \in Nodes
        /\ \A n \in Nodes : \A i \in 1 .. Len(egress[n]) : QueuedAt(a, n, i) =>
              /\ pc[a] = "done" /\ node[a] \in Nodes /\ bank[a] = "none"
              /\ egress[n][i].mti = Mti[a]
              /\ \A m \in Nodes : \A j \in 1 .. Len(egress[m]) :
                    QueuedAt(a, m, j) => m = n /\ j = i

\* A reply says what the bank decided, or that it has the 0420.
Word(m) ==
    m.att \in Attempts =>
        \/ m.mti = ReplyMti(Mti[m.att]) /\ m.rc = "00" /\ bank[m.att] = "approved"
        \/ m.mti = ReplyMti(Mti[m.att]) /\ m.rc = "51" /\ bank[m.att] = "declined"
        \/ m.mti = "0430" /\ m.rc = "00" /\ m.att \in acked

WordInv ==
    /\ \A m \in replies : Word(m)
    /\ \A w \in Repliers : wpc[w] = "apply" =>
           Word(wmsg[w]) /\ wkey[w][1] = Id[wmsg[w].att]

\* The entry of an undisturbed request is completed by the bank's answer, or by
\* the worker that found no channel for it and so sent nothing.
JournalInv ==
    /\ \A k \in Keys : guard[k].state = "ReversedPending" =>
           \E r \in Attempts : Kind[r] = "reversal" /\ OrigStan[r] = k[2]
    /\ \A a \in Attempts : pc[a] \in {"decline", "evict"} => node[a] = NoNode
    /\ unjournaled # {} => ~walUp
    /\ \A a \in Attempts : Undisturbed(a) =>
           /\ guard[Key(a)].state = "Completed" =>
                 \/ answer[a] \in {"00", "51"}
                 \/ node[a] = NoNode /\ pc[a] \in {"evict", "done"}
                 \/ a \in unjournaled
           /\ (<<a, ReplyMti(Mti[a])>> \in journal) <=> (answer[a] \in {"00", "51"})

PipelineInv == IInv /\ TrackInv /\ RequestInv /\ WordInv /\ ApprovalHasOrigin /\ JournalInv
-----------------------------------------------------------------------------
(* What comments and documents of the repository say and the code does not *)
(* do: TLC has a counterexample for each.                                  *)

\* README, High Availability Fallbacks: on network failure STIP answers.
\* Every stand-in decision should be the terminal's answer.
StipDecisionDelivered == \A a \in Attempts : stip[a] # "none" => answer[a] = stip[a]

\* engine.rs 731-735: the removal after a late reply is "a no-op if absent", so
\* it should leave every request that still waits for its answer in the guard,
\* retries included.
RetryTracked ==
    \A a \in Online : Held[a] /\ pc[a] # "new" /\ answer[a] = "none" =>
        LET e == guard[Key(a)] IN e.state # "Absent" /\ e.att = a

\* README, Timeout Reaper: 0420 auto-reversals avoid double settlement.  Once the
\* bank has the 0420 of a request, it should not approve that request.
ReversalIsFinal ==
    [][\A a \in acked : bank[a] = "none" => bank'[a] # "approved"]_vars

\* engine.rs 717: the reply worker returns a "genuine approval": the bank should
\* have approved a request of that transaction.
GenuineApproval ==
    \A a \in Online : answer[a] = "00" =>
        \E b \in Attempts : Id[b] = Id[a] /\ bank[b] = "approved"

\* engine.rs 692: replies other than a 0110 "have no NAT entry" to consume.
NonFinancialHasNoNat == \A m \in replies : m.mti # "0110" => nat[m.stan] = NoStan

\* engine.rs 333: "all inbound captures" go to the ledger.
CapturesBooked == \A a \in Attempts : bank[a] = "approved" => <<"shadow", a, a>> \in ledger

\* engine.rs 573-574: the reaper's second pass keeps the guard from growing
\* without bound, so every entry should leave it.
GuardDrains == \A k \in Keys : Present(k) ~> ~Present(k)

\* state.rs 57-59: a NAT entry is consumed by the reply or removed by the reaper.
NatDrains == \A s \in Stans : nat[s] # NoStan ~> nat[s] = NoStan
=============================================================================

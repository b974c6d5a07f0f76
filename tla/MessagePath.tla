----------------------------- MODULE MessagePath -----------------------------
(***************************************************************************)
(* Requests on their way through the switch, as data: read at a terminal's   *)
(* port, screened, forwarded to the bank or stood in for, answered by the    *)
(* bank or given up by the reaper, and read again by the terminal.  Every    *)
(* hand-over is a conversion of IsoDialects.  The guard, the channels and    *)
(* the clock are the subject of SwitchCore; here a step that depends on them *)
(* may be taken or not (switch-core/src/engine.rs, edge-egress/src/client.rs,*)
(* mock-bank-node).                                                          *)
(***************************************************************************)
EXTENDS IsoDialects, Compliance, StandIn

CONSTANTS
    Requests,    \* requests
    Workloads,   \* what can happen in one behaviour: bounds for publishes, loads and
                 \* crashes, and messages, a function from some of Requests to
                 \* [port, reader, frame], reader being the dialect in which the
                 \* terminal reads its answer
    Bin,         \* Bin[pan]: its first six digits
    Network,     \* Network[pan]: "VISA" (4...), "MASTERCARD" (5...) or "DEFAULT"
    Declined,    \* PANs that end in 9999
    Vault,       \* Vault[token]: the PAN behind a token
    MaxRisk,     \* MaxRisk[network]: threshold of the rule, 100 without one
    EgressStan,  \* EgressStan[r]: the STAN the switch would assign to r
    ProbeStans,  \* STANs of the network manager's probes
    ZonePin,     \* the PIN block under the bank's key
    Limit        \* largest amount the mock bank approves (50000)

ASSUME PathAssumption ==
    /\ Limit \in Nat
    /\ \A w \in Workloads : /\ DOMAIN w.messages \subseteq Requests
                           /\ {w.publishes, w.loads, w.crashes} \subseteq Nat
    /\ \A n \in DOMAIN MaxRisk : MaxRisk[n] \in 0 .. 255
    /\ None \notin DOMAIN Vault

\* The response codes the switch, the stand-in aside, and the mock bank answer with.
ResponseCodes == {"00", "05", "51", "56", "59", "68", "93", "94"}

\* A terminal puts a frame's fields in the order of their bits, up to where the
\* frame is cut off.
InOrder(m) ==
    LET fields == m.bits \ {1, 65, 129} IN
    /\ m.bits \subseteq 1 .. 64 * Bitmaps(m.bits) /\ Len(m.body) \in Nat
    /\ \A f \in fields :
          LET place == Cardinality({g \in fields : g <= f})
          IN  place <= Len(m.body) => m.body[place].field = f

\* Values fit the prefix they came with, and a terminal reads its answers as the
\* port writes them, or with the connex codec if it sends none of the fields which
\* that codec does not know.
Wire(x) ==
    LET t == Parse(x.port, x.frame) IN
    /\ x.port \in {"standard", "interac", "ukfps"} /\ InOrder(x.frame)
    /\ t.is = "event" =>
          /\ \A f \in Writes(x.port) : ~Overlong(t.event, f)
          /\ t.event.v[2] # None => DOMAIN t.event.v[2] = {"digits", "len", "ukfps"}
          /\ \/ x.reader = x.port
             \/ x.reader = "connex" /\ \A f \in {63, 102, 103} : t.event.v[f] = None

ASSUME WireAssumption ==
    /\ None \notin ResponseCodes
    /\ \A w \in Workloads : \A r \in DOMAIN w.messages : Wire(w.messages[r])

VARIABLES
    nat,  \* stan_nat, one table for all requests: from STANs to terminals' STANs
    req   \* req[r]: a request: pc, the message, the event or record that is
          \* where pc says, and the profile a worker has read for it

vars == <<complianceVars, standInVars, nat, req>>

\* The PAN proper: none in a UK FPS event that was given its account's.
Pan(e) == IF e.v[2] = None \/ e.v[2].ukfps THEN None ELSE e.v[2].digits

BinOf(e) == IF Pan(e) = None THEN None ELSE Bin[Pan(e)]
NetworkOf(e) == IF Pan(e) = None THEN "DEFAULT" ELSE Network[Pan(e)]

-----------------------------------------------------------------------------
(* The engine *)

Answered(e, mti, rc) == [e EXCEPT !.mti = mti, !.v[39] = rc]
Decline(e, rc) == Answered(e, "0110", rc)
StandInAnswer(e, rc) ==
    [Decline(e, rc) EXCEPT !.v[3] = IF rc = "00" THEN "STIP12" ELSE @]

\* TspVault::detokenize, for a tokenized request.
Detokenized(e) ==
    IF e.is_tokenized
    THEN [e EXCEPT !.v[2] = [@ EXCEPT !.digits = Vault[Pan(e)]]]
    ELSE e

\* The checks before the guard, in order; listed is what evaluate said.  "admit"
\* leaves the request to be entered in the guard, everything else is answered.
Screen(e, listed) ==
    LET known == e.is_tokenized => Pan(e) \in DOMAIN Vault
        card == Detokenized(e)
        Reply(x) == [is |-> "answered", event |-> x]
    IN  IF listed THEN Reply(Decline(e, "93"))
        ELSE IF ~known THEN Reply(Decline(e, "56"))
        ELSE IF e.risk_score > MaxRisk[NetworkOf(card)] THEN Reply(Decline(card, "59"))
        ELSE IF e.class = "NetworkManagement" /\ NetworkOf(card) = "DEFAULT"
             THEN Reply(Answered(card, "0810", "00"))
        ELSE IF e.is_reversal THEN Reply(Answered(card, "0430", "00"))
        ELSE [is |-> "admitted", event |-> card]

\* The idempotency key: RRN, STAN, acquirer.
Key(e) == <<e.v[37], e.v[11], e.v[32]>>

\* The HSM task handles requests with a PIN block or a MAC.
Secured(e) == e.v[52] # None \/ e.v[64] # None

\* What is put on the egress channel: the HSM task replaces the PIN block and
\* keeps the STAN, the worker's own path replaces the STAN by s.
Forwarded(e, s) ==
    IF ~Secured(e) THEN [e EXCEPT !.v[11] = s]
    ELSE IF e.v[52] # None THEN [e EXCEPT !.v[52] = ZonePin]
    ELSE e

\* stan_nat with an entry put under s, or taken from under it.
Mapped(s, stan) == [x \in DOMAIN nat \cup {s} |-> IF x = s THEN stan ELSE nat[x]]
Unmapped(s) == [x \in DOMAIN nat \ {s} |-> nat[x]]

\* The entry a worker makes for request r, which is e; the HSM task makes none.
NatEntry(r, e) == nat' = IF Secured(e) THEN nat ELSE Mapped(EgressStan[r], e.v[11])

\* The plausible mistake: the bank's STAN is used as it is.
ReplyKeyUntranslated(p) == <<p.v[37], p.v[11], p.v[32]>>

\* The reply worker: the key it looks up, by whatever the table has under the STAN
\* of the reply, and the answer it delivers.
ReplyKey(p) ==
    <<p.v[37], IF p.v[11] \in DOMAIN nat THEN nat[p.v[11]] ELSE p.v[11], p.v[32]>>

\* The plausible mistake: the answer is made from the request's record.
ApprovalWithoutCode(p) == from_pb([p EXCEPT !.mti = "0110", !.v[39] = None])

Approval(p) == from_pb([p EXCEPT !.mti = "0110"])

\* The reaper: its answer and its reversal, from the record in the guard.
TimeoutReply(p) == from_pb([p EXCEPT !.mti = "0110", !.v[39] = "68"])

\* The plausible mistake: the reversal goes out as a repeat of the request.
ReversalAsRepeat(p) == from_pb([p EXCEPT !.mti = "0400"])

Reversal(p) == from_pb([p EXCEPT !.mti = "0420"])

-----------------------------------------------------------------------------
(* The upstream clients and the bank *)

\* The frame an upstream client writes, at once or after a stay in the SAF
\* database, and what the bank makes of it.
Sent(e) == Build("connex", e)
Drained(e) == Build("connex", from_pb(to_pb(e)))
AtBank(frame) == Parse("connex", frame)

\* process_bank_rules: the mock bank's answer, or nothing.
BankResponse(e) ==
    CASE e.class = "NetworkManagement" -> Answered(e, "0810", "00")
      [] e.class = "ReversalAdvice" -> Answered(e, "0430", "00")
      [] e.class \in {"Authorization", "Financial"} ->
            Answered(e, IF e.class = "Authorization" THEN "0110" ELSE "0210",
                     IF e.v[4] > Limit THEN "51"
                     ELSE IF Pan(e) \in Declined THEN "59" ELSE "00")
      [] OTHER -> None

\* The classes the bank answers are the ones the engine routes.
Routed(e) == e.class \in {"Authorization", "Financial", "ReversalAdvice", "NetworkManagement"}

\* The bank's answer as the upstream client puts it on the reply channel.
BankReply(b) ==
    LET p == Parse("connex", Build("connex", BankResponse(b)))
    IN  IF p.is = "event" THEN [is |-> "record", record |-> to_pb(p.event)] ELSE p

-----------------------------------------------------------------------------
(* The way of a request *)

Read(x) == Parse(x.port, x.frame)

\* The event that a message was admitted as.
Request(x) == Screen(Read(x).event, FALSE).event

\* Message x is at pc as e, with profile p in a worker's hands.
Holder(pc, x, e, p) == [pc |-> pc, msg |-> x, e |-> e, p |-> p]

Init ==
    \E w \in Workloads :
        /\ ComplianceInit(w.publishes) /\ StandInInit(w.loads, w.crashes)
        /\ nat = [s \in {} |-> None]
        /\ req = [r \in DOMAIN w.messages |->
                    Holder("new", w.messages[r], None, NoProfile)]

Go(r, pc, e) == req' = [req EXCEPT ![r] = Holder(pc, req[r].msg, e, NoProfile)]

\* A request takes a step that only it is concerned with.
OnlyRequest == UNCHANGED <<complianceVars, standInVars, nat>>

At(r, pc) == up /\ req[r].pc = pc

\* The session parses the frame; an error is no answer.
Receive(r) ==
    /\ At(r, "new")
    /\ LET t == Read(req[r].msg) IN
       Go(r, IF t.is = "event" THEN "read" ELSE t.is, IF t.is = "event" THEN t.event ELSE None)
    /\ OnlyRequest

\* A worker looks the PAN up in the compliance list and screens the request.
ScreenRequest(r) ==
    /\ At(r, "read")
    /\ LET s == Screen(req[r].e, evaluate(BinOf(req[r].e))) IN Go(r, s.is, s.event)
    /\ OnlyRequest

\* Its key is in the guard, or it has no channel to go to.
Refuse(r) ==
    /\ At(r, "admitted")
    /\ \/ Go(r, "answered", Decline(req[r].e, "94"))
       \/ ~Secured(req[r].e) /\ Go(r, "answered", Decline(req[r].e, "05"))
    /\ OnlyRequest

Forward(r) ==
    /\ At(r, "admitted")
    /\ Secured(req[r].e) \/ Routed(req[r].e)
    /\ Go(r, "sent", Forwarded(req[r].e, EgressStan[r]))
    /\ NatEntry(r, req[r].e)
    /\ UNCHANGED <<complianceVars, standInVars>>

\* The channel is full or closed: the worker reads the card's profile.
StandInRead(r) ==
    /\ At(r, "admitted") /\ ~Secured(req[r].e) /\ Routed(req[r].e)
    /\ LET e == Forwarded(req[r].e, EgressStan[r]) IN
       req' = [req EXCEPT ![r] =
                 Holder("standin", req[r].msg, e,
                        IF Pan(e) \in Cards THEN stip[Pan(e)] ELSE NoProfile)]
    /\ NatEntry(r, req[r].e)
    /\ UNCHANGED <<complianceVars, standInVars>>

\* The worker decides and journals.  It has no responder to send the answer
\* to: that went into the guard.
StandInWrite(r) ==
    /\ At(r, "standin")
    /\ LET e == req[r].e IN
       /\ Go(r, "stood", StandInAnswer(e, Verdict(req[r].p, e.v[4])))
       /\ Deduct(Pan(e), req[r].p, e.v[4],
                 \E q \in DOMAIN req \ {r} : At(q, "standin") /\ Pan(req[q].e) = Pan(e))
    /\ UNCHANGED <<complianceVars, nat>>

\* The bank answers and the upstream client passes its answer on.
BankReplies(r) ==
    /\ At(r, "sent")
    /\ LET b == AtBank(Sent(req[r].e)) IN
       /\ b.is = "event" /\ BankResponse(b.event) # None
       /\ BankReply(b.event).is = "record"
       /\ Go(r, "replied", BankReply(b.event).record)
    /\ OnlyRequest

\* A reply worker takes the table's entry for the reply's STAN.  If that gives the
\* request's key it delivers the answer; otherwise the reply is lost to its request
\* (whether it finds another entry is followed in SwitchCore).
Deliver(r) ==
    /\ At(r, "replied")
    /\ IF ReplyKey(req[r].e) = Key(Request(req[r].msg))
       THEN Go(r, "answered", Approval(req[r].e))
       ELSE Go(r, "astray", None)
    /\ nat' = Unmapped(req[r].e.v[11])
    /\ UNCHANGED <<complianceVars, standInVars>>

\* So does the reply to a probe.
ProbeReply(s) ==
    /\ up /\ s \in DOMAIN nat
    /\ nat' = Unmapped(s)
    /\ UNCHANGED <<complianceVars, standInVars, req>>

\* The reaper answers for a request that has waited too long, reverses it, and
\* collects its table entry if the guard knows of it.  The worker may just then be
\* about to make the entry, or to note it in the guard.
Reap(r) ==
    LET e == Request(req[r].msg) IN
    /\ up /\ req[r].pc \in {"admitted", "sent", "replied", "astray", "stood"}
    /\ Go(r, "reaped", TimeoutReply(to_pb(e)))
    /\ \/ UNCHANGED nat
       \/ ~Secured(e) /\ nat' \in {Unmapped(EgressStan[r]), Mapped(EgressStan[r], e.v[11])}
    /\ UNCHANGED <<complianceVars, standInVars>>

\* A crash takes the requests with it, and the map of the compliance list.
Finished == {"new", "error", "misread", "answered", "reaped", "gone"}
Crash ==
    /\ StandInCrash /\ ComplianceRestart /\ nat' = [s \in {} |-> None]
    /\ req' = [r \in DOMAIN req |-> IF req[r].pc \in Finished THEN req[r]
                                 ELSE Holder("gone", req[r].msg, None, NoProfile)]

Step(r) ==
    \/ Receive(r) \/ ScreenRequest(r) \/ Refuse(r) \/ Forward(r) \/ StandInRead(r)
    \/ StandInWrite(r) \/ BankReplies(r) \/ Deliver(r) \/ Reap(r)

StoreStep == (Load \/ Flush \/ StandInStart) /\ UNCHANGED <<complianceVars, nat, req>>
PollerStep == up /\ Poller /\ UNCHANGED <<standInVars, nat, req>>

Next ==
    \/ \E r \in DOMAIN req : Step(r)
    \/ \E s \in ProbeStans : ProbeReply(s)
    \/ StoreStep \/ PollerStep \/ Crash
    \/ Publish /\ UNCHANGED <<standInVars, nat, req>>

Spec == Init /\ [][Next]_vars

\* The operator starts the daemon again, and its poller thread keeps waking up.
FairSpec ==
    /\ Spec
    /\ WF_vars(PollerStep) /\ WF_vars(StandInStart /\ UNCHANGED <<complianceVars, nat, req>>)

-----------------------------------------------------------------------------
(* Properties *)

In(pcs) == {r \in DOMAIN req : req[r].pc \in pcs}

\* The PAN has outgrown its length prefix: the UK FPS port put one of its own in
\* front of a long account number.
Outgrown(r) == Overlong(Request(req[r].msg), 2)

\* The frames that carry an event upstream: one of these two kinds can also
\* come out of the SAF database.
Frames(e) == {Sent(e)} \cup (IF e.mti \in {"0220", "0420"} THEN {Drained(e)} ELSE {})

\* A frame is read with each field in its place or refused.  The Interac and
\* UK FPS readers step over fields they do not know without skipping their
\* bytes, so they go wrong when such a field comes before one they read, or when
\* there is a bitmap they do not take; the standard reader never does.
MisreadCause ==
    \A r \in In({"misread"}) :
        LET x == req[r].msg IN
        /\ x.port # "standard"
        /\ \/ Bitmaps(x.frame.bits) > BitmapsRead(x.port, x.frame.bits)
           \/ \E f \in Foreign(x.port, x.frame), g \in ReadFields(x.port, x.frame) : f < g

\* Whatever port a request came in by, the bank reads the card, amount and
\* identification the engine admitted, under the STAN it was forwarded with.
BankSeesRequest ==
    \A r \in In({"sent"}) : \A w \in Frames(req[r].e) :
        Outgrown(r) \/ /\ AtBank(w).is = "event"
                       /\ to_pb(AtBank(w).event) = to_pb(req[r].e)

\* Requests, the ones whose worker or task has put them on their way upstream, may
\* come to have one STAN there: the egress counter wraps, a PIN or MAC request keeps
\* its terminal's STAN, probes have theirs.
Admits(x) == Read(x).is = "event" /\ Screen(Read(x).event, FALSE).is = "admitted"
WireStan(r) == Forwarded(Request(req[r].msg), EgressStan[r]).v[11]
Underway == {r \in DOMAIN req : /\ req[r].pc \notin {"new", "read", "admitted", "gone"}
                               /\ Admits(req[r].msg)}
Shares(r) ==
    \/ WireStan(r) \in ProbeStans
    \/ \E q \in Underway \ {r} : WireStan(q) = WireStan(r)

\* The reply worker finds the guard entry of the request, unless another request or
\* a probe has used the same STAN upstream: the key it computes from the bank's
\* reply, after two dialects, the protobuf record and a NAT table that all requests
\* insert into and remove from, is the key the ingress worker inserted.
ReplyFindsEntry ==
    \A r \in In({"replied"}) :
        Shares(r) \/ ReplyKey(req[r].e) = Key(Request(req[r].msg))

\* Every answer can be read by the terminal it goes to, with a response code,
\* and with the RRN and amount of its request.
AnswerReadable ==
    \A r \in In({"answered", "reaped"}) :
        LET x == req[r].msg
            t == Parse(x.reader, Build(x.port, req[r].e))
        IN  /\ t.is = "event"
            /\ t.event.v[39] = req[r].e.v[39] /\ t.event.v[39] # None
            /\ \A f \in {4, 37} : t.event.v[f] = Read(x).event.v[f]

\* The 0420 of the reaper, sent directly or drained from the SAF database,
\* reaches the bank as a reversal of the card, amount and RRN that the bank
\* read in the request.
ReversalMatchesRequest ==
    \A r \in In({"reaped"}) :
        LET e == Request(req[r].msg)
            b == AtBank(Sent(Forwarded(e, EgressStan[r])))
        IN  Outgrown(r) \/
            \A w \in Frames(Reversal(to_pb(e))) :
                /\ AtBank(w).is = "event"
                /\ AtBank(w).event.class = "ReversalAdvice"
                /\ \A f \in {2, 4, 32, 37} : AtBank(w).event.v[f] = b.event.v[f]
-----------------------------------------------------------------------------
(* The inductive invariant behind CoveredBlocked and DeductionsExact *)

IsEvent(e) ==
    /\ e = [mti |-> e.mti, class |-> e.class, is_tokenized |-> e.is_tokenized,
            risk_score |-> e.risk_score, is_reversal |-> e.is_reversal, v |-> e.v]
    /\ e.v = [f \in Fields |-> e.v[f]]
    /\ e.v[4] \in Nat

\* A worker holds an event with an amount.
RequestInv ==
    /\ req = [r \in DOMAIN req |-> req[r]]
    /\ \A r \in DOMAIN req :
          /\ req[r].pc \in {"read", "admitted", "standin"} => IsEvent(req[r].e)

\* The copy of a profile in a worker's hands is sound, and it is the stored one
\* unless approvals of that card have overlapped.
CopyOK(r) ==
    LET c == Pan(req[r].e)
        p == req[r].p
    IN  /\ up
        /\ p # NoProfile => c \in Cards /\ p \in Profile /\ Sound(c, p.balance)
        /\ c \in Cards \ disturbed => p = stip[c]

CopyInv == \A r \in DOMAIN req : req[r].pc = "standin" => CopyOK(r)

IInv == CoverInv /\ StoreInv /\ RequestInv /\ CopyInv

-----------------------------------------------------------------------------
(* The invariant behind the properties of the messages *)

\* What an event has in common with the one that was read from its message.
Keeps(o, e) ==
    /\ e.v[4] = o.v[4] /\ e.v[37] = o.v[37]
    /\ e.v[2] # None => o.v[2] # None /\ e.v[2].len = o.v[2].len
    /\ \A f \in {63, 102, 103} : e.v[f] \in {None, o.v[f]}

\* What the bank made of the request that was forwarded.
Presented(x, s) == AtBank(Sent(Forwarded(Request(x), s)))

\* A request is where pc says as what the steps so far have made of its message.
Way(h, s) ==
    LET o == Read(h.msg).event IN
    /\ Wire(h.msg)
    /\ h.pc = "misread" => Read(h.msg).is = "misread"
    /\ h.pc \notin {"new", "error", "misread", "gone"} => Read(h.msg).is = "event"
    /\ h.pc = "read" => h.e = o
    /\ h.pc \in {"admitted", "standin", "stood", "sent", "replied", "astray", "reaped"} =>
          Screen(o, FALSE).is = "admitted"
    /\ h.pc = "admitted" => h.e = Request(h.msg)
    /\ h.pc = "sent" => h.e = Forwarded(Request(h.msg), s)
    /\ h.pc = "replied" =>
          LET b == Presented(h.msg, s) IN
          /\ b.is = "event" /\ BankResponse(b.event) # None
          /\ BankReply(b.event) = [is |-> "record", record |-> h.e]
    /\ h.pc \in {"answered", "reaped"} =>
          IsEvent(h.e) /\ h.e.v[39] \in ResponseCodes /\ Keeps(o, h.e)

WayInv ==
    /\ req = [r \in DOMAIN req |-> req[r]]
    /\ \A r \in DOMAIN req : Way(req[r], EgressStan[r])

\* The table has only entries of requests under way, and for a request that is
\* alone with its STAN it has what leads back to the terminal's.
Entered(r, s) == ~Secured(Request(req[r].msg)) /\ EgressStan[r] = s
NatInv ==
    /\ nat = [s \in DOMAIN nat |-> nat[s]]
    /\ \A s \in DOMAIN nat : \E r \in Underway : Entered(r, s)
    /\ \A r \in In({"sent", "replied"}) :
          \/ Shares(r)
          \/ LET s == WireStan(r)
             IN  (IF s \in DOMAIN nat THEN nat[s] ELSE s) = Request(req[r].msg).v[11]
=============================================================================

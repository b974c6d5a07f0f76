------------------------- MODULE MessagePathProofs -------------------------
(* Proofs about the compliance list and the stand-in store while requests go  *)
(* through the switch, and about the messages themselves on their way from    *)
(* dialect to dialect, for any requests, cards, prefixes and bounds.          *)
EXTENDS MessagePath, FiniteSetTheorems, TLAPS

-----------------------------------------------------------------------------
(* The compliance list *)

\* Cover depends on the compliance lists only.
LEMMA CoverUnchanged ==
    ASSUME CoverInv, UNCHANGED complianceVars
    PROVE  CoverInv'
BY DEF CoverInv, complianceVars

\* A publish takes the row it removes out of what is covered.
LEMMA PublishKeepsCover ==
    ASSUME CoverInv, Publish
    PROVE  CoverInv'
<1>1. PICK b \in Bins : rows' = IF b \in rows THEN rows \ {b} ELSE rows \cup {b}
  BY DEF Publish
<1>2. rows' \subseteq Bins
  BY <1>1 DEF CoverInv
<1> QED
  BY <1>2 DEF CoverInv, Publish

\* A refresh removes nothing that is covered: its query has found what still is.
LEMMA PollerKeepsCover ==
    ASSUME CoverInv, Poller
    PROVE  CoverInv'
<1>1. CASE PollerQuery
  <2>1. PICK found \in SUBSET rows :
            /\ poller' = [pc |-> "retain", found |-> found]
            /\ steady' = found /\ covered' = covered \cap found
    BY <1>1 DEF PollerQuery
  <2>2. UNCHANGED <<rows, cache>> /\ poller'.found = found /\ poller'.pc = "retain"
    BY <1>1, <2>1 DEF PollerQuery
  <2>3. poller' \in [pc : {"sleep", "retain", "insert"}, found : SUBSET Bins]
    BY <2>1 DEF CoverInv
  <2> QED
    BY <2>1, <2>2, <2>3 DEF CoverInv
<1>2. CASE PollerRetain
  <2>1. poller'.found = poller.found /\ poller' \in [pc : {"sleep", "retain", "insert"}, found : SUBSET Bins]
    BY <1>2 DEF PollerRetain, CoverInv
  <2>2. covered \subseteq poller.found /\ covered \subseteq cache
    BY <1>2 DEF PollerRetain, CoverInv
  <2>3. covered \subseteq cache'
    BY <1>2, <2>2 DEF PollerRetain
  <2> QED
    BY <1>2, <2>1, <2>2, <2>3 DEF PollerRetain, CoverInv
<1>3. CASE PollerInsert
  <2>1. CASE poller.found \subseteq cache /\ covered' = covered \cup steady
             /\ steady' = {} /\ poller' = Asleep /\ UNCHANGED cache
    BY <1>3, <2>1 DEF PollerInsert, CoverInv, Asleep
  <2>2. CASE /\ \E b \in poller.found \ cache : cache' = cache \cup {b}
             /\ UNCHANGED <<poller, steady, covered>>
    BY <1>3, <2>2 DEF PollerInsert, CoverInv
  <2> QED
    BY <1>3, <2>1, <2>2 DEF PollerInsert
<1> QED
  BY <1>1, <1>2, <1>3 DEF Poller

\* After a restart the cache is empty and covers nothing.
LEMMA RestartKeepsCover ==
    ASSUME CoverInv, ComplianceRestart
    PROVE  CoverInv'
BY DEF CoverInv, ComplianceRestart, Asleep

-----------------------------------------------------------------------------
(* Events keep their amount *)

\* What is decoded is an event, ...
LEMMA DecodedIsEvent ==
    ASSUME NEW d, NEW m
    PROVE  IsEvent(Decoded(d, m))
<1> DEFINE w == [f \in Fields |->
                   CASE f = 2  -> Fpan(d, m)
                     [] f = 4  -> IF Item(d, m, 4) \in Nat THEN Item(d, m, 4) ELSE 0
                     [] f = 48 -> Cryptogram(d, Item(d, m, 22) \in {"071", "072"}, Item(d, m, 48))
                     [] f = 64 -> MacData(d, m)
                     [] OTHER  -> Item(d, m, f)]
<1>1. Decoded(d, m) = [mti |-> m.mti, class |-> MessageClass(m.mti),
                       is_tokenized |-> Item(d, m, 22) \in {"071", "072"},
                       risk_score |-> RiskScore(d, Item(d, m, 48)),
                       is_reversal |-> IsReversal(d, m.mti), v |-> w]
  BY DEF Decoded
<1>2. w = [f \in Fields |-> w[f]]
  OBVIOUS
<1>3. w[4] \in Nat
  BY DEF Fields
<1> HIDE DEF w
<1> QED
  BY <1>1, <1>2, <1>3 DEF IsEvent

\* Replacing another field leaves an event with an amount.
LEMMA SetFieldIsEvent ==
    ASSUME NEW e, IsEvent(e), NEW f \in Fields \ {4}, NEW x
    PROVE  IsEvent([e EXCEPT !.v[f] = x])
<1>1. e.v = [g \in Fields |-> e.v[g]] /\ e.v[4] \in Nat /\ 4 \in Fields
  BY DEF IsEvent, Fields
<1> DEFINE w == [e.v EXCEPT ![f] = x]
<1>2. w = [g \in Fields |-> w[g]] /\ w[4] \in Nat
  BY <1>1
<1>3. [e EXCEPT !.v[f] = x] =
         [mti |-> e.mti, class |-> e.class, is_tokenized |-> e.is_tokenized,
          risk_score |-> e.risk_score, is_reversal |-> e.is_reversal, v |-> w]
  BY DEF IsEvent
<1> HIDE DEF w
<1> QED
  BY <1>2, <1>3 DEF IsEvent

\* ... and so is what is forwarded.
LEMMA ForwardedIsEvent ==
    ASSUME NEW e, IsEvent(e), NEW s
    PROVE  IsEvent(Forwarded(e, s))
BY SetFieldIsEvent DEF Forwarded, Fields

\* Whatever is admitted is an event with an amount.
LEMMA AdmittedIsEvent ==
    ASSUME NEW e, IsEvent(e), NEW listed, Screen(e, listed).is = "admitted"
    PROVE  IsEvent(Screen(e, listed).event)
<1>1. IsEvent(Detokenized(e))
  BY SetFieldIsEvent DEF Detokenized, Fields
<1>2. Screen(e, listed) = [is |-> "admitted", event |-> Detokenized(e)]
  BY DEF Screen
<1> QED
  BY <1>1, <1>2
-----------------------------------------------------------------------------
(* Steps of a request *)

\* A request goes on with an event where one is needed, and without a profile.
LEMMA GoKeepsRequests ==
    ASSUME IInv, NEW r \in DOMAIN req, NEW pc, NEW e, Go(r, pc, e),
           pc # "standin", pc \in {"read", "admitted"} => IsEvent(e)
    PROVE  /\ RequestInv'
           /\ DOMAIN req' = DOMAIN req
           /\ \A q \in DOMAIN req : req'[q].pc = "standin" => q # r /\ req'[q] = req[q]
<1> DEFINE new == [pc |-> pc, msg |-> req[r].msg, e |-> e, p |-> NoProfile]
<1>1. req = [q \in DOMAIN req |-> req[q]]
  BY DEF IInv, RequestInv
<1>2. req' = [req EXCEPT ![r] = new]
  BY DEF Go, Holder
<1>3. DOMAIN req' = DOMAIN req /\ req' = [q \in DOMAIN req' |-> req'[q]]
  BY <1>1, <1>2
<1>4. \A q \in DOMAIN req : req'[q] = IF q = r THEN new ELSE req[q]
  BY <1>1, <1>2
<1>5. new.pc = pc /\ new.e = e
  OBVIOUS
<1> HIDE DEF new
<1>6. RequestInv'
  BY <1>3, <1>4, <1>5 DEF IInv, RequestInv
<1> QED
  BY <1>3, <1>4, <1>5, <1>6

\* A step of a request that leaves list and store alone.
LEMMA OnlyRequestKeepsIInv ==
    ASSUME IInv, NEW r \in DOMAIN req, NEW pc, NEW e, Go(r, pc, e),
           UNCHANGED <<complianceVars, standInVars>>,
           pc # "standin", pc \in {"read", "admitted"} => IsEvent(e)
    PROVE  IInv'
<1>1. /\ RequestInv' /\ DOMAIN req' = DOMAIN req
      /\ \A q \in DOMAIN req : req'[q].pc = "standin" => req'[q] = req[q]
  BY GoKeepsRequests
<1>2. CoverInv' /\ StoreInv'
  BY DEF IInv, CoverInv, StoreInv, Sound, complianceVars, standInVars
<1>3. CopyInv'
  BY <1>1 DEF IInv, CopyInv, CopyOK, Sound, standInVars
<1> QED
  BY <1>1, <1>2, <1>3 DEF IInv
\* Every step of a request but those of the stand-in.
LEMMA RequestKeepsIInv ==
    ASSUME IInv, NEW r \in DOMAIN req, Step(r), ~StandInRead(r), ~StandInWrite(r)
    PROVE  IInv'
<1>1. CASE Receive(r)
  <2> DEFINE t == Read(req[r].msg)
  <2>1. /\ t.is \in {"error", "misread", "event"}
        /\ t.is = "event" => t = [is |-> "event",
                                  event |-> Decoded(req[r].msg.port, req[r].msg.frame)]
    BY DEF Read, Parse
  <2>2. t.is = "event" => IsEvent(t.event)
    BY <2>1, DecodedIsEvent
  <2>3. /\ Go(r, IF t.is = "event" THEN "read" ELSE t.is, IF t.is = "event" THEN t.event ELSE None)
        /\ UNCHANGED <<complianceVars, standInVars>>
    BY <1>1 DEF Receive, OnlyRequest
  <2> HIDE DEF t
  <2>4. CASE t.is = "event"
    BY <2>2, <2>3, <2>4, OnlyRequestKeepsIInv
  <2>5. CASE t.is # "event"
    BY <2>1, <2>3, <2>5, OnlyRequestKeepsIInv
  <2> QED
    BY <2>4, <2>5
<1>2. CASE ScreenRequest(r)
  <2> DEFINE s == Screen(req[r].e, evaluate(BinOf(req[r].e)))
  <2>1. IsEvent(req[r].e)
    BY <1>2 DEF ScreenRequest, At, IInv, RequestInv
  <2>2. s.is \in {"answered", "admitted"}
    BY DEF Screen
  <2>3. s.is = "admitted" => IsEvent(s.event)
    BY <2>1, AdmittedIsEvent
  <2>4. Go(r, s.is, s.event) /\ UNCHANGED <<complianceVars, standInVars>>
    BY <1>2 DEF ScreenRequest, OnlyRequest
  <2> HIDE DEF s
  <2> QED
    BY <2>2, <2>3, <2>4, OnlyRequestKeepsIInv
<1>3. CASE Refuse(r)
  BY <1>3, OnlyRequestKeepsIInv DEF Refuse, OnlyRequest
<1>4. CASE Forward(r)
  BY <1>4, OnlyRequestKeepsIInv DEF Forward
<1>5. CASE BankReplies(r)
  BY <1>5, OnlyRequestKeepsIInv DEF BankReplies, OnlyRequest
<1>6. CASE Deliver(r)
  BY <1>6, OnlyRequestKeepsIInv DEF Deliver
<1>7. CASE Reap(r)
  BY <1>7, OnlyRequestKeepsIInv DEF Reap
<1> QED
  BY <1>1, <1>2, <1>3, <1>4, <1>5, <1>6, <1>7 DEF Step

-----------------------------------------------------------------------------
(* The stand-in *)

\* The copy that is read is the stored profile.
LEMMA StandInReadKeepsIInv ==
    ASSUME IInv, NEW r \in DOMAIN req, StandInRead(r)
    PROVE  IInv'
<1> DEFINE e == Forwarded(req[r].e, EgressStan[r])
           p == IF Pan(e) \in Cards THEN stip[Pan(e)] ELSE NoProfile
           new == [pc |-> "standin", msg |-> req[r].msg, e |-> e, p |-> p]
<1>1. req = [q \in DOMAIN req |-> req[q]]
  BY DEF IInv, RequestInv
<1>2. IsEvent(e)
  BY ForwardedIsEvent DEF StandInRead, At, IInv, RequestInv
<1>3. req' = [req EXCEPT ![r] = new]
  BY DEF StandInRead, Holder
<1>4. up /\ UNCHANGED <<complianceVars, standInVars>>
  BY DEF StandInRead, At
<1>5. CoverInv' /\ StoreInv'
  BY <1>4 DEF IInv, CoverInv, StoreInv, Sound, complianceVars, standInVars
<1>6. p # NoProfile => Pan(e) \in Cards /\ p \in Profile /\ Sound(Pan(e), p.balance)
  BY DEF IInv, StoreInv
<1>7. Pan(e) \in Cards => p = stip[Pan(e)]
  OBVIOUS
<1>8. new.pc = "standin" /\ new.e = e /\ new.p = p
  OBVIOUS
<1> HIDE DEF e, p, new
<1>9. /\ DOMAIN req' = DOMAIN req /\ req' = [q \in DOMAIN req' |-> req'[q]]
      /\ \A q \in DOMAIN req : req'[q] = IF q = r THEN new ELSE req[q]
  BY <1>1, <1>3
<1>10. RequestInv'
  BY <1>2, <1>8, <1>9 DEF IInv, RequestInv
<1>11. CopyInv'
  <2> SUFFICES ASSUME NEW q \in DOMAIN req, req'[q].pc = "standin" PROVE CopyOK(q)'
    BY <1>9 DEF CopyInv
  <2>1. UNCHANGED <<up, stip, loaded, spent, disturbed>>
    BY <1>4 DEF standInVars
  <2>2. CASE q = r
    BY <1>4, <1>6, <1>7, <1>8, <1>9, <2>1, <2>2 DEF CopyOK, Sound
  <2>3. CASE q # r
    BY <1>9, <2>1, <2>3 DEF IInv, CopyInv, CopyOK, Sound
  <2> QED
    BY <2>2, <2>3
<1> QED
  BY <1>5, <1>10, <1>11 DEF IInv
\* An approval deducts from the copy; copies of the same card in other hands
\* become stale, and the card disturbed.
LEMMA StandInWriteKeepsIInv ==
    ASSUME IInv, NEW r \in DOMAIN req, StandInWrite(r)
    PROVE  IInv'
<1> DEFINE c == Pan(req[r].e)
           p == req[r].p
           amount == req[r].e.v[4]
           others == \E q \in DOMAIN req \ {r} : At(q, "standin") /\ Pan(req[q].e) = c
<1>1. /\ req[r].pc = "standin" /\ up /\ UNCHANGED complianceVars
      /\ Go(r, "stood", StandInAnswer(req[r].e, Verdict(p, amount)))
      /\ Deduct(c, p, amount, others)
  BY DEF StandInWrite, At
<1>2. CopyOK(r) /\ amount \in Nat
  BY <1>1 DEF IInv, CopyInv, RequestInv, IsEvent
<1>3. /\ RequestInv' /\ DOMAIN req' = DOMAIN req
      /\ \A q \in DOMAIN req : req'[q].pc = "standin" => q # r /\ req'[q] = req[q]
  BY <1>1, GoKeepsRequests
<1>4. CoverInv'
  BY <1>1, CoverUnchanged DEF IInv
<1>5. CASE Verdict(p, amount) # "00"
  <2>1. UNCHANGED <<up, stip, flushed, loaded, spent, disturbed>>
    BY <1>1, <1>5 DEF Deduct
  <2>2. StoreInv'
    BY <2>1 DEF IInv, StoreInv, Sound
  <2>3. CopyInv'
    BY <1>3, <2>1 DEF IInv, CopyInv, CopyOK, Sound
  <2> QED
    BY <1>3, <1>4, <2>2, <2>3 DEF IInv
<1>6. CASE Verdict(p, amount) = "00"
  <2>1. p # NoProfile /\ p.balance >= amount
    BY <1>6 DEF Verdict
  <2>2. c \in Cards /\ p \in Profile /\ Sound(c, p.balance) /\ (c \notin disturbed => p = stip[c])
    BY <1>2, <2>1 DEF CopyOK
  <2> DEFINE new == [p EXCEPT !.balance = @ - amount]
  <2>3. /\ stip' = [stip EXCEPT ![c] = new]
        /\ spent' = [spent EXCEPT ![c] = @ + amount]
        /\ disturbed' = IF others THEN disturbed \cup {c} ELSE disturbed
        /\ UNCHANGED <<up, flushed, loaded>>
    BY <1>1, <1>6 DEF Deduct
  <2>4. new \in Profile /\ new.balance = p.balance - amount
    BY <1>2, <2>2 DEF Profile
  <2>5. /\ stip \in [Cards -> Profile \cup {NoProfile}]
        /\ loaded \in [Cards -> Int] /\ spent \in [Cards -> Int]
        /\ \A d \in Cards : disturbed \subseteq disturbed' /\ loaded'[d] = loaded[d]
    BY <2>3 DEF IInv, StoreInv
  <2>6. /\ stip'[c] = new /\ spent'[c] = spent[c] + amount
        /\ \A d \in Cards \ {c} : stip'[d] = stip[d] /\ spent'[d] = spent[d]
    BY <2>2, <2>3, <2>5
  <2>7. p.balance \in Int /\ loaded[c] \in Int /\ spent[c] \in Int
    BY <2>2, <2>5 DEF Profile
  <2> HIDE DEF new
  <2>8. ASSUME NEW d \in Cards, NEW b \in Int, d = c, b = new.balance PROVE Sound(d, b)'
    BY <1>2, <2>1, <2>2, <2>4, <2>5, <2>6, <2>7, <2>8 DEF Sound
  <2>9. ASSUME NEW d \in Cards, NEW b \in Int, Sound(d, b) PROVE Sound(d, b)'
    BY <1>2, <2>2, <2>5, <2>6, <2>9 DEF Sound
  <2>10. StoreInv'
    <3>1. /\ stip' \in [Cards -> Profile \cup {NoProfile}]
          /\ flushed' \in [Cards -> Profile \cup {NoProfile}]
          /\ loaded' \in [Cards -> Int] /\ spent' \in [Cards -> Int]
      BY <1>2, <2>2, <2>3, <2>4, <2>5, <2>7 DEF IInv, StoreInv
    <3>2. ASSUME NEW d \in Cards, flushed[d] # NoProfile
          PROVE  Sound(d, flushed[d].balance)'
      <4>1. flushed[d] \in Profile /\ Sound(d, flushed[d].balance)
        BY <3>2 DEF IInv, StoreInv
      <4>2. flushed[d].balance \in Int /\ flushed' = flushed
        BY <2>3, <4>1 DEF Profile
      <4> QED
        BY <2>9, <4>1, <4>2 DEF Sound
    <3>3. ASSUME NEW d \in Cards, stip'[d] # NoProfile
          PROVE  /\ Sound(d, stip[d].balance)'
                 /\ d \notin disturbed' => stip'[d].balance = loaded'[d] - spent'[d]
      <4>1. CASE d = c
        <5>1. c \notin disturbed => p.balance = loaded[c] - spent[c]
          BY <2>1, <2>2 DEF IInv, StoreInv
        <5>2. new.balance \in Int /\ stip'[d] = new
          BY <2>4, <2>6, <4>1 DEF Profile
        <5>3. Sound(d, stip[d].balance)'
          BY <2>8, <4>1, <5>2 DEF Sound
        <5>4. d \notin disturbed' => stip'[d].balance = loaded'[d] - spent'[d]
          BY <1>2, <2>4, <2>5, <2>6, <2>7, <4>1, <5>1, <5>2
        <5> QED
          BY <5>3, <5>4
      <4>2. CASE d # c
        <5>1. stip[d] \in Profile /\ Sound(d, stip[d].balance) /\ stip'[d] = stip[d]
              /\ (d \notin disturbed => stip[d].balance = loaded[d] - spent[d])
          BY <2>5, <2>6, <3>3, <4>2 DEF IInv, StoreInv
        <5>2. stip[d].balance \in Int
          BY <5>1 DEF Profile
        <5> QED
          BY <2>5, <2>6, <2>9, <4>2, <5>1, <5>2 DEF Sound
      <4> QED
        BY <4>1, <4>2
    <3> QED
      BY <2>3, <3>1, <3>2, <3>3 DEF StoreInv
  <2>11. CopyInv'
    <3> SUFFICES ASSUME NEW q \in DOMAIN req, req'[q].pc = "standin" PROVE CopyOK(q)'
      BY <1>3 DEF CopyInv
    <3>1. q # r /\ req'[q] = req[q] /\ req[q].pc = "standin" /\ CopyOK(q)
      BY <1>3 DEF IInv, CopyInv
    <3> DEFINE d == Pan(req[q].e)
               x == req[q].p
    <3>2. x # NoProfile => d \in Cards /\ x \in Profile /\ Sound(d, x.balance)
      BY <3>1 DEF CopyOK
    <3>3. x # NoProfile => Sound(d, x.balance)'
      <4> SUFFICES ASSUME x # NoProfile PROVE Sound(d, x.balance)'
        OBVIOUS
      <4>1. x.balance \in Int
        BY <3>2 DEF Profile
      <4> QED
        BY <2>3, <2>9, <3>1, <3>2, <4>1 DEF Sound
    <3>4. d \in Cards \ disturbed' => x = stip'[d]
      <4>1. d = c => others
        BY <1>1, <3>1 DEF At
      <4>2. d \in Cards \ disturbed => x = stip[d]
        BY <3>1 DEF CopyOK
      <4> QED
        BY <2>3, <2>5, <2>6, <4>1, <4>2
    <3> QED
      BY <1>1, <2>3, <3>1, <3>2, <3>3, <3>4 DEF CopyOK, Sound
  <2> QED
    BY <1>3, <1>4, <2>10, <2>11 DEF IInv
<1> QED
  BY <1>5, <1>6
-----------------------------------------------------------------------------
(* The store, the poller and the daemon *)

\* The loader works while the daemon is down, so nobody holds a copy.
LEMMA LoadKeepsIInv ==
    ASSUME IInv, Load, UNCHANGED <<complianceVars, req>>
    PROVE  IInv'
<1>1. PICK c \in Cards, p \in CardProfiles :
          /\ stip' = [stip EXCEPT ![c] = p] /\ flushed' = stip'
          /\ loaded' = [loaded EXCEPT ![c] = p.balance]
          /\ spent' = [spent EXCEPT ![c] = 0]
          /\ disturbed' = disturbed \ {c}
  BY DEF Load
<1>2. p \in Profile /\ p.balance \in Int
  BY StandInAssumption DEF Profile
<1>3. /\ stip \in [Cards -> Profile \cup {NoProfile}]
      /\ loaded \in [Cards -> Int] /\ spent \in [Cards -> Int]
  BY DEF IInv, StoreInv
<1>4. /\ stip' \in [Cards -> Profile \cup {NoProfile}]
      /\ loaded' \in [Cards -> Int] /\ spent' \in [Cards -> Int]
  BY <1>1, <1>2, <1>3
<1>5. StoreInv'
  <2> SUFFICES ASSUME NEW d \in Cards, stip'[d] # NoProfile
               PROVE  /\ Sound(d, stip[d].balance)'
                      /\ d \notin disturbed' => stip'[d].balance = loaded'[d] - spent'[d]
    BY <1>1, <1>4 DEF StoreInv
  <2>1. CASE d = c
    <3>1. stip'[d] = p /\ loaded'[d] = p.balance /\ spent'[d] = 0
      BY <1>1, <1>3, <2>1
    <3> QED
      BY <1>2, <3>1 DEF Sound
  <2>2. CASE d # c
    <3>1. /\ stip'[d] = stip[d] /\ loaded'[d] = loaded[d] /\ spent'[d] = spent[d]
          /\ d \in disturbed' <=> d \in disturbed
      BY <1>1, <1>3, <2>2
    <3> QED
      BY <3>1 DEF IInv, StoreInv, Sound
  <2> QED
    BY <2>1, <2>2
<1>6. RequestInv'
  BY DEF IInv, RequestInv
<1>7. CopyInv'
  BY DEF Load, IInv, CopyInv, CopyOK
<1> QED
  BY <1>5, <1>6, <1>7, CoverUnchanged DEF IInv

\* Steps that move no profile but to disk.
LEMMA FlushStartKeepIInv ==
    ASSUME IInv, Flush \/ StandInStart, UNCHANGED <<complianceVars, req>>
    PROVE  IInv'
<1>1. /\ UNCHANGED <<stip, loaded, spent, disturbed>> /\ (up => up')
      /\ flushed' = flushed \/ flushed' = stip
  BY DEF Flush, StandInStart
<1>2. StoreInv'
  BY <1>1 DEF IInv, StoreInv, Sound
<1>3. RequestInv' /\ CopyInv'
  BY <1>1 DEF IInv, RequestInv, CopyInv, CopyOK, Sound
<1> QED
  BY <1>2, <1>3, CoverUnchanged DEF IInv

\* A change of the lists keeps the rest of the invariant.
LEMMA ListKeepsIInv ==
    ASSUME IInv, CoverInv', UNCHANGED <<standInVars, req>>
    PROVE  IInv'
BY DEF IInv, StoreInv, RequestInv, CopyInv, CopyOK, Sound, standInVars

\* A crash leaves what is on disk, and nobody holds a copy any more.
LEMMA CrashKeepsIInv ==
    ASSUME IInv, Crash
    PROVE  IInv'
<1>1. CoverInv'
  BY RestartKeepsCover DEF Crash, IInv
<1>2. /\ stip' = flushed /\ UNCHANGED <<flushed, loaded, spent>>
      /\ disturbed' = disturbed \cup {c \in Cards : stip[c] # flushed[c]}
  BY DEF Crash, StandInCrash
<1>3. StoreInv'
  BY <1>2 DEF IInv, StoreInv, Sound
<1> DEFINE new(r) == IF req[r].pc \in Finished THEN req[r]
                     ELSE Holder("gone", req[r].msg, None, NoProfile)
<1>4. req' = [r \in DOMAIN req |-> new(r)]
  BY DEF Crash
<1>5. \A r \in DOMAIN req : new(r).pc \in Finished
  BY DEF Finished, Holder
<1> HIDE DEF new
<1>6. /\ DOMAIN req' = DOMAIN req /\ req' = [r \in DOMAIN req' |-> req'[r]]
      /\ \A r \in DOMAIN req : req'[r].pc \in Finished
  BY <1>4, <1>5
<1>7. RequestInv' /\ CopyInv'
  BY <1>6 DEF RequestInv, CopyInv, Finished
<1> QED
  BY <1>1, <1>3, <1>7 DEF IInv

-----------------------------------------------------------------------------
\* The invariant holds before any message, ...
LEMMA InitIInv == Init => IInv
<1> SUFFICES ASSUME Init PROVE IInv
  OBVIOUS
<1>1. PICK w \in Workloads :
          /\ ComplianceInit(w.publishes) /\ StandInInit(w.loads, w.crashes)
          /\ req = [r \in DOMAIN w.messages |-> Holder("new", w.messages[r], None, NoProfile)]
  BY DEF Init
<1>2. CoverInv
  BY <1>1 DEF ComplianceInit, CoverInv, Asleep
<1>3. StoreInv
  BY <1>1 DEF StandInInit, StoreInv
<1> DEFINE first(r) == Holder("new", w.messages[r], None, NoProfile)
<1>4. \A r : first(r).pc = "new"
  BY DEF Holder
<1>5. req = [r \in DOMAIN w.messages |-> first(r)]
  BY <1>1
<1> HIDE DEF first
<1>6. req = [r \in DOMAIN req |-> req[r]] /\ \A r \in DOMAIN req : req[r].pc = "new"
  BY <1>4, <1>5
<1>7. RequestInv /\ CopyInv
  BY <1>6 DEF RequestInv, CopyInv
<1> QED
  BY <1>2, <1>3, <1>7 DEF IInv

\* ... and every step keeps it.
LEMMA NextIInv == IInv /\ [Next]_vars => IInv'
<1> SUFFICES ASSUME IInv, [Next]_vars PROVE IInv'
  OBVIOUS
<1>1. ASSUME NEW r \in DOMAIN req, Step(r) PROVE IInv'
  BY <1>1, RequestKeepsIInv, StandInReadKeepsIInv, StandInWriteKeepsIInv
<1>2. CASE StoreStep
  BY <1>2, LoadKeepsIInv, FlushStartKeepIInv DEF StoreStep
<1>3. CASE PollerStep
  <2>1. CoverInv'
    BY <1>3, PollerKeepsCover DEF PollerStep, IInv
  <2> QED
    BY <1>3, <2>1, ListKeepsIInv DEF PollerStep
<1>4. CASE Crash
  BY <1>4, CrashKeepsIInv
<1>5. CASE Publish /\ UNCHANGED <<standInVars, nat, req>>
  <2>1. CoverInv'
    BY <1>5, PublishKeepsCover DEF IInv
  <2> QED
    BY <1>5, <2>1, ListKeepsIInv
<1>6. CASE UNCHANGED vars \/ \E s \in ProbeStans : ProbeReply(s)
  <2>1. UNCHANGED <<complianceVars, standInVars, req>>
    BY <1>6 DEF vars, ProbeReply
  <2> QED
    BY <2>1, CoverUnchanged, ListKeepsIInv DEF IInv
<1> QED
  BY <1>1, <1>2, <1>3, <1>4, <1>5, <1>6 DEF Next

\* For any prefixes, requests and interleaving of operators, poller and workers, and
\* whatever rows the poller's queries miss: a prefix that a refresh has entered, that
\* no later query missed and that stays live is never missing from the map that
\* evaluate consults (compliance.rs, query_map, retain and insert).
THEOREM ComplianceSafety == Spec => []CoveredBlocked
<1>1. IInv => CoveredBlocked
  BY DEF IInv, CoverInv, CoveredBlocked
<1> QED
  BY InitIInv, NextIInv, <1>1, PTL DEF Spec

\* For any cards, profiles, requests and crashes: stand-in approvals overdraw no
\* balance, and a deduction goes missing only where approvals of one card overlap
\* or a crash comes before sled's flush (engine.rs, stip_db get and insert).
THEOREM StandInSafety == Spec => []DeductionsExact
<1>1. IInv => DeductionsExact
  BY DEF IInv, StoreInv, Sound, DeductionsExact
<1> QED
  BY InitIInv, NextIInv, <1>1, PTL DEF Spec

-----------------------------------------------------------------------------
(* The order of the fields in a frame *)

\* The fields that some writer considers.
Writable == {2, 3, 4, 11, 12, 13, 22, 32, 37, 39, 48, 52, 63, 102, 103}

\* The writers' order is the order of the field numbers.
LEMMA WriteOrderAscends ==
    /\ Len(WriteOrder) = 15 /\ Writable = {WriteOrder[i] : i \in 1 .. 15}
    /\ \A i, j \in 1 .. 15 : i <= j <=> WriteOrder[i] <= WriteOrder[j]
<1>1. Len(WriteOrder) = 15
  BY DEF WriteOrder
<1>2. /\ WriteOrder[1] = 2 /\ WriteOrder[2] = 3 /\ WriteOrder[3] = 4 /\ WriteOrder[4] = 11
      /\ WriteOrder[5] = 12 /\ WriteOrder[6] = 13 /\ WriteOrder[7] = 22 /\ WriteOrder[8] = 32
      /\ WriteOrder[9] = 37 /\ WriteOrder[10] = 39 /\ WriteOrder[11] = 48 /\ WriteOrder[12] = 52
      /\ WriteOrder[13] = 63 /\ WriteOrder[14] = 102 /\ WriteOrder[15] = 103
  BY DEF WriteOrder
<1>3. \A i \in 1 .. 15 : i \in {1, 2, 3, 4, 5, 6, 7, 8, 9, 10, 11, 12, 13, 14, 15}
  OBVIOUS
<1>4. Writable = {WriteOrder[i] : i \in 1 .. 15}
  <2>1. ASSUME NEW i \in 1 .. 15 PROVE WriteOrder[i] \in Writable
    BY <1>2, <1>3 DEF Writable
  <2>2. ASSUME NEW f \in Writable PROVE \E i \in 1 .. 15 : f = WriteOrder[i]
    BY <1>2 DEF Writable
  <2> QED
    BY <2>1, <2>2
<1>5. \A i, j \in 1 .. 15 : i <= j <=> WriteOrder[i] <= WriteOrder[j]
  BY <1>2, <1>3
<1> QED
  BY <1>1, <1>4, <1>5

\* Hence a field comes before another one if its number does.
LEMMA NthAscends ==
    ASSUME NEW f \in Writable, NEW g \in Writable
    PROVE  Nth[g] <= Nth[f] <=> g <= f
<1>1. /\ DOMAIN Nth = Writable
      /\ \A h \in Writable : Nth[h] = CHOOSE i \in 1 .. 15 : WriteOrder[i] = h
  BY WriteOrderAscends DEF Nth
<1>2. \A h \in Writable : Nth[h] \in 1 .. 15 /\ WriteOrder[Nth[h]] = h
  BY <1>1, WriteOrderAscends
<1> QED
  BY <1>2, WriteOrderAscends, SMTT(30)

\* Sets of such fields are finite.
LEMMA WritableFinite ==
    ASSUME NEW S \in SUBSET Writable
    PROVE  IsFiniteSet(S) /\ Cardinality(S) \in Nat
<1>1. S \in SUBSET (1 .. 103)
  <2>1. \A f \in Writable : f \in 1 .. 103
    BY DEF Writable
  <2> QED
    BY <2>1
<1>2. IsFiniteSet(1 .. 103)
  <2> DEFINE n == 103
  <2>1. n \in Int
    OBVIOUS
  <2> HIDE DEF n
  <2>2. IsFiniteSet(1 .. n)
    BY <2>1, FS_Interval
  <2> QED
    BY <2>2 DEF n
<1>3. IsFiniteSet(S)
  BY <1>1, <1>2, FS_Subset
<1> QED
  BY <1>3, FS_CardinalityType

\* The fields in S up to f.
UpTo(S, f) == {g \in S : g <= f}

\* The turn of a field in the body is the place where a reader looks for it.
LEMMA UpToTurn ==
    ASSUME NEW S \in SUBSET Writable, NEW f \in S
    PROVE  /\ Turn(S, f) = Cardinality(UpTo(S, f))
           /\ Cardinality(UpTo(S, f)) \in 1 .. Cardinality(S)
<1>1. {g \in S : Nth[g] <= Nth[f]} = UpTo(S, f)
  BY NthAscends DEF UpTo
<1>2. UpTo(S, f) \in SUBSET S /\ UpTo(S, f) \in SUBSET Writable
  BY DEF UpTo
<1>3. f \in UpTo(S, f)
  BY DEF UpTo, Writable
<1>4. /\ IsFiniteSet(S) /\ Cardinality(S) \in Nat
      /\ IsFiniteSet(UpTo(S, f)) /\ Cardinality(UpTo(S, f)) \in Nat
  BY <1>2, WritableFinite
<1>5. Cardinality(UpTo(S, f)) <= Cardinality(S)
  BY <1>2, <1>4, FS_Subset
<1>6. Cardinality(UpTo(S, f)) # 0
  BY <1>3, <1>4, FS_EmptySet
<1>7. Turn(S, f) = Cardinality(UpTo(S, f))
  BY <1>1 DEF Turn
<1> QED
  BY <1>4, <1>5, <1>6, <1>7

\* No two fields have the same turn.
LEMMA TurnUnique ==
    ASSUME NEW S \in SUBSET Writable, NEW f \in S, NEW g \in S, Turn(S, f) = Turn(S, g)
    PROVE  f = g
<1>1. ASSUME NEW x \in S, NEW y \in S, x < y PROVE Turn(S, x) # Turn(S, y)
  <2>1. UpTo(S, x) \in SUBSET UpTo(S, y) /\ y \in UpTo(S, y) /\ y \notin UpTo(S, x)
    <3>1. \A h \in S : h \in Nat
      BY DEF Writable
    <3> QED
      BY <1>1, <3>1 DEF UpTo
  <2>2. UpTo(S, y) \in SUBSET Writable
    BY DEF UpTo
  <2>3. IsFiniteSet(UpTo(S, y))
    BY <2>2, WritableFinite
  <2>4. Cardinality(UpTo(S, y)) # Cardinality(UpTo(S, x))
    BY <2>1, <2>3, FS_Subset
  <2> QED
    BY <2>4, UpToTurn
<1>2. f < g \/ g < f \/ f = g
  BY DEF Writable
<1> QED
  BY <1>1, <1>2

\* What is written at the turn of a field is that field.
LEMMA WrittenInTurn ==
    ASSUME NEW S \in SUBSET Writable, NEW f \in S
    PROVE  Written(S)[Cardinality(UpTo(S, f))] = f
<1> DEFINE n == Cardinality(UpTo(S, f))
<1>1. n \in 1 .. Cardinality(S) /\ Turn(S, f) = n
  BY UpToTurn
<1>2. Written(S)[n] = CHOOSE g \in S : Turn(S, g) = n
  BY <1>1 DEF Written
<1> HIDE DEF n
<1>3. \A g \in S : Turn(S, g) = n => g = f
  BY <1>1, TurnUnique
<1> QED
  BY <1>1, <1>2, <1>3 DEF n

-----------------------------------------------------------------------------
(* Reading what was built *)

\* The fields whose bits a writer sets, and the ones it puts in the body.
Setting(d, e) == {f \in Writes(d) : Sets(d, e, f)}

InFrame(d, e) == {f \in Setting(d, e) : ~Overlong(e, f)}

\* What a frame that was built holds.
LEMMA BuiltFrame ==
    ASSUME NEW d \in Dialects, NEW e
    PROVE  LET m == Build(d, e) IN
           /\ m.mti = e.mti
           /\ m.bits = Setting(d, e) \cup (IF Setting(d, e) \cap {102, 103} # {} THEN {1} ELSE {})
           /\ Len(m.body) = Cardinality(InFrame(d, e)) /\ Len(m.body) \in Nat
           /\ \A i \in 1 .. Len(m.body) : /\ m.body[i].field = Written(InFrame(d, e))[i]
                                          /\ m.body[i].value = FieldValue(e, m.body[i].field)
           /\ InFrame(d, e) \in SUBSET Writable /\ Setting(d, e) \in SUBSET Writable
<1> DEFINE S == InFrame(d, e)
<1>1. Writes(d) \subseteq Writable
  BY DEF Writes, Writable, Dialects
<1>2. S \in SUBSET Writable /\ Setting(d, e) \in SUBSET Writable
  BY <1>1 DEF InFrame, Setting
<1>3. Cardinality(S) \in Nat
  BY <1>2, WritableFinite
<1>4. Build(d, e) = [mti |-> e.mti,
                     bits |-> Setting(d, e) \cup (IF Setting(d, e) \cap {102, 103} # {} THEN {1} ELSE {}),
                     body |-> [i \in DOMAIN Written(S) |->
                                 [field |-> Written(S)[i], value |-> FieldValue(e, Written(S)[i])]]]
  BY DEF Build, Setting, InFrame
<1>5. DOMAIN Written(S) = 1 .. Cardinality(S)
  BY DEF Written
<1> HIDE DEF S
<1>6. Len(Build(d, e).body) = Cardinality(S)
  BY <1>3, <1>4, <1>5
<1>7. ASSUME NEW i \in 1 .. Cardinality(S)
      PROVE  /\ Build(d, e).body[i].field = Written(S)[i]
             /\ Build(d, e).body[i].value = FieldValue(e, Written(S)[i])
  BY <1>4, <1>5
<1> QED
  BY <1>2, <1>3, <1>4, <1>6, <1>7 DEF S

\* The fields that a reader of the same dialect, or the connex reader of a frame
\* without account fields and settlement data, takes are the ones that were set.
LEMMA ReaderTakes ==
    ASSUME NEW d \in Dialects, NEW s \in Dialects, NEW e,
           \/ d = s
           \/ s = "connex" /\ Setting(d, e) \cap {63, 102, 103} = {}
    PROVE  LET m == Build(d, e) IN
           /\ ReadFields(s, m) = Setting(d, e)
           /\ Bitmaps(m.bits) = BitmapsRead(s, m.bits)
           /\ s = "standard" => Foreign(s, m) = {}
<1> DEFINE S == Setting(d, e)
           m == Build(d, e)
<1>1. m.bits = S \cup (IF S \cap {102, 103} # {} THEN {1} ELSE {})
  BY BuiltFrame
<1>2. S \subseteq Writes(d)
  BY DEF Setting
<1>3. S \subseteq Known(s)
  BY <1>2 DEF Writes, Known, Dialects
<1>4. /\ S \cap {102, 103} # {} => d = "ukfps" /\ s = "ukfps"
      /\ 1 \notin S /\ 65 \notin S /\ 1 \notin Known(s)
  BY <1>2 DEF Writes, Known, Dialects
<1>5. \A f \in S : f \in Nat /\ f <= 128 /\ (f > 64 => f \in {102, 103})
  BY <1>2 DEF Writes, Dialects
<1> HIDE DEF S
<1>6. CASE S \cap {102, 103} = {}
  <2>1. m.bits = S
    BY <1>1, <1>6
  <2> HIDE DEF m
  <2>2. Bitmaps(m.bits) = 1 /\ BitmapsRead(s, m.bits) = 1
    BY <1>4, <2>1 DEF Bitmaps, BitmapsRead
  <2>3. \A f \in S : f <= 64
    BY <1>5, <1>6
  <2>4. Visible(s, m) = S
    BY <2>1, <2>2, <2>3 DEF Visible
  <2> QED
    BY <1>3, <2>2, <2>4 DEF ReadFields, Foreign, S, m
<1>7. CASE S \cap {102, 103} # {}
  <2>1. m.bits = S \cup {1} /\ s = "ukfps"
    BY <1>1, <1>4, <1>7
  <2> HIDE DEF m
  <2>2. Bitmaps(m.bits) = 2 /\ BitmapsRead(s, m.bits) = 2
    BY <1>4, <2>1 DEF Bitmaps, BitmapsRead
  <2>3. Visible(s, m) = S \cup {1}
    BY <1>5, <2>1, <2>2 DEF Visible
  <2>4. ReadFields(s, m) = S
    BY <1>3, <1>4, <2>3 DEF ReadFields
  <2> QED
    BY <2>1, <2>2, <2>4 DEF S, m
<1> QED
  BY <1>6, <1>7

\* A frame without a value that outgrew its prefix is read, with every field
\* that was set in its place.
LEMMA ReadBack ==
    ASSUME NEW d \in Dialects, NEW s \in Dialects, NEW e,
           \/ d = s
           \/ s = "connex" /\ Setting(d, e) \cap {63, 102, 103} = {},
           \A f \in Setting(d, e) : ~Overlong(e, f)
    PROVE  LET m == Build(d, e) IN
           /\ Parse(s, m) = [is |-> "event", event |-> Decoded(s, m)]
           /\ \A f : Item(s, m, f) = IF f \in Setting(d, e) THEN FieldValue(e, f) ELSE None
<1> DEFINE S == Setting(d, e)
           m == Build(d, e)
<1>1. S = InFrame(d, e)
  BY DEF InFrame
<1>2. /\ S \in SUBSET Writable /\ Len(m.body) = Cardinality(S) /\ Len(m.body) \in Nat
      /\ \A i \in 1 .. Len(m.body) : /\ m.body[i].field = Written(S)[i]
                                     /\ m.body[i].value = FieldValue(e, m.body[i].field)
  BY <1>1, BuiltFrame
<1>3. /\ ReadFields(s, m) = S
      /\ Bitmaps(m.bits) = BitmapsRead(s, m.bits) /\ BitmapsRead(s, m.bits) \in Nat
      /\ s = "standard" => Foreign(s, m) = {}
  BY ReaderTakes DEF Bitmaps
<1> HIDE DEF S, m
<1>4. ASSUME NEW f \in S
      PROVE  /\ Place(s, m, f) \in 1 .. Len(m.body) /\ m.body[Place(s, m, f)].field = f
             /\ m.body[Place(s, m, f)].value = FieldValue(e, f)
  <2>1. Place(s, m, f) = Cardinality(UpTo(S, f))
    BY <1>3 DEF Place, UpTo
  <2>2. Cardinality(UpTo(S, f)) \in 1 .. Len(m.body)
    BY <1>2, UpToTurn
  <2>3. Written(S)[Cardinality(UpTo(S, f))] = f
    BY <1>2, WrittenInTurn
  <2> QED
    BY <1>2, <2>1, <2>2, <2>3
<1>5. ~Misread(s, m) /\ ~Short(s, m)
  BY <1>2, <1>3, <1>4 DEF Misread, Short
<1>6. Parse(s, m) = [is |-> "event", event |-> Decoded(s, m)]
  BY <1>3, <1>5 DEF Parse
<1>7. \A f : Item(s, m, f) = IF f \in S THEN FieldValue(e, f) ELSE None
  BY <1>3, <1>4 DEF Item
<1> QED
  BY <1>6, <1>7 DEF S, m

\* A set of such fields has a last one.
LEMMA LastField ==
    ASSUME NEW S \in SUBSET Writable, S # {}
    PROVE  \E f \in S : \A g \in S : g <= f
<1>1. \A g \in S : g \in {2, 3, 4, 11, 12, 13, 22, 32, 37, 39, 48, 52, 63, 102, 103}
  BY DEF Writable
<1> QED
  BY <1>1

\* A value that outgrew its prefix is missing from the body, and its reader runs
\* out of bytes if not astray before.
LEMMA ReadOnlyIfFits ==
    ASSUME NEW d \in Dialects, NEW e, Parse(d, Build(d, e)).is = "event"
    PROVE  \A f \in Setting(d, e) : ~Overlong(e, f)
<1> SUFFICES ASSUME NEW f \in Setting(d, e), Overlong(e, f) PROVE FALSE
  OBVIOUS
<1> DEFINE S == Setting(d, e)
           T == InFrame(d, e)
           m == Build(d, e)
<1>1. /\ T \in SUBSET S /\ T # S /\ S \in SUBSET Writable /\ Len(m.body) = Cardinality(T)
      /\ Len(m.body) \in Nat /\ S # {}
  <2>1. T \subseteq S /\ f \in S /\ f \notin T
    BY DEF InFrame
  <2>2. S \in SUBSET Writable /\ Len(m.body) = Cardinality(T) /\ Len(m.body) \in Nat
    BY BuiltFrame
  <2> HIDE DEF S, T, m
  <2> QED
    BY <2>1, <2>2
<1>2. ReadFields(d, m) = S
  BY ReaderTakes
<1>3. ~Short(d, m)
  BY DEF Parse
<1> HIDE DEF S, T, m
<1>4. IsFiniteSet(S) /\ Cardinality(S) \in Nat
  BY <1>1, WritableFinite
<1>5. Cardinality(T) < Cardinality(S)
  BY <1>1, <1>4, FS_Subset
<1>6. PICK g \in S : \A h \in S : h <= g
  BY <1>1, LastField
<1>7. {h \in S : h <= g} = S
  BY <1>6
<1>8. Place(d, m, g) = Cardinality(S)
  BY <1>2, <1>7 DEF Place
<1> QED
  BY <1>1, <1>2, <1>3, <1>4, <1>5, <1>8 DEF Short

\* What the standard fields of an event that was read back are.
LEMMA FieldsBack ==
    ASSUME NEW d \in Dialects, NEW s \in Dialects, NEW e, IsEvent(e),
           \/ d = s
           \/ s = "connex" /\ Setting(d, e) \cap {63, 102, 103} = {},
           \A f \in Setting(d, e) : ~Overlong(e, f)
    PROVE  LET t == Parse(s, Build(d, e)) IN
           /\ t.is = "event" /\ IsEvent(t.event)
           /\ t.event.mti = e.mti /\ t.event.class = MessageClass(e.mti)
           /\ \A f \in PbFields \ {2} : t.event.v[f] = e.v[f]
           /\ s = "connex" /\ d = "connex" => t.event.v[2] = e.v[2]
<1> DEFINE m == Build(d, e)
           D == Decoded(s, m)
<1>1. /\ Parse(s, m) = [is |-> "event", event |-> D]
      /\ \A f : Item(s, m, f) = IF f \in Setting(d, e) THEN FieldValue(e, f) ELSE None
  BY ReadBack
<1>2. m.mti = e.mti
  BY BuiltFrame
<1>3. IsEvent(D)
  BY DecodedIsEvent
<1>4. D.mti = e.mti /\ D.class = MessageClass(e.mti)
  BY <1>2 DEF Decoded
<1>5. /\ D.v[4] = IF Item(s, m, 4) \in Nat THEN Item(s, m, 4) ELSE 0
      /\ D.v[2] = Fpan(s, m)
      /\ \A f \in PbFields \ {2, 4} : D.v[f] = Item(s, m, f)
  BY DEF Decoded, Fields, PbFields
<1> HIDE DEF m, D
<1>6. PbFields \ {2} \subseteq Writes(d)
  BY DEF PbFields, Writes, Dialects
<1>7. ASSUME NEW f \in PbFields \ {2, 4} PROVE D.v[f] = e.v[f]
  <2>1. f \in Setting(d, e) <=> e.v[f] # None
    BY <1>6 DEF Setting, Sets, PbFields
  <2> QED
    BY <1>1, <1>5, <2>1 DEF FieldValue, PbFields
<1>8. D.v[4] = e.v[4]
  <2>1. e.v[4] > 0 => 4 \in Setting(d, e)
    <3>1. 4 \in Writes(d)
      BY <1>6 DEF PbFields
    <3>2. e.v[4] > 0 => Sets(d, e, 4)
      BY <3>1 DEF Sets
    <3> QED
      BY <3>1, <3>2 DEF Setting
  <2>2. FieldValue(e, 4) = e.v[4] /\ e.v[4] \in Nat
    BY DEF FieldValue, IsEvent
  <2>3. CASE 4 \in Setting(d, e)
    BY <1>1, <1>5, <2>2, <2>3
  <2>4. CASE 4 \notin Setting(d, e)
    BY <1>1, <1>5, <2>1, <2>2, <2>4, PrefixAssumption
  <2> QED
    BY <2>3, <2>4
<1>9. s = "connex" /\ d = "connex" => D.v[2] = e.v[2]
  <2> SUFFICES ASSUME s = "connex", d = "connex" PROVE D.v[2] = e.v[2]
    OBVIOUS
  <2>1. 2 \in Setting(d, e) <=> e.v[2] # None
    BY DEF Setting, Sets, Writes
  <2> QED
    BY <1>1, <1>5, <2>1 DEF Fpan, FieldValue
<1>10. \A f \in PbFields \ {2} : D.v[f] = e.v[f]
  BY <1>7, <1>8
<1> QED
  BY <1>1, <1>3, <1>4, <1>9, <1>10 DEF m

\* What the bank, or the upstream client, reads of a frame in connex.
LEMMA ConnexBack ==
    ASSUME NEW e, IsEvent(e), Parse("connex", Build("connex", e)).is = "event"
    PROVE  LET b == Parse("connex", Build("connex", e)).event IN
           /\ IsEvent(b) /\ b.mti = e.mti /\ b.class = MessageClass(e.mti)
           /\ \A f \in PbFields : b.v[f] = e.v[f]
           /\ to_pb(b) = to_pb(e)
<1> DEFINE b == Parse("connex", Build("connex", e)).event
<1>1. "connex" \in Dialects
  BY DEF Dialects
<1>2. \A f \in Setting("connex", e) : ~Overlong(e, f)
  BY <1>1, ReadOnlyIfFits
<1>3. /\ IsEvent(b) /\ b.mti = e.mti /\ b.class = MessageClass(e.mti)
      /\ \A f \in PbFields \ {2} : b.v[f] = e.v[f]
      /\ b.v[2] = e.v[2]
  BY <1>1, <1>2, FieldsBack
<1> HIDE DEF b
<1>4. \A f \in PbFields : b.v[f] = e.v[f]
  BY <1>3
<1>5. to_pb(b) = to_pb(e)
  BY <1>3, <1>4 DEF to_pb
<1> QED
  BY <1>3, <1>4, <1>5 DEF b

\* A frame in connex whose PAN fits its prefix is read.
LEMMA ConnexReads ==
    ASSUME NEW e, IsEvent(e), ~Overlong(e, 2)
    PROVE  Parse("connex", Build("connex", e)).is = "event"
<1>1. "connex" \in Dialects
  BY DEF Dialects
<1>2. \A f \in Setting("connex", e) : ~Overlong(e, f)
  BY DEF Setting, Writes, Overlong
<1> QED
  BY <1>1, <1>2, FieldsBack

\* An answer is its request with another MTI and a response code.
LEMMA AnsweredEvent ==
    ASSUME NEW e, IsEvent(e), NEW mti, NEW rc
    PROVE  LET a == Answered(e, mti, rc) IN
           /\ IsEvent(a) /\ a.v[39] = rc /\ \A f \in Fields \ {39} : a.v[f] = e.v[f]
<1>1. e.v = [g \in Fields |-> e.v[g]] /\ e.v[4] \in Nat /\ 4 \in Fields /\ 39 \in Fields
  BY DEF IsEvent, Fields
<1> DEFINE w == [e.v EXCEPT ![39] = rc]
<1>2. w = [g \in Fields |-> w[g]] /\ w[4] \in Nat /\ w[39] = rc /\ \A f \in Fields \ {39} : w[f] = e.v[f]
  BY <1>1
<1>3. Answered(e, mti, rc) =
         [mti |-> mti, class |-> e.class, is_tokenized |-> e.is_tokenized,
          risk_score |-> e.risk_score, is_reversal |-> e.is_reversal, v |-> w]
  <2> DEFINE q == [e EXCEPT !.mti = mti]
  <2>1. Answered(e, mti, rc) = [q EXCEPT !.v[39] = rc]
    BY DEF Answered
  <2>2. q = [mti |-> mti, class |-> e.class, is_tokenized |-> e.is_tokenized,
             risk_score |-> e.risk_score, is_reversal |-> e.is_reversal, v |-> e.v]
    BY DEF IsEvent
  <2> HIDE DEF q
  <2> QED
    BY <2>1, <2>2
<1> HIDE DEF w
<1>4. Answered(e, mti, rc).v = w
  BY <1>3
<1>5. IsEvent(Answered(e, mti, rc))
  BY <1>2, <1>3 DEF IsEvent
<1> QED
  BY <1>2, <1>4, <1>5

\* An event that comes out of a record has its fields and no others.
LEMMA RecordEvent ==
    ASSUME NEW p, p.v[4] \in Nat
    PROVE  LET e == from_pb(p) IN
           /\ IsEvent(e) /\ e.mti = p.mti /\ e.class = MessageClass(p.mti)
           /\ \A f \in PbFields : e.v[f] = p.v[f]
           /\ \A f \in Fields \ PbFields : e.v[f] = None
<1> DEFINE w == [f \in Fields |-> IF f \in PbFields THEN p.v[f] ELSE None]
<1>1. from_pb(p) = [mti |-> p.mti, class |-> MessageClass(p.mti), is_tokenized |-> FALSE,
                    risk_score |-> 0, is_reversal |-> FALSE, v |-> w]
  <2> DEFINE q == Blank(p.mti)
  <2>1. q = [mti |-> p.mti, class |-> MessageClass(p.mti), is_tokenized |-> FALSE, risk_score |-> 0,
             is_reversal |-> FALSE, v |-> [f \in Fields |-> IF f = 4 THEN 0 ELSE None]]
    BY DEF Blank
  <2>2. from_pb(p) = [q EXCEPT !.v = w]
    BY DEF from_pb
  <2> HIDE DEF q, w
  <2> QED
    BY <2>1, <2>2
<1>2. /\ w = [f \in Fields |-> w[f]] /\ w[4] \in Nat
      /\ \A f \in PbFields : f \in Fields /\ w[f] = p.v[f]
      /\ \A f \in Fields \ PbFields : w[f] = None
  BY DEF Fields, PbFields
<1> HIDE DEF w
<1>3. IsEvent(from_pb(p))
  BY <1>1, <1>2 DEF IsEvent
<1> QED
  BY <1>1, <1>2, <1>3

\* A record with another MTI, or another MTI and a response code.
LEMMA RecordOf ==
    ASSUME NEW e, IsEvent(e), NEW mti, NEW rc
    PROVE  /\ to_pb(e).v[4] \in Nat /\ \A f \in PbFields : to_pb(e).v[f] = e.v[f]
           /\ LET p == [to_pb(e) EXCEPT !.mti = mti] IN
              p.mti = mti /\ p.v[4] \in Nat /\ \A f \in PbFields : p.v[f] = e.v[f]
           /\ LET p == [to_pb(e) EXCEPT !.mti = mti, !.v[39] = rc] IN
              /\ p.mti = mti /\ p.v[4] \in Nat /\ p.v[39] = rc
              /\ \A f \in PbFields \ {39} : p.v[f] = e.v[f]
<1> DEFINE w == [f \in PbFields |-> e.v[f]]
           u == [w EXCEPT ![39] = rc]
<1>1. to_pb(e) = [mti |-> e.mti, v |-> w]
  BY DEF to_pb
<1>2. w[4] \in Nat /\ \A f \in PbFields : w[f] = e.v[f]
  BY DEF PbFields, IsEvent
<1>3. u[4] \in Nat /\ u[39] = rc /\ \A f \in PbFields \ {39} : u[f] = e.v[f]
  BY DEF PbFields, IsEvent
<1>4. [to_pb(e) EXCEPT !.mti = mti] = [mti |-> mti, v |-> w]
  BY <1>1
<1>5. [to_pb(e) EXCEPT !.mti = mti, !.v[39] = rc] = [mti |-> mti, v |-> u]
  <2> DEFINE q == [to_pb(e) EXCEPT !.mti = mti]
  <2>1. [to_pb(e) EXCEPT !.mti = mti, !.v[39] = rc] = [q EXCEPT !.v[39] = rc]
    OBVIOUS
  <2>2. q = [mti |-> mti, v |-> w]
    BY <1>4
  <2> HIDE DEF q, w
  <2> QED
    BY <2>1, <2>2
<1> HIDE DEF w, u
<1> QED
  BY <1>1, <1>2, <1>3, <1>4, <1>5

\* Forwarding replaces the STAN or the PIN block.
LEMMA ForwardedEvent ==
    ASSUME NEW e, IsEvent(e), NEW s
    PROVE  /\ IsEvent(Forwarded(e, s)) /\ Forwarded(e, s).mti = e.mti
           /\ \A f \in Fields \ {11, 52} : Forwarded(e, s).v[f] = e.v[f]
           /\ Secured(e) => Forwarded(e, s).v[11] = e.v[11]
           /\ ~Secured(e) => Forwarded(e, s).v[11] = s
<1>1. IsEvent(Forwarded(e, s))
  BY ForwardedIsEvent
<1>2. ASSUME NEW g \in Fields, NEW x
      PROVE  LET a == [e EXCEPT !.v[g] = x] IN
             a.mti = e.mti /\ a.v[g] = x /\ \A f \in Fields \ {g} : a.v[f] = e.v[f]
  <2>1. e.v = [f \in Fields |-> e.v[f]]
    BY DEF IsEvent
  <2>2. [e EXCEPT !.v[g] = x] =
         [mti |-> e.mti, class |-> e.class, is_tokenized |-> e.is_tokenized,
          risk_score |-> e.risk_score, is_reversal |-> e.is_reversal, v |-> [e.v EXCEPT ![g] = x]]
    BY DEF IsEvent
  <2> QED
    BY <2>1, <2>2
<1>3. 11 \in Fields /\ 52 \in Fields
  BY DEF Fields
<1> QED
  BY <1>1, <1>2, <1>3 DEF Forwarded

-----------------------------------------------------------------------------
(* What the engine and the bank make of an event *)

\* An event that has the fields of one keeps what that one keeps.
LEMMA KeepsOn ==
    ASSUME NEW o, NEW e, NEW a, Keeps(o, e),
           \A f \in {2, 4, 37} : a.v[f] = e.v[f],
           \A f \in {63, 102, 103} : a.v[f] \in {None, e.v[f]}
    PROVE  Keeps(o, a)
BY DEF Keeps

\* Screening keeps the amount, the RRN and the length of the PAN.
LEMMA ScreenedEvent ==
    ASSUME NEW e, IsEvent(e), NEW listed,
           e.v[2] # None => DOMAIN e.v[2] = {"digits", "len", "ukfps"}
    PROVE  LET s == Screen(e, listed) IN
           /\ s.is \in {"answered", "admitted"} /\ IsEvent(s.event) /\ Keeps(e, s.event)
           /\ s.is = "answered" => s.event.v[39] \in ResponseCodes
           /\ s.is = "admitted" => s = Screen(e, FALSE)
<1>1. IsEvent(Detokenized(e))
  BY SetFieldIsEvent DEF Detokenized, Fields
<1>2. Keeps(e, e)
  BY DEF Keeps
<1>3. ASSUME e.is_tokenized => Pan(e) \in DOMAIN Vault PROVE Keeps(e, Detokenized(e))
  <2>1. CASE ~e.is_tokenized
    BY <1>2, <2>1 DEF Detokenized
  <2>2. CASE e.is_tokenized
    <3> DEFINE c == [e.v[2] EXCEPT !.digits = Vault[Pan(e)]]
    <3>1. e.v[2] # None
      BY <1>3, <2>2, PathAssumption DEF Pan
    <3>2. c.len = e.v[2].len
      BY <3>1
    <3>3. e.v = [f \in Fields |-> e.v[f]] /\ {2, 4, 37, 63, 102, 103} \subseteq Fields
      BY DEF IsEvent, Fields
    <3> HIDE DEF c
    <3>4. Detokenized(e) = [e EXCEPT !.v[2] = c]
      BY <2>2 DEF Detokenized, c
    <3>5. Detokenized(e).v = [e.v EXCEPT ![2] = c]
      <4>1. [e EXCEPT !.v[2] = c] =
               [mti |-> e.mti, class |-> e.class, is_tokenized |-> e.is_tokenized,
                risk_score |-> e.risk_score, is_reversal |-> e.is_reversal, v |-> [e.v EXCEPT ![2] = c]]
        BY DEF IsEvent
      <4> QED
        BY <3>4, <4>1
    <3>6. Detokenized(e).v[2] = c /\ \A f \in {4, 37, 63, 102, 103} : Detokenized(e).v[f] = e.v[f]
      BY <3>3, <3>5
    <3> QED
      BY <3>1, <3>2, <3>6 DEF Keeps
  <2> QED
    BY <2>1, <2>2
<1>4. ASSUME NEW a, IsEvent(a), Keeps(e, a), NEW mti, NEW rc \in ResponseCodes
      PROVE  /\ IsEvent(Answered(a, mti, rc)) /\ Keeps(e, Answered(a, mti, rc))
             /\ Answered(a, mti, rc).v[39] \in ResponseCodes
  <2>1. /\ IsEvent(Answered(a, mti, rc)) /\ Answered(a, mti, rc).v[39] = rc
        /\ \A f \in Fields \ {39} : Answered(a, mti, rc).v[f] = a.v[f]
    BY <1>4, AnsweredEvent
  <2>2. Keeps(e, Answered(a, mti, rc))
    BY <1>4, <2>1, KeepsOn DEF Fields
  <2> QED
    BY <2>1, <2>2
<1>5. \A rc \in {"93", "56", "59", "00"} : rc \in ResponseCodes
  BY DEF ResponseCodes
<1>6. CASE listed
  <2>1. Screen(e, listed) = [is |-> "answered", event |-> Answered(e, "0110", "93")]
    BY <1>6 DEF Screen, Decline
  <2> QED
    BY <1>2, <1>4, <1>5, <2>1
<1>7. CASE ~listed /\ ~(e.is_tokenized => Pan(e) \in DOMAIN Vault)
  <2>1. Screen(e, listed) = [is |-> "answered", event |-> Answered(e, "0110", "56")]
    BY <1>7 DEF Screen, Decline
  <2> QED
    BY <1>2, <1>4, <1>5, <2>1
<1>8. CASE ~listed /\ (e.is_tokenized => Pan(e) \in DOMAIN Vault)
  <2> DEFINE card == Detokenized(e)
  <2>1. IsEvent(card) /\ Keeps(e, card)
    BY <1>1, <1>3, <1>8
  <2>2. \/ \E mti \in {"0110", "0810", "0430"}, rc \in {"59", "00"} :
              Screen(e, listed) = [is |-> "answered", event |-> Answered(card, mti, rc)]
        \/ /\ Screen(e, listed) = [is |-> "admitted", event |-> card]
           /\ Screen(e, FALSE) = Screen(e, listed)
    BY <1>8 DEF Screen, Decline
  <2> HIDE DEF card
  <2>3. CASE \E mti \in {"0110", "0810", "0430"}, rc \in {"59", "00"} :
              Screen(e, listed) = [is |-> "answered", event |-> Answered(card, mti, rc)]
    <3>1. PICK mti \in {"0110", "0810", "0430"}, rc \in {"59", "00"} :
              Screen(e, listed) = [is |-> "answered", event |-> Answered(card, mti, rc)]
      BY <2>3
    <3> DEFINE a == Answered(card, mti, rc)
    <3>2. IsEvent(a) /\ Keeps(e, a) /\ a.v[39] \in ResponseCodes
      BY <1>4, <1>5, <2>1
    <3>3. Screen(e, listed).is = "answered" /\ Screen(e, listed).event = a
      BY <3>1
    <3> HIDE DEF a
    <3> QED
      BY <3>2, <3>3
  <2>4. CASE /\ Screen(e, listed) = [is |-> "admitted", event |-> card]
             /\ Screen(e, FALSE) = Screen(e, listed)
    <3>1. Screen(e, listed).is = "admitted" /\ Screen(e, listed).event = card
      BY <2>4
    <3> QED
      BY <2>1, <2>4, <3>1
  <2> QED
    BY <2>2, <2>3, <2>4
<1> QED
  BY <1>6, <1>7, <1>8

\* The bank answers with its request, another MTI and a response code.
LEMMA BankAnswers ==
    ASSUME NEW e, BankResponse(e) # None
    PROVE  \E mti, rc : rc \in ResponseCodes /\ BankResponse(e) = Answered(e, mti, rc)
<1>1. \A rc \in {"00", "51", "59"} : rc \in ResponseCodes
  BY DEF ResponseCodes
<1> QED
  BY <1>1 DEF BankResponse

\* The record that a reply worker gets has the RRN and acquirer of its request, and
\* the STAN that was sent.
LEMMA ReplyRecord ==
    ASSUME NEW e, IsEvent(e), NEW s, NEW p,
           LET b == AtBank(Sent(Forwarded(e, s))) IN
           /\ b.is = "event" /\ BankResponse(b.event) # None
           /\ BankReply(b.event) = [is |-> "record", record |-> p]
    PROVE  /\ \E q : IsEvent(q) /\ p = to_pb(q)
           /\ p.v[39] \in ResponseCodes
           /\ \A f \in PbFields \ {11, 39, 52} : p.v[f] = e.v[f]
           /\ p.v[37] = e.v[37] /\ p.v[32] = e.v[32] /\ p.v[11] = Forwarded(e, s).v[11]
<1> DEFINE b == AtBank(Sent(Forwarded(e, s))).event
           q == Parse("connex", Build("connex", BankResponse(b))).event
<1>1. /\ IsEvent(Forwarded(e, s))
      /\ \A f \in Fields \ {11, 52} : Forwarded(e, s).v[f] = e.v[f]
      /\ Secured(e) => Forwarded(e, s).v[11] = e.v[11]
      /\ ~Secured(e) => Forwarded(e, s).v[11] = s
  BY ForwardedEvent
<1>2. IsEvent(b) /\ \A f \in PbFields : b.v[f] = Forwarded(e, s).v[f]
  BY <1>1, ConnexBack DEF AtBank, Sent
<1>3. Parse("connex", Build("connex", BankResponse(b))).is = "event" /\ p = to_pb(q)
  <2> DEFINE t == Parse("connex", Build("connex", BankResponse(b)))
  <2>1. BankReply(b) = IF t.is = "event" THEN [is |-> "record", record |-> to_pb(t.event)] ELSE t
    BY DEF BankReply
  <2>2. BankReply(b) = [is |-> "record", record |-> p]
    OBVIOUS
  <2>3. t.is \in {"error", "misread", "event"}
    BY DEF Parse
  <2> HIDE DEF t, b
  <2> QED
    BY <2>1, <2>2, <2>3 DEF t
<1>4. BankResponse(b) # None
  OBVIOUS
<1> HIDE DEF b
<1>5. PICK mti, rc : rc \in ResponseCodes /\ BankResponse(b) = Answered(b, mti, rc)
  BY <1>4, BankAnswers
<1>6. /\ IsEvent(BankResponse(b)) /\ BankResponse(b).v[39] = rc
      /\ \A f \in Fields \ {39} : BankResponse(b).v[f] = b.v[f]
  BY <1>2, <1>5, AnsweredEvent
<1>7. IsEvent(q) /\ \A f \in PbFields : q.v[f] = BankResponse(b).v[f]
  BY <1>3, <1>6, ConnexBack
<1> HIDE DEF q
<1>8. \A f \in PbFields : p.v[f] = q.v[f] /\ f \in Fields
  BY <1>3 DEF to_pb, PbFields, Fields
<1>9. p.v[39] = rc /\ \A f \in PbFields \ {39} : p.v[f] = Forwarded(e, s).v[f]
  BY <1>2, <1>6, <1>7, <1>8 DEF PbFields
<1>10. \A f \in PbFields \ {11, 39, 52} : p.v[f] = e.v[f]
  BY <1>1, <1>8, <1>9
<1>11. p.v[37] = e.v[37] /\ p.v[32] = e.v[32] /\ p.v[11] = Forwarded(e, s).v[11]
  BY <1>9, <1>10 DEF PbFields
<1> QED
  BY <1>3, <1>5, <1>7, <1>9, <1>10, <1>11

\* A frame whose fields are in order is misread only behind a field or a bitmap
\* that the reader does not take.
LEMMA MisreadOutOfOrder ==
    ASSUME NEW d \in {"standard", "interac", "ukfps"}, NEW m, InOrder(m), Parse(d, m).is = "misread"
    PROVE  /\ d # "standard"
           /\ \/ Bitmaps(m.bits) > BitmapsRead(d, m.bits)
              \/ \E f \in Foreign(d, m), g \in ReadFields(d, m) : f < g
<1> SUFFICES ASSUME ~(Bitmaps(m.bits) > BitmapsRead(d, m.bits)),
                    \A f \in Foreign(d, m), g \in ReadFields(d, m) : ~(f < g)
             PROVE  FALSE
  <2>1. d = "standard" => Foreign(d, m) = {}
    BY DEF Parse
  <2>2. d = "standard" => ~(Bitmaps(m.bits) > BitmapsRead(d, m.bits))
    BY DEF Bitmaps, BitmapsRead
  <2> QED
    BY <2>1, <2>2
<1> DEFINE fields == m.bits \ {1, 65, 129}
<1>1. Misread(d, m)
  BY DEF Parse
<1>2. PICK f \in ReadFields(d, m) : Place(d, m, f) <= Len(m.body) /\ m.body[Place(d, m, f)].field # f
  BY <1>1 DEF Misread
<1>3. Bitmaps(m.bits) \in {1, 2, 3} /\ BitmapsRead(d, m.bits) \in {1, 2, 3}
  BY DEF Bitmaps, BitmapsRead
<1>4. m.bits \subseteq 1 .. 64 * Bitmaps(m.bits)
  BY DEF InOrder
<1>5. Visible(d, m) = m.bits
  BY <1>3, <1>4 DEF Visible
<1>6. /\ \A g \in Known(d) : g \notin {1, 65, 129}
      /\ Extension(d) \subseteq {1, 65, 129}
  BY DEF Known, Extension
<1>7. {g \in ReadFields(d, m) : g <= f} = {g \in fields : g <= f}
  <2>1. ASSUME NEW g \in fields, g <= f PROVE g \in ReadFields(d, m)
    <3>1. g \in Nat /\ f \in Nat
      BY <1>2, <1>3, <1>4, <1>5 DEF ReadFields
    <3>2. CASE g \in Known(d)
      BY <1>5, <3>2 DEF ReadFields
    <3>3. CASE g \notin Known(d)
      <4>1. g \in Foreign(d, m)
        BY <1>5, <1>6, <3>3 DEF Foreign
      <4>2. g # f
        BY <1>2, <3>3 DEF ReadFields
      <4> QED
        BY <1>2, <2>1, <3>1, <4>1, <4>2
    <3> QED
      BY <3>2, <3>3
  <2>2. ReadFields(d, m) \subseteq fields
    BY <1>5, <1>6 DEF ReadFields
  <2> QED
    BY <2>1, <2>2
<1>8. f \in fields
  BY <1>2, <1>5, <1>6 DEF ReadFields
<1>9. Place(d, m, f) = Cardinality({g \in fields : g <= f})
  BY <1>7 DEF Place
<1> QED
  BY <1>2, <1>8, <1>9, ZenonT(40) DEF InOrder

-----------------------------------------------------------------------------
(* The way of a request *)

\* What a message was read and admitted as.
LEMMA RequestEvent ==
    ASSUME NEW x, Wire(x), Read(x).is = "event"
    PROVE  /\ IsEvent(Read(x).event) /\ Keeps(Read(x).event, Read(x).event)
           /\ Read(x).event.v[2] # None => DOMAIN Read(x).event.v[2] = {"digits", "len", "ukfps"}
           /\ IsEvent(Request(x)) /\ Keeps(Read(x).event, Request(x))
<1> DEFINE o == Read(x).event
<1>1. Read(x) = [is |-> "event", event |-> Decoded(x.port, x.frame)]
  BY DEF Read, Parse
<1>2. IsEvent(o)
  BY <1>1, DecodedIsEvent
<1>3. o.v[2] # None => DOMAIN o.v[2] = {"digits", "len", "ukfps"}
  BY DEF Wire, Read
<1> HIDE DEF o
<1>4. IsEvent(Screen(o, FALSE).event) /\ Keeps(o, Screen(o, FALSE).event)
  BY <1>2, <1>3, ScreenedEvent
<1>5. Keeps(o, o)
  BY DEF Keeps
<1> QED
  BY <1>2, <1>3, <1>4, <1>5 DEF Request, o

\* The answer that a record gives.
LEMMA RecordAnswer ==
    ASSUME NEW o, NEW e, Keeps(o, e), NEW p, p.v[4] \in Nat, p.v[39] \in ResponseCodes,
           \A f \in {2, 4, 37} : p.v[f] = e.v[f]
    PROVE  LET a == from_pb(p) IN IsEvent(a) /\ a.v[39] \in ResponseCodes /\ Keeps(o, a)
<1> DEFINE a == from_pb(p)
<1>1. /\ IsEvent(a) /\ \A f \in PbFields : a.v[f] = p.v[f]
      /\ \A f \in Fields \ PbFields : a.v[f] = None
  BY RecordEvent
<1> HIDE DEF a
<1>2. a.v[39] = p.v[39] /\ \A f \in {2, 4, 37} : a.v[f] = e.v[f]
  BY <1>1 DEF PbFields
<1>3. \A f \in {63, 102, 103} : a.v[f] = None
  BY <1>1 DEF PbFields, Fields
<1>4. Keeps(o, a)
  BY <1>2, <1>3, KeepsOn
<1> QED
  BY <1>1, <1>2, <1>4 DEF a

\* At first every request is new, with the message of its workload.
LEMMA InitWay ==
    ASSUME Init
    PROVE  WayInv
<1>1. PICK w \in Workloads :
        req = [r \in DOMAIN w.messages |-> Holder("new", w.messages[r], None, NoProfile)]
  BY DEF Init
<1>2. ASSUME NEW r \in DOMAIN w.messages
      PROVE  Way(Holder("new", w.messages[r], None, NoProfile), EgressStan[r])
  <2> DEFINE x == w.messages[r]
  <2>1. Wire(x)
    BY WireAssumption
  <2> HIDE DEF x
  <2>2. Holder("new", x, None, NoProfile).pc = "new" /\ Holder("new", x, None, NoProfile).msg = x
    BY DEF Holder
  <2>3. Way(Holder("new", x, None, NoProfile), EgressStan[r])
    BY <2>1, <2>2 DEF Way
  <2> QED
    BY <2>3 DEF x
<1>3. DOMAIN req = DOMAIN w.messages
  BY <1>1
<1>4. \A r \in DOMAIN req : req[r] = Holder("new", w.messages[r], None, NoProfile)
  BY <1>1
<1>5. req = [r \in DOMAIN req |-> req[r]]
  BY <1>1
<1> QED
  BY <1>2, <1>3, <1>4, <1>5 DEF WayInv

\* A request goes on where it may.
LEMMA MoveWay ==
    ASSUME WayInv, NEW r \in DOMAIN req, NEW h, req' = [req EXCEPT ![r] = h],
           Way(h, EgressStan[r])
    PROVE  WayInv'
<1>1. req = [q \in DOMAIN req |-> req[q]] /\ \A q \in DOMAIN req : Way(req[q], EgressStan[q])
  BY DEF WayInv
<1>2. DOMAIN req' = DOMAIN req /\ req' = [q \in DOMAIN req' |-> req'[q]]
  BY <1>1
<1>3. \A q \in DOMAIN req : req'[q] = IF q = r THEN h ELSE req[q]
  BY <1>1
<1> QED
  BY <1>1, <1>2, <1>3 DEF WayInv

\* Where a request goes on to, Way asks no more than what is listed here.
LEMMA GoWay ==
    ASSUME WayInv, NEW r \in DOMAIN req, NEW pc, NEW e, Go(r, pc, e),
           LET x == req[r].msg
               o == Read(x).event
           IN  /\ pc \in {"error", "misread", "read", "answered", "admitted", "sent", "stood",
                          "replied", "astray", "reaped"}
               /\ pc = "misread" => Read(x).is = "misread"
               /\ pc \notin {"error", "misread"} => Read(x).is = "event"
               /\ pc = "read" => e = o
               /\ pc \in {"admitted", "stood", "sent", "replied", "astray", "reaped"} =>
                     Screen(o, FALSE).is = "admitted"
               /\ pc = "admitted" => e = Request(x)
               /\ pc = "sent" => e = Forwarded(Request(x), EgressStan[r])
               /\ pc = "replied" =>
                     LET b == Presented(x, EgressStan[r]) IN
                     /\ b.is = "event" /\ BankResponse(b.event) # None
                     /\ BankReply(b.event) = [is |-> "record", record |-> e]
               /\ pc \in {"answered", "reaped"} =>
                     IsEvent(e) /\ e.v[39] \in ResponseCodes /\ Keeps(o, e)
    PROVE  WayInv'
<1> DEFINE h == Holder(pc, req[r].msg, e, NoProfile)
<1>1. h.pc = pc /\ h.msg = req[r].msg /\ h.e = e
  BY DEF Holder
<1>2. Wire(req[r].msg)
  BY DEF WayInv, Way
<1>3. req' = [req EXCEPT ![r] = h]
  BY DEF Go
<1> HIDE DEF h
<1>4. Way(h, EgressStan[r])
  BY <1>1, <1>2 DEF Way
<1> QED
  BY <1>3, <1>4, MoveWay

\* The session: what it parsed is what Read says of the message.
LEMMA ReceiveWay ==
    ASSUME WayInv, NEW r \in DOMAIN req, Receive(r)
    PROVE  WayInv'
<1> DEFINE t == Read(req[r].msg)
<1>1. t.is \in {"error", "misread", "event"}
  BY DEF Read, Parse
<1>2. Go(r, IF t.is = "event" THEN "read" ELSE t.is, IF t.is = "event" THEN t.event ELSE None)
  BY DEF Receive
<1> HIDE DEF t
<1>3. CASE t.is = "event"
  <2>1. Go(r, "read", t.event)
    BY <1>2, <1>3
  <2> QED
    BY <1>3, <2>1, GoWay DEF t
<1>4. CASE t.is # "event"
  <2>1. Go(r, t.is, None)
    BY <1>2, <1>4
  <2> QED
    BY <1>1, <1>4, <2>1, GoWay DEF t
<1> QED
  BY <1>3, <1>4

\* A worker answers the event or admits it as Request has it, listed or not.
LEMMA ScreenWay ==
    ASSUME WayInv, NEW r \in DOMAIN req, ScreenRequest(r)
    PROVE  WayInv'
<1> DEFINE x == req[r].msg
           o == Read(x).event
           s == Screen(o, evaluate(BinOf(o)))
<1>1. Wire(x) /\ Read(x).is = "event" /\ req[r].e = o
  BY DEF WayInv, Way, ScreenRequest, At
<1>2. Go(r, s.is, s.event)
  BY <1>1 DEF ScreenRequest
<1>3. IsEvent(o) /\ (o.v[2] # None => DOMAIN o.v[2] = {"digits", "len", "ukfps"})
  BY <1>1, RequestEvent
<1> HIDE DEF o
<1>4. /\ s.is \in {"answered", "admitted"} /\ IsEvent(s.event) /\ Keeps(o, s.event)
      /\ s.is = "answered" => s.event.v[39] \in ResponseCodes
      /\ s.is = "admitted" => s = Screen(o, FALSE)
  BY <1>3, ScreenedEvent
<1> HIDE DEF s
<1>5. CASE s.is = "answered"
  <2>1. Go(r, "answered", s.event)
    BY <1>2, <1>5
  <2> QED
    BY <1>1, <1>4, <1>5, <2>1, GoWay DEF o
<1>6. CASE s.is = "admitted"
  <2>1. Go(r, "admitted", s.event) /\ s.event = Request(x) /\ Screen(o, FALSE).is = "admitted"
    BY <1>2, <1>4, <1>6 DEF Request, o
  <2> QED
    BY <1>1, <2>1, GoWay DEF o
<1> QED
  BY <1>4, <1>5, <1>6

\* What an admitted request is.
LEMMA Admitted ==
    ASSUME WayInv, NEW r \in DOMAIN req,
           req[r].pc \in {"admitted", "standin", "stood", "sent", "replied", "astray", "reaped"}
    PROVE  LET x == req[r].msg
               o == Read(x).event
           IN  /\ Wire(x) /\ Read(x).is = "event" /\ Screen(o, FALSE).is = "admitted"
               /\ IsEvent(Request(x)) /\ Keeps(o, Request(x))
<1> DEFINE x == req[r].msg
<1>1. Wire(x) /\ Read(x).is = "event" /\ Screen(Read(x).event, FALSE).is = "admitted"
  BY DEF WayInv, Way
<1> HIDE DEF x
<1>2. IsEvent(Request(x)) /\ Keeps(Read(x).event, Request(x))
  BY <1>1, RequestEvent
<1> QED
  BY <1>1, <1>2 DEF x

\* The refusals: a key in the guard, no channel.
LEMMA RefuseWay ==
    ASSUME WayInv, NEW r \in DOMAIN req, Refuse(r)
    PROVE  WayInv'
<1> DEFINE x == req[r].msg
           o == Read(x).event
           e == Request(x)
<1>1. req[r].pc = "admitted" /\ req[r].e = e
  BY DEF Refuse, At, WayInv, Way
<1>2. Read(x).is = "event" /\ IsEvent(e) /\ Keeps(o, e)
  BY <1>1, Admitted
<1>3. PICK rc \in {"94", "05"} : Go(r, "answered", Answered(e, "0110", rc))
  BY <1>1 DEF Refuse, Decline
<1> HIDE DEF e, o
<1> DEFINE a == Answered(e, "0110", rc)
<1>4. IsEvent(a) /\ a.v[39] = rc /\ \A f \in Fields \ {39} : a.v[f] = e.v[f]
  BY <1>2, AnsweredEvent
<1> HIDE DEF a
<1>5. Keeps(o, a)
  BY <1>2, <1>4, KeepsOn DEF Fields
<1>6. rc \in ResponseCodes
  BY DEF ResponseCodes
<1>7. Go(r, "answered", a)
  BY <1>3 DEF a
<1> QED
  BY <1>2, <1>4, <1>5, <1>6, <1>7, GoWay DEF o

\* What is put on the egress channel.
LEMMA ForwardWay ==
    ASSUME WayInv, NEW r \in DOMAIN req, Forward(r)
    PROVE  WayInv'
<1>1. req[r].pc = "admitted" /\ req[r].e = Request(req[r].msg)
  BY DEF Forward, At, WayInv, Way
<1>2. Read(req[r].msg).is = "event" /\ Screen(Read(req[r].msg).event, FALSE).is = "admitted"
  BY <1>1, Admitted
<1>3. Go(r, "sent", Forwarded(Request(req[r].msg), EgressStan[r]))
  BY <1>1 DEF Forward
<1> QED
  BY <1>2, <1>3, GoWay

\* The stand-in changes what a request is, but not what it was admitted as.
LEMMA StandInWay ==
    ASSUME WayInv, NEW r \in DOMAIN req, StandInRead(r) \/ StandInWrite(r)
    PROVE  WayInv'
<1>1. req[r].pc \in {"admitted", "standin"}
  BY DEF StandInRead, StandInWrite, At
<1>2. /\ Wire(req[r].msg) /\ Read(req[r].msg).is = "event"
      /\ Screen(Read(req[r].msg).event, FALSE).is = "admitted"
  BY <1>1, Admitted
<1>3. CASE StandInRead(r)
  <2>1. PICK e, p : req' = [req EXCEPT ![r] = Holder("standin", req[r].msg, e, p)]
    BY <1>3 DEF StandInRead
  <2> DEFINE h == Holder("standin", req[r].msg, e, p)
  <2>2. h.pc = "standin" /\ h.msg = req[r].msg
    BY DEF Holder
  <2>3. req' = [req EXCEPT ![r] = h]
    BY <2>1
  <2> HIDE DEF h
  <2>4. Way(h, EgressStan[r])
    BY <1>2, <2>2 DEF Way
  <2> QED
    BY <2>3, <2>4, MoveWay
<1>4. CASE StandInWrite(r)
  <2>1. PICK e : Go(r, "stood", e)
    BY <1>4 DEF StandInWrite
  <2> QED
    BY <1>2, <2>1, GoWay
<1> QED
  BY <1>3, <1>4

\* The record on the reply channel is the answer to what the bank was presented with.
LEMMA BankRepliesWay ==
    ASSUME WayInv, NEW r \in DOMAIN req, BankReplies(r)
    PROVE  WayInv'
<1> DEFINE x == req[r].msg
           b == Presented(x, EgressStan[r])
           y == BankReply(b.event)
<1>1. req[r].pc = "sent" /\ req[r].e = Forwarded(Request(x), EgressStan[r])
  BY DEF BankReplies, At, WayInv, Way
<1>2. Read(x).is = "event" /\ Screen(Read(x).event, FALSE).is = "admitted"
  BY <1>1, Admitted
<1>3. b.is = "event" /\ BankResponse(b.event) # None /\ y.is = "record" /\ Go(r, "replied", y.record)
  BY <1>1 DEF BankReplies, Presented
<1>4. y = [is |-> "record", record |-> y.record]
  <2> DEFINE t == Parse("connex", Build("connex", BankResponse(b.event)))
  <2>1. y = IF t.is = "event" THEN [is |-> "record", record |-> to_pb(t.event)] ELSE t
    BY DEF BankReply
  <2>2. t.is \in {"error", "misread", "event"}
    BY DEF Parse
  <2> HIDE DEF t, y
  <2> QED
    BY <1>3, <2>1, <2>2
<1>5. LET c == Presented(req[r].msg, EgressStan[r]) IN
      /\ c.is = "event" /\ BankResponse(c.event) # None
      /\ BankReply(c.event) = [is |-> "record", record |-> y.record]
  BY <1>3, <1>4
<1>6. Go(r, "replied", y.record)
  BY <1>3
<1> HIDE DEF b, y
<1> QED
  BY <1>2, <1>5, <1>6, GoWay

\* The answer made from the bank's record.
LEMMA DeliverWay ==
    ASSUME WayInv, NEW r \in DOMAIN req, Deliver(r)
    PROVE  WayInv'
<1> DEFINE x == req[r].msg
           o == Read(x).event
           e == Request(x)
           p == req[r].e
<1>1. /\ req[r].pc = "replied"
      /\ LET b == Presented(x, EgressStan[r]) IN
         /\ b.is = "event" /\ BankResponse(b.event) # None
         /\ BankReply(b.event) = [is |-> "record", record |-> p]
  BY DEF Deliver, At, WayInv, Way
<1>2. Read(x).is = "event" /\ Screen(o, FALSE).is = "admitted" /\ IsEvent(e) /\ Keeps(o, e)
  BY <1>1, Admitted
<1>3. Go(r, "answered", from_pb([p EXCEPT !.mti = "0110"])) \/ Go(r, "astray", None)
  BY DEF Deliver, Approval
<1> HIDE DEF e, o, p
<1>4. /\ \E q : IsEvent(q) /\ p = to_pb(q)
      /\ p.v[39] \in ResponseCodes
      /\ \A f \in PbFields \ {11, 39, 52} : p.v[f] = e.v[f]
  BY <1>1, <1>2, ReplyRecord DEF Presented, e
<1>5. PICK q : IsEvent(q) /\ p = to_pb(q)
  BY <1>4
<1> DEFINE z == [p EXCEPT !.mti = "0110"]
<1>6. z.v[4] \in Nat /\ \A f \in PbFields : z.v[f] = p.v[f]
  BY <1>5, RecordOf
<1> HIDE DEF z
<1>7. z.v[39] \in ResponseCodes /\ \A f \in {2, 4, 37} : z.v[f] = e.v[f]
  BY <1>4, <1>6 DEF PbFields
<1>8. IsEvent(from_pb(z)) /\ from_pb(z).v[39] \in ResponseCodes /\ Keeps(o, from_pb(z))
  BY <1>2, <1>6, <1>7, RecordAnswer
<1>9. CASE Go(r, "answered", from_pb(z))
  BY <1>2, <1>8, <1>9, GoWay DEF o
<1>10. CASE Go(r, "astray", None)
  BY <1>2, <1>10, GoWay DEF o
<1> QED
  BY <1>3, <1>9, <1>10 DEF z

\* The reaper's answer, made from the record in the guard.
LEMMA ReapWay ==
    ASSUME WayInv, NEW r \in DOMAIN req, Reap(r)
    PROVE  WayInv'
<1> DEFINE x == req[r].msg
           o == Read(x).event
           e == Request(x)
<1>1. req[r].pc \in {"admitted", "sent", "replied", "astray", "stood"}
  BY DEF Reap
<1>2. /\ Read(x).is = "event" /\ Screen(o, FALSE).is = "admitted"
      /\ IsEvent(e) /\ Keeps(o, e)
  BY <1>1, Admitted
<1> DEFINE z == [to_pb(e) EXCEPT !.mti = "0110", !.v[39] = "68"]
<1>3. Go(r, "reaped", from_pb(z))
  BY DEF Reap, TimeoutReply
<1> HIDE DEF e, o
<1>4. z.v[4] \in Nat /\ z.v[39] = "68" /\ \A f \in PbFields \ {39} : z.v[f] = e.v[f]
  BY <1>2, RecordOf
<1> HIDE DEF z
<1>5. z.v[39] \in ResponseCodes /\ \A f \in {2, 4, 37} : z.v[f] = e.v[f]
  BY <1>4 DEF PbFields, ResponseCodes
<1>6. IsEvent(from_pb(z)) /\ from_pb(z).v[39] \in ResponseCodes /\ Keeps(o, from_pb(z))
  BY <1>2, <1>4, <1>5, RecordAnswer
<1> QED
  BY <1>2, <1>3, <1>6, GoWay DEF o

\* A crash leaves of a request at most its message.
LEMMA CrashWay ==
    ASSUME WayInv, Crash
    PROVE  WayInv'
<1>1. req' = [r \in DOMAIN req |-> IF req[r].pc \in Finished THEN req[r]
                                ELSE Holder("gone", req[r].msg, None, NoProfile)]
  BY DEF Crash
<1>2. DOMAIN req' = DOMAIN req /\ req' = [r \in DOMAIN req' |-> req'[r]]
  BY <1>1
<1>3. ASSUME NEW r \in DOMAIN req PROVE Way(req'[r], EgressStan[r])
  <2> DEFINE h == Holder("gone", req[r].msg, None, NoProfile)
  <2>1. Way(req[r], EgressStan[r])
    BY DEF WayInv
  <2>2. h.pc = "gone" /\ h.msg = req[r].msg
    BY DEF Holder
  <2>3. req'[r] = IF req[r].pc \in Finished THEN req[r] ELSE h
    BY <1>1
  <2> HIDE DEF h
  <2>4. Way(h, EgressStan[r])
    BY <2>1, <2>2 DEF Way
  <2> QED
    BY <2>1, <2>3, <2>4
<1> QED
  BY <1>2, <1>3 DEF WayInv

\* Every step of the switch, its store and its poller.
LEMMA NextWay ==
    ASSUME WayInv, [Next]_vars
    PROVE  WayInv'
<1>1. CASE UNCHANGED req
  BY <1>1 DEF WayInv
<1>2. ASSUME NEW r \in DOMAIN req, Step(r) PROVE WayInv'
  BY <1>2, ReceiveWay, ScreenWay, RefuseWay, ForwardWay, StandInWay, BankRepliesWay, DeliverWay,
     ReapWay DEF Step
<1> QED
  BY <1>1, <1>2, CrashWay DEF Next, vars, ProbeReply, StoreStep, PollerStep

-----------------------------------------------------------------------------
(* The properties of the messages *)

\* Upstream, sent at once or drained, an event arrives with the fields of its record.
LEMMA FramesArrive ==
    ASSUME NEW e, IsEvent(e), ~Overlong(e, 2), NEW w \in Frames(e)
    PROVE  /\ AtBank(w).is = "event" /\ AtBank(w).event.class = MessageClass(e.mti)
           /\ \A f \in PbFields : AtBank(w).event.v[f] = e.v[f]
           /\ to_pb(AtBank(w).event) = to_pb(e)
<1> DEFINE d == from_pb(to_pb(e))
<1>1. to_pb(e).v[4] \in Nat /\ to_pb(e).mti = e.mti /\ \A f \in PbFields : to_pb(e).v[f] = e.v[f]
  BY RecordOf DEF to_pb
<1>2. IsEvent(d) /\ d.mti = e.mti /\ \A f \in PbFields : d.v[f] = e.v[f]
  BY <1>1, RecordEvent
<1>3. w \in {Sent(e), Drained(e)}
  BY DEF Frames
<1>4. Drained(e) = Build("connex", d) /\ Sent(e) = Build("connex", e)
  BY DEF Drained, Sent
<1> HIDE DEF d
<1>5. PICK z \in {e, d} : w = Build("connex", z)
  BY <1>3, <1>4
<1>6. IsEvent(z) /\ z.mti = e.mti /\ \A f \in PbFields : z.v[f] = e.v[f]
  BY <1>2
<1>7. ~Overlong(z, 2) /\ to_pb(z) = to_pb(e)
  BY <1>6 DEF Overlong, PbFields, to_pb
<1>8. AtBank(w).is = "event"
  BY <1>5, <1>6, <1>7, ConnexReads DEF AtBank
<1>9. LET b == AtBank(w).event IN
      /\ b.class = MessageClass(z.mti) /\ \A f \in PbFields : b.v[f] = z.v[f]
      /\ to_pb(b) = to_pb(z)
  BY <1>5, <1>6, <1>8, ConnexBack DEF AtBank
<1> QED
  BY <1>6, <1>7, <1>8, <1>9

\* A misreading has one of the causes MisreadCause names.
LEMMA WayMisread ==
    ASSUME WayInv
    PROVE  MisreadCause
<1> SUFFICES ASSUME NEW r \in DOMAIN req, req[r].pc = "misread"
             PROVE  LET x == req[r].msg IN
                    /\ x.port # "standard"
                    /\ \/ Bitmaps(x.frame.bits) > BitmapsRead(x.port, x.frame.bits)
                       \/ \E f \in Foreign(x.port, x.frame), g \in ReadFields(x.port, x.frame) : f < g
  BY DEF MisreadCause, In
<1> DEFINE x == req[r].msg
<1>1. Wire(x) /\ Parse(x.port, x.frame).is = "misread"
  BY DEF WayInv, Way, Read
<1>2. x.port \in {"standard", "interac", "ukfps"} /\ InOrder(x.frame)
  BY <1>1 DEF Wire
<1> HIDE DEF x
<1>3. /\ x.port # "standard"
      /\ \/ Bitmaps(x.frame.bits) > BitmapsRead(x.port, x.frame.bits)
         \/ \E f \in Foreign(x.port, x.frame), g \in ReadFields(x.port, x.frame) : f < g
  BY <1>1, <1>2, MisreadOutOfOrder
<1> QED
  BY <1>3 DEF x

\* What was sent arrives.
LEMMA WaySent ==
    ASSUME WayInv
    PROVE  BankSeesRequest
<1> SUFFICES ASSUME NEW r \in DOMAIN req, req[r].pc = "sent", NEW w \in Frames(req[r].e), ~Outgrown(r)
             PROVE  AtBank(w).is = "event" /\ to_pb(AtBank(w).event) = to_pb(req[r].e)
  BY DEF BankSeesRequest, In
<1> DEFINE e == Request(req[r].msg)
<1>1. req[r].e = Forwarded(e, EgressStan[r])
  BY DEF WayInv, Way
<1>2. IsEvent(e)
  BY Admitted
<1>3. ~Overlong(e, 2)
  BY DEF Outgrown
<1> HIDE DEF e
<1>4. IsEvent(Forwarded(e, EgressStan[r])) /\ Forwarded(e, EgressStan[r]).v[2] = e.v[2]
  BY <1>2, ForwardedEvent DEF Fields
<1>5. ~Overlong(Forwarded(e, EgressStan[r]), 2)
  BY <1>3, <1>4 DEF Overlong
<1> QED
  BY <1>1, <1>4, <1>5, FramesArrive

-----------------------------------------------------------------------------
(* The NAT table *)

\* A request goes on: nobody's message changes, and nobody but it comes to be under
\* way.
LEMMA OnTheWay ==
    ASSUME WayInv, NEW r \in DOMAIN req, NEW h, req' = [req EXCEPT ![r] = h],
           h.msg = req[r].msg, r \in Underway => h.pc \notin {"new", "read", "admitted", "gone"}
    PROVE  /\ DOMAIN req' = DOMAIN req /\ req'[r] = h
           /\ \A q \in DOMAIN req \ {r} : req'[q] = req[q]
           /\ \A q \in DOMAIN req : req'[q].msg = req[q].msg /\ WireStan(q)' = WireStan(q)
           /\ Underway \subseteq Underway'
           /\ h.pc \notin {"new", "read", "admitted", "gone"} /\ Admits(h.msg) => r \in Underway'
<1>1. req = [q \in DOMAIN req |-> req[q]]
  BY DEF WayInv
<1>2. DOMAIN req' = DOMAIN req /\ req'[r] = h /\ \A q \in DOMAIN req \ {r} : req'[q] = req[q]
  BY <1>1
<1>3. \A q \in DOMAIN req : req'[q].msg = req[q].msg
  BY <1>2
<1>4. \A q \in DOMAIN req : WireStan(q)' = WireStan(q)
  BY <1>3 DEF WireStan
<1>5. Underway \subseteq Underway'
  BY <1>2, <1>3 DEF Underway
<1>6. h.pc \notin {"new", "read", "admitted", "gone"} /\ Admits(h.msg) => r \in Underway'
  BY <1>2 DEF Underway
<1> QED
  BY <1>2, <1>3, <1>4, <1>5, <1>6

\* What a request is that has gone on.
LEMMA HolderOf ==
    ASSUME NEW pc, NEW x, NEW e, NEW p
    PROVE  Holder(pc, x, e, p).pc = pc /\ Holder(pc, x, e, p).msg = x
BY DEF Holder

\* The STAN that a request bears upstream.
LEMMA WireStanOf ==
    ASSUME NEW r, IsEvent(Request(req[r].msg))
    PROVE  WireStan(r) = IF Secured(Request(req[r].msg)) THEN Request(req[r].msg).v[11]
                         ELSE EgressStan[r]
BY ForwardedEvent DEF WireStan

\* A step of request r changes the table at most under the STAN that r bears, and
\* only when r is under way.
LEMMA NatStep ==
    ASSUME NatInv, WayInv, NEW r \in DOMAIN req, NEW h, req' = [req EXCEPT ![r] = h],
           h.msg = req[r].msg, r \in Underway => h.pc \notin {"new", "read", "admitted", "gone"},
           nat' = [s \in DOMAIN nat' |-> nat'[s]],
           nat' # nat =>
              /\ r \in Underway'
              /\ \A s : s # WireStan(r) => (s \in DOMAIN nat' <=> s \in DOMAIN nat)
              /\ \A s \in DOMAIN nat \ {WireStan(r)} : nat'[s] = nat[s]
              /\ WireStan(r) \in DOMAIN nat' => Entered(r, WireStan(r)) \/ WireStan(r) \in DOMAIN nat,
           h.pc \in {"sent", "replied"} =>
              \/ Shares(r)'
              \/ (IF WireStan(r) \in DOMAIN nat' THEN nat'[WireStan(r)] ELSE WireStan(r))
                    = Request(req[r].msg).v[11]
    PROVE  NatInv'
<1>1. /\ DOMAIN req' = DOMAIN req /\ req'[r] = h
      /\ \A q \in DOMAIN req \ {r} : req'[q] = req[q]
      /\ \A q \in DOMAIN req : req'[q].msg = req[q].msg /\ WireStan(q)' = WireStan(q)
      /\ Underway \subseteq Underway'
  BY OnTheWay
<1>2. \A q \in DOMAIN req : \A s : Entered(q, s)' <=> Entered(q, s)
  BY <1>1 DEF Entered
<1>3. ASSUME NEW s \in DOMAIN nat' PROVE \E q \in Underway' : Entered(q, s)'
  <2>1. CASE s \in DOMAIN nat
    <3>1. PICK q \in Underway : Entered(q, s)
      BY <2>1 DEF NatInv
    <3>2. q \in DOMAIN req
      BY DEF Underway
    <3> QED
      BY <1>1, <1>2, <3>1, <3>2
  <2>2. CASE s \notin DOMAIN nat
    <3>1. s = WireStan(r) /\ Entered(r, s) /\ r \in Underway'
      BY <1>3, <2>2
    <3> QED
      BY <1>2, <3>1
  <2> QED
    BY <2>1, <2>2
<1>4. ASSUME NEW q \in DOMAIN req, req'[q].pc \in {"sent", "replied"}, ~Shares(q)'
      PROVE  LET s == WireStan(q)' IN
             (IF s \in DOMAIN nat' THEN nat'[s] ELSE s) = Request(req'[q].msg).v[11]
  <2>1. CASE q = r
    BY <1>1, <1>4, <2>1
  <2>2. CASE q # r
    <3>1. req'[q] = req[q] /\ WireStan(q)' = WireStan(q)
      BY <1>1, <2>2
    <3>2. ~Shares(q)
      BY <1>1, <1>4 DEF Shares, Underway
    <3>3. (IF WireStan(q) \in DOMAIN nat THEN nat[WireStan(q)] ELSE WireStan(q))
            = Request(req[q].msg).v[11]
      BY <1>4, <3>1, <3>2 DEF NatInv, In
    <3>4. nat' # nat => WireStan(q) # WireStan(r)
      <4>1. nat' # nat => r \in Underway' \ {q}
        BY <2>2
      <4>2. r \in Underway' \ {q} => WireStan(r)' # WireStan(q)'
        BY <1>4 DEF Shares
      <4> QED
        BY <1>1, <4>1, <4>2
    <3>5. /\ WireStan(q) \in DOMAIN nat' <=> WireStan(q) \in DOMAIN nat
          /\ WireStan(q) \in DOMAIN nat => nat'[WireStan(q)] = nat[WireStan(q)]
      BY <3>4
    <3> QED
      BY <3>1, <3>3, <3>5
  <2> QED
    BY <2>1, <2>2
<1> QED
  BY <1>1, <1>3, <1>4 DEF NatInv, In

\* What the two changes of the table do.
LEMMA NatChange ==
    ASSUME NatInv, NEW s, NEW x, nat' \in {Mapped(s, x), Unmapped(s)}
    PROVE  /\ nat' = [y \in DOMAIN nat' |-> nat'[y]]
           /\ \A y : y # s => (y \in DOMAIN nat' <=> y \in DOMAIN nat)
           /\ \A y \in DOMAIN nat \ {s} : nat'[y] = nat[y]
           /\ nat' = Mapped(s, x) => s \in DOMAIN nat' /\ nat'[s] = x
           /\ nat' = Unmapped(s) => s \notin DOMAIN nat'
<1>1. CASE nat' = Mapped(s, x)
  <2>1. DOMAIN nat' = DOMAIN nat \cup {s}
    BY <1>1 DEF Mapped
  <2>2. \A y \in DOMAIN nat \cup {s} : nat'[y] = IF y = s THEN x ELSE nat[y]
    BY <1>1 DEF Mapped
  <2>3. nat' = [y \in DOMAIN nat' |-> nat'[y]]
    BY <1>1 DEF Mapped
  <2>4. nat' # Unmapped(s)
    BY <2>1 DEF Unmapped
  <2> QED
    BY <2>1, <2>2, <2>3, <2>4
<1>2. CASE nat' = Unmapped(s)
  <2>1. DOMAIN nat' = DOMAIN nat \ {s} /\ nat' = [y \in DOMAIN nat' |-> nat'[y]]
    BY <1>2 DEF Unmapped
  <2>2. \A y \in DOMAIN nat \ {s} : nat'[y] = nat[y]
    BY <1>2 DEF Unmapped
  <2>3. nat' # Mapped(s, x)
    BY <2>1 DEF Mapped
  <2> QED
    BY <2>1, <2>2, <2>3
<1> QED
  BY <1>1, <1>2

\* A step of a request that leaves the table alone.
LEMMA NatAlone ==
    ASSUME NatInv, WayInv, NEW r \in DOMAIN req, NEW pc, NEW e, Go(r, pc, e), UNCHANGED nat,
           r \in Underway => pc \notin {"new", "read", "admitted", "gone"},
           pc \in {"sent", "replied"} => req[r].pc \in {"sent", "replied"}
    PROVE  NatInv'
<1> DEFINE h == Holder(pc, req[r].msg, e, NoProfile)
<1>1. h.pc = pc /\ h.msg = req[r].msg /\ req' = [req EXCEPT ![r] = h]
  BY DEF Holder, Go
<1> HIDE DEF h
<1>2. /\ \A q \in DOMAIN req : WireStan(q)' = WireStan(q)
      /\ Underway \subseteq Underway'
  BY <1>1, OnTheWay
<1>3. Shares(r) => Shares(r)'
  BY <1>2 DEF Shares, Underway
<1>4. h.pc \in {"sent", "replied"} =>
         \/ Shares(r)'
         \/ (IF WireStan(r) \in DOMAIN nat' THEN nat'[WireStan(r)] ELSE WireStan(r))
               = Request(req[r].msg).v[11]
  BY <1>1, <1>3 DEF NatInv, In
<1>5. nat' = [s \in DOMAIN nat' |-> nat'[s]] /\ nat' = nat
  BY DEF NatInv
<1> QED
  BY <1>1, <1>4, <1>5, NatStep

\* The worker's entry, or the HSM task's lack of one.
LEMMA NatForward ==
    ASSUME NatInv, WayInv, NEW r \in DOMAIN req, Forward(r) \/ StandInRead(r)
    PROVE  NatInv'
<1> DEFINE x == req[r].msg
           e == Request(x)
<1>1. PICK h : /\ req' = [req EXCEPT ![r] = h] /\ h.msg = x
               /\ h.pc \in {"sent", "standin"}
  <2>1. CASE Forward(r)
    <3> DEFINE h == Holder("sent", x, Forwarded(req[r].e, EgressStan[r]), NoProfile)
    <3>1. req' = [req EXCEPT ![r] = h]
      BY <2>1 DEF Forward, Go
    <3>2. h.pc = "sent" /\ h.msg = x
      BY HolderOf
    <3> HIDE DEF h
    <3> QED
      BY <3>1, <3>2
  <2>2. CASE StandInRead(r)
    <3>1. PICK e0, p : req' = [req EXCEPT ![r] = Holder("standin", x, e0, p)]
      BY <2>2 DEF StandInRead
    <3> DEFINE h == Holder("standin", x, e0, p)
    <3>2. h.pc = "standin" /\ h.msg = x /\ req' = [req EXCEPT ![r] = h]
      BY <3>1, HolderOf
    <3> HIDE DEF h
    <3> QED
      BY <3>2
  <2> QED
    BY <2>1, <2>2
<1>2. req[r].pc = "admitted" /\ req[r].e = e /\ NatEntry(r, e)
  BY DEF Forward, StandInRead, At, WayInv, Way
<1>3. Admits(x) /\ IsEvent(e)
  BY <1>2, Admitted DEF Admits
<1>4. WireStan(r) = IF Secured(e) THEN e.v[11] ELSE EgressStan[r]
  BY <1>3, WireStanOf
<1>5. r \in Underway' /\ r \notin Underway /\ Underway \subseteq Underway'
      /\ \A q \in DOMAIN req : WireStan(q)' = WireStan(q)
  BY <1>1, <1>2, <1>3, OnTheWay DEF Underway
<1> HIDE DEF x, e
<1>6. CASE Secured(e)
  <2>1. nat' = nat /\ nat' = [s \in DOMAIN nat' |-> nat'[s]]
    BY <1>2, <1>6 DEF NatEntry, NatInv
  <2>2. ASSUME WireStan(r) \in DOMAIN nat PROVE Shares(r)'
    <3>1. PICK q \in Underway : Entered(q, WireStan(r))
      BY <2>2 DEF NatInv
    <3>2. q \in DOMAIN req /\ q # r /\ req[q].pc \notin {"new", "read", "admitted", "gone"}
          /\ Admits(req[q].msg)
      BY <1>5 DEF Underway
    <3>3. IsEvent(Request(req[q].msg))
      BY <3>2, RequestEvent DEF Admits, WayInv, Way
    <3>4. WireStan(q) = WireStan(r)
      BY <3>1, <3>3, WireStanOf DEF Entered
    <3> QED
      BY <1>5, <3>2, <3>4 DEF Shares
  <2>3. \/ Shares(r)'
        \/ (IF WireStan(r) \in DOMAIN nat' THEN nat'[WireStan(r)] ELSE WireStan(r)) = e.v[11]
    BY <1>4, <1>6, <2>1, <2>2
  <2> QED
    BY <1>1, <1>5, <2>1, <2>3, NatStep DEF x, e
<1>7. CASE ~Secured(e)
  <2>1. nat' = Mapped(EgressStan[r], e.v[11])
    BY <1>2, <1>7 DEF NatEntry
  <2>2. WireStan(r) = EgressStan[r] /\ Entered(r, WireStan(r))
    BY <1>4, <1>7 DEF Entered, e, x
  <2>3. /\ nat' = [y \in DOMAIN nat' |-> nat'[y]]
        /\ \A y : y # WireStan(r) => (y \in DOMAIN nat' <=> y \in DOMAIN nat)
        /\ \A y \in DOMAIN nat \ {WireStan(r)} : nat'[y] = nat[y]
        /\ WireStan(r) \in DOMAIN nat' /\ nat'[WireStan(r)] = e.v[11]
    BY <2>1, <2>2, NatChange
  <2> QED
    BY <1>1, <1>5, <2>2, <2>3, NatStep DEF x, e
<1> QED
  BY <1>6, <1>7

\* The reply worker removes what is under the STAN its reply bears.
LEMMA NatDeliver ==
    ASSUME NatInv, WayInv, NEW r \in DOMAIN req, Deliver(r)
    PROVE  NatInv'
<1> DEFINE e == Request(req[r].msg)
<1>1. PICK h : /\ req' = [req EXCEPT ![r] = h] /\ h.msg = req[r].msg
               /\ h.pc \in {"answered", "astray"}
  BY HolderOf DEF Deliver, Go
<1>2. /\ req[r].pc = "replied" /\ nat' = Unmapped(req[r].e.v[11])
      /\ LET b == Presented(req[r].msg, EgressStan[r]) IN
         /\ b.is = "event" /\ BankResponse(b.event) # None
         /\ BankReply(b.event) = [is |-> "record", record |-> req[r].e]
  BY DEF Deliver, At, WayInv, Way
<1>3. Admits(req[r].msg) /\ IsEvent(e)
  BY <1>2, Admitted DEF Admits
<1>4. req[r].e.v[11] = WireStan(r)
  BY <1>2, <1>3, ReplyRecord DEF Presented, WireStan
<1>5. r \in Underway'
  BY <1>1, <1>3, OnTheWay
<1>6. /\ nat' = [y \in DOMAIN nat' |-> nat'[y]]
      /\ \A y : y # WireStan(r) => (y \in DOMAIN nat' <=> y \in DOMAIN nat)
      /\ \A y \in DOMAIN nat \ {WireStan(r)} : nat'[y] = nat[y]
      /\ WireStan(r) \notin DOMAIN nat'
  BY <1>2, <1>4, NatChange
<1> QED
  BY <1>1, <1>5, <1>6, NatStep

\* The reaper may remove its request's entry, or the worker make it after all.
LEMMA NatReap ==
    ASSUME NatInv, WayInv, NEW r \in DOMAIN req, Reap(r)
    PROVE  NatInv'
<1> DEFINE e == Request(req[r].msg)
<1>1. PICK h : req' = [req EXCEPT ![r] = h] /\ h.msg = req[r].msg /\ h.pc = "reaped"
  <2> DEFINE h == Holder("reaped", req[r].msg, TimeoutReply(to_pb(e)), NoProfile)
  <2>1. req' = [req EXCEPT ![r] = h]
    BY DEF Reap, Go
  <2>2. h.pc = "reaped" /\ h.msg = req[r].msg
    BY HolderOf
  <2> HIDE DEF h
  <2> QED
    BY <2>1, <2>2
<1>2. Admits(req[r].msg) /\ IsEvent(e)
  BY Admitted DEF Admits, Reap
<1>3. r \in Underway'
  BY <1>1, <1>2, OnTheWay
<1>4. CASE UNCHANGED nat
  <2>1. nat' = nat /\ nat' = [y \in DOMAIN nat' |-> nat'[y]]
    BY <1>4 DEF NatInv
  <2> QED
    BY <1>1, <2>1, NatStep
<1>5. CASE ~Secured(e) /\ nat' \in {Unmapped(EgressStan[r]), Mapped(EgressStan[r], e.v[11])}
  <2>1. WireStan(r) = EgressStan[r] /\ Entered(r, WireStan(r))
    BY <1>2, <1>5, WireStanOf DEF Entered
  <2>2. /\ nat' = [y \in DOMAIN nat' |-> nat'[y]]
        /\ \A y : y # WireStan(r) => (y \in DOMAIN nat' <=> y \in DOMAIN nat)
        /\ \A y \in DOMAIN nat \ {WireStan(r)} : nat'[y] = nat[y]
    <3>1. nat' \in {Mapped(EgressStan[r], e.v[11]), Unmapped(EgressStan[r])}
      BY <1>5
    <3> QED
      BY <2>1, <3>1, NatChange
  <2> QED
    BY <1>1, <1>3, <2>1, <2>2, NatStep
<1> QED
  BY <1>4, <1>5 DEF Reap

\* The steps of a request that have nothing to do with the table.
LEMMA NatOther ==
    ASSUME NatInv, WayInv, NEW r \in DOMAIN req,
           Receive(r) \/ ScreenRequest(r) \/ Refuse(r) \/ StandInWrite(r) \/ BankReplies(r)
    PROVE  NatInv'
<1>1. CASE Receive(r)
  <2>1. PICK pc, e : Go(r, pc, e) /\ pc \notin {"sent", "replied"}
    BY <1>1 DEF Receive, Read, Parse
  <2>2. r \notin Underway /\ UNCHANGED nat
    BY <1>1 DEF Receive, At, Underway, OnlyRequest
  <2> QED
    BY <2>1, <2>2, NatAlone
<1>2. CASE ScreenRequest(r)
  <2>1. PICK pc, e : Go(r, pc, e) /\ pc \notin {"sent", "replied"}
    BY <1>2 DEF ScreenRequest, Screen
  <2>2. r \notin Underway /\ UNCHANGED nat
    BY <1>2 DEF ScreenRequest, At, Underway, OnlyRequest
  <2> QED
    BY <2>1, <2>2, NatAlone
<1>3. CASE Refuse(r) \/ StandInWrite(r) \/ BankReplies(r)
  <2>1. PICK pc, e : /\ Go(r, pc, e) /\ pc \in {"answered", "stood", "replied"}
                     /\ pc = "replied" => req[r].pc = "sent"
    <3>1. CASE Refuse(r)
      BY <3>1 DEF Refuse
    <3>2. CASE StandInWrite(r)
      BY <3>2 DEF StandInWrite
    <3>3. CASE BankReplies(r)
      BY <3>3 DEF BankReplies, At
    <3> QED
      BY <1>3, <3>1, <3>2, <3>3
  <2>2. UNCHANGED nat
    BY <1>3 DEF Refuse, StandInWrite, BankReplies, OnlyRequest
  <2> QED
    BY <2>1, <2>2, NatAlone
<1> QED
  BY <1>1, <1>2, <1>3

\* A probe's reply removes what is under the probe's STAN.
LEMMA NatProbe ==
    ASSUME NatInv, NEW s \in ProbeStans, ProbeReply(s)
    PROVE  NatInv'
<1>1. nat' = Unmapped(s) /\ UNCHANGED req
  BY DEF ProbeReply
<1>2. /\ nat' = [y \in DOMAIN nat' |-> nat'[y]]
      /\ \A y : y # s => (y \in DOMAIN nat' <=> y \in DOMAIN nat)
      /\ \A y \in DOMAIN nat \ {s} : nat'[y] = nat[y]
      /\ s \notin DOMAIN nat'
  BY <1>1, NatChange
<1>3. /\ Underway' = Underway
      /\ \A r \in DOMAIN req : /\ WireStan(r)' = WireStan(r) /\ (Shares(r)' <=> Shares(r))
                               /\ \A y : Entered(r, y)' <=> Entered(r, y)
  BY <1>1 DEF Underway, WireStan, Shares, Entered
<1>4. ASSUME NEW y \in DOMAIN nat' PROVE \E r \in Underway' : Entered(r, y)'
  <2>1. y \in DOMAIN nat
    BY <1>2
  <2>2. PICK r \in Underway : Entered(r, y)
    BY <2>1 DEF NatInv
  <2> QED
    BY <1>3, <2>2 DEF Underway
<1>5. ASSUME NEW r \in DOMAIN req, req[r].pc \in {"sent", "replied"}, ~Shares(r)
      PROVE  (IF WireStan(r) \in DOMAIN nat' THEN nat'[WireStan(r)] ELSE WireStan(r))
                = Request(req[r].msg).v[11]
  <2>1. WireStan(r) # s
    BY <1>5 DEF Shares
  <2>2. (IF WireStan(r) \in DOMAIN nat THEN nat[WireStan(r)] ELSE WireStan(r))
           = Request(req[r].msg).v[11]
    BY <1>5 DEF NatInv, In
  <2> QED
    BY <1>2, <2>1, <2>2
<1> QED
  BY <1>1, <1>2, <1>3, <1>4, <1>5 DEF NatInv, In

\* Every step keeps the table as NatInv has it.
LEMMA NextNat ==
    ASSUME NatInv, WayInv, [Next]_vars
    PROVE  NatInv'
<1>1. ASSUME NEW r \in DOMAIN req, Step(r) PROVE NatInv'
  BY <1>1, NatOther, NatForward, NatDeliver, NatReap DEF Step
<1>2. CASE UNCHANGED <<nat, req>>
  BY <1>2 DEF NatInv, In, Underway, Entered, Shares, WireStan
<1>3. CASE Crash
  <2>1. nat' = [s \in {} |-> None]
    BY <1>3 DEF Crash
  <2>2. DOMAIN nat' = {} /\ nat' = [s \in DOMAIN nat' |-> nat'[s]]
    BY <2>1
  <2>3. \A r \in DOMAIN req' : req'[r].pc \notin {"sent", "replied"}
    BY <1>3 DEF Crash, Finished, Holder
  <2> QED
    BY <2>2, <2>3 DEF NatInv, In
<1>4. ASSUME NEW s \in ProbeStans, ProbeReply(s) PROVE NatInv'
  BY <1>4, NatProbe
<1> QED
  BY <1>1, <1>2, <1>3, <1>4 DEF Next, vars, StoreStep, PollerStep

\* At first the table is empty.
LEMMA InitNat ==
    ASSUME Init
    PROVE  NatInv
<1>1. PICK w \in Workloads :
        /\ nat = [s \in {} |-> None]
        /\ req = [r \in DOMAIN w.messages |-> Holder("new", w.messages[r], None, NoProfile)]
  BY DEF Init
<1>2. DOMAIN nat = {} /\ nat = [s \in DOMAIN nat |-> nat[s]]
  BY <1>1
<1>3. \A r \in DOMAIN req : req[r].pc = "new"
  BY <1>1 DEF Holder
<1> QED
  BY <1>2, <1>3 DEF NatInv, In

\* The reply's key is the request's, when nobody shares its STAN.
LEMMA WayReplied ==
    ASSUME WayInv, NatInv
    PROVE  ReplyFindsEntry
<1> SUFFICES ASSUME NEW r \in DOMAIN req, req[r].pc = "replied", ~Shares(r)
             PROVE  ReplyKey(req[r].e) = Key(Request(req[r].msg))
  BY DEF ReplyFindsEntry, In
<1> DEFINE e == Request(req[r].msg)
           p == req[r].e
           s == WireStan(r)
<1>1. LET b == Presented(req[r].msg, EgressStan[r]) IN
      /\ b.is = "event" /\ BankResponse(b.event) # None
      /\ BankReply(b.event) = [is |-> "record", record |-> p]
  BY DEF WayInv, Way
<1>2. IsEvent(e)
  BY Admitted
<1>3. p.v[37] = e.v[37] /\ p.v[32] = e.v[32] /\ p.v[11] = s
  BY <1>1, <1>2, ReplyRecord DEF Presented, WireStan
<1>4. (IF s \in DOMAIN nat THEN nat[s] ELSE s) = e.v[11]
  BY DEF NatInv, In
<1> HIDE DEF e, p, s
<1> QED
  BY <1>3, <1>4 DEF ReplyKey, Key, e, p

\* An answer fits the frame and the reader it goes to.
LEMMA WayAnswered ==
    ASSUME WayInv
    PROVE  AnswerReadable
<1> SUFFICES ASSUME NEW r \in DOMAIN req, req[r].pc \in {"answered", "reaped"}
             PROVE  LET x == req[r].msg
                        t == Parse(x.reader, Build(x.port, req[r].e))
                    IN  /\ t.is = "event"
                        /\ t.event.v[39] = req[r].e.v[39] /\ t.event.v[39] # None
                        /\ \A f \in {4, 37} : t.event.v[f] = Read(x).event.v[f]
  BY DEF AnswerReadable, In
<1> DEFINE x == req[r].msg
           o == Read(x).event
           a == req[r].e
           t == Parse(x.reader, Build(x.port, a))
<1>1. /\ Wire(x) /\ Read(x).is = "event"
      /\ IsEvent(a) /\ a.v[39] \in ResponseCodes /\ Keeps(o, a)
  BY DEF WayInv, Way
<1>2. /\ x.port \in {"standard", "interac", "ukfps"}
      /\ \A f \in Writes(x.port) : ~Overlong(o, f)
      /\ \/ x.reader = x.port
         \/ x.reader = "connex" /\ \A f \in {63, 102, 103} : o.v[f] = None
  BY <1>1 DEF Wire, Read
<1> HIDE DEF x, o, a
<1>3. \A f \in Setting(x.port, a) : ~Overlong(a, f)
  <2> SUFFICES ASSUME NEW f \in Writes(x.port), Overlong(a, f) PROVE FALSE
    BY DEF Setting
  <2>1. f \in {2, 102, 103} /\ a.v[f] # None /\ a.v[f].len > MaxLlvar /\ ~Overlong(o, f)
    BY <1>2 DEF Overlong
  <2>2. o.v[f] # None /\ a.v[f].len = o.v[f].len
    BY <1>1, <2>1 DEF Keeps
  <2> QED
    BY <2>1, <2>2 DEF Overlong
<1>4. x.reader # x.port => x.reader = "connex" /\ Setting(x.port, a) \cap {63, 102, 103} = {}
  <2> SUFFICES ASSUME x.reader # x.port, NEW f \in Setting(x.port, a), f \in {63, 102, 103}
               PROVE  FALSE
    BY <1>2
  <2>1. a.v[f] # None
    BY DEF Setting, Sets
  <2> QED
    BY <1>1, <1>2, <2>1 DEF Keeps
<1>5. x.port \in Dialects /\ x.reader \in Dialects
  BY <1>2 DEF Dialects
<1>6. t.is = "event" /\ \A f \in PbFields \ {2} : t.event.v[f] = a.v[f]
  BY <1>1, <1>3, <1>4, <1>5, FieldsBack
<1> HIDE DEF t
<1>7. \A f \in {4, 37, 39} : t.event.v[f] = a.v[f]
  BY <1>6 DEF PbFields
<1>8. \A f \in {4, 37} : t.event.v[f] = o.v[f]
  BY <1>1, <1>7 DEF Keeps
<1>9. t.event.v[39] = a.v[39] /\ t.event.v[39] # None
  BY <1>1, <1>7, WireAssumption
<1> QED
  BY <1>6, <1>8, <1>9 DEF x, o, a, t

\* The reversal arrives with the fields of the request.
LEMMA WayReaped ==
    ASSUME WayInv
    PROVE  ReversalMatchesRequest
<1> SUFFICES ASSUME NEW r \in DOMAIN req, req[r].pc = "reaped", ~Outgrown(r),
                    NEW w \in Frames(Reversal(to_pb(Request(req[r].msg))))
             PROVE  LET b == AtBank(Sent(Forwarded(Request(req[r].msg), EgressStan[r]))) IN
                    /\ AtBank(w).is = "event"
                    /\ AtBank(w).event.class = "ReversalAdvice"
                    /\ \A f \in {2, 4, 32, 37} : AtBank(w).event.v[f] = b.event.v[f]
  BY DEF ReversalMatchesRequest, In
<1> DEFINE e == Request(req[r].msg)
           z == Reversal(to_pb(e))
           b == AtBank(Sent(Forwarded(e, EgressStan[r])))
<1>1. IsEvent(e)
  BY Admitted
<1>2. ~Overlong(e, 2)
  BY DEF Outgrown
<1>3. w \in Frames(z)
  OBVIOUS
<1> HIDE DEF e
<1>4. IsEvent(z) /\ z.mti = "0420" /\ \A f \in PbFields : z.v[f] = e.v[f]
  <2> DEFINE p == [to_pb(e) EXCEPT !.mti = "0420"]
  <2>1. p.mti = "0420" /\ p.v[4] \in Nat /\ \A f \in PbFields : p.v[f] = e.v[f]
    BY <1>1, RecordOf
  <2>2. z = from_pb(p)
    BY DEF Reversal
  <2> HIDE DEF p, z
  <2> QED
    BY <2>1, <2>2, RecordEvent
<1>5. IsEvent(Forwarded(e, EgressStan[r])) /\ \A f \in {2, 4, 32, 37} : Forwarded(e, EgressStan[r]).v[f] = e.v[f]
  BY <1>1, ForwardedEvent DEF Fields
<1> HIDE DEF z
<1>6. ~Overlong(z, 2) /\ ~Overlong(Forwarded(e, EgressStan[r]), 2)
  BY <1>2, <1>4, <1>5 DEF Overlong, PbFields
<1>7. /\ AtBank(w).is = "event" /\ AtBank(w).event.class = MessageClass("0420")
      /\ \A f \in PbFields : AtBank(w).event.v[f] = e.v[f]
  BY <1>3, <1>4, <1>6, FramesArrive
<1>8. \A f \in PbFields : b.event.v[f] = Forwarded(e, EgressStan[r]).v[f]
  <2>1. Sent(Forwarded(e, EgressStan[r])) \in Frames(Forwarded(e, EgressStan[r]))
    BY DEF Frames
  <2> QED
    BY <1>5, <1>6, <2>1, FramesArrive
<1>9. MessageClass("0420") = "ReversalAdvice"
  BY DEF MessageClass
<1> HIDE DEF b
<1>10. \A f \in {2, 4, 32, 37} : AtBank(w).event.v[f] = b.event.v[f]
  BY <1>5, <1>7, <1>8 DEF PbFields
<1> QED
  BY <1>7, <1>9, <1>10 DEF e, b

\* For any messages whose fields are in the order of their bits (WireAssumption): a
\* request is, at every stage of the code, what the conversions and checks up to
\* there have made of its message, and its answer has its amount and RRN.
THEOREM WayInvariant == Spec => []WayInv
<1>1. Init => WayInv
  BY InitWay
<1>2. WayInv /\ [Next]_vars => WayInv'
  BY NextWay
<1> QED
  BY <1>1, <1>2, PTL DEF Spec

\* For any such messages: a frame is misread only by the Interac or the UK FPS
\* reader, behind a field they do not know or a bitmap they do not take
\* (dialects/interac.rs, dialects/ukfps.rs); the standard reader never misreads.
THEOREM MisreadSafety == Spec => []MisreadCause
BY WayInvariant, WayMisread, PTL

\* For any such messages and any vault, thresholds and keys: unless the PAN has
\* outgrown its prefix, the bank reads what was forwarded, sent at once or after
\* a stay in the SAF database (edge-egress/src/client.rs, iso-dialect).
THEOREM BankSafety == Spec => []BankSeesRequest
BY WayInvariant, WaySent, PTL

\* For any such messages, egress STANs and probes: the NAT table, which workers,
\* reply workers and reaper share, has only entries of requests that are or were
\* under way, and for a request that is alone with its STAN it has what leads back
\* to the terminal's.
THEOREM NatInvariant == Spec => []NatInv
<1>1. Init => NatInv
  BY InitNat
<1>2. WayInv /\ NatInv /\ [Next]_vars => NatInv'
  BY NextNat
<1> QED
  BY <1>1, <1>2, WayInvariant, PTL DEF Spec

\* For any such messages, egress STANs and probes: the key that a reply worker
\* computes from the bank's answer, after two dialects, the record and the shared NAT
\* table, is the one that the ingress worker inserted in the guard, unless another
\* request or a probe has borne the same STAN upstream (engine.rs).
THEOREM ReplySafety == Spec => []ReplyFindsEntry
BY WayInvariant, NatInvariant, WayReplied, PTL

\* For any such messages: whoever answers a request, its terminal reads the answer,
\* with a response code and the amount and RRN that it sent.
THEOREM AnswerSafety == Spec => []AnswerReadable
BY WayInvariant, WayAnswered, PTL

\* For any such messages: the reaper's 0420, sent at once or drained from the SAF
\* database, reaches the bank as a reversal of the card, amount, acquirer and RRN
\* that the bank read in the request, unless the PAN has outgrown its prefix.
THEOREM ReversalMessageSafety == Spec => []ReversalMatchesRequest
BY WayInvariant, WayReaped, PTL
=============================================================================

---------------------------- MODULE LedgerProofs ----------------------------
(***************************************************************************)
(* Proofs about Ledger, for every set of transactions, cards and fees,     *)
(* every batch size and channel capacity, every pattern of failing inserts *)
(* and commits, and wherever the worker dies.                              *)
(***************************************************************************)
EXTENDS Ledger, FiniteSetTheorems, TLAPS

(* What appending, taking the head and joining do to the members of a sequence. *)
LEMMA AppendMembers ==
  ASSUME NEW S, NEW s \in Seq(S), NEW x \in S
  PROVE  /\ Range(Append(s, x)) = Range(s) \cup {x}
         /\ IsInjective(s) /\ x \notin Range(s) => IsInjective(Append(s, x))
<1>1. /\ Len(s) \in Nat /\ DOMAIN s = 1 .. Len(s)
      /\ DOMAIN Append(s, x) = 1 .. Len(s) + 1
      /\ \A i \in 1 .. Len(s) : Append(s, x)[i] = s[i]
      /\ Append(s, x)[Len(s) + 1] = x
  OBVIOUS
<1>2. Range(Append(s, x)) = Range(s) \cup {x}
  <2>1. ASSUME NEW e \in Range(Append(s, x)) PROVE e \in Range(s) \cup {x}
    BY <1>1, <2>1 DEF Range
  <2>2. ASSUME NEW e \in Range(s) PROVE e \in Range(Append(s, x))
    <3>1. PICK i \in 1 .. Len(s) : e = s[i]
      BY <1>1, <2>2 DEF Range
    <3>2. i \in DOMAIN Append(s, x) /\ Append(s, x)[i] = e
      BY <1>1, <3>1
    <3> QED
      BY <3>2 DEF Range
  <2>3. x \in Range(Append(s, x))
    BY <1>1, Len(s) + 1 \in 1 .. Len(s) + 1 DEF Range
  <2> QED
    BY <2>1, <2>2, <2>3
<1>3. ASSUME IsInjective(s), x \notin Range(s)
      PROVE  IsInjective(Append(s, x))
  BY <1>1, <1>3 DEF IsInjective, Range
<1> QED
  BY <1>2, <1>3

(* Taking the head of a sequence without repetitions takes that one member. *)
LEMMA TailMembers ==
  ASSUME NEW S, NEW s \in Seq(S), s # <<>>, IsInjective(s)
  PROVE  /\ Head(s) \in Range(s) /\ Head(s) \in S
         /\ Range(Tail(s)) = Range(s) \ {Head(s)}
         /\ IsInjective(Tail(s))
<1>1. /\ Len(s) \in Nat /\ Len(s) > 0 /\ DOMAIN s = 1 .. Len(s)
      /\ DOMAIN Tail(s) = 1 .. Len(s) - 1
      /\ Head(s) = s[1]
  OBVIOUS
<1>2. \A i \in 1 .. Len(s) - 1 : Tail(s)[i] = s[i + 1] /\ i + 1 \in 1 .. Len(s)
  BY <1>1
<1>3. 1 \in 1 .. Len(s) /\ s[1] \in S
  BY <1>1
<1>4. ASSUME NEW e \in Range(Tail(s)) PROVE e \in Range(s) /\ e # Head(s)
  <2>1. PICK i \in 1 .. Len(s) - 1 : e = Tail(s)[i]
    BY <1>1, <1>4 DEF Range
  <2>2. e = s[i + 1] /\ i + 1 \in 1 .. Len(s) /\ i + 1 # 1
    BY <1>1, <1>2, <2>1
  <2> QED
    BY <1>1, <1>3, <2>2 DEF Range, IsInjective
<1>5. ASSUME NEW e \in Range(s), e # Head(s) PROVE e \in Range(Tail(s))
  <2>1. PICK j \in 1 .. Len(s) : e = s[j]
    BY <1>1, <1>5 DEF Range
  <2>2. j - 1 \in 1 .. Len(s) - 1 /\ (j - 1) + 1 = j
    BY <1>1, <1>5, <2>1
  <2>3. Tail(s)[j - 1] = e
    BY <1>2, <2>1, <2>2
  <2> QED
    BY <1>1, <2>2, <2>3 DEF Range
<1>6. IsInjective(Tail(s))
  <2> SUFFICES ASSUME NEW i \in 1 .. Len(s) - 1, NEW j \in 1 .. Len(s) - 1, Tail(s)[i] = Tail(s)[j]
               PROVE  i = j
    BY <1>1 DEF IsInjective
  <2>1. i + 1 = j + 1
    BY <1>1, <1>2 DEF IsInjective
  <2> QED
    BY <2>1
<1> QED
  BY <1>1, <1>3, <1>4, <1>5, <1>6 DEF Range

(* Joining disjoint sequences without repetitions repeats nothing. *)
LEMMA JoinMembers ==
  ASSUME NEW S, NEW s \in Seq(S), NEW t \in Seq(S)
  PROVE  /\ Range(s \o t) = Range(s) \cup Range(t)
         /\ IsInjective(s) /\ IsInjective(t) /\ Range(s) \cap Range(t) = {} => IsInjective(s \o t)
<1>1. /\ Len(s) \in Nat /\ Len(t) \in Nat /\ DOMAIN s = 1 .. Len(s) /\ DOMAIN t = 1 .. Len(t)
      /\ DOMAIN (s \o t) = 1 .. Len(s) + Len(t)
      /\ \A i \in 1 .. Len(s) : (s \o t)[i] = s[i]
  OBVIOUS
<1>2. \A i \in 1 .. Len(t) : (s \o t)[Len(s) + i] = t[i] /\ Len(s) + i \in 1 .. Len(s) + Len(t)
  BY <1>1
<1>3. ASSUME NEW k \in 1 .. Len(s) + Len(t)
      PROVE  \/ k \in 1 .. Len(s) /\ (s \o t)[k] = s[k]
             \/ k - Len(s) \in 1 .. Len(t) /\ (s \o t)[k] = t[k - Len(s)]
  BY <1>1
<1>4. ASSUME NEW e \in Range(s \o t) PROVE e \in Range(s) \cup Range(t)
  <2>1. PICK k \in 1 .. Len(s) + Len(t) : e = (s \o t)[k]
    BY <1>1, <1>4 DEF Range
  <2> QED
    BY <1>1, <1>3, <2>1 DEF Range
<1>5. ASSUME NEW e \in Range(s) PROVE e \in Range(s \o t)
  <2>1. PICK k \in 1 .. Len(s) : e = s[k]
    BY <1>1, <1>5 DEF Range
  <2>2. k \in 1 .. Len(s) + Len(t)
    BY <1>1
  <2> QED
    BY <1>1, <2>1, <2>2 DEF Range
<1>6. ASSUME NEW e \in Range(t) PROVE e \in Range(s \o t)
  BY <1>1, <1>2, <1>6 DEF Range
<1>7. ASSUME IsInjective(s), IsInjective(t), Range(s) \cap Range(t) = {}
      PROVE  IsInjective(s \o t)
  <2> SUFFICES ASSUME NEW j \in 1 .. Len(s) + Len(t), NEW k \in 1 .. Len(s) + Len(t),
                      (s \o t)[j] = (s \o t)[k]
               PROVE  j = k
    BY <1>1 DEF IsInjective
  <2>1. CASE j \in 1 .. Len(s) /\ k \in 1 .. Len(s)
    BY <1>1, <1>7, <2>1 DEF IsInjective
  <2>2. CASE j - Len(s) \in 1 .. Len(t) /\ k - Len(s) \in 1 .. Len(t)
    <3>1. t[j - Len(s)] = t[k - Len(s)]
      BY <1>1, <1>3, <2>2
    <3>2. j - Len(s) = k - Len(s)
      BY <1>1, <1>7, <2>2, <3>1 DEF IsInjective
    <3> QED
      BY <1>1, <3>2
  <2>3. CASE j \in 1 .. Len(s) /\ k - Len(s) \in 1 .. Len(t)
    <3>1. s[j] = t[k - Len(s)]
      BY <1>1, <1>3, <2>3
    <3> QED
      BY <1>1, <1>7, <2>3, <3>1 DEF Range
  <2>4. CASE k \in 1 .. Len(s) /\ j - Len(s) \in 1 .. Len(t)
    <3>1. s[k] = t[j - Len(s)]
      BY <1>1, <1>3, <2>4
    <3> QED
      BY <1>1, <1>7, <2>4, <3>1 DEF Range
  <2> QED
    BY <1>3, <2>1, <2>2, <2>3, <2>4
<1> QED
  BY <1>4, <1>5, <1>6, <1>7

(* The empty sequence has no member. *)
LEMMA EmptyMembers ==
  Range(<<>>) = {} /\ IsInjective(<<>>) /\ EventsOf(<<>>) = <<>>
<1>1. DOMAIN <<>> = {} /\ Len(<<>>) = 0
  OBVIOUS
<1> QED
  BY <1>1 DEF Range, IsInjective, EventsOf

(* The events of rows follow the rows. *)
LEMMA EventsOfRows ==
  ASSUME NEW rows \in Seq(Row)
  PROVE  EventsOf(rows) \in Seq(Events)
<1>1. Len(rows) \in Nat /\ \A i \in 1 .. Len(rows) : rows[i] \in Row
  OBVIOUS
<1>2. \A r \in Row : r.event \in Events
  BY DEF Row
<1> QED
  BY <1>1, <1>2 DEF EventsOf

(* A row appended appends its event. *)
LEMMA EventsOfAppend ==
  ASSUME NEW rows \in Seq(Row), NEW r \in Row
  PROVE  EventsOf(Append(rows, r)) = Append(EventsOf(rows), r.event)
<1>1. EventsOf(rows) \in Seq(Events) /\ Len(EventsOf(rows)) = Len(rows) /\ Len(rows) \in Nat
  BY EventsOfRows DEF EventsOf
<1>2. DOMAIN EventsOf(Append(rows, r)) = 1 .. Len(rows) + 1 /\ DOMAIN Append(EventsOf(rows), r.event) = 1 .. Len(rows) + 1
  BY <1>1 DEF EventsOf
<1>3. ASSUME NEW i \in 1 .. Len(rows) + 1
      PROVE  EventsOf(Append(rows, r))[i] = Append(EventsOf(rows), r.event)[i]
  BY <1>1 DEF EventsOf
<1>4. EventsOf(Append(rows, r)) \in Seq(Events) /\ Append(EventsOf(rows), r.event) \in Seq(Events)
  <2>1. Append(rows, r) \in Seq(Row) /\ r.event \in Events
    BY DEF Row
  <2>2. EventsOf(Append(rows, r)) \in Seq(Events)
    BY <2>1, EventsOfRows
  <2> QED
    BY <1>1, <2>1, <2>2
<1> QED
  BY <1>2, <1>3, <1>4

(* Joined rows have joined events. *)
LEMMA EventsOfJoin ==
  ASSUME NEW s \in Seq(Row), NEW t \in Seq(Row)
  PROVE  EventsOf(s \o t) = EventsOf(s) \o EventsOf(t)
<1>1. /\ EventsOf(s) \in Seq(Events) /\ Len(EventsOf(s)) = Len(s) /\ Len(s) \in Nat
      /\ EventsOf(t) \in Seq(Events) /\ Len(EventsOf(t)) = Len(t) /\ Len(t) \in Nat
  BY EventsOfRows DEF EventsOf
<1>2. /\ DOMAIN EventsOf(s \o t) = 1 .. Len(s) + Len(t)
      /\ DOMAIN (EventsOf(s) \o EventsOf(t)) = 1 .. Len(s) + Len(t)
  BY <1>1 DEF EventsOf
<1>3. ASSUME NEW i \in 1 .. Len(s) + Len(t)
      PROVE  EventsOf(s \o t)[i] = (EventsOf(s) \o EventsOf(t))[i]
  BY <1>1 DEF EventsOf
<1>4. EventsOf(s \o t) \in Seq(Events) /\ EventsOf(s) \o EventsOf(t) \in Seq(Events)
  <2>1. s \o t \in Seq(Row)
    OBVIOUS
  <2>2. EventsOf(s \o t) \in Seq(Events)
    BY <2>1, EventsOfRows
  <2> QED
    BY <1>1, <2>2
<1> QED
  BY <1>2, <1>3, <1>4, SMTT(30)

(* A settlement changes nothing but the status of rows. *)
LEMMA SettledRows ==
  ASSUME NEW rows \in Seq(Row), NEW n
  PROVE  /\ Settled(rows, n) \in Seq(Row) /\ Len(Settled(rows, n)) = Len(rows)
         /\ EventsOf(Settled(rows, n)) = EventsOf(rows)
         /\ \A i \in 1 .. Len(rows) :
               /\ Settled(rows, n)[i].event = rows[i].event
               /\ Settled(rows, n)[i].principal = rows[i].principal
               /\ Settled(rows, n)[i].fee = rows[i].fee
               /\ Settled(rows, n)[i].epoch = rows[i].epoch
<1>1. Len(rows) \in Nat /\ \A i \in 1 .. Len(rows) : rows[i] \in Row
  OBVIOUS
<1>2. \A r \in Row : /\ [r EXCEPT !.status = "settled"] \in Row
                     /\ [r EXCEPT !.status = "settled"].event = r.event
                     /\ [r EXCEPT !.status = "settled"].principal = r.principal
                     /\ [r EXCEPT !.status = "settled"].fee = r.fee
                     /\ [r EXCEPT !.status = "settled"].epoch = r.epoch
  BY DEF Row
<1>3. Settled(rows, n) \in Seq(Row) /\ Len(Settled(rows, n)) = Len(rows)
  BY <1>1, <1>2 DEF Settled
<1>4. \A i \in 1 .. Len(rows) :
               /\ Settled(rows, n)[i].event = rows[i].event
               /\ Settled(rows, n)[i].principal = rows[i].principal
               /\ Settled(rows, n)[i].fee = rows[i].fee
               /\ Settled(rows, n)[i].epoch = rows[i].epoch
  BY <1>1, <1>2 DEF Settled
<1>5. EventsOf(Settled(rows, n)) = EventsOf(rows)
  BY <1>3, <1>4 DEF EventsOf
<1> QED
  BY <1>3, <1>4, <1>5
-----------------------------------------------------------------------------
(* Types, and the size of the batch. *)

(* A message has a card and an amount. *)
LEMMA MessageType ==
  ASSUME NEW e \in Events
  PROVE  /\ e.tx \in Captures /\ e.msg \in Messages
         /\ Card[e.msg] \in Cards /\ Amount[e.msg] \in Amounts /\ Amount[e.msg] \in Nat
         /\ ~is_reversal(e) => e.msg = e.tx
<1>1. e \in [tx : Captures, msg : Messages] /\ (e.msg \in Reversals \/ e.msg = e.tx)
  BY DEF Events
<1>2. e.tx \in Captures /\ e.msg \in Messages
  BY <1>1
<1> QED
  BY <1>1, <1>2, MessageAssumption DEF is_reversal

(* Fees are integers, and the row of an event is a row. *)
LEMMA RowForType ==
  ASSUME TypeOK, NEW e \in Events
  PROVE  /\ FeeOf(e.msg) \in Int
         /\ BookedFee(e).fee \in Int /\ BookedFee(e).principal \in Int
         /\ RowFor(e) \in Row /\ RowFor(e).event = e
         /\ RowFor(e).fee = BookedFee(e).fee /\ RowFor(e).principal = BookedFee(e).principal
         /\ RowFor(e).epoch = epoch
<1>1. Card[e.msg] \in Cards /\ Amount[e.msg] \in Amounts /\ Amount[e.msg] \in Nat
  BY MessageType
<1>2. RuleOf(Card[e.msg]) \in Rules \cup {NoRule}
  <2>1. Bin[Card[e.msg]] \in RuleKeys /\ Default \in RuleKeys
    BY <1>1, FeeAssumption DEF RuleKeys
  <2> QED
    BY <2>1 DEF RuleOf, TypeOK, FeeType
<1>3. FeeOf(e.msg) \in Int
  BY <1>1, <1>2, FeeAssumption DEF FeeOf
<1>4. BookedFee(e).fee \in Int /\ BookedFee(e).principal \in Int
  BY <1>1, <1>3 DEF BookedFee
<1> HIDE DEF BookedFee
<1>5. /\ RowFor(e) \in Row /\ RowFor(e).event = e
      /\ RowFor(e).fee = BookedFee(e).fee /\ RowFor(e).principal = BookedFee(e).principal
      /\ RowFor(e).epoch = epoch
  BY <1>4 DEF RowFor, Row, TypeOK, FeeType
<1> QED
  BY <1>3, <1>4, <1>5

(* Events the engine sends are events. *)
LEMMA EmitType ==
  ASSUME TypeOK, NEW e \in Events, Emit(e)
  PROVE  chan' \in Seq(Events) /\ Len(chan') <= ChanCap /\ lost' \subseteq Events
<1>1. chan \in Seq(Events) /\ Len(chan) <= ChanCap /\ lost \subseteq Events
  BY DEF TypeOK, EngineType, WorkerType
<1> QED
  BY <1>1, SizeAssumption DEF Emit

(* A capture is an event. *)
LEMMA CaptureShape ==
  ASSUME NEW c \in Captures
  PROVE  [tx |-> c, msg |-> c] \in Events /\ ~is_reversal([tx |-> c, msg |-> c])
  BY MessageAssumption DEF Events, Messages, is_reversal

(* So is a reversal of each transaction it names. *)
LEMMA ReversalShape ==
  ASSUME NEW c \in Captures, NEW m \in Reversals
  PROVE  [tx |-> c, msg |-> m] \in Events /\ is_reversal([tx |-> c, msg |-> m])
  BY DEF Events, Messages, is_reversal

(* Initially nothing was sent and nothing is booked. *)
LEMMA InitLedgerInv == Init => LedgerInv
<1> SUFFICES ASSUME Init PROVE LedgerInv
  OBVIOUS
<1>1. TypeOK
  <2>1. EngineType /\ FeeType
    <3>1. chan = <<>> /\ Len(<<>>) = 0 /\ <<>> \in Seq(Events)
      BY DEF Init
    <3> QED
      BY <3>1, SizeAssumption DEF Init, EngineType, FeeType
  <2>2. WorkerType
    BY SizeAssumption DEF Init, WorkerType
  <2>3. due \in BOOLEAN
    BY DEF Init
  <2> QED
    BY <2>1, <2>2, <2>3 DEF TypeOK
<1>2. BatchInv
  BY SizeAssumption DEF Init, BatchInv
<1>3. OnceInv
  BY EmptyMembers DEF Init, OnceInv
<1>4. FeeInv
  BY EmptyMembers DEF Init, FeeInv, Rows
<1> QED
  BY <1>1, <1>2, <1>3, <1>4 DEF LedgerInv

(* The engine's state keeps its type. *)
LEMMA EngineTypeStep ==
  ASSUME TypeOK, [Next]_vars
  PROVE  EngineType'
<1>0. EngineType
  BY DEF TypeOK
<1>1. ASSUME NEW c \in Captures,
             \/ Admit(c) \/ Evict(c) \/ HsmForward(c)
             \/ \E end \in {"answered", "timeout"} : Complete(c, end)
      PROVE  EngineType'
  BY <1>0, <1>1 DEF EngineType, Admit, Evict, HsmForward, Complete
<1>2. ASSUME NEW c \in Captures, Forward(c)
      PROVE  EngineType'
  <2>1. chan' \in Seq(Events) /\ Len(chan') <= ChanCap
    BY <1>2, CaptureShape, EmitType DEF Forward
  <2> QED
    BY <1>0, <1>2, <2>1 DEF EngineType, Forward
<1>3. ASSUME NEW c \in Captures, NEW m \in Reversals, TerminalReversal(m, c)
      PROVE  EngineType'
  <2>1. chan' \in Seq(Events) /\ Len(chan') <= ChanCap
    BY <1>3, ReversalShape, EmitType DEF TerminalReversal
  <2> QED
    BY <1>0, <1>3, <2>1 DEF EngineType, TerminalReversal
<1>4. CASE Receive
  <2>1. chan # <<>> => Tail(chan) \in Seq(Events) /\ Len(Tail(chan)) <= ChanCap
    BY <1>0, SizeAssumption DEF EngineType
  <2> QED
    BY <1>0, <1>4, <2>1 DEF EngineType, Receive, engVars
<1>5. CASE \/ \E ok \in BOOLEAN : Check(ok) \/ InsertRow(ok) \/ Commit(ok)
           \/ Tick
           \/ \E k \in RuleKeys : PollRule(k) \/ \E f \in Rules \cup {NoRule} : EditRule(k, f)
           \/ \E n \in 1 .. Len(ledger) : Settle(n)
           \/ UNCHANGED vars
  <2>1. UNCHANGED <<life, guard, sent, named, chan>>
    BY <1>5 DEF Check, InsertRow, Commit, Tick, PollRule, EditRule, Settle, vars, engVars
  <2> QED
    BY <1>0, <2>1 DEF EngineType
<1>6. CASE PrepareFails \/ SliceFails
  <2>1. UNCHANGED <<life, guard, sent, named>> /\ chan' = <<>> /\ Len(<<>>) = 0
    BY <1>6 DEF PrepareFails, SliceFails, Die, engVars
  <2> QED
    BY <1>0, <2>1, SizeAssumption DEF EngineType
<1> QED
  BY <1>1, <1>2, <1>3, <1>4, <1>5, <1>6 DEF Next, WorkerStep

(* The steps that leave the worker's variables alone. *)
OtherStep ==
    \/ \E c \in Captures : \/ Admit(c) \/ Evict(c) \/ Forward(c) \/ HsmForward(c)
                           \/ \E m \in Reversals : TerminalReversal(m, c)
                           \/ \E end \in {"answered", "timeout"} : Complete(c, end)
    \/ \E k \in RuleKeys : PollRule(k) \/ \E f \in Rules \cup {NoRule} : EditRule(k, f)
    \/ UNCHANGED vars

(* Those steps change none of them but what is lost. *)
LEMMA OtherSteps ==
  ASSUME OtherStep
  PROVE  UNCHANGED <<wpc, buf, due, txn, ledger, errors>>
  BY DEF OtherStep, Admit, Evict, Forward, HsmForward, TerminalReversal, Complete, PollRule,
     EditRule, vars, workVars

(* The engine queues or loses the event it sends; nothing else but the worker does. *)
LEMMA EmitStep ==
  ASSUME OtherStep \/ Tick
  PROVE  \/ UNCHANGED <<chan, lost>>
         \/ \E c \in Captures : Forward(c) /\ Emit([tx |-> c, msg |-> c])
         \/ \E c \in Captures, m \in Reversals : TerminalReversal(m, c) /\ Emit([tx |-> c, msg |-> m])
<1>1. ASSUME \/ Tick \/ UNCHANGED vars
             \/ \E k \in RuleKeys : PollRule(k) \/ \E f \in Rules \cup {NoRule} : EditRule(k, f)
      PROVE  UNCHANGED <<chan, lost>>
  BY <1>1 DEF Tick, PollRule, EditRule, vars
<1>2. ASSUME NEW c \in Captures,
             \/ Admit(c) \/ Evict(c) \/ HsmForward(c)
             \/ \E end \in {"answered", "timeout"} : Complete(c, end)
      PROVE  UNCHANGED <<chan, lost>>
  BY <1>2 DEF Admit, Evict, HsmForward, Complete
<1>3. ASSUME NEW c \in Captures, Forward(c)
      PROVE  Emit([tx |-> c, msg |-> c])
  BY <1>3 DEF Forward
<1>4. ASSUME NEW c \in Captures, NEW m \in Reversals, TerminalReversal(m, c)
      PROVE  Emit([tx |-> c, msg |-> m])
  BY <1>4 DEF TerminalReversal
<1> QED
  BY <1>1, <1>2, <1>3, <1>4 DEF OtherStep

(* The worker's state keeps its type, and its batch its size. *)
LEMMA WorkerTypeStep ==
  ASSUME TypeOK, BatchInv, [Next]_vars
  PROVE  WorkerType' /\ BatchInv'
<1>0. WorkerType /\ EngineType /\ Batch \in Nat \ {0} /\ MaxErrors \in Nat
  BY SizeAssumption DEF TypeOK
<1>1. CASE OtherStep
  <2>1. lost' \subseteq Events
    BY <1>0, <1>1, EmitStep, EmitType, CaptureShape, ReversalShape DEF WorkerType
  <2> QED
    BY <1>0, <1>1, <2>1, OtherSteps DEF WorkerType, BatchInv
<1>2. CASE Receive
  <2>1. CASE chan = <<>>
    BY <1>0, <1>2, <2>1 DEF Receive, WorkerType, BatchInv
  <2>2. CASE chan # <<>>
    <3>1. chan \in Seq(Events) /\ buf \in Seq(Events) /\ Len(buf) < Batch
      BY <1>0, <1>2 DEF EngineType, WorkerType, BatchInv, Receive
    <3>2. /\ Append(buf, Head(chan)) \in Seq(Events) /\ Len(Append(buf, Head(chan))) <= Batch
      BY <1>0, <2>2, <3>1
    <3> QED
      BY <1>0, <1>2, <2>2, <3>2 DEF Receive, WorkerType, BatchInv
  <2> QED
    BY <2>1, <2>2
<1>3. ASSUME NEW ok \in BOOLEAN, Check(ok)
      PROVE  WorkerType' /\ BatchInv'
  <2>1. {buf[i] : i \in 1 .. Len(buf)} \subseteq Events /\ <<>> \in Seq(Events) /\ Len(<<>>) = 0
    BY <1>0 DEF WorkerType
  <2>2. CASE ok
    BY <1>0, <1>3, <2>2 DEF Check, FlushNow, WorkerType, BatchInv
  <2>3. CASE ~ok
    BY <1>0, <1>3, <2>1, <2>3 DEF Check, WorkerType, BatchInv
  <2> QED
    BY <2>2, <2>3
<1>4. ASSUME NEW ok \in BOOLEAN, InsertRow(ok)
      PROVE  WorkerType' /\ BatchInv'
  <2>1. buf \in Seq(Events) /\ buf # <<>> /\ Len(buf) <= Batch /\ txn \in Seq(Row)
    BY <1>0, <1>4 DEF InsertRow, WorkerType
  <2>2. Head(buf) \in Events /\ Tail(buf) \in Seq(Events) /\ Len(Tail(buf)) <= Batch
    BY <1>0, <2>1
  <2>3. Append(txn, RowFor(Head(buf))) \in Seq(Row)
    BY <2>1, <2>2, RowForType
  <2>4. CASE ok
    BY <1>0, <1>4, <2>2, <2>3, <2>4 DEF InsertRow, WorkerType, BatchInv
  <2>5. CASE ~ok
    BY <1>0, <1>4, <2>2, <2>5 DEF InsertRow, WorkerType, BatchInv
  <2> QED
    BY <2>4, <2>5
<1>5. ASSUME NEW ok \in BOOLEAN, Commit(ok)
      PROVE  WorkerType' /\ BatchInv'
  <2>1. txn \in Seq(Row) /\ ledger \in Seq(Row)
    BY <1>0 DEF WorkerType
  <2>2. ledger \o txn \in Seq(Row) /\ <<>> \in Seq(Row) /\ Len(<<>>) = 0
    BY <2>1
  <2>3. {txn[i].event : i \in 1 .. Len(txn)} \subseteq Events
    <3>1. \A i \in 1 .. Len(txn) : txn[i] \in Row
      BY <2>1
    <3> QED
      BY <3>1 DEF Row
  <2>4. CASE ok
    <3>1. /\ ledger' = ledger \o txn /\ txn' = <<>> /\ wpc' = "receive"
          /\ buf = <<>> /\ UNCHANGED <<buf, lost, errors>>
      BY <1>5, <2>4 DEF Commit
    <3> QED
      BY <1>0, <2>2, <3>1 DEF WorkerType, BatchInv
  <2>5. CASE ~ok
    BY <1>0, <1>5, <2>2, <2>3, <2>5 DEF Commit, WorkerType, BatchInv
  <2> QED
    BY <2>4, <2>5
<1>6. CASE Tick
  BY <1>0, <1>6 DEF Tick, WorkerType, BatchInv
<1>7. ASSUME NEW n \in 1 .. Len(ledger), Settle(n)
      PROVE  WorkerType' /\ BatchInv'
  <2>1. ledger' \in Seq(Row)
    BY <1>0, <1>7, SettledRows DEF Settle, WorkerType
  <2> QED
    BY <1>0, <1>7, <2>1 DEF Settle, WorkerType, BatchInv
<1>8. CASE PrepareFails \/ SliceFails
  <2>1. Die
    BY <1>8 DEF PrepareFails, SliceFails
  <2>2. /\ wpc' = "dead" /\ buf' = <<>> /\ txn' = <<>> /\ Len(<<>>) = 0 /\ UNCHANGED <<ledger, errors>>
        /\ lost' = lost \cup Range(chan) \cup Range(buf) \cup {txn[i].event : i \in 1 .. Len(txn)}
    BY <2>1 DEF Die
  <2>3. Range(chan) \subseteq Events /\ Range(buf) \subseteq Events
    BY <1>0 DEF EngineType, WorkerType, Range
  <2>4. {txn[i].event : i \in 1 .. Len(txn)} \subseteq Events
    <3>1. \A i \in 1 .. Len(txn) : txn[i] \in Row
      BY <1>0 DEF WorkerType
    <3> QED
      BY <3>1 DEF Row
  <2> QED
    BY <1>0, <2>2, <2>3, <2>4 DEF WorkerType, BatchInv
<1> QED
  BY <1>1, <1>2, <1>3, <1>4, <1>5, <1>6, <1>7, <1>8 DEF Next, WorkerStep, OtherStep

(* So do the clock and the fees. *)
LEMMA FeeTypeStep ==
  ASSUME TypeOK, [Next]_vars
  PROVE  due' \in BOOLEAN /\ FeeType'
<1>1. due' \in BOOLEAN
  <2>1. CASE OtherStep
    BY <2>1, OtherSteps DEF TypeOK
  <2>2. CASE WorkerStep \/ Tick \/ \E n \in 1 .. Len(ledger) : Settle(n)
    BY <2>2 DEF TypeOK, WorkerStep, Receive, PrepareFails, SliceFails, Die, Check, InsertRow, Commit,
       Tick, Settle
  <2> QED
    BY <2>1, <2>2 DEF Next, OtherStep
<1>2. FeeType
  BY DEF TypeOK
<1>3. ASSUME NEW k \in RuleKeys, PollRule(k)
      PROVE  FeeType'
  BY <1>2, <1>3 DEF PollRule, FeeType
<1>4. ASSUME NEW k \in RuleKeys, NEW f \in Rules \cup {NoRule}, EditRule(k, f)
      PROVE  FeeType'
  BY <1>2, <1>4, SizeAssumption DEF EditRule, FeeType
<1>5. CASE \/ \E c \in Captures : \/ Admit(c) \/ Evict(c) \/ Forward(c) \/ HsmForward(c)
                                  \/ \E m \in Reversals : TerminalReversal(m, c)
                                  \/ \E end \in {"answered", "timeout"} : Complete(c, end)
           \/ WorkerStep \/ Tick
           \/ \E n \in 1 .. Len(ledger) : Settle(n)
           \/ UNCHANGED vars
  <2>1. UNCHANGED <<rules, cache, epoch, edits>>
    <3>1. CASE WorkerStep \/ Tick \/ \E n \in 1 .. Len(ledger) : Settle(n)
      BY <3>1 DEF WorkerStep, Receive, PrepareFails, SliceFails, Die, Check, InsertRow, Commit, Tick,
         Settle, feeVars
    <3> QED
      BY <1>5, <3>1 DEF Admit, Evict, Forward, HsmForward, TerminalReversal, Complete, vars, feeVars
  <2>2. FeeType'
    BY <1>2, <2>1 DEF FeeType
  <2> QED
    BY <1>1, <2>2
<1> QED
  BY <1>1, <1>3, <1>4, <1>5 DEF Next

(* Every step preserves the types and the size of the batch. *)
LEMMA TypeStep ==
  ASSUME TypeOK, BatchInv, [Next]_vars
  PROVE  TypeOK' /\ BatchInv'
  BY EngineTypeStep, WorkerTypeStep, FeeTypeStep DEF TypeOK

-----------------------------------------------------------------------------
(* Every event that was sent is in one place. *)

(* An event the engine sends has not been sent before; a dead worker's is lost. *)
LEMMA EmittedStep ==
  ASSUME TypeOK, OtherStep \/ Tick
  PROVE  /\ Emitted \subseteq Emitted'
         /\ \/ UNCHANGED <<chan, lost>>
            \/ \E e \in Events : e \notin Emitted /\ e \in Emitted' /\ Emit(e)
<1>1. ASSUME NEW c \in Captures, Forward(c)
      PROVE  /\ Emitted \subseteq Emitted'
             /\ \E e \in Events : e \notin Emitted /\ e \in Emitted' /\ Emit(e)
  <2> DEFINE e == [tx |-> c, msg |-> c]
  <2>1. e \in Events /\ e.tx = c /\ ~is_reversal(e)
    BY CaptureShape
  <2>2. Emit(e) /\ c \notin sent /\ sent' = sent \cup {c} /\ named' = named
    BY <1>1 DEF Forward
  <2> HIDE DEF e
  <2>3. e \notin Emitted /\ e \in Emitted' /\ Emitted \subseteq Emitted'
    BY <2>1, <2>2 DEF Emitted, is_reversal
  <2> QED
    BY <2>1, <2>2, <2>3
<1>2. ASSUME NEW c \in Captures, NEW m \in Reversals, TerminalReversal(m, c)
      PROVE  /\ Emitted \subseteq Emitted'
             /\ \E e \in Events : e \notin Emitted /\ e \in Emitted' /\ Emit(e)
  <2> DEFINE e == [tx |-> c, msg |-> m]
  <2>1. e \in Events /\ e.tx = c /\ e.msg = m /\ is_reversal(e)
    BY ReversalShape
  <2>2. /\ Emit(e) /\ sent' = sent /\ c \notin named[m]
        /\ named \in [Reversals -> SUBSET Captures] /\ named' = [named EXCEPT ![m] = @ \cup {c}]
    BY <1>2 DEF TerminalReversal, TypeOK, EngineType
  <2> HIDE DEF e
  <2>3. named'[m] = named[m] \cup {c} /\ \A k \in Reversals : named[k] \subseteq named'[k]
    BY <2>2
  <2>4. e \notin Emitted /\ e \in Emitted' /\ Emitted \subseteq Emitted'
    BY <2>1, <2>2, <2>3 DEF Emitted, is_reversal
  <2> QED
    BY <2>1, <2>2, <2>4
<1>3. ASSUME NEW c \in Captures,
             \/ Admit(c) \/ Evict(c) \/ HsmForward(c)
             \/ \E end \in {"answered", "timeout"} : Complete(c, end)
      PROVE  Emitted \subseteq Emitted' /\ UNCHANGED <<chan, lost>>
  <2>1. UNCHANGED <<named, chan, lost>> /\ sent \subseteq sent'
    BY <1>3 DEF Admit, Evict, HsmForward, Complete
  <2> QED
    BY <2>1 DEF Emitted
<1>4. ASSUME \/ Tick \/ UNCHANGED vars
             \/ \E k \in RuleKeys : PollRule(k) \/ \E f \in Rules \cup {NoRule} : EditRule(k, f)
      PROVE  Emitted \subseteq Emitted' /\ UNCHANGED <<chan, lost>>
  <2>1. UNCHANGED <<named, sent, chan, lost>>
    BY <1>4 DEF Tick, PollRule, EditRule, vars, engVars
  <2> QED
    BY <2>1 DEF Emitted
<1> QED
  BY <1>1, <1>2, <1>3, <1>4 DEF OtherStep

(* An event that was sent stays in one place. *)
LEMMA OnceStep ==
  ASSUME TypeOK, OnceInv, [Next]_vars
  PROVE  OnceInv'
<1> DEFINE C == Range(chan)  B == Range(buf)  T == Range(EventsOf(txn))  L == Range(EventsOf(ledger))
<1>0. /\ chan \in Seq(Events) /\ buf \in Seq(Events) /\ txn \in Seq(Row) /\ ledger \in Seq(Row)
      /\ EventsOf(txn) \in Seq(Events) /\ EventsOf(ledger) \in Seq(Events)
  BY EventsOfRows DEF TypeOK, EngineType, WorkerType
<1>1. /\ IsInjective(chan) /\ IsInjective(buf)
      /\ IsInjective(EventsOf(txn)) /\ IsInjective(EventsOf(ledger))
      /\ C \cup B \cup T \cup L \cup lost \subseteq Emitted
      /\ C \cap (B \cup T \cup L \cup lost) = {} /\ B \cap (T \cup L \cup lost) = {}
      /\ T \cap (L \cup lost) = {} /\ L \cap lost = {}
  BY DEF OnceInv
<1>2. Emitted \subseteq Emitted'
  <2>1. CASE OtherStep \/ Tick
    BY <2>1, EmittedStep
  <2>2. CASE WorkerStep \/ \E n \in 1 .. Len(ledger) : Settle(n)
    <3>1. UNCHANGED <<named, sent>>
      BY <2>2 DEF WorkerStep, Receive, PrepareFails, SliceFails, Die, Check, InsertRow, Commit,
         Settle, engVars
    <3> QED
      BY <3>1 DEF Emitted
  <2> QED
    BY <2>1, <2>2 DEF Next, OtherStep
<1>3. CASE OtherStep \/ Tick
  <2>1. UNCHANGED <<buf, txn, ledger>>
    BY <1>3, OtherSteps DEF Tick
  <2>2. CASE UNCHANGED <<chan, lost>>
    BY <1>1, <1>2, <2>1, <2>2 DEF OnceInv
  <2>3. ASSUME NEW e \in Events, e \notin Emitted, e \in Emitted', Emit(e)
        PROVE  OnceInv'
    <3>1. e \notin C \cup B \cup T \cup L \cup lost
      BY <1>1, <2>3
    <3>2. CASE wpc = "dead"
      <4>1. lost' = lost \cup {e} /\ UNCHANGED chan
        BY <2>3, <3>2 DEF Emit
      <4> QED
        BY <1>1, <1>2, <2>1, <2>3, <3>1, <4>1 DEF OnceInv
    <3>3. CASE wpc # "dead"
      <4>1. chan' = Append(chan, e) /\ UNCHANGED lost
        BY <2>3, <3>3 DEF Emit
      <4>2. Range(chan') = C \cup {e} /\ IsInjective(chan')
        BY <1>0, <1>1, <3>1, <4>1, AppendMembers
      <4> QED
        BY <1>1, <1>2, <2>1, <2>3, <3>1, <4>1, <4>2 DEF OnceInv
    <3> QED
      BY <3>2, <3>3
  <2> QED
    BY <1>3, <2>2, <2>3, EmittedStep
<1>4. CASE Receive
  <2>1. CASE chan = <<>>
    BY <1>1, <1>2, <1>4, <2>1 DEF Receive, OnceInv
  <2>2. CASE chan # <<>>
    <3>1. /\ buf' = Append(buf, Head(chan)) /\ chan' = Tail(chan)
          /\ UNCHANGED <<txn, ledger, lost>>
      BY <1>4, <2>2 DEF Receive
    <3>2. /\ Head(chan) \in C /\ Head(chan) \in Events
          /\ Range(Tail(chan)) = C \ {Head(chan)} /\ IsInjective(Tail(chan))
      BY <1>0, <1>1, <2>2, TailMembers
    <3>3. Head(chan) \notin B
      BY <1>1, <3>2
    <3>4. /\ Range(Append(buf, Head(chan))) = B \cup {Head(chan)}
          /\ IsInjective(Append(buf, Head(chan)))
      BY <1>0, <1>1, <3>2, <3>3, AppendMembers
    <3> QED
      BY <1>1, <1>2, <3>1, <3>2, <3>4 DEF OnceInv
  <2> QED
    BY <2>1, <2>2
<1>5. ASSUME NEW ok \in BOOLEAN, Check(ok)
      PROVE  OnceInv'
  <2>1. UNCHANGED <<chan, txn, ledger>>
    BY <1>5 DEF Check
  <2>2. CASE ok
    <3>1. UNCHANGED <<buf, lost>>
      BY <1>5, <2>2 DEF Check
    <3> QED
      BY <1>1, <1>2, <2>1, <3>1 DEF OnceInv
  <2>3. CASE ~ok
    <3>1. lost' = lost \cup B /\ buf' = <<>>
      <4>1. {buf[i] : i \in 1 .. Len(buf)} = B
        BY <1>0 DEF Range
      <4> QED
        BY <1>5, <2>3, <4>1 DEF Check
    <3> QED
      BY <1>1, <1>2, <2>1, <3>1, EmptyMembers DEF OnceInv
  <2> QED
    BY <2>2, <2>3
<1>6. ASSUME NEW ok \in BOOLEAN, InsertRow(ok)
      PROVE  OnceInv'
  <2>1. /\ UNCHANGED <<chan, ledger>> /\ buf' = Tail(buf) /\ buf # <<>>
    BY <1>6 DEF InsertRow
  <2>2. /\ Head(buf) \in B /\ Head(buf) \in Events
        /\ Range(Tail(buf)) = B \ {Head(buf)} /\ IsInjective(Tail(buf))
    BY <1>0, <1>1, <2>1, TailMembers
  <2>3. CASE ok
    <3>1. txn' = Append(txn, RowFor(Head(buf))) /\ UNCHANGED lost
      BY <1>6, <2>3 DEF InsertRow
    <3>2. EventsOf(txn') = Append(EventsOf(txn), Head(buf))
      <4>1. RowFor(Head(buf)) \in Row /\ RowFor(Head(buf)).event = Head(buf)
        BY <2>2, RowForType
      <4> QED
        BY <1>0, <3>1, <4>1, EventsOfAppend
    <3>3. Head(buf) \notin T
      BY <1>1, <2>2
    <3>4. Range(EventsOf(txn')) = T \cup {Head(buf)} /\ IsInjective(EventsOf(txn'))
      BY <1>0, <1>1, <2>2, <3>2, <3>3, AppendMembers
    <3> QED
      BY <1>1, <1>2, <2>1, <2>2, <3>1, <3>4 DEF OnceInv
  <2>4. CASE ~ok
    <3>1. lost' = lost \cup {Head(buf)} /\ UNCHANGED txn
      BY <1>6, <2>4 DEF InsertRow
    <3> QED
      BY <1>1, <1>2, <2>1, <2>2, <3>1 DEF OnceInv
  <2> QED
    BY <2>3, <2>4
<1>7. ASSUME NEW ok \in BOOLEAN, Commit(ok)
      PROVE  OnceInv'
  <2>1. UNCHANGED <<chan, buf>> /\ txn' = <<>>
    BY <1>7 DEF Commit
  <2>2. CASE ok
    <3>1. ledger' = ledger \o txn /\ UNCHANGED lost
      BY <1>7, <2>2 DEF Commit
    <3>2. EventsOf(ledger') = EventsOf(ledger) \o EventsOf(txn)
      BY <1>0, <3>1, EventsOfJoin
    <3>3. L \cap T = {}
      BY <1>1
    <3>4. Range(EventsOf(ledger')) = L \cup T /\ IsInjective(EventsOf(ledger'))
      BY <1>0, <1>1, <3>2, <3>3, JoinMembers
    <3> QED
      BY <1>1, <1>2, <2>1, <3>1, <3>4, EmptyMembers DEF OnceInv
  <2>3. CASE ~ok
    <3>1. lost' = lost \cup T /\ UNCHANGED ledger
      <4>1. {txn[i].event : i \in 1 .. Len(txn)} = T
        BY <1>0 DEF Range, EventsOf
      <4> QED
        BY <1>7, <2>3, <4>1 DEF Commit
    <3> QED
      BY <1>1, <1>2, <2>1, <3>1, EmptyMembers DEF OnceInv
  <2> QED
    BY <2>2, <2>3
<1>8. ASSUME NEW n \in 1 .. Len(ledger), Settle(n)
      PROVE  OnceInv'
  <2>1. UNCHANGED <<chan, buf, txn, lost>> /\ EventsOf(ledger') = EventsOf(ledger)
    BY <1>0, <1>8, SettledRows DEF Settle
  <2> QED
    BY <1>1, <1>2, <2>1 DEF OnceInv
<1>9. CASE PrepareFails \/ SliceFails
  <2>1. Die
    BY <1>9 DEF PrepareFails, SliceFails
  <2>2. {txn[i].event : i \in 1 .. Len(txn)} = T
    BY <1>0 DEF Range, EventsOf
  <2>3. /\ chan' = <<>> /\ buf' = <<>> /\ txn' = <<>> /\ UNCHANGED ledger
        /\ lost' = lost \cup C \cup B \cup T
    BY <2>1, <2>2 DEF Die
  <2> QED
    BY <1>1, <1>2, <2>3, EmptyMembers DEF OnceInv
<1> QED
  BY <1>3, <1>4, <1>5, <1>6, <1>7, <1>8, <1>9 DEF Next, WorkerStep, OtherStep

-----------------------------------------------------------------------------
(* Fees. *)

(* Principals of equal amounts cancel, and so do the fees of one charge and one cache. *)
LEMMA FeesCancel ==
  ASSUME TypeOK, NEW e \in Events, NEW f \in Events, ~is_reversal(e), is_reversal(f)
  PROVE  /\ BookedFee(e).principal + BookedFee(f).principal = 0 <=> Amount[f.msg] = Amount[e.msg]
         /\ SameCharge(f.msg, e.msg) => BookedFee(e).fee + BookedFee(f).fee = 0
<1>1. /\ FeeOf(e.msg) \in Int /\ FeeOf(f.msg) \in Int
      /\ Amount[e.msg] \in Nat /\ Amount[f.msg] \in Nat
  BY RowForType, MessageType
<1>2. BookedFee(e) = [principal |-> Amount[e.msg], fee |-> FeeOf(e.msg)]
  BY DEF BookedFee
<1>3. BookedFee(f) = [principal |-> -Amount[f.msg], fee |-> -FeeOf(f.msg)]
  BY DEF BookedFee
<1>4. BookedFee(e).principal = Amount[e.msg] /\ BookedFee(f).principal = -Amount[f.msg]
  BY <1>2, <1>3
<1>5. BookedFee(e).fee = FeeOf(e.msg) /\ BookedFee(f).fee = -FeeOf(f.msg)
  BY <1>2, <1>3
<1>6. SameCharge(f.msg, e.msg) => FeeOf(f.msg) = FeeOf(e.msg)
  BY DEF SameCharge, FeeOf
<1> QED
  BY <1>1, <1>4, <1>5, <1>6

(* The rows are rows. *)
LEMMA RowsType ==
  ASSUME TypeOK
  PROVE  Rows \subseteq Row
<1>1. /\ \A i \in DOMAIN txn : txn[i] \in Row
      /\ \A i \in DOMAIN ledger : ledger[i] \in Row
  BY DEF TypeOK, WorkerType
<1> QED
  BY <1>1 DEF Rows, Range

(* Two rows that differ in their status at most. *)
SameBooking(x, y) ==
    x.event = y.event /\ x.principal = y.principal /\ x.fee = y.fee /\ x.epoch = y.epoch

(* A step that books nothing and leaves the cache alone keeps the fees right. *)
LEMMA FeeKept ==
  ASSUME FeeInv, UNCHANGED <<cache, epoch>>,
         \A x \in Rows' : \E y \in Rows : SameBooking(x, y)
  PROVE  FeeInv'
<1>1. ASSUME NEW e PROVE BookedFee(e)' = BookedFee(e)
  BY DEF BookedFee, FeeOf, RuleOf
<1>2. ASSUME NEW x \in Rows'
      PROVE  /\ x.epoch <= epoch'
             /\ x.principal = BookedFee(x.event)'.principal
             /\ x.epoch = epoch' => x.fee = BookedFee(x.event)'.fee
  <2>1. PICK y \in Rows : SameBooking(x, y)
    OBVIOUS
  <2>2. /\ y.epoch <= epoch
        /\ y.principal = BookedFee(y.event).principal
        /\ y.epoch = epoch => y.fee = BookedFee(y.event).fee
    BY DEF FeeInv
  <2>3. BookedFee(x.event)' = BookedFee(y.event)
    BY <1>1, <2>1 DEF SameBooking
  <2> QED
    BY <2>1, <2>2, <2>3 DEF SameBooking
<1>3. ASSUME NEW x \in Rows', NEW y \in Rows'
      PROVE  Cancels(x, y)
  <2>1. PICK u \in Rows : SameBooking(x, u)
    OBVIOUS
  <2>2. PICK v \in Rows : SameBooking(y, v)
    OBVIOUS
  <2>3. Cancels(u, v)
    BY DEF FeeInv
  <2> QED
    BY <2>1, <2>2, <2>3 DEF SameBooking, Cancels, Reverses
<1> QED
  BY <1>2, <1>3 DEF FeeInv, Cancels, Reverses

(* A refreshed fee leaves every row behind in an earlier epoch. *)
LEMMA FeePolled ==
  ASSUME TypeOK, FeeInv, NEW k \in RuleKeys, PollRule(k)
  PROVE  FeeInv'
<1>1. ASSUME NEW e PROVE BookedFee(e)'.principal = BookedFee(e).principal
  <2>1. BookedFee(e).principal = IF is_reversal(e) THEN -Amount[e.msg] ELSE Amount[e.msg]
    BY DEF BookedFee
  <2>2. BookedFee(e)'.principal = IF is_reversal(e) THEN -Amount[e.msg] ELSE Amount[e.msg]
    BY DEF BookedFee
  <2> QED
    BY <2>1, <2>2
<1>2. Rows' = Rows /\ epoch' = epoch + 1 /\ epoch \in Nat
  BY DEF PollRule, workVars, Rows, TypeOK, FeeType
<1>3. ASSUME NEW x \in Rows
      PROVE  x.epoch <= epoch' /\ x.epoch # epoch' /\ x.principal = BookedFee(x.event)'.principal
  <2>1. x.epoch \in Nat
    BY RowsType DEF Row
  <2>2. x.epoch <= epoch /\ x.principal = BookedFee(x.event).principal
    BY DEF FeeInv
  <2> QED
    BY <1>1, <1>2, <2>1, <2>2
<1>4. \A x, y \in Rows : Cancels(x, y)
  BY DEF FeeInv
<1> QED
  BY <1>2, <1>3, <1>4 DEF FeeInv, Cancels, Reverses

(* A new row has the fee of the cache, like every row of its epoch. *)
LEMMA FeeBooked ==
  ASSUME TypeOK, FeeInv, NEW ok \in BOOLEAN, ok, InsertRow(ok)
  PROVE  FeeInv'
<1> DEFINE r == RowFor(Head(buf))
<1>1. /\ txn' = Append(txn, r) /\ UNCHANGED <<ledger, cache, epoch>>
      /\ buf # <<>> /\ buf \in Seq(Events) /\ txn \in Seq(Row) /\ epoch \in Nat
  BY DEF InsertRow, feeVars, TypeOK, WorkerType, FeeType
<1>2. Head(buf) \in Events
  BY <1>1
<1>3. /\ r \in Row /\ r.event = Head(buf)
      /\ r.fee = BookedFee(r.event).fee /\ r.principal = BookedFee(r.event).principal
      /\ r.epoch = epoch
  BY <1>2, RowForType
<1> HIDE DEF r
<1>4. Rows' = Rows \cup {r}
  <2>1. Range(txn') = Range(txn) \cup {r}
    BY <1>1, <1>3, AppendMembers
  <2> QED
    BY <1>1, <2>1 DEF Rows
<1>5. ASSUME NEW e PROVE BookedFee(e)' = BookedFee(e)
  BY <1>1 DEF BookedFee, FeeOf, RuleOf
<1>6. ASSUME NEW x \in Rows'
      PROVE  /\ x \in Row /\ x.epoch <= epoch
             /\ x.principal = BookedFee(x.event).principal
             /\ x.epoch = epoch => x.fee = BookedFee(x.event).fee
  <2>1. CASE x = r
    BY <1>1, <1>3, <2>1
  <2>2. CASE x \in Rows
    BY <2>2, RowsType DEF FeeInv
  <2> QED
    BY <1>4, <2>1, <2>2
<1>7. ASSUME NEW x \in Rows', NEW y \in Rows'
      PROVE  Cancels(x, y)
  <2>1. CASE x \in Rows /\ y \in Rows
    BY <2>1 DEF FeeInv
  <2>2. CASE x = r \/ y = r
    <3> SUFFICES ASSUME Reverses(y, x)
                 PROVE  /\ x.principal + y.principal = 0 <=> Amount[y.event.msg] = Amount[x.event.msg]
                        /\ SameCharge(y.event.msg, x.event.msg) /\ x.epoch = y.epoch => x.fee + y.fee = 0
      BY DEF Cancels
    <3>1. x.epoch = y.epoch => x.epoch = epoch /\ y.epoch = epoch
      BY <1>3, <2>2
    <3>2. x.event \in Events /\ y.event \in Events
      BY <1>6 DEF Row
    <3>3. /\ BookedFee(x.event).principal + BookedFee(y.event).principal = 0
               <=> Amount[y.event.msg] = Amount[x.event.msg]
          /\ SameCharge(y.event.msg, x.event.msg)
               => BookedFee(x.event).fee + BookedFee(y.event).fee = 0
      BY <3>2, FeesCancel DEF Reverses
    <3>4. /\ x.principal = BookedFee(x.event).principal /\ y.principal = BookedFee(y.event).principal
          /\ x.epoch = epoch => x.fee = BookedFee(x.event).fee
          /\ y.epoch = epoch => y.fee = BookedFee(y.event).fee
      BY <1>6
    <3> QED
      BY <3>1, <3>3, <3>4
  <2> QED
    BY <1>4, <2>1, <2>2
<1>8. UNCHANGED epoch
  BY <1>1
<1> QED
  BY <1>5, <1>6, <1>7, <1>8 DEF FeeInv, Cancels

(* Rows of one epoch keep the fees of one cache. *)
LEMMA FeeStep ==
  ASSUME TypeOK, FeeInv, [Next]_vars
  PROVE  FeeInv'
<1>0. txn \in Seq(Row) /\ ledger \in Seq(Row)
  BY DEF TypeOK, WorkerType
<1>1. CASE \/ \E c \in Captures : \/ Admit(c) \/ Evict(c) \/ Forward(c) \/ HsmForward(c)
                                  \/ \E m \in Reversals : TerminalReversal(m, c)
                                  \/ \E end \in {"answered", "timeout"} : Complete(c, end)
           \/ \E k \in RuleKeys, f \in Rules \cup {NoRule} : EditRule(k, f)
           \/ UNCHANGED vars
  <2>1. UNCHANGED <<txn, ledger, cache, epoch>>
    BY <1>1 DEF Admit, Evict, Forward, HsmForward, TerminalReversal, Complete, EditRule, vars,
       workVars, feeVars
  <2> QED
    BY <2>1, FeeKept DEF Rows, SameBooking
<1>2. CASE Receive \/ Tick \/ \E ok \in BOOLEAN : Check(ok) \/ (~ok /\ InsertRow(ok))
  <2>1. UNCHANGED <<txn, ledger, cache, epoch>>
    BY <1>2 DEF Receive, Tick, Check, InsertRow, feeVars
  <2> QED
    BY <2>1, FeeKept DEF Rows, SameBooking
<1>3. ASSUME NEW ok \in BOOLEAN, ok, InsertRow(ok)
      PROVE  FeeInv'
  BY <1>3, FeeBooked
<1>4. ASSUME NEW ok \in BOOLEAN, Commit(ok)
      PROVE  FeeInv'
  <2>1. UNCHANGED <<cache, epoch>> /\ txn' = <<>>
    BY <1>4 DEF Commit, feeVars
  <2>2. ledger' = ledger \o txn \/ ledger' = ledger
    BY <1>4 DEF Commit
  <2>3. Range(ledger \o txn) = Range(ledger) \cup Range(txn)
    BY <1>0, JoinMembers
  <2>4. Rows' \subseteq Rows
    BY <2>1, <2>2, <2>3, EmptyMembers DEF Rows
  <2> QED
    BY <2>1, <2>4, FeeKept DEF SameBooking
<1>5. ASSUME NEW k \in RuleKeys, PollRule(k)
      PROVE  FeeInv'
  BY <1>5, FeePolled
<1>6. ASSUME NEW n \in 1 .. Len(ledger), Settle(n)
      PROVE  FeeInv'
  <2>1. ledger' = Settled(ledger, n) /\ UNCHANGED <<txn, cache, epoch>>
    BY <1>6 DEF Settle, feeVars
  <2>2. ASSUME NEW x \in Rows' PROVE \E y \in Rows : SameBooking(x, y)
    <3>1. CASE x \in Range(txn)
      BY <3>1 DEF Rows, SameBooking
    <3>2. CASE x \in Range(ledger')
      <4>1. PICK i \in 1 .. Len(ledger) : x = Settled(ledger, n)[i]
        BY <1>0, <2>1, <3>2, SettledRows DEF Range
      <4>2. SameBooking(x, ledger[i])
        BY <1>0, <4>1, SettledRows DEF SameBooking
      <4>3. ledger[i] \in Rows
        BY <1>0 DEF Rows, Range
      <4> QED
        BY <4>2, <4>3
    <3> QED
      BY <2>1, <3>1, <3>2 DEF Rows
  <2> QED
    BY <2>1, <2>2, FeeKept
<1>7. CASE PrepareFails \/ SliceFails
  <2>1. UNCHANGED <<ledger, cache, epoch>> /\ txn' = <<>>
    BY <1>7 DEF PrepareFails, SliceFails, Die, feeVars
  <2>2. Rows' \subseteq Rows
    BY <2>1, EmptyMembers DEF Rows
  <2> QED
    BY <2>1, <2>2, FeeKept DEF SameBooking
<1> QED
  BY <1>1, <1>2, <1>3, <1>4, <1>5, <1>6, <1>7 DEF Next, WorkerStep

(* Every step preserves the whole invariant. *)
LEMMA NextLedgerInv ==
  ASSUME LedgerInv, [Next]_vars
  PROVE  LedgerInv'
  BY TypeStep, OnceStep, FeeStep DEF LedgerInv

(* The invariant of the ledger: types, the size of the batch, every event in *)
(* one place, and fees of one epoch from one cache.                          *)
THEOREM LedgerInvariant == Spec => []LedgerInv
<1> QED
  BY InitLedgerInv, NextLedgerInv, PTL DEF Spec

(* Whatever inserts and commits fail and whatever ends it, the worker books  *)
(* no event twice and none that was dropped (ledger_worker.rs, start_worker). *)
THEOREM BookingSafety == Spec => []BookedOnce
<1>1. ASSUME LedgerInv PROVE BookedOnce
  <2> SUFFICES ASSUME NEW e \in Events
               PROVE  Cardinality(Booked(e)) <= 1 /\ (e \in lost => Booked(e) = {})
    BY DEF BookedOnce
  <2>1. /\ IsInjective(EventsOf(ledger)) /\ Range(EventsOf(ledger)) \cap lost = {}
    BY <1>1 DEF LedgerInv, OnceInv
  <2>2. /\ DOMAIN EventsOf(ledger) = 1 .. Len(ledger)
        /\ \A i \in 1 .. Len(ledger) : EventsOf(ledger)[i] = ledger[i].event
    BY DEF EventsOf
  <2>3. \A i, j \in Booked(e) : i = j
    BY <2>1, <2>2 DEF Booked, IsInjective
  <2>4. Cardinality(Booked(e)) <= 1
    <3>1. CASE Booked(e) = {}
      BY <3>1, FS_EmptySet
    <3>2. CASE Booked(e) # {}
      <4>1. PICK i \in Booked(e) : TRUE
        BY <3>2
      <4>2. Booked(e) = {i}
        BY <2>3, <4>1
      <4> QED
        BY <4>2, FS_Singleton
    <3> QED
      BY <3>1, <3>2
  <2>5. e \in lost => Booked(e) = {}
    BY <2>1, <2>2 DEF Booked, Range
  <2> QED
    BY <2>4, <2>5
<1> QED
  BY <1>1, LedgerInvariant, PTL

(* A reversal row takes back the principal of the transaction whose RRN it   *)
(* bears exactly if its own message was for that amount, and the fee if it   *)
(* was for that card too and no fee was refreshed between the two, for any   *)
(* cards, amounts and STANs of the messages (ledger_worker.rs, is_reversal). *)
THEOREM ReversalSafety == Spec => []ReversalCancels
<1>1. ASSUME LedgerInv PROVE ReversalCancels
  <2>1. ledger \in Seq(Row) /\ \A x, y \in Rows : Cancels(x, y)
    BY <1>1 DEF LedgerInv, TypeOK, WorkerType, FeeInv
  <2>2. \A i \in 1 .. Len(ledger) : ledger[i] \in Rows
    BY <2>1 DEF Rows, Range
  <2> QED
    BY <2>1, <2>2 DEF ReversalCancels, Cancels, SameCharge
<1> QED
  BY <1>1, LedgerInvariant, PTL
=============================================================================

------------------------ MODULE LoadGeneratorProofs ------------------------
(* Proofs about LoadGenerator, for any workers, volume and number of runs.    *)
EXTENDS LoadGenerator, FiniteSetTheorems, TLAPS

\* No connection is open before the first run.
LEMMA InitSocket == Init => SocketInv
<1> SUFFICES ASSUME Init PROVE SocketInv
  OBVIOUS
<1>1. \A i \in Ids : wk[i] = Worker("absent") /\ stream[i] = Closed
  BY DEF Init
<1>2. /\ Worker("absent") \in [pc : Pcs, prior : Int, cancel : BOOLEAN]
      /\ Closed \in [open : BOOLEAN, owed : SUBSET {"this", "earlier"},
                     answers : Seq({"this", "earlier"})]
  BY DEF Worker, Closed, Pcs
<1>3. /\ wk \in [Ids -> [pc : Pcs, prior : Int, cancel : BOOLEAN]]
      /\ stream \in [Ids -> [open : BOOLEAN, owed : SUBSET {"this", "earlier"},
                             answers : Seq({"this", "earlier"})]]
  BY <1>2 DEF Init
<1>4. \A i \in Ids : SocketOK(i)
  BY <1>1 DEF SocketOK, Worker, Closed
<1> QED
  BY <1>3, <1>4 DEF Init, SocketInv

\* Handlers and monitors change no worker's place and no connection, except that
\* a new run gives its workers, who were absent, theirs.
LEMMA ControlKeepsSocket ==
    ASSUME SocketInv,
           StartCheck \/ StartRun \/ CancelStore \/ CancelSend \/ \E r \in Runs : Monitor(r)
    PROVE  SocketInv'
<1>1. CASE StartRun
  <2>1. /\ runs' = runs + 1 /\ stream' = stream /\ generated' = 0
        /\ wk' = [i \in Ids |-> IF i[1] = runs + 1 THEN [wk[i] EXCEPT !.pc = "top"] ELSE wk[i]]
    BY <1>1 DEF StartRun
  <2>2. wk' \in [Ids -> [pc : Pcs, prior : Int, cancel : BOOLEAN]]
    BY <2>1, ZenonT(40) DEF SocketInv, Pcs
  <2>3. ASSUME NEW i \in Ids PROVE SocketOK(i)'
    <3>1. i[1] \in Int
      BY DEF Ids, Runs
    <3>2. CASE i[1] = runs + 1
      <4>1. wk[i].pc = "absent" /\ wk'[i].pc = "top"
        BY <2>1, <3>2 DEF SocketInv, SocketOK
      <4>2. stream'[i].owed = {} /\ stream'[i].answers = <<>>
        BY <2>1, <4>1 DEF SocketInv, SocketOK
      <4>3. ~(i[1] > runs')
        BY <2>1, <3>1, <3>2 DEF SocketInv
      <4> QED
        BY <4>1, <4>2, <4>3 DEF SocketOK
    <3>3. CASE i[1] # runs + 1
      BY <2>1, <3>1, <3>3 DEF SocketInv, SocketOK
    <3> QED
      BY <3>2, <3>3
  <2> QED
    BY <2>1, <2>2, <2>3 DEF SocketInv
<1>2. CASE CancelSend
  <2>1. /\ wk' = [i \in Ids |-> IF i[1] = runs THEN [wk[i] EXCEPT !.cancel = TRUE] ELSE wk[i]]
        /\ UNCHANGED <<runs, stream, generated>>
    BY <1>2 DEF CancelSend, counters
  <2>2. /\ wk' \in [Ids -> [pc : Pcs, prior : Int, cancel : BOOLEAN]]
        /\ \A i \in Ids : wk'[i].pc = wk[i].pc
    BY <2>1 DEF SocketInv
  <2> QED
    BY <2>1, <2>2 DEF SocketInv, SocketOK
<1>3. CASE StartCheck \/ CancelStore \/ \E r \in Runs : Monitor(r)
  <2>1. UNCHANGED <<runs, wk, stream, generated>>
    BY <1>3 DEF StartCheck, CancelStore, Monitor, counters
  <2> QED
    BY <2>1 DEF SocketInv, SocketOK
<1> QED
  BY <1>1, <1>2, <1>3

\* What a step of worker i has to show: the others keep what they have.
LEMMA OneKeepsSocket ==
    ASSUME SocketInv, NEW i \in Ids, NEW w, NEW t, generated' \in Int, runs' = runs,
           wk' = [wk EXCEPT ![i] = w], stream' = [stream EXCEPT ![i] = t],
           w \in [pc : Pcs, prior : Int, cancel : BOOLEAN],
           t \in [open : BOOLEAN, owed : SUBSET {"this", "earlier"},
                  answers : Seq({"this", "earlier"})],
           w.pc # "wait" => t.owed = {} /\ t.answers = <<>>,
           w.pc = "wait" => \/ t.owed = {"this"} /\ t.answers = <<>>
                            \/ t.owed = {} /\ t.answers = <<"this">>,
           wk[i].pc # "absent" \/ w.pc = "absent"
    PROVE  SocketInv'
<1>1. /\ wk' \in [Ids -> [pc : Pcs, prior : Int, cancel : BOOLEAN]]
      /\ stream' \in [Ids -> [open : BOOLEAN, owed : SUBSET {"this", "earlier"},
                              answers : Seq({"this", "earlier"})]]
  BY DEF SocketInv
<1>2. ASSUME NEW j \in Ids PROVE SocketOK(j)'
  <2>1. CASE j = i
    <3>1. wk'[j] = w /\ stream'[j] = t
      BY <2>1 DEF SocketInv
    <3> QED
      BY <2>1, <3>1 DEF SocketInv, SocketOK
  <2>2. CASE j # i
    <3>1. wk'[j] = wk[j] /\ stream'[j] = stream[j]
      BY <2>2 DEF SocketInv
    <3> QED
      BY <3>1 DEF SocketInv, SocketOK
  <2> QED
    BY <2>1, <2>2
<1> QED
  BY <1>1, <1>2 DEF SocketInv

\* Every step of run_worker leaves a connection that is owed nothing stale.
LEMMA WorkerKeepsSocket ==
    ASSUME SocketInv, NEW i \in Ids, WorkerStep(i)
    PROVE  SocketInv'
<1> DEFINE W == [pc : Pcs, prior : Int, cancel : BOOLEAN]
           T == [open : BOOLEAN, owed : SUBSET {"this", "earlier"},
                 answers : Seq({"this", "earlier"})]
<1>1. /\ wk[i] \in W /\ stream[i] \in T /\ SocketOK(i) /\ generated \in Int
      /\ wk \in [Ids -> W] /\ stream \in [Ids -> T]
      /\ Worker("exit") \in W /\ Worker("exit").pc = "exit"
      /\ Closed \in T /\ Closed.owed = {} /\ Closed.answers = <<>>
  BY DEF SocketInv, Worker, Closed, Pcs
<1>2. runs' = runs /\ UsizeMod \in Nat \ {0}
  BY SimAssumption DEF WorkerStep, Claim, CheckTarget, Send, TakeAnswer, GiveUp, Land, Complete,
                       TallyStatus, ctlVars
<1> DEFINE left == /\ wk' = [wk EXCEPT ![i] = Worker("exit")]
                   /\ stream' = [stream EXCEPT ![i] = Closed]
<1>3. ASSUME left, generated' \in Int, wk[i].pc # "absent" PROVE SocketInv'
  BY <1>1, <1>2, <1>3, OneKeepsSocket
<1>4. CASE Claim(i)
  <2>1. generated' \in Int /\ wk[i].pc # "absent" /\ wk[i].pc # "wait"
    BY <1>1, <1>2, <1>4 DEF Claim
  <2>2. CASE left
    BY <1>3, <2>1, <2>2
  <2>3. CASE /\ Goes(i, "check", generated)
             /\ stream' = stream
    <3> DEFINE w == [pc |-> "check", prior |-> generated, cancel |-> wk[i].cancel]
    <3>1. wk' = [wk EXCEPT ![i] = w] /\ stream' = [stream EXCEPT ![i] = stream[i]]
      BY <1>1, <2>3 DEF Goes
    <3>2. w \in W /\ w.pc = "check"
      BY <1>1 DEF Pcs
    <3> QED
      BY <1>1, <1>2, <2>1, <3>1, <3>2, OneKeepsSocket DEF SocketOK
  <2> QED
    BY <1>4, <2>2, <2>3 DEF Claim, Leave
<1>5. CASE CheckTarget(i)
  <2>1. generated' \in Int /\ wk[i].pc # "absent" /\ wk[i].pc # "wait"
    BY <1>1, <1>2, <1>5 DEF CheckTarget
  <2>2. CASE left
    BY <1>3, <2>1, <2>2
  <2>3. CASE /\ Goes(i, "send", 0)
             /\ stream' = stream
    <3> DEFINE w == [pc |-> "send", prior |-> 0, cancel |-> wk[i].cancel]
    <3>1. wk' = [wk EXCEPT ![i] = w] /\ stream' = [stream EXCEPT ![i] = stream[i]]
      BY <1>1, <2>3 DEF Goes
    <3>2. w \in W /\ w.pc = "send"
      BY <1>1 DEF Pcs
    <3> QED
      BY <1>1, <1>2, <2>1, <3>1, <3>2, OneKeepsSocket DEF SocketOK
  <2> QED
    BY <1>5, <2>2, <2>3 DEF CheckTarget, Leave
<1>6. CASE Send(i)
  <2>1. generated' \in Int /\ wk[i].pc = "send" /\ stream[i].owed = {} /\ stream[i].answers = <<>>
    BY <1>1, <1>6 DEF Send, SocketOK, counters
  <2>2. CASE left
    BY <1>3, <2>1, <2>2
  <2>3. CASE /\ stream' = [stream EXCEPT ![i] =
                    [open |-> TRUE, owed |-> {"this"} \cup {"earlier" : n \in stream[i].owed},
                     answers |-> [k \in DOMAIN stream[i].answers |-> "earlier"]]]
             /\ Goes(i, "wait", 0)
    <3> DEFINE w == [pc |-> "wait", prior |-> 0, cancel |-> wk[i].cancel]
               t == [open |-> TRUE, owed |-> {"this"}, answers |-> <<>>]
    <3>1. wk' = [wk EXCEPT ![i] = w]
      BY <1>1, <2>3 DEF Goes
    <3>2. stream' = [stream EXCEPT ![i] = t]
      <4>1. {"this"} \cup {"earlier" : n \in stream[i].owed} = {"this"}
        BY <2>1
      <4>2. [k \in DOMAIN stream[i].answers |-> "earlier"] = <<>>
        BY <2>1
      <4> QED
        BY <2>3, <4>1, <4>2
    <3>3. w \in W /\ w.pc = "wait" /\ t \in T /\ t.owed = {"this"} /\ t.answers = <<>>
      BY <1>1 DEF Pcs
    <3> QED
      BY <1>1, <1>2, <2>1, <3>1, <3>2, <3>3, OneKeepsSocket, ZenonT(40)
  <2>4. CASE Goes(i, "complete", 0) /\ stream' = stream
    <3> DEFINE w == [pc |-> "complete", prior |-> 0, cancel |-> wk[i].cancel]
    <3>1. wk' = [wk EXCEPT ![i] = w] /\ stream' = [stream EXCEPT ![i] = stream[i]]
      BY <1>1, <2>4 DEF Goes
    <3>2. w \in W /\ w.pc = "complete"
      BY <1>1 DEF Pcs
    <3> QED
      BY <1>1, <1>2, <2>1, <3>1, <3>2, OneKeepsSocket
  <2> QED
    BY <1>6, <2>2, <2>3, <2>4 DEF Send, Leave
<1>7. CASE TakeAnswer(i)
  <2> DEFINE w == [pc |-> "complete", prior |-> 0, cancel |-> wk[i].cancel]
             t == [open |-> TRUE, owed |-> {}, answers |-> <<>>]
  <2>1. /\ wk[i].pc = "wait" /\ stream[i].owed = {} /\ stream[i].answers = <<"this">>
        /\ generated' \in Int
    BY <1>1, <1>7 DEF TakeAnswer, SocketOK, counters
  <2>2. wk' = [wk EXCEPT ![i] = w]
    BY <1>1, <1>7 DEF TakeAnswer, Goes
  <2>3. stream' = [stream EXCEPT ![i] = t]
    <3>1. Tail(stream[i].answers) = <<>>
      BY <2>1
    <3> QED
      BY <1>7, <2>1, <3>1 DEF TakeAnswer
  <2>4. w \in W /\ w.pc = "complete" /\ t \in T /\ t.owed = {} /\ t.answers = <<>>
    BY <1>1 DEF Pcs
  <2> QED
    BY <1>1, <1>2, <2>1, <2>2, <2>3, <2>4, OneKeepsSocket
<1>8. CASE GiveUp(i)
  <2> DEFINE w == [pc |-> "complete", prior |-> 0, cancel |-> wk[i].cancel]
  <2>1. wk' = [wk EXCEPT ![i] = w] /\ stream' = [stream EXCEPT ![i] = Closed]
    BY <1>1, <1>8 DEF GiveUp, Goes
  <2>2. w \in W /\ w.pc = "complete" /\ generated' \in Int /\ wk[i].pc # "absent"
    BY <1>1, <1>8 DEF GiveUp, counters, Pcs
  <2>3. Closed.owed = {} /\ Closed.answers = <<>>
    BY <1>1, <1>8 DEF SocketOK, GiveUp
  <2> HIDE DEF w
  <2> QED
    BY <1>1, <1>2, <2>1, <2>2, <2>3, OneKeepsSocket
<1>9. CASE Complete(i)
  <2> DEFINE w == [pc |-> "tally", prior |-> 0, cancel |-> wk[i].cancel]
  <2>1. wk' = [wk EXCEPT ![i] = w] /\ stream' = [stream EXCEPT ![i] = stream[i]]
    BY <1>1, <1>9 DEF Complete, Goes
  <2>2. w \in W /\ w.pc = "tally" /\ generated' \in Int /\ wk[i].pc # "absent"
    BY <1>1, <1>9 DEF Complete, counters, Pcs
  <2>3. stream[i].owed = {} /\ stream[i].answers = <<>>
    BY <1>1, <1>9 DEF SocketOK, Complete
  <2> HIDE DEF w
  <2> QED
    BY <1>1, <1>2, <2>1, <2>2, <2>3, OneKeepsSocket
<1>11. CASE Land(i)
  <2> DEFINE w == [pc |-> "landed", prior |-> 0, cancel |-> wk[i].cancel]
  <2>1. wk' = [wk EXCEPT ![i] = w] /\ stream' = [stream EXCEPT ![i] = stream[i]]
    BY <1>1, <1>11 DEF Land, Goes
  <2>2. w \in W /\ w.pc = "landed" /\ generated' \in Int /\ wk[i].pc # "absent"
    BY <1>1, <1>11 DEF Land, counters, Pcs
  <2>3. stream[i].owed = {} /\ stream[i].answers = <<>>
    BY <1>1, <1>11 DEF SocketOK, Land
  <2> HIDE DEF w
  <2> QED
    BY <1>1, <1>2, <2>1, <2>2, <2>3, OneKeepsSocket
<1>10. CASE TallyStatus(i)
  <2> DEFINE w == [pc |-> "top", prior |-> 0, cancel |-> wk[i].cancel]
  <2>1. wk' = [wk EXCEPT ![i] = w] /\ stream' = [stream EXCEPT ![i] = stream[i]]
    BY <1>1, <1>10 DEF TallyStatus, Goes
  <2>2. w \in W /\ w.pc = "top" /\ generated' \in Int /\ wk[i].pc # "absent"
    BY <1>1, <1>10 DEF TallyStatus, counters, Pcs
  <2>3. stream[i].owed = {} /\ stream[i].answers = <<>>
    BY <1>1, <1>10 DEF SocketOK, TallyStatus
  <2> HIDE DEF w
  <2> QED
    BY <1>1, <1>2, <2>1, <2>2, <2>3, OneKeepsSocket
<1> QED
  BY <1>4, <1>5, <1>6, <1>7, <1>8, <1>9, <1>10, <1>11 DEF WorkerStep

\* The daemon answers only what is owed.
LEMMA DaemonKeepsSocket ==
    ASSUME SocketInv, NEW i \in Ids, DaemonAnswers(i)
    PROVE  SocketInv'
<1>1. PICK n \in stream[i].owed :
          stream' = [stream EXCEPT ![i] = [open |-> TRUE, owed |-> stream[i].owed \ {n},
                                           answers |-> Append(stream[i].answers, n)]]
  BY DEF DaemonAnswers
<1>2. UNCHANGED <<wk, runs, generated>>
  BY DEF DaemonAnswers, counters, ctlVars
<1>3. /\ wk[i].pc = "wait" /\ stream[i].owed = {"this"} /\ stream[i].answers = <<>> /\ n = "this"
  BY <1>1 DEF SocketInv, SocketOK
<1> DEFINE t == [open |-> TRUE, owed |-> {}, answers |-> <<"this">>]
<1>4. stream' = [stream EXCEPT ![i] = t]
  <2>1. Append(stream[i].answers, n) = <<"this">> /\ stream[i].owed \ {n} = {}
    BY <1>3
  <2> QED
    BY <1>1, <2>1 DEF SocketInv
<1>5. t \in [open : BOOLEAN, owed : SUBSET {"this", "earlier"}, answers : Seq({"this", "earlier"})]
      /\ t.owed = {} /\ t.answers = <<"this">>
  BY DEF SocketInv
<1>6. wk' = [wk EXCEPT ![i] = wk[i]] /\ wk[i] \in [pc : Pcs, prior : Int, cancel : BOOLEAN]
      /\ generated' \in Int
  BY <1>2 DEF SocketInv
<1> QED
  BY <1>2, <1>3, <1>4, <1>5, <1>6, OneKeepsSocket

\* Every step preserves the invariant of the connections.
LEMMA NextSocket == SocketInv /\ [Next]_vars => SocketInv'
<1> SUFFICES ASSUME SocketInv, [Next]_vars PROVE SocketInv'
  OBVIOUS
<1>1. CASE UNCHANGED vars
  BY <1>1 DEF vars, counters, ctlVars, SocketInv, SocketOK
<1> QED
  BY <1>1, ControlKeepsSocket, WorkerKeepsSocket, DaemonKeepsSocket DEF Next

\* For any number of workers, runs and cancels, a worker never takes the late
\* answer to an earlier transaction for the one it waits for: the stream is given
\* up with the transaction (engine.rs of the simulator, net task).
THEOREM AnswerSafety == Spec => []OwnAnswer
<1>1. SocketInv => OwnAnswer
  BY DEF SocketInv, SocketOK, OwnAnswer
<1> QED
  BY InitSocket, NextSocket, <1>1, PTL DEF Spec
-----------------------------------------------------------------------------
(* The counters. *)

(* Two sets that differ in one element at most. *)
LEMMA OneElement ==
  ASSUME NEW S, NEW T, NEW i, IsFiniteSet(S), \A j : j # i => (j \in S <=> j \in T)
  PROVE  /\ IsFiniteSet(T)
         /\ Cardinality(S) \in Nat /\ Cardinality(T) \in Nat
         /\ Cardinality(T) = Cardinality(S) + (IF i \in T THEN 1 ELSE 0) - (IF i \in S THEN 1 ELSE 0)
<1>0. Cardinality(S) \in Nat
  BY FS_CardinalityType
<1>1. CASE i \in S /\ i \in T
  <2>1. S = T
    BY <1>1
  <2> QED
    BY <1>0, <1>1, <2>1
<1>2. CASE i \notin S /\ i \notin T
  <2>1. S = T
    BY <1>2
  <2> QED
    BY <1>0, <1>2, <2>1
<1>3. CASE i \in S /\ i \notin T
  <2>1. T = S \ {i}
    BY <1>3
  <2>2. IsFiniteSet(T) /\ Cardinality(T) = Cardinality(S) - 1
    BY <1>3, <2>1, FS_RemoveElement
  <2>3. Cardinality(T) \in Nat
    BY <2>2, FS_CardinalityType
  <2> QED
    BY <1>0, <1>3, <2>2, <2>3
<1>4. CASE i \notin S /\ i \in T
  <2>1. T = S \cup {i}
    BY <1>4
  <2>2. IsFiniteSet(T) /\ Cardinality(T) = Cardinality(S) + 1
    BY <1>4, <2>1, FS_AddElement
  <2> QED
    BY <1>0, <1>4, <2>2
<1> QED
  BY <1>1, <1>2, <1>3, <1>4

(* There are finitely many workers, and the counters hold them and the volume. *)
LEMMA Capacity ==
  /\ IsFiniteSet(Ids) /\ Cardinality(Ids) \in Nat
  /\ Volume + Cardinality(Ids) < UsizeMod
<1>1. IsFiniteSet(Runs) /\ Cardinality(Runs) = MaxRuns
  BY SimAssumption, FS_Interval DEF Runs
<1>2. IsFiniteSet(Ids) /\ Cardinality(Ids) = MaxRuns * Cardinality(Workers)
  BY <1>1, SimAssumption, FS_Product DEF Ids
<1>3. Cardinality(Workers) \in Nat /\ Cardinality(Ids) \in Nat
  BY <1>2, SimAssumption, FS_CardinalityType
<1>4. ASSUME NEW v \in Nat, NEW c \in Nat, NEW m \in Nat \ {0}
      PROVE  v + m * c <= (v + c) * m
  <2>1. v <= v * m
    OBVIOUS
  <2>2. (v + c) * m = v * m + m * c
    OBVIOUS
  <2> QED
    BY <2>1, <2>2
<1>5. Volume + MaxRuns * Cardinality(Workers) <= (Volume + Cardinality(Workers)) * MaxRuns
  BY <1>3, <1>4, SimAssumption
<1> QED
  BY <1>2, <1>3, <1>5, SimAssumption

(* A counter that fits does not wrap. *)
LEMMA NoWrap ==
  ASSUME NEW x \in Nat, x < UsizeMod
  PROVE  x % UsizeMod = x
  BY SimAssumption

(* A counter that wraps is a counter. *)
LEMMA WrapType ==
  ASSUME NEW x \in Int
  PROVE  x % UsizeMod \in Nat
  BY SimAssumption

(* The step of one worker moves one worker. *)
LEMMA OneMoves ==
  ASSUME CountType, NEW i \in Ids, NEW w, wk' = [wk EXCEPT ![i] = w], NEW P
  PROVE  /\ At(P) \in Nat /\ At(P)' \in Nat /\ At(P)' <= Cardinality(Ids)
         /\ At(P)' = At(P) + (IF w.pc \in P THEN 1 ELSE 0) - (IF wk[i].pc \in P THEN 1 ELSE 0)
<1> DEFINE S == {j \in Ids : wk[j].pc \in P}
           T == {j \in Ids : wk'[j].pc \in P}
<1>1. wk'[i] = w /\ \A j \in Ids : j # i => wk'[j] = wk[j]
  BY DEF CountType
<1>2. IsFiniteSet(S) /\ IsFiniteSet(T) /\ Cardinality(T) <= Cardinality(Ids)
  BY Capacity, FS_Subset
<1>3. \A j : j # i => (j \in S <=> j \in T)
  BY <1>1
<1>4. /\ i \in T <=> w.pc \in P
      /\ i \in S <=> wk[i].pc \in P
  BY <1>1
<1>5. At(P) = Cardinality(S) /\ At(P)' = Cardinality(T)
  BY DEF At
<1> HIDE DEF S, T
<1> QED
  BY <1>2, <1>3, <1>4, <1>5, OneElement

(* The same for the workers that hold a part of what the target allows. *)
LEMMA OneClaims ==
  ASSUME CountType, NEW i \in Ids, NEW w, wk' = [wk EXCEPT ![i] = w]
  PROVE  /\ Cardinality(Claimed) \in Nat /\ Cardinality(Claimed)' \in Nat
         /\ ~Claims(w) /\ ~Claims(wk[i])
               => Cardinality(Claimed)' = Cardinality(Claimed)
         /\ Claims(w) /\ ~Claims(wk[i])
               => Cardinality(Claimed)' = Cardinality(Claimed) + 1
         /\ ~Claims(w) /\ Claims(wk[i])
               => Cardinality(Claimed)' = Cardinality(Claimed) - 1
<1> DEFINE S == Claimed
           T == {j \in Ids : Claims(wk'[j])}
<1>1. wk'[i] = w /\ \A j \in Ids : j # i => wk'[j] = wk[j]
  BY DEF CountType
<1>2. IsFiniteSet(S)
  BY Capacity, FS_Subset DEF Claimed
<1>3. \A j : j # i => (j \in S <=> j \in T)
  BY <1>1 DEF Claimed
<1>4. /\ i \in T <=> Claims(w)
      /\ i \in S <=> Claims(wk[i])
  BY <1>1 DEF Claimed
<1>5. Claimed' = T
  BY DEF Claimed, Claims
<1> HIDE DEF S, T
<1>6. Cardinality(Claimed)' = Cardinality(T) /\ Cardinality(Claimed) = Cardinality(S)
  BY <1>5 DEF S
<1> QED
  BY <1>2, <1>3, <1>4, <1>6, OneElement

(* Those workers are between two counters. *)
LEMMA ClaimsCheck ==
  CountType => /\ Cardinality(Claimed) \in Nat /\ At(BetweenPcs) \in Nat
               /\ Cardinality(Claimed) <= At(BetweenPcs) /\ At(BetweenPcs) <= Cardinality(Ids)
<1> DEFINE K == {i \in Ids : wk[i].pc \in BetweenPcs}
<1>1. IsFiniteSet(K) /\ Cardinality(K) <= Cardinality(Ids)
  BY Capacity, FS_Subset
<1>2. Claimed \subseteq K
  BY DEF Claimed, Claims, BetweenPcs
<1>3. At(BetweenPcs) = Cardinality(K)
  BY DEF At
<1> HIDE DEF K
<1> QED
  BY <1>1, <1>2, <1>3, FS_Subset, FS_CardinalityType

(* The counts that a step of one worker moves. *)
LEMMA OneShifts ==
  ASSUME CountType, NEW i \in Ids, NEW w, wk' = [wk EXCEPT ![i] = w]
  PROVE  /\ At(BetweenPcs) \in Nat /\ At(BetweenPcs)' \in Nat
         /\ At(BetweenPcs)' <= Cardinality(Ids)
         /\ w.pc \notin {"check", "landed"} /\ wk[i].pc \notin {"check", "landed"}
               => At(BetweenPcs)' = At(BetweenPcs)
         /\ w.pc \in {"check", "landed"} /\ wk[i].pc \notin {"check", "landed"}
               => At(BetweenPcs)' = At(BetweenPcs) + 1
         /\ w.pc \notin {"check", "landed"} /\ wk[i].pc \in {"check", "landed"}
               => At(BetweenPcs)' = At(BetweenPcs) - 1
         /\ At({"tally"}) \in Nat /\ At({"tally"})' \in Nat
         /\ w.pc # "tally" /\ wk[i].pc # "tally" => At({"tally"})' = At({"tally"})
         /\ w.pc = "tally" /\ wk[i].pc # "tally" => At({"tally"})' = At({"tally"}) + 1
         /\ w.pc # "tally" /\ wk[i].pc = "tally" => At({"tally"})' = At({"tally"}) - 1
         /\ At(InFlightPcs) \in Nat /\ At(InFlightPcs)' \in Nat
         /\ w.pc \notin {"send", "wait", "complete"} /\ wk[i].pc \notin {"send", "wait", "complete"}
               => At(InFlightPcs)' = At(InFlightPcs)
         /\ w.pc \in {"send", "wait", "complete"} /\ wk[i].pc \in {"send", "wait", "complete"}
               => At(InFlightPcs)' = At(InFlightPcs)
         /\ w.pc \in {"send", "wait", "complete"} /\ wk[i].pc \notin {"send", "wait", "complete"}
               => At(InFlightPcs)' = At(InFlightPcs) + 1
         /\ w.pc \notin {"send", "wait", "complete"} /\ wk[i].pc \in {"send", "wait", "complete"}
               => At(InFlightPcs)' = At(InFlightPcs) - 1
<1>1. /\ At(BetweenPcs) \in Nat /\ At(BetweenPcs)' \in Nat
      /\ At(BetweenPcs)' <= Cardinality(Ids)
      /\ w.pc \notin {"check", "landed"} /\ wk[i].pc \notin {"check", "landed"}
               => At(BetweenPcs)' = At(BetweenPcs)
      /\ w.pc \in {"check", "landed"} /\ wk[i].pc \notin {"check", "landed"}
               => At(BetweenPcs)' = At(BetweenPcs) + 1
      /\ w.pc \notin {"check", "landed"} /\ wk[i].pc \in {"check", "landed"}
               => At(BetweenPcs)' = At(BetweenPcs) - 1
  <2>1. /\ At(BetweenPcs) \in Nat /\ At(BetweenPcs)' \in Nat /\ At(BetweenPcs)' <= Cardinality(Ids)
        /\ At(BetweenPcs)' = At(BetweenPcs) + (IF w.pc \in BetweenPcs THEN 1 ELSE 0)
                               - (IF wk[i].pc \in BetweenPcs THEN 1 ELSE 0)
    BY OneMoves
  <2> QED
    BY <2>1 DEF BetweenPcs
<1>2. /\ At({"tally"}) \in Nat /\ At({"tally"})' \in Nat
      /\ w.pc # "tally" /\ wk[i].pc # "tally" => At({"tally"})' = At({"tally"})
      /\ w.pc = "tally" /\ wk[i].pc # "tally" => At({"tally"})' = At({"tally"}) + 1
      /\ w.pc # "tally" /\ wk[i].pc = "tally" => At({"tally"})' = At({"tally"}) - 1
  <2>1. /\ At({"tally"}) \in Nat /\ At({"tally"})' \in Nat /\ At({"tally"})' <= Cardinality(Ids)
        /\ At({"tally"})' = At({"tally"}) + (IF w.pc \in {"tally"} THEN 1 ELSE 0)
                               - (IF wk[i].pc \in {"tally"} THEN 1 ELSE 0)
    BY OneMoves
  <2> QED
    BY <2>1
<1>3. /\ At(InFlightPcs) \in Nat /\ At(InFlightPcs)' \in Nat
      /\ w.pc \notin {"send", "wait", "complete"} /\ wk[i].pc \notin {"send", "wait", "complete"}
            => At(InFlightPcs)' = At(InFlightPcs)
      /\ w.pc \in {"send", "wait", "complete"} /\ wk[i].pc \in {"send", "wait", "complete"}
            => At(InFlightPcs)' = At(InFlightPcs)
      /\ w.pc \in {"send", "wait", "complete"} /\ wk[i].pc \notin {"send", "wait", "complete"}
            => At(InFlightPcs)' = At(InFlightPcs) + 1
      /\ w.pc \notin {"send", "wait", "complete"} /\ wk[i].pc \in {"send", "wait", "complete"}
            => At(InFlightPcs)' = At(InFlightPcs) - 1
  <2>1. /\ At(InFlightPcs) \in Nat /\ At(InFlightPcs)' \in Nat /\ At(InFlightPcs)' <= Cardinality(Ids)
        /\ At(InFlightPcs)' = At(InFlightPcs) + (IF w.pc \in InFlightPcs THEN 1 ELSE 0)
                               - (IF wk[i].pc \in InFlightPcs THEN 1 ELSE 0)
    BY OneMoves
  <2> QED
    BY <2>1 DEF InFlightPcs
<1> QED
  BY <1>1, <1>2, <1>3

(* An empty place counts nobody. *)
LEMMA NobodyAt ==
  ASSUME NEW P, {i \in Ids : wk[i].pc \in P} = {}
  PROVE  At(P) = 0
  BY FS_EmptySet DEF At

(* Initially every counter is zero. *)
LEMMA InitCount == Init => CountInv
<1> SUFFICES ASSUME Init PROVE CountInv
  OBVIOUS
<1>1. \A i \in Ids : wk[i] = Worker("absent")
  BY DEF Init
<1>2. Worker("absent") \in [pc : Pcs, prior : Nat, cancel : BOOLEAN] /\ Worker("absent").pc = "absent"
  BY DEF Worker, Pcs
<1>3. CountType
  BY <1>2 DEF Init, CountType
<1>4. /\ At(BetweenPcs) = 0 /\ At({"tally"}) = 0 /\ At(InFlightPcs) = 0
  BY <1>1, <1>2, NobodyAt DEF InFlightPcs, BetweenPcs
<1>5. Cardinality(Claimed) = 0
  <2>1. Claimed = {}
    BY <1>1, <1>2 DEF Claimed, Claims
  <2> QED
    BY <2>1, FS_EmptySet
<1>6. Exact
  BY <1>4, <1>5, SimAssumption DEF Init, Exact
<1>7. Uncancelled
  <2>1. Ids \ Gone = {}
    BY <1>1, <1>2 DEF Gone
  <2> QED
    BY <1>4, <2>1 DEF Init, Uncancelled
<1> QED
  BY <1>1, <1>3, <1>6, <1>7 DEF CountInv

(* A run starts from zero, and cleanly only when every worker is gone. *)
LEMMA StartCounts ==
  ASSUME CountInv, StartRun
  PROVE  CountInv'
<1>1. /\ wk' = [i \in Ids |-> IF i[1] = runs + 1 THEN [wk[i] EXCEPT !.pc = "top"] ELSE wk[i]]
      /\ runs' = runs + 1 /\ runs \in Nat /\ UNCHANGED sending
      /\ generated' = 0 /\ in_flight' = 0 /\ completed' = 0 /\ tallied' = 0
  BY DEF StartRun, CountInv, CountType
<1>2. \A i \in Ids : i[1] \in Nat
  BY DEF Ids, Runs
<1>3. wk \in [Ids -> [pc : Pcs, prior : Nat, cancel : BOOLEAN]]
  BY DEF CountInv, CountType
<1>4. CountType'
  <2>1. wk' \in [Ids -> [pc : Pcs, prior : Nat, cancel : BOOLEAN]]
    BY <1>1, <1>3 DEF Pcs
  <2> QED
    BY <1>1, <2>1 DEF CountType
<1>5. ASSUME NEW i \in Ids, i[1] > runs' PROVE wk'[i] = Worker("absent")
  BY <1>1, <1>2, <1>5 DEF CountInv
<1>6. ASSUME clean' PROVE Exact' /\ Uncancelled'
  <2>1. Gone = Ids /\ sending = 0
    BY <1>6 DEF StartRun
  <2>2. ASSUME NEW i \in Ids
        PROVE  wk'[i].pc \in {"absent", "exit"} \/ (wk'[i].pc = "top" /\ ~wk'[i].cancel)
    <3>1. CASE i[1] = runs + 1
      <4>1. wk[i] = Worker("absent")
        BY <1>1, <1>2, <3>1 DEF CountInv
      <4>2. wk'[i] = [wk[i] EXCEPT !.pc = "top"]
        BY <1>1, <3>1
      <4> QED
        BY <4>1, <4>2 DEF Worker
    <3>2. CASE i[1] # runs + 1
      <4>1. wk'[i] = wk[i]
        BY <1>1, <3>2
      <4> QED
        BY <2>1, <4>1 DEF Gone
    <3> QED
      BY <3>1, <3>2
  <2>3. /\ {i \in Ids : wk'[i].pc \in BetweenPcs} = {}
        /\ {i \in Ids : wk'[i].pc \in {"tally"}} = {}
        /\ {i \in Ids : wk'[i].pc \in InFlightPcs} = {}
        /\ Claimed' = {}
    BY <2>2 DEF InFlightPcs, BetweenPcs, Claimed, Claims
  <2>4. At(BetweenPcs)' = 0 /\ At({"tally"})' = 0 /\ At(InFlightPcs)' = 0 /\ Cardinality(Claimed)' = 0
    BY <2>3, FS_EmptySet DEF At
  <2>5. Exact'
    BY <1>1, <2>4, SimAssumption DEF Exact
  <2>6. \A i \in (Ids \ Gone)' : ~wk'[i].cancel
    BY <2>2 DEF Gone
  <2> QED
    BY <1>1, <2>1, <2>4, <2>5, <2>6 DEF Uncancelled
<1> QED
  BY <1>4, <1>5, <1>6 DEF CountInv

(* Handlers and monitors count nothing; a cancel that a worker can find was *)
(* asked for.                                                               *)
LEMMA ControlCounts ==
  ASSUME CountInv, StartCheck \/ CancelStore \/ CancelSend \/ \E r \in Runs : Monitor(r)
  PROVE  CountInv'
<1>1. UNCHANGED <<generated, in_flight, completed, tallied, runs, clean>> /\ runs \in Nat
  BY DEF StartCheck, CancelStore, CancelSend, Monitor, counters, CountInv, CountType
<1>2. /\ CountType' /\ \A i \in Ids : wk'[i].pc = wk[i].pc /\ wk'[i].prior = wk[i].prior
      /\ \A i \in Ids : i[1] > runs => wk'[i] = wk[i]
  <2>1. CASE CancelSend
    <3>1. wk' = [i \in Ids |-> IF i[1] = runs THEN [wk[i] EXCEPT !.cancel = TRUE] ELSE wk[i]]
      BY <2>1 DEF CancelSend
    <3>2. wk \in [Ids -> [pc : Pcs, prior : Nat, cancel : BOOLEAN]] /\ \A i \in Ids : i[1] \in Nat
      BY DEF CountInv, CountType, Ids, Runs
    <3>3. wk' \in [Ids -> [pc : Pcs, prior : Nat, cancel : BOOLEAN]]
      BY <3>1, <3>2
    <3>4. /\ \A i \in Ids : wk'[i].pc = wk[i].pc /\ wk'[i].prior = wk[i].prior
          /\ \A i \in Ids : i[1] > runs => wk'[i] = wk[i]
      BY <1>1, <3>1, <3>2
    <3> QED
      BY <1>1, <3>3, <3>4 DEF CountInv, CountType
  <2>2. CASE StartCheck \/ CancelStore \/ \E r \in Runs : Monitor(r)
    <3>1. UNCHANGED wk
      BY <2>2 DEF StartCheck, CancelStore, Monitor
    <3> QED
      BY <1>1, <3>1 DEF CountInv, CountType
  <2> QED
    BY <2>1, <2>2
<1>3. /\ \A P : At(P)' = At(P)
      /\ Claimed' = Claimed /\ Gone' = Gone
  <2>1. ASSUME NEW P PROVE At(P)' = At(P)
    <3>1. {i \in Ids : wk'[i].pc \in P} = {i \in Ids : wk[i].pc \in P}
      BY <1>2
    <3> QED
      BY <3>1 DEF At
  <2>2. Claimed' = Claimed /\ Gone' = Gone
    BY <1>2 DEF Claimed, Claims, Gone
  <2> QED
    BY <2>1, <2>2
<1>4. clean => Exact'
  <2>1. clean => Exact
    BY DEF CountInv
  <2>2. /\ At(BetweenPcs)' = At(BetweenPcs) /\ At({"tally"})' = At({"tally"})
        /\ At(InFlightPcs)' = At(InFlightPcs) /\ Cardinality(Claimed)' = Cardinality(Claimed)
    BY <1>3
  <2> QED
    BY <1>1, <2>1, <2>2 DEF Exact
<1>5. ASSUME clean, ~cancelled' PROVE Uncancelled'
  <2>1. ~CancelStore
    BY <1>5 DEF CancelStore
  <2>2. ~cancelled
    BY <1>5, <2>1 DEF StartCheck, CancelSend, Monitor
  <2>3. Uncancelled
    BY <1>5, <2>2 DEF CountInv
  <2>4. ~CancelSend
    BY <2>3 DEF CancelSend, Uncancelled
  <2>5. UNCHANGED <<wk, sending>>
    BY <2>1, <2>4 DEF StartCheck, Monitor
  <2>6. At(InFlightPcs)' = At(InFlightPcs)
    BY <1>3
  <2> QED
    BY <1>1, <1>3, <2>3, <2>5, <2>6 DEF Uncancelled
<1> QED
  BY <1>1, <1>2, <1>4, <1>5 DEF CountInv

(* What the step of worker i has to show: the others keep what they have. *)
LEMMA OneCounts ==
  ASSUME CountInv, NEW i \in Ids, NEW w \in [pc : Pcs, prior : Nat, cancel : BOOLEAN],
         wk' = [wk EXCEPT ![i] = w], wk[i].pc \notin {"absent", "exit"},
         w = Worker("exit") \/ w.cancel = wk[i].cancel,
         UNCHANGED ctlVars,
         generated' \in Nat, in_flight' \in Nat, completed' \in Nat, tallied' \in Nat,
         clean => Exact',
         clean /\ ~cancelled => in_flight' = At(InFlightPcs)'
  PROVE  CountInv'
<1>1. wk'[i] = w /\ \A j \in Ids : j # i => wk'[j] = wk[j]
  BY DEF CountInv, CountType
<1>2. UNCHANGED <<runs, clean, cancelled, sending>>
  BY DEF ctlVars
<1>3. CountType'
  BY <1>2 DEF CountInv, CountType
<1>4. ASSUME NEW j \in Ids, j[1] > runs' PROVE wk'[j] = Worker("absent")
  <2>1. wk[j] = Worker("absent")
    BY <1>2, <1>4 DEF CountInv
  <2>2. j # i
    BY <2>1 DEF Worker
  <2> QED
    BY <1>1, <2>1, <2>2
<1>5. ASSUME clean, ~cancelled PROVE Uncancelled'
  <2>1. Uncancelled
    BY <1>5 DEF CountInv
  <2>2. ASSUME NEW j \in Ids, wk'[j].pc \notin {"absent", "exit"} PROVE ~wk'[j].cancel
    <3>1. CASE j = i
      <4>1. w # Worker("exit")
        BY <1>1, <2>2, <3>1 DEF Worker
      <4>2. ~wk[i].cancel
        BY <2>1 DEF Uncancelled, Gone
      <4> QED
        BY <1>1, <3>1, <4>1, <4>2
    <3>2. CASE j # i
      <4>1. wk'[j] = wk[j]
        BY <1>1, <3>2
      <4> QED
        BY <2>1, <2>2, <4>1 DEF Uncancelled, Gone
    <3> QED
      BY <3>1, <3>2
  <2>3. sending' = 0
    BY <1>2, <2>1 DEF Uncancelled
  <2> QED
    BY <1>5, <2>2, <2>3 DEF Uncancelled, Gone
<1> QED
  BY <1>2, <1>3, <1>4, <1>5 DEF CountInv

(* fetch_add: a claim below the target is one that the target still allows. *)
LEMMA ClaimCounts ==
  ASSUME CountInv, NEW i \in Ids, Claim(i)
  PROVE  CountInv'
<1>1. /\ CountType /\ wk[i] \in [pc : Pcs, prior : Nat, cancel : BOOLEAN] /\ wk[i].pc = "top"
      /\ UNCHANGED <<in_flight, completed, tallied>> /\ UNCHANGED ctlVars
      /\ generated \in Nat /\ in_flight \in Nat /\ completed \in Nat /\ tallied \in Nat
  BY DEF CountInv, CountType, Claim
<1>2. clean => Exact
  BY DEF CountInv
<1>3. clean /\ ~cancelled => in_flight = At(InFlightPcs)
  BY DEF CountInv, Uncancelled
<1>4. CASE Leave(i) /\ UNCHANGED generated
  <2> DEFINE w == Worker("exit")
  <2>1. w \in [pc : Pcs, prior : Nat, cancel : BOOLEAN] /\ w.pc = "exit" /\ wk' = [wk EXCEPT ![i] = w]
    BY <1>4 DEF Leave, Worker, Pcs
  <2> HIDE DEF w
  <2>2. /\ At(BetweenPcs)' = At(BetweenPcs) /\ At({"tally"})' = At({"tally"})
        /\ At(InFlightPcs)' = At(InFlightPcs) /\ Cardinality(Claimed)' = Cardinality(Claimed)
    BY <1>1, <2>1, OneShifts, OneClaims DEF Claims
  <2>3. clean => Exact'
    BY <1>1, <1>2, <1>4, <2>2 DEF Exact
  <2>4. w = Worker("exit") /\ wk[i].pc \notin {"absent", "exit"}
    BY <1>1 DEF w
  <2>5. clean /\ ~cancelled => in_flight' = At(InFlightPcs)'
    BY <1>1, <1>3, <2>2
  <2> QED
    BY <1>1, <1>4, <2>1, <2>3, <2>4, <2>5, OneCounts
<1>5. CASE Goes(i, "check", generated) /\ generated' = (generated + 1) % UsizeMod
  <2> DEFINE w == [pc |-> "check", prior |-> generated, cancel |-> wk[i].cancel]
  <2>1. /\ w \in [pc : Pcs, prior : Nat, cancel : BOOLEAN] /\ w.pc = "check" /\ w.prior = generated
        /\ w.cancel = wk[i].cancel
    BY <1>1 DEF Pcs
  <2>2. wk' = [wk EXCEPT ![i] = w]
    BY <1>5 DEF Goes
  <2> HIDE DEF w
  <2>3. /\ At(BetweenPcs)' = At(BetweenPcs) + 1 /\ At(BetweenPcs)' <= Cardinality(Ids)
        /\ At({"tally"})' = At({"tally"}) /\ At(BetweenPcs) \in Nat
        /\ At(InFlightPcs)' = At(InFlightPcs)
    BY <1>1, <2>1, <2>2, OneShifts
  <2>4. /\ generated < Volume => Cardinality(Claimed)' = Cardinality(Claimed) + 1
        /\ ~(generated < Volume) => Cardinality(Claimed)' = Cardinality(Claimed)
    BY <1>1, <2>1, <2>2, OneClaims DEF Claims
  <2>5. ASSUME clean PROVE Exact'
    <3>1. /\ Cardinality(Claimed) \in Nat /\ Cardinality(Claimed) <= At(BetweenPcs)
          /\ Cardinality(Ids) \in Nat /\ Volume \in Nat /\ Volume + Cardinality(Ids) < UsizeMod
      BY <1>1, ClaimsCheck, Capacity, SimAssumption
    <3>2. /\ completed + in_flight + Cardinality(Claimed) <= Volume
          /\ generated = completed + in_flight + At(BetweenPcs)
      BY <1>2, <2>5 DEF Exact
    <3>3. generated + 1 < UsizeMod
      BY <1>1, <2>3, <3>1, <3>2, SimAssumption
    <3>4. generated' = generated + 1
      BY <1>1, <1>5, <3>3, NoWrap
    <3>5. completed + in_flight + Cardinality(Claimed)' <= Volume
      BY <1>1, <2>3, <2>4, <3>1, <3>2
    <3>6. generated' = completed + in_flight + At(BetweenPcs)'
      BY <1>1, <2>3, <3>2, <3>4
    <3>7. completed = tallied + At({"tally"})' /\ in_flight >= At(InFlightPcs)'
      BY <1>2, <2>3, <2>5 DEF Exact
    <3> QED
      BY <1>1, <3>5, <3>6, <3>7 DEF Exact
  <2>6. generated' \in Nat /\ wk[i].pc \notin {"absent", "exit"}
    BY <1>1, <1>5, WrapType
  <2>7. clean /\ ~cancelled => in_flight' = At(InFlightPcs)'
    BY <1>1, <1>3, <2>3
  <2> QED
    BY <1>1, <2>1, <2>2, <2>5, <2>6, <2>7, OneCounts
<1> QED
  BY <1>4, <1>5 DEF Claim

(* The check turns a claim into a transaction in flight, or takes it back. *)
LEMMA TargetCounts ==
  ASSUME CountInv, NEW i \in Ids, CheckTarget(i)
  PROVE  CountInv'
<1>1. /\ CountType /\ wk[i] \in [pc : Pcs, prior : Nat, cancel : BOOLEAN] /\ wk[i].pc = "check"
      /\ UNCHANGED <<completed, tallied>> /\ UNCHANGED ctlVars
      /\ generated \in Nat /\ in_flight \in Nat /\ completed \in Nat /\ tallied \in Nat
      /\ Volume \in Nat
  BY SimAssumption DEF CountInv, CountType, CheckTarget
<1>2. clean => Exact
  BY DEF CountInv
<1>3. clean /\ ~cancelled => in_flight = At(InFlightPcs)
  BY DEF CountInv, Uncancelled
<1>6. wk[i].prior \in Nat /\ UsizeMod \in Nat /\ Volume < UsizeMod
  BY <1>1, Capacity, SimAssumption
<1>4. CASE /\ Leave(i) /\ UNCHANGED in_flight /\ generated' = (generated - 1) % UsizeMod
           /\ wk[i].prior >= Volume
  <2> DEFINE w == Worker("exit")
  <2>1. w \in [pc : Pcs, prior : Nat, cancel : BOOLEAN] /\ w.pc = "exit" /\ wk' = [wk EXCEPT ![i] = w]
    BY <1>4 DEF Leave, Worker, Pcs
  <2> HIDE DEF w
  <2>2. /\ At(BetweenPcs)' = At(BetweenPcs) - 1 /\ At(BetweenPcs)' \in Nat
        /\ At(BetweenPcs) <= Cardinality(Ids) /\ At(BetweenPcs) \in Nat
        /\ At({"tally"})' = At({"tally"}) /\ At(InFlightPcs)' = At(InFlightPcs)
    BY <1>1, <2>1, OneShifts, ClaimsCheck
  <2>3. Cardinality(Claimed)' = Cardinality(Claimed)
    <3>1. ~(wk[i].prior < Volume) /\ w.pc # "check"
      BY <1>1, <1>4, <1>6, <2>1
    <3> QED
      BY <1>1, <2>1, <3>1, OneClaims DEF Claims
  <2>4. ASSUME clean PROVE Exact'
    <3>1. /\ Cardinality(Claimed) \in Nat
          /\ Cardinality(Ids) \in Nat /\ Volume + Cardinality(Ids) < UsizeMod
      BY <1>1, ClaimsCheck, Capacity
    <3>2. /\ completed + in_flight + Cardinality(Claimed) <= Volume
          /\ generated = completed + in_flight + At(BetweenPcs)
      BY <1>2, <2>4 DEF Exact
    <3>3. generated - 1 \in Nat /\ generated - 1 < UsizeMod
      BY <1>1, <1>6, <2>2, <3>1, <3>2
    <3>4. generated' = generated - 1
      BY <1>1, <1>4, <3>3, NoWrap
    <3>6. generated' = completed + in_flight + At(BetweenPcs)'
      BY <1>1, <2>2, <3>2, <3>4
    <3>7. completed = tallied + At({"tally"})' /\ in_flight >= At(InFlightPcs)'
      BY <1>2, <2>2, <2>4 DEF Exact
    <3> QED
      BY <1>1, <1>4, <2>3, <3>2, <3>6, <3>7 DEF Exact
  <2>5. w = Worker("exit") /\ wk[i].pc \notin {"absent", "exit"}
    BY <1>1 DEF w
  <2>6. generated' \in Nat
    BY <1>1, <1>4, WrapType
  <2>7. clean /\ ~cancelled => in_flight' = At(InFlightPcs)'
    BY <1>3, <1>4, <2>2
  <2> QED
    BY <1>1, <1>4, <2>1, <2>4, <2>5, <2>6, <2>7, OneCounts
<1>5. CASE /\ Goes(i, "send", 0) /\ UNCHANGED generated /\ in_flight' = (in_flight + 1) % UsizeMod
           /\ wk[i].prior < Volume
  <2> DEFINE w == [pc |-> "send", prior |-> 0, cancel |-> wk[i].cancel]
  <2>1. /\ w \in [pc : Pcs, prior : Nat, cancel : BOOLEAN] /\ w.pc = "send" /\ w.cancel = wk[i].cancel
    BY <1>1 DEF Pcs
  <2>2. wk' = [wk EXCEPT ![i] = w]
    BY <1>5 DEF Goes
  <2> HIDE DEF w
  <2>3. /\ At(BetweenPcs)' = At(BetweenPcs) - 1 /\ At(BetweenPcs)' \in Nat /\ At(BetweenPcs) \in Nat
        /\ At({"tally"})' = At({"tally"})
        /\ At(InFlightPcs)' = At(InFlightPcs) + 1 /\ At(InFlightPcs) \in Nat
    BY <1>1, <2>1, <2>2, OneShifts
  <2>4. /\ Cardinality(Claimed)' = Cardinality(Claimed) - 1
        /\ Cardinality(Claimed) \in Nat /\ Cardinality(Claimed)' \in Nat
    BY <1>1, <1>5, <2>1, <2>2, OneClaims DEF Claims
  <2>5. ASSUME clean PROVE Exact' /\ in_flight' = in_flight + 1
    <3>1. /\ completed + in_flight + Cardinality(Claimed) <= Volume
          /\ generated = completed + in_flight + At(BetweenPcs)
          /\ completed = tallied + At({"tally"}) /\ in_flight >= At(InFlightPcs)
      BY <1>2, <2>5 DEF Exact
    <3>2. in_flight + 1 < UsizeMod
      BY <1>1, <1>6, <2>4, <3>1
    <3>3. in_flight' = in_flight + 1
      BY <1>1, <1>5, <3>2, NoWrap
    <3>4. /\ completed + in_flight' + Cardinality(Claimed)' <= Volume
          /\ generated = completed + in_flight' + At(BetweenPcs)'
          /\ completed = tallied + At({"tally"})' /\ in_flight' >= At(InFlightPcs)'
      BY <1>1, <2>3, <2>4, <3>1, <3>3
    <3> QED
      BY <1>1, <1>5, <3>3, <3>4 DEF Exact
  <2>6. in_flight' \in Nat /\ wk[i].pc \notin {"absent", "exit"}
    BY <1>1, <1>5, WrapType
  <2>7. clean /\ ~cancelled => in_flight' = At(InFlightPcs)'
    BY <1>3, <2>3, <2>5
  <2> QED
    BY <1>1, <1>5, <2>1, <2>2, <2>5, <2>6, <2>7, OneCounts
<1> QED
  BY <1>4, <1>5 DEF CheckTarget

(* Sending and waiting count nothing; a worker that finds a cancel leaves its count. *)
LEMMA SendCounts ==
  ASSUME CountInv, NEW i \in Ids, Send(i) \/ TakeAnswer(i) \/ GiveUp(i)
  PROVE  CountInv'
<1>1. /\ CountType /\ wk[i] \in [pc : Pcs, prior : Nat, cancel : BOOLEAN]
      /\ wk[i].pc \in {"send", "wait"}
      /\ UNCHANGED <<generated, in_flight, completed, tallied>> /\ UNCHANGED ctlVars
      /\ generated \in Nat /\ in_flight \in Nat /\ completed \in Nat /\ tallied \in Nat
  BY DEF CountInv, CountType, Send, TakeAnswer, GiveUp, counters
<1>2. clean => Exact
  BY DEF CountInv
<1>3. clean /\ ~cancelled => in_flight = At(InFlightPcs) /\ ~wk[i].cancel
  BY <1>1 DEF CountInv, Uncancelled, Gone
<1>4. CASE wk[i].cancel /\ Leave(i)
  <2> DEFINE w == Worker("exit")
  <2>1. w \in [pc : Pcs, prior : Nat, cancel : BOOLEAN] /\ w.pc = "exit" /\ wk' = [wk EXCEPT ![i] = w]
    BY <1>4 DEF Leave, Worker, Pcs
  <2> HIDE DEF w
  <2>2. /\ At(BetweenPcs)' = At(BetweenPcs) /\ At({"tally"})' = At({"tally"})
        /\ At(InFlightPcs)' = At(InFlightPcs) - 1 /\ Cardinality(Claimed)' = Cardinality(Claimed)
        /\ At(InFlightPcs) \in Nat
    BY <1>1, <2>1, OneShifts, OneClaims DEF Claims
  <2>3. clean => Exact'
    BY <1>1, <1>2, <2>2 DEF Exact
  <2>4. w = Worker("exit") /\ wk[i].pc \notin {"absent", "exit"}
    BY <1>1 DEF w
  <2>5. clean /\ ~cancelled => in_flight' = At(InFlightPcs)'
    BY <1>3, <1>4
  <2> QED
    BY <1>1, <2>1, <2>3, <2>4, <2>5, OneCounts
<1>5. ASSUME NEW pc \in {"wait", "complete"}, Goes(i, pc, 0) PROVE CountInv'
  <2> DEFINE w == [pc |-> pc, prior |-> 0, cancel |-> wk[i].cancel]
  <2>1. /\ w \in [pc : Pcs, prior : Nat, cancel : BOOLEAN] /\ w.pc = pc /\ w.cancel = wk[i].cancel
    BY <1>1 DEF Pcs
  <2>2. wk' = [wk EXCEPT ![i] = w]
    BY <1>5 DEF Goes
  <2> HIDE DEF w
  <2>3. /\ At(BetweenPcs)' = At(BetweenPcs) /\ At({"tally"})' = At({"tally"})
        /\ At(InFlightPcs)' = At(InFlightPcs) /\ Cardinality(Claimed)' = Cardinality(Claimed)
    BY <1>1, <2>1, <2>2, OneShifts, OneClaims DEF Claims
  <2>4. clean => Exact'
    BY <1>1, <1>2, <2>3 DEF Exact
  <2>5. clean /\ ~cancelled => in_flight' = At(InFlightPcs)'
    BY <1>1, <1>3, <2>3
  <2>6. wk[i].pc \notin {"absent", "exit"}
    BY <1>1
  <2> QED
    BY <1>1, <2>1, <2>2, <2>4, <2>5, <2>6, OneCounts
<1> QED
  BY <1>4, <1>5 DEF Send, TakeAnswer, GiveUp

(* A transaction that has landed is no longer in flight, and not yet completed. *)
LEMMA LandCounts ==
  ASSUME CountInv, NEW i \in Ids, Land(i)
  PROVE  CountInv'
<1> DEFINE w == [pc |-> "landed", prior |-> 0, cancel |-> wk[i].cancel]
<1>1. /\ CountType /\ wk[i] \in [pc : Pcs, prior : Nat, cancel : BOOLEAN] /\ wk[i].pc = "complete"
      /\ UNCHANGED <<generated, completed, tallied>> /\ UNCHANGED ctlVars
      /\ generated \in Nat /\ in_flight \in Nat /\ completed \in Nat /\ tallied \in Nat
      /\ in_flight' = (in_flight - 1) % UsizeMod
      /\ wk' = [wk EXCEPT ![i] = w]
  BY DEF CountInv, CountType, Land, Goes
<1>2. /\ w \in [pc : Pcs, prior : Nat, cancel : BOOLEAN] /\ w.pc = "landed" /\ w.cancel = wk[i].cancel
  BY <1>1 DEF Pcs
<1> HIDE DEF w
<1>3. /\ At(BetweenPcs)' = At(BetweenPcs) + 1 /\ At(BetweenPcs) \in Nat
      /\ At({"tally"})' = At({"tally"}) /\ At({"tally"}) \in Nat
      /\ At(InFlightPcs)' = At(InFlightPcs) - 1 /\ At(InFlightPcs) \in Nat /\ At(InFlightPcs)' \in Nat
      /\ Cardinality(Claimed)' = Cardinality(Claimed) + 1 /\ Cardinality(Claimed) \in Nat
  BY <1>1, <1>2, OneShifts, OneClaims DEF Claims
<1>4. ASSUME clean PROVE Exact' /\ in_flight' = in_flight - 1
  <2>1. /\ completed + in_flight + Cardinality(Claimed) <= Volume
        /\ generated = completed + in_flight + At(BetweenPcs)
        /\ completed = tallied + At({"tally"}) /\ in_flight >= At(InFlightPcs)
    BY <1>4 DEF CountInv, Exact
  <2>2. in_flight - 1 \in Nat /\ in_flight - 1 < UsizeMod
    BY <1>1, <1>3, <2>1, Capacity, SimAssumption
  <2>3. in_flight' = in_flight - 1
    BY <1>1, <2>2, NoWrap
  <2>4. /\ completed + in_flight' + Cardinality(Claimed)' <= Volume
        /\ generated = completed + in_flight' + At(BetweenPcs)'
        /\ completed = tallied + At({"tally"})' /\ in_flight' >= At(InFlightPcs)'
    BY <1>1, <1>3, <2>1, <2>3
  <2> QED
    BY <1>1, <2>3, <2>4 DEF Exact
<1>5. clean /\ ~cancelled => in_flight' = At(InFlightPcs)'
  BY <1>3, <1>4 DEF CountInv, Uncancelled
<1>6. in_flight' \in Nat /\ wk[i].pc \notin {"absent", "exit"}
  BY <1>1, WrapType
<1> QED
  BY <1>1, <1>2, <1>4, <1>5, <1>6, OneCounts

(* A transaction that has landed is completed once. *)
LEMMA CompleteCounts ==
  ASSUME CountInv, NEW i \in Ids, Complete(i)
  PROVE  CountInv'
<1> DEFINE w == [pc |-> "tally", prior |-> 0, cancel |-> wk[i].cancel]
<1>1. /\ CountType /\ wk[i] \in [pc : Pcs, prior : Nat, cancel : BOOLEAN] /\ wk[i].pc = "landed"
      /\ UNCHANGED <<generated, in_flight, tallied>> /\ UNCHANGED ctlVars
      /\ generated \in Nat /\ in_flight \in Nat /\ completed \in Nat /\ tallied \in Nat
      /\ completed' = (completed + 1) % UsizeMod
      /\ wk' = [wk EXCEPT ![i] = w]
  BY DEF CountInv, CountType, Complete, Goes
<1>2. /\ w \in [pc : Pcs, prior : Nat, cancel : BOOLEAN] /\ w.pc = "tally" /\ w.cancel = wk[i].cancel
  BY <1>1 DEF Pcs
<1> HIDE DEF w
<1>3. /\ At(BetweenPcs)' = At(BetweenPcs) - 1 /\ At(BetweenPcs) \in Nat
      /\ At({"tally"})' = At({"tally"}) + 1 /\ At({"tally"}) \in Nat
      /\ At(InFlightPcs)' = At(InFlightPcs) /\ At(InFlightPcs) \in Nat /\ At(InFlightPcs)' \in Nat
      /\ Cardinality(Claimed)' = Cardinality(Claimed) - 1 /\ Cardinality(Claimed) \in Nat
      /\ Cardinality(Claimed)' \in Nat
  BY <1>1, <1>2, OneShifts, OneClaims DEF Claims
<1>4. ASSUME clean PROVE Exact'
  <2>1. /\ completed + in_flight + Cardinality(Claimed) <= Volume
        /\ generated = completed + in_flight + At(BetweenPcs)
        /\ completed = tallied + At({"tally"}) /\ in_flight >= At(InFlightPcs)
    BY <1>4 DEF CountInv, Exact
  <2>2. completed + 1 \in Nat /\ completed + 1 < UsizeMod
    BY <1>1, <1>3, <2>1, Capacity, SimAssumption
  <2>3. completed' = completed + 1
    BY <1>1, <2>2, NoWrap
  <2>4. /\ completed' + in_flight + Cardinality(Claimed)' <= Volume
        /\ generated = completed' + in_flight + At(BetweenPcs)'
        /\ completed' = tallied + At({"tally"})' /\ in_flight >= At(InFlightPcs)'
    BY <1>1, <1>3, <2>1, <2>3
  <2> QED
    BY <1>1, <2>3, <2>4 DEF Exact
<1>5. clean /\ ~cancelled => in_flight' = At(InFlightPcs)'
  BY <1>1, <1>3 DEF CountInv, Uncancelled
<1>6. completed' \in Nat /\ wk[i].pc \notin {"absent", "exit"}
  BY <1>1, WrapType
<1> QED
  BY <1>1, <1>2, <1>4, <1>5, <1>6, OneCounts

(* A completed transaction is tallied once. *)
LEMMA TallyCounts ==
  ASSUME CountInv, NEW i \in Ids, TallyStatus(i)
  PROVE  CountInv'
<1> DEFINE w == [pc |-> "top", prior |-> 0, cancel |-> wk[i].cancel]
<1>1. /\ CountType /\ wk[i] \in [pc : Pcs, prior : Nat, cancel : BOOLEAN] /\ wk[i].pc = "tally"
      /\ UNCHANGED <<generated, in_flight, completed>> /\ UNCHANGED ctlVars
      /\ generated \in Nat /\ in_flight \in Nat /\ completed \in Nat /\ tallied \in Nat
      /\ tallied' = (tallied + 1) % UsizeMod
      /\ wk' = [wk EXCEPT ![i] = w]
  BY DEF CountInv, CountType, TallyStatus, Goes
<1>2. /\ w \in [pc : Pcs, prior : Nat, cancel : BOOLEAN] /\ w.pc = "top" /\ w.cancel = wk[i].cancel
  BY <1>1 DEF Pcs
<1> HIDE DEF w
<1>3. /\ At(BetweenPcs)' = At(BetweenPcs) /\ At(InFlightPcs)' = At(InFlightPcs)
      /\ At({"tally"})' = At({"tally"}) - 1 /\ At({"tally"}) \in Nat /\ At({"tally"})' \in Nat
      /\ Cardinality(Claimed)' = Cardinality(Claimed) /\ Cardinality(Claimed) \in Nat
  BY <1>1, <1>2, OneShifts, OneClaims DEF Claims
<1>4. ASSUME clean PROVE Exact'
  <2>1. /\ completed + in_flight + Cardinality(Claimed) <= Volume
        /\ generated = completed + in_flight + At(BetweenPcs)
        /\ completed = tallied + At({"tally"}) /\ in_flight >= At(InFlightPcs)
    BY <1>4 DEF CountInv, Exact
  <2>2. tallied + 1 < UsizeMod
    BY <1>1, <1>3, <2>1, Capacity, SimAssumption
  <2>3. tallied' = tallied + 1
    BY <1>1, <2>2, NoWrap
  <2> QED
    BY <1>1, <1>3, <2>1, <2>3 DEF Exact
<1>5. clean /\ ~cancelled => in_flight' = At(InFlightPcs)'
  BY <1>1, <1>3 DEF CountInv, Uncancelled
<1>6. tallied' \in Nat /\ wk[i].pc \notin {"absent", "exit"}
  BY <1>1, WrapType
<1> QED
  BY <1>1, <1>2, <1>4, <1>5, <1>6, OneCounts

(* Every step preserves the invariant of the counters. *)
LEMMA NextCount ==
  ASSUME CountInv, [Next]_vars
  PROVE  CountInv'
<1>1. ASSUME (\E i \in Ids : DaemonAnswers(i)) \/ UNCHANGED vars PROVE CountInv'
  <2>1. UNCHANGED <<counters, ctlVars, wk>>
    BY <1>1 DEF DaemonAnswers, vars
  <2>2. At(BetweenPcs)' = At(BetweenPcs) /\ At({"tally"})' = At({"tally"})
        /\ At(InFlightPcs)' = At(InFlightPcs) /\ Claimed' = Claimed /\ Gone' = Gone
    BY <2>1 DEF At, Claimed, Claims, Gone
  <2>3. CountType' /\ Exact' = Exact /\ Uncancelled' = Uncancelled
    BY <2>1, <2>2 DEF CountInv, CountType, Exact, Uncancelled, counters, ctlVars
  <2> QED
    BY <2>1, <2>3 DEF CountInv, ctlVars
<1> QED
  BY <1>1, StartCounts, ControlCounts, ClaimCounts, TargetCounts, SendCounts, LandCounts,
     CompleteCounts, TallyCounts DEF Next, WorkerStep

\* For any number of workers and any volume, in a run that nothing left of an
\* earlier one disturbs the counters are exact: fetch_add and the late fetch_sub
\* let no more than the volume through, whatever the interleaving of the workers
\* and whenever it is cancelled (engine.rs of the simulator, run_worker).
THEOREM CounterSafety == Spec => []CountersExact
<1>1. ASSUME CountInv PROVE CountersExact
  <2> SUFFICES ASSUME clean
               PROVE  /\ completed + in_flight + At({"landed"}) <= Volume
                      /\ generated = completed + in_flight + At(BetweenPcs)
                      /\ completed = tallied + At({"tally"})
                      /\ ~cancelled => in_flight = At(InFlightPcs)
    BY DEF CountersExact
  <2>1. Exact /\ CountType
    BY <1>1 DEF CountInv
  <2>2. ~cancelled => in_flight = At(InFlightPcs)
    BY <1>1 DEF CountInv, Uncancelled
  <2>3. completed + in_flight + At({"landed"}) <= Volume
    <3> DEFINE L == {i \in Ids : wk[i].pc \in {"landed"}}
    <3>1. IsFiniteSet(Claimed)
      BY Capacity, FS_Subset DEF Claimed
    <3>2. L \subseteq Claimed
      BY DEF Claimed, Claims
    <3>3. At({"landed"}) = Cardinality(L)
      BY DEF At
    <3> HIDE DEF L
    <3>4. At({"landed"}) \in Nat /\ At({"landed"}) <= Cardinality(Claimed)
      BY <3>1, <3>2, <3>3, FS_Subset, FS_CardinalityType
    <3> QED
      BY <2>1, <3>4, ClaimsCheck, SimAssumption DEF Exact, CountType
  <2> QED
    BY <2>1, <2>2, <2>3 DEF Exact
<1> QED
  BY <1>1, InitCount, NextCount, PTL DEF Spec
=============================================================================

-------------------------- MODULE SwitchCoreProofs --------------------------
(***************************************************************************)
(* Proofs about SwitchCore, for every set of attempts, nodes and workers,  *)
(* every STAN space, channel capacity and assignment of RRNs, STANs, kinds *)
(* and routes to the attempts.                                             *)
(***************************************************************************)
EXTENDS SwitchCore, TLAPS

(* Keys of attempts are guard keys. *)
LEMMA KeyInKeys == \A a \in Attempts : Key(a) \in Keys
  BY AttributeAssumption DEF Key, Keys, Ids

(* Routing yields a channel or none. *)
LEMMA TargetNodeType ==
  ASSUME NEW r \in Routes
  PROVE  TargetNode(r) \in Nodes \cup {NoNode}
  BY DEF TargetNode, Usable, Routes

\* Trace numbers wrap within their range.
LEMMA StansFacts == 0 \in Stans /\ (\A s \in Stans : (s + 1) % StanMod \in Stans) /\ NoStan \notin Stans
  BY BoundAssumption DEF Stans, NoStan

(* Initially the invariant holds. *)
LEMMA InitIInv == Init => IInv
<1> SUFFICES ASSUME Init PROVE IInv
  OBVIOUS
<1>1. TypeOK
  BY StansFacts, BoundAssumption DEF Init, TypeOK, PCs, Codes
<1>2. ContextInv /\ ThreadInv /\ GuardInv /\ AdviceInv
  BY DEF Init, ContextInv, ThreadInv, GuardInv, AdviceInv, Present, NoEntry
<1> QED
  BY <1>1, <1>2 DEF IInv

(* An entry that is present is a full entry. *)
LEMMA PresentEntry ==
  ASSUME TypeOK, NEW k \in Keys, Present(k)
  PROVE  guard[k] \in Entry
  BY DEF TypeOK, Present, NoEntry

(* Under the invariant no two keys hold the same attempt. *)
LEMMA OneKeyPerAttempt ==
  ASSUME GuardInv, NEW k \in Keys, NEW l \in Keys, Present(k), Present(l),
         guard[k].att = guard[l].att
  PROVE  k = l
  BY DEF GuardInv

(* What Send does to the channels. *)
LEMMA SendFacts ==
  ASSUME TypeOK, NEW n \in Nodes, NEW mti, NEW a, NEW s,
         [mti |-> mti, att |-> a, stan |-> s] \in Frame, Send(n, mti, a, s)
  PROVE  /\ egress' \in [Nodes -> Seq(Frame)]
         /\ \A m \in Nodes : \A i \in 1 .. Len(egress'[m]) :
              \/ i \in 1 .. Len(egress[m]) /\ egress'[m][i] = egress[m][i]
              \/ egress'[m][i] = [mti |-> mti, att |-> a, stan |-> s]
<1> DEFINE f == [mti |-> mti, att |-> a, stan |-> s]
<1>1. egress[n] \in Seq(Frame) /\ f \in Frame
  BY DEF TypeOK
<1>2. egress' = [egress EXCEPT ![n] = Append(egress[n], f)]
  BY DEF Send
<1> HIDE DEF f
<1>3. egress' \in [Nodes -> Seq(Frame)]
  BY <1>1, <1>2 DEF TypeOK
<1>4. ASSUME NEW m \in Nodes, NEW i \in 1 .. Len(egress'[m])
      PROVE  \/ i \in 1 .. Len(egress[m]) /\ egress'[m][i] = egress[m][i]
             \/ egress'[m][i] = f
  BY <1>1, <1>2 DEF TypeOK
<1> QED
  BY <1>3, <1>4 DEF f

(* Screening answers a context nobody else holds. *)
LEMMA ScreenDeclineStep ==
  ASSUME IInv, NEW a \in Attempts, NEW rc \in ScreenCodes, ScreenDecline(a, rc)
  PROVE  IInv'
<1> USE KeyInKeys, AttributeAssumption, BoundAssumption, SentinelAssumption, StansFacts
<1> USE DEF ScreenDecline, Tell, IInv, vars, ctxVars, envVars, bankVars, histVars, reapVars, replyVars
<1>1. TypeOK'
  BY DEF TypeOK, Goto, PCs, Codes
<1>2. ContextInv'
  BY DEF TypeOK, ContextInv, Goto
<1>3. ThreadInv'
  BY DEF TypeOK, ThreadInv
<1>4. GuardInv'
  BY DEF TypeOK, GuardInv, Present, Goto, ContextInv, Entry, NoEntry
<1>5. AdviceInv'
  BY DEF TypeOK, AdviceInv, ContextInv
<1> QED
  BY <1>1, <1>2, <1>3, <1>4, <1>5

(* So does the echo of a 0800. *)
LEMMA EchoReplyStep ==
  ASSUME IInv, NEW a \in Attempts, EchoReply(a)
  PROVE  IInv'
<1> USE KeyInKeys, AttributeAssumption, BoundAssumption, SentinelAssumption, StansFacts
<1> USE DEF EchoReply, Tell, IInv, vars, ctxVars, envVars, bankVars, histVars, reapVars, replyVars
<1>1. TypeOK'
  BY DEF TypeOK, Goto, PCs, Codes
<1>2. ContextInv'
  BY DEF TypeOK, ContextInv, Goto
<1>3. ThreadInv'
  BY DEF TypeOK, ThreadInv
<1>4. GuardInv'
  BY DEF TypeOK, GuardInv, Present, Goto, ContextInv, Entry, NoEntry
<1>5. AdviceInv'
  BY DEF TypeOK, AdviceInv, ContextInv
<1> QED
  BY <1>1, <1>2, <1>3, <1>4, <1>5

(* And the rejection of a duplicate. *)
LEMMA RejectDuplicateStep ==
  ASSUME IInv, NEW a \in Attempts, RejectDuplicate(a)
  PROVE  IInv'
<1> USE KeyInKeys, AttributeAssumption, BoundAssumption, SentinelAssumption, StansFacts
<1> USE DEF RejectDuplicate, Tell, IInv, vars, ctxVars, envVars, bankVars, histVars, reapVars, replyVars
<1>1. TypeOK'
  BY DEF TypeOK, Goto, PCs, Codes
<1>2. ContextInv'
  BY DEF TypeOK, ContextInv, Goto
<1>3. ThreadInv'
  BY DEF TypeOK, ThreadInv
<1>4. GuardInv'
  BY DEF TypeOK, GuardInv, Present, Goto, ContextInv, Entry, NoEntry
<1>5. AdviceInv'
  BY DEF TypeOK, AdviceInv, ContextInv
<1> QED
  BY <1>1, <1>2, <1>3, <1>4, <1>5

(* A terminal's reversal relabels entries; it moves no responder. *)
LEMMA TerminalReversalStep ==
  ASSUME IInv, NEW a \in Attempts, TerminalReversal(a)
  PROVE  IInv'
<1> USE KeyInKeys, AttributeAssumption, BoundAssumption, SentinelAssumption, StansFacts
<1> USE DEF TerminalReversal, Tell, IInv, vars, ctxVars, envVars, bankVars, histVars, reapVars, replyVars
<1>1. TypeOK'
  <2>1. guard' \in [Keys -> Entry \cup {NoEntry}]
    <3>1. ASSUME NEW k \in Keys, Present(k)
          PROVE  [guard[k] EXCEPT !.state = "ReversedPending"] \in Entry
      BY <3>1, PresentEntry DEF Entry, States
    <3> QED
      BY <3>1 DEF TypeOK
  <2>2. ledger' \subseteq Postings
    <3>1. ASSUME NEW k \in Keys, Present(k)
          PROVE  <<"offset", a, guard[k].att>> \in Postings
      BY <3>1, PresentEntry DEF Entry, Postings
    <3> QED
      BY <3>1 DEF TypeOK
  <2> QED
    BY <2>1, <2>2 DEF TypeOK, Goto, PCs, Codes
<1>2. ContextInv'
  BY DEF TypeOK, ContextInv, Goto
<1>3. ThreadInv'
  BY DEF TypeOK, ThreadInv, Present, Entry, NoEntry, States
<1>4. GuardInv'
  BY DEF TypeOK, GuardInv, Present, Goto, ContextInv, Entry, NoEntry
<1>5. AdviceInv'
  BY DEF TypeOK, AdviceInv, ContextInv
<1> QED
  BY <1>1, <1>2, <1>3, <1>4, <1>5

(* A new entry carries the responder of an unanswered terminal. *)
LEMMA AdmitStep ==
  ASSUME IInv, NEW a \in Attempts, Admit(a)
  PROVE  IInv'
<1> USE KeyInKeys, AttributeAssumption, BoundAssumption, SentinelAssumption, StansFacts
<1> USE DEF Admit, IInv, vars, ctxVars, envVars, bankVars, histVars, reapVars, replyVars
<1>1. TypeOK'
  <2>1. NewEntry(a) \in Entry
    BY DEF NewEntry, Fresh, Entry, States
  <2> QED
    BY <2>1 DEF TypeOK, Goto, PCs
<1>2. ContextInv'
  BY DEF TypeOK, ContextInv, Goto
<1>3. ThreadInv'
  BY DEF TypeOK, ThreadInv, Locked, NewEntry
<1>4. GuardInv'
  BY DEF TypeOK, GuardInv, Present, Goto, ContextInv, Key, NewEntry, Entry, NoEntry, Online
<1>5. AdviceInv'
  BY DEF TypeOK, AdviceInv
<1> QED
  BY <1>1, <1>2, <1>3, <1>4, <1>5

(* Routing sets a node exactly when it goes on to forward. *)
LEMMA RouteTransactionStep ==
  ASSUME IInv, NEW a \in Attempts, RouteTransaction(a)
  PROVE  IInv'
<1> USE KeyInKeys, AttributeAssumption, BoundAssumption, SentinelAssumption, StansFacts
<1> USE DEF RouteTransaction, IInv, vars, ctxVars, envVars, bankVars, histVars, reapVars, replyVars
<1>1. TypeOK'
  <2>1. TargetNode(Route[a]) \in Nodes \cup {NoNode} /\ <<a, Mti[a]>> \in Records
    BY TargetNodeType DEF Records
  <2>2. journal' \subseteq Records
    BY <2>1 DEF TypeOK
  <2>3. node' \in [Attempts -> Nodes \cup {NoNode}] /\ pc' \in [Attempts -> PCs]
    BY <2>1 DEF TypeOK, Goto, PCs
  <2> QED
    BY <2>2, <2>3 DEF TypeOK
<1>2. ContextInv'
  <2>1. TargetNode(Route[a]) \in Nodes \cup {NoNode}
    BY TargetNodeType
  <2> QED
    BY <2>1 DEF TypeOK, ContextInv, Goto
<1>3. ThreadInv'
  BY DEF TypeOK, ThreadInv
<1>4. GuardInv'
  BY DEF TypeOK, GuardInv, Present, Goto, Entry, NoEntry
<1>5. AdviceInv'
  BY DEF TypeOK, AdviceInv
<1> QED
  BY <1>1, <1>2, <1>3, <1>4, <1>5

(* A context whose append fails is dropped. *)
LEMMA RouteUnjournaledStep ==
  ASSUME IInv, NEW a \in Attempts, RouteUnjournaled(a)
  PROVE  IInv'
<1> USE KeyInKeys, AttributeAssumption, BoundAssumption, SentinelAssumption, StansFacts
<1> USE DEF RouteUnjournaled, IInv, vars, ctxVars, envVars, bankVars, histVars, reapVars, replyVars
<1>1. TypeOK'
  BY DEF TypeOK, Goto, PCs
<1>2. ContextInv'
  BY DEF TypeOK, ContextInv, Goto
<1>3. ThreadInv'
  BY DEF TypeOK, ThreadInv
<1>4. GuardInv'
  BY DEF TypeOK, GuardInv, Present, Goto, Entry, NoEntry
<1>5. AdviceInv'
  BY DEF TypeOK, AdviceInv
<1> QED
  BY <1>1, <1>2, <1>3, <1>4, <1>5

(* The egress STAN comes from the six-digit counter. *)
LEMMA AssignEgressStanStep ==
  ASSUME IInv, NEW a \in Attempts, AssignEgressStan(a)
  PROVE  IInv'
<1> USE KeyInKeys, AttributeAssumption, BoundAssumption, SentinelAssumption, StansFacts
<1> USE DEF AssignEgressStan, IInv, vars, ctxVars, envVars, bankVars, histVars, reapVars, replyVars
<1>1. TypeOK'
  BY DEF TypeOK, Goto, PCs
<1>2. ContextInv'
  BY DEF TypeOK, ContextInv, Goto
<1>3. ThreadInv'
  BY DEF TypeOK, ThreadInv
<1>4. GuardInv'
  BY DEF TypeOK, GuardInv, Present, Goto, Entry, NoEntry
<1>5. AdviceInv'
  BY DEF TypeOK, AdviceInv
<1> QED
  BY <1>1, <1>2, <1>3, <1>4, <1>5

(* Noting the egress STAN changes nothing else of an entry. *)
LEMMA RecordEgressStanStep ==
  ASSUME IInv, NEW a \in Attempts, RecordEgressStan(a)
  PROVE  IInv'
<1> USE KeyInKeys, AttributeAssumption, BoundAssumption, SentinelAssumption, StansFacts
<1> USE DEF RecordEgressStan, IInv, vars, ctxVars, envVars, bankVars, histVars, reapVars, replyVars
<1>1. TypeOK'
  <2>1. guard' \in [Keys -> Entry \cup {NoEntry}]
    <3>1. CASE ~Present(Key(a))
      BY <3>1 DEF TypeOK
    <3>2. CASE Present(Key(a))
      <4>1. guard[Key(a)] \in Entry
        BY <3>2, PresentEntry
      <4>2. [guard[Key(a)] EXCEPT !.stan = estan[a]] \in Entry
        BY <4>1, ZenonT(40) DEF TypeOK, Entry
      <4> QED
        BY <3>2, <4>2 DEF TypeOK
    <3> QED
      BY <3>1, <3>2
  <2> QED
    BY <2>1 DEF TypeOK, Goto, PCs, Postings
<1>2. ContextInv'
  BY DEF TypeOK, ContextInv, Goto
<1>3. ThreadInv'
  BY DEF TypeOK, ThreadInv, Locked, Entry, NoEntry, Present
<1>4. GuardInv'
  BY DEF TypeOK, GuardInv, Present, Goto, Entry, NoEntry
<1>5. AdviceInv'
  BY DEF TypeOK, AdviceInv
<1> QED
  BY <1>1, <1>2, <1>3, <1>4, <1>5

(* The forwarded frame has the MTI of the context. *)
LEMMA ForwardUpstreamStep ==
  ASSUME IInv, NEW a \in Attempts, ForwardUpstream(a)
  PROVE  IInv'
<1> USE KeyInKeys, AttributeAssumption, BoundAssumption, SentinelAssumption, StansFacts
<1> USE DEF ForwardUpstream, IInv, vars, ctxVars, envVars, bankVars, histVars, reapVars, replyVars
<1>1. TypeOK'
  <2>1. node[a] \in Nodes /\ [mti |-> Mti[a], att |-> a, stan |-> estan[a]] \in Frame
    BY DEF ContextInv, Frame, Mtis
  <2>2. egress' \in [Nodes -> Seq(Frame)]
    BY <2>1, SendFacts
  <2> QED
    BY <2>2 DEF TypeOK, Goto, PCs, Advised
<1>2. ContextInv'
  BY DEF TypeOK, ContextInv, Goto
<1>3. ThreadInv'
  BY DEF TypeOK, ThreadInv
<1>4. GuardInv'
  BY DEF TypeOK, GuardInv, Present, Goto, Entry, NoEntry
<1>5. AdviceInv'
  <2> DEFINE n == node[a]
             s == estan[a]
  <2>1. n \in Nodes /\ [mti |-> Mti[a], att |-> a, stan |-> s] \in Frame
    BY DEF ContextInv, Frame, Mtis
  <2>2. Send(n, Mti[a], a, s) /\ TypeOK
    OBVIOUS
  <2>3. \A m \in Nodes : \A i \in 1 .. Len(egress'[m]) :
          \/ i \in 1 .. Len(egress[m]) /\ egress'[m][i] = egress[m][i]
          \/ egress'[m][i] = [mti |-> Mti[a], att |-> a, stan |-> s]
    <3> HIDE DEF n, s
    <3> QED
      BY <2>1, <2>2, SendFacts
  <2> QED
    BY <2>3 DEF AdviceInv, Advised
<1> QED
  BY <1>1, <1>2, <1>3, <1>4, <1>5

(* A stand-in decision reaches the journal only. *)
LEMMA StipFallbackStep ==
  ASSUME IInv, NEW a \in Attempts, NEW rc \in StipCodes, StipFallback(a, rc)
  PROVE  IInv'
<1> USE KeyInKeys, AttributeAssumption, BoundAssumption, SentinelAssumption, StansFacts
<1> USE DEF StipFallback, IInv, vars, ctxVars, envVars, bankVars, histVars, reapVars, replyVars
<1>1. TypeOK'
  BY DEF TypeOK, Goto, PCs, Records, Mtis
<1>2. ContextInv'
  BY DEF TypeOK, ContextInv, Goto
<1>3. ThreadInv'
  BY DEF TypeOK, ThreadInv
<1>4. GuardInv'
  BY DEF TypeOK, GuardInv, Present, Goto, Entry, NoEntry
<1>5. AdviceInv'
  BY DEF TypeOK, AdviceInv
<1> QED
  BY <1>1, <1>2, <1>3, <1>4, <1>5

(* The 05 goes to the terminal whose responder the entry holds. *)
LEMMA DeclineUnroutedStep ==
  ASSUME IInv, NEW a \in Attempts, DeclineUnrouted(a)
  PROVE  IInv'
<1> USE KeyInKeys, AttributeAssumption, BoundAssumption, SentinelAssumption, StansFacts
<1> USE DEF DeclineUnrouted, IInv, vars, ctxVars, envVars, bankVars, histVars, reapVars, replyVars
<1>1. TypeOK'
  <2>1. guard' \in [Keys -> Entry \cup {NoEntry}]
    <3>1. CASE ~Present(Key(a))
      BY <3>1 DEF TypeOK
    <3>2. CASE Present(Key(a))
      <4>1. guard[Key(a)] \in Entry
        BY <3>2, PresentEntry
      <4>2. [guard[Key(a)] EXCEPT !.state = "Completed", !.resp = FALSE] \in Entry
        BY <4>1 DEF Entry, States
      <4> QED
        BY <3>2, <4>2, ZenonT(40) DEF TypeOK
    <3> QED
      BY <3>1, <3>2
  <2>2. answer' \in [Attempts -> Codes] /\ pc' \in [Attempts -> PCs]
    <3>1. CASE Present(Key(a))
      <4>1. guard[Key(a)].att \in Attempts /\ Respond(guard[Key(a)], "05")
        BY <3>1, PresentEntry DEF Entry
      <4> QED
        BY <4>1 DEF TypeOK, Goto, PCs, Codes, Respond
    <3>2. CASE ~Present(Key(a))
      BY <3>2 DEF TypeOK, Goto, PCs
    <3> QED
      BY <3>1, <3>2
  <2> QED
    BY <2>1, <2>2 DEF TypeOK
<1>2. ContextInv'
  BY DEF TypeOK, ContextInv, Goto, Respond, GuardInv, Present, Entry, NoEntry
<1>3. ThreadInv'
  BY DEF TypeOK, ThreadInv, Locked, Entry, NoEntry, Present
<1>4. GuardInv'
  <2>1. Key(a) \in Keys
    OBVIOUS
  <2>2. CASE ~Present(Key(a))
    BY <2>2 DEF TypeOK, GuardInv, Present, Goto, Entry, NoEntry
  <2>3. CASE Present(Key(a))
    <3> DEFINE e == guard[Key(a)]
    <3>1. e \in Entry /\ e.att \in Attempts /\ Key(e.att) = Key(a) /\ pc[e.att] # "new"
              /\ e.att \in Online
      BY <2>1, <2>3, PresentEntry DEF Entry, GuardInv
    <3>2. guard' = [guard EXCEPT ![Key(a)] = [e EXCEPT !.state = "Completed", !.resp = FALSE]]
      BY <2>3
    <3>3. \A b \in Attempts : b # e.att => answer'[b] = answer[b]
      BY <2>3, <3>1 DEF TypeOK, Respond
    <3>4. \A b \in Attempts : pc[b] # "new" => pc'[b] # "new"
      BY DEF TypeOK, Goto
    <3> SUFFICES ASSUME NEW l \in Keys, Present(l)'
                 PROVE  /\ Key(guard'[l].att) = l
                        /\ pc'[guard'[l].att] # "new" /\ guard'[l].att \in Online
                        /\ guard'[l].state = "UpstreamSent" /\ Held[guard'[l].att] => guard'[l].resp
                        /\ guard'[l].resp => answer'[guard'[l].att] = "none"
                        /\ guard'[l].state = "Reversed" /\ Held[guard'[l].att] => answer'[guard'[l].att] = "68"
      BY DEF GuardInv, Key
    <3>5. CASE l = Key(a)
      <4>1. guard'[l] = [e EXCEPT !.state = "Completed", !.resp = FALSE]
        BY <3>2, <3>5 DEF TypeOK
      <4> QED
        BY <3>1, <3>4, <3>5, <4>1 DEF Entry
    <3>6. CASE l # Key(a)
      <4>1. guard'[l] = guard[l] /\ Present(l)
        BY <3>2, <3>6 DEF TypeOK, Present
      <4>2. guard[l].att \in Attempts /\ guard[l].att # e.att
        BY <2>1, <2>3, <3>6, <4>1, PresentEntry, OneKeyPerAttempt DEF Entry
      <4> QED
        BY <3>3, <3>4, <4>1, <4>2 DEF GuardInv
    <3> QED
      BY <3>5, <3>6
  <2> QED
    BY <2>2, <2>3
<1>5. AdviceInv'
  BY DEF TypeOK, AdviceInv, Respond, GuardInv, Present, Entry, NoEntry
<1> QED
  BY <1>1, <1>2, <1>3, <1>4, <1>5

(* Eviction removes an entry the reaper does not hold. *)
LEMMA EvictUnroutedStep ==
  ASSUME IInv, NEW a \in Attempts, EvictUnrouted(a)
  PROVE  IInv'
<1> USE KeyInKeys, AttributeAssumption, BoundAssumption, SentinelAssumption, StansFacts
<1> USE DEF EvictUnrouted, IInv, vars, ctxVars, envVars, bankVars, histVars, reapVars, replyVars
<1>1. TypeOK'
  BY DEF TypeOK, Goto, PCs
<1>2. ContextInv'
  BY DEF TypeOK, ContextInv, Goto
<1>3. ThreadInv'
  BY DEF TypeOK, ThreadInv, Locked, NoEntry
<1>4. GuardInv'
  BY DEF TypeOK, GuardInv, Present, Goto, Entry, NoEntry
<1>5. AdviceInv'
  BY DEF TypeOK, AdviceInv
<1> QED
  BY <1>1, <1>2, <1>3, <1>4, <1>5

(* A context the HSM thread drops is simply gone. *)
LEMMA HsmDropStep ==
  ASSUME IInv, NEW a \in Attempts, HsmDrop(a)
  PROVE  IInv'
<1> USE KeyInKeys, AttributeAssumption, BoundAssumption, SentinelAssumption, StansFacts
<1> USE DEF HsmDrop, IInv, vars, ctxVars, envVars, bankVars, histVars, reapVars, replyVars
<1>1. TypeOK'
  BY DEF TypeOK, Goto, PCs
<1>2. ContextInv'
  BY DEF TypeOK, ContextInv, Goto
<1>3. ThreadInv'
  BY DEF TypeOK, ThreadInv
<1>4. GuardInv'
  BY DEF TypeOK, GuardInv, Present, Goto, Entry, NoEntry
<1>5. AdviceInv'
  BY DEF TypeOK, AdviceInv
<1> QED
  BY <1>1, <1>2, <1>3, <1>4, <1>5

(* A verified context is routed like any other. *)
LEMMA HsmAcceptStep ==
  ASSUME IInv, NEW a \in Attempts, HsmAccept(a)
  PROVE  IInv'
<1> USE KeyInKeys, AttributeAssumption, BoundAssumption, SentinelAssumption, StansFacts
<1> USE DEF HsmAccept, IInv, vars, ctxVars, envVars, bankVars, histVars, reapVars, replyVars
<1>1. TypeOK'
  <2>1. TargetNode(Route[a]) \in Nodes \cup {NoNode} /\ <<a, Mti[a]>> \in Records
    BY TargetNodeType DEF Records
  <2>2. journal' \subseteq Records
    <3>1. journal' = journal \cup {<<a, Mti[a]>>} /\ journal \subseteq Records
      BY DEF TypeOK
    <3> QED
      BY ONLY <2>1, <3>1
  <2>3. node' \in [Attempts -> Nodes \cup {NoNode}] /\ pc' \in [Attempts -> PCs]
    BY <2>1 DEF TypeOK, Goto, PCs
  <2> QED
    BY <2>2, <2>3 DEF TypeOK
<1>2. ContextInv'
  <2>1. TargetNode(Route[a]) \in Nodes \cup {NoNode}
    BY TargetNodeType
  <2> QED
    BY <2>1 DEF TypeOK, ContextInv, Goto
<1>3. ThreadInv'
  BY DEF TypeOK, ThreadInv
<1>4. GuardInv'
  BY DEF TypeOK, GuardInv, Present, Goto, Entry, NoEntry
<1>5. AdviceInv'
  BY DEF TypeOK, AdviceInv
<1> QED
  BY <1>1, <1>2, <1>3, <1>4, <1>5

(* It is sent with the terminal's own STAN. *)
LEMMA HsmForwardStep ==
  ASSUME IInv, NEW a \in Attempts, HsmForward(a)
  PROVE  IInv'
<1> USE KeyInKeys, AttributeAssumption, BoundAssumption, SentinelAssumption, StansFacts
<1> USE DEF HsmForward, IInv, vars, ctxVars, envVars, bankVars, histVars, reapVars, replyVars
<1>1. TypeOK'
  <2>1. node[a] \in Nodes /\ [mti |-> Mti[a], att |-> a, stan |-> Stan[a]] \in Frame
    BY DEF ContextInv, Frame, Mtis
  <2>2. egress' \in [Nodes -> Seq(Frame)]
    BY <2>1, SendFacts
  <2> QED
    BY <2>2 DEF TypeOK, Goto, PCs, Advised
<1>2. ContextInv'
  BY DEF TypeOK, ContextInv, Goto
<1>3. ThreadInv'
  BY DEF TypeOK, ThreadInv
<1>4. GuardInv'
  BY DEF TypeOK, GuardInv, Present, Goto, Entry, NoEntry
<1>5. AdviceInv'
  <2> DEFINE n == node[a]
             s == Stan[a]
  <2>1. n \in Nodes /\ [mti |-> Mti[a], att |-> a, stan |-> s] \in Frame
    BY DEF ContextInv, Frame, Mtis
  <2>2. Send(n, Mti[a], a, s) /\ TypeOK
    OBVIOUS
  <2>3. \A m \in Nodes : \A i \in 1 .. Len(egress'[m]) :
          \/ i \in 1 .. Len(egress[m]) /\ egress'[m][i] = egress[m][i]
          \/ egress'[m][i] = [mti |-> Mti[a], att |-> a, stan |-> s]
    <3> HIDE DEF n, s
    <3> QED
      BY <2>1, <2>2, SendFacts
  <2> QED
    BY <2>3 DEF AdviceInv, Advised
<1> QED
  BY <1>1, <1>2, <1>3, <1>4, <1>5

(* The scan only collects keys. *)
LEMMA ReaperScanStep ==
  ASSUME IInv, ReaperScan
  PROVE  IInv'
<1> USE KeyInKeys, AttributeAssumption, BoundAssumption, SentinelAssumption, StansFacts
<1> USE DEF ReaperScan, IInv, vars, ctxVars, envVars, bankVars, histVars, reapVars, replyVars
<1>1. TypeOK'
  BY DEF TypeOK, OverdueKeys
<1>2. ContextInv'
  BY DEF TypeOK, ContextInv
<1>3. ThreadInv'
  BY DEF TypeOK, ThreadInv
<1>4. GuardInv'
  BY DEF TypeOK, GuardInv, Present
<1>5. AdviceInv'
  BY DEF TypeOK, AdviceInv
<1> QED
  BY <1>1, <1>2, <1>3, <1>4, <1>5

(* A reversed entry was waiting, so it held its responder and is told 68. *)
LEMMA ReaperReverseStep ==
  ASSUME IInv, NEW k \in Keys, ReaperReverse(k)
  PROVE  IInv'
<1> USE KeyInKeys, AttributeAssumption, BoundAssumption, SentinelAssumption, StansFacts
<1> USE DEF ReaperReverse, IInv, vars, ctxVars, envVars, bankVars, histVars, reapVars, replyVars
<1>1. TypeOK'
  <2>1. guard[k] \in Entry
    BY PresentEntry DEF Present, Reversible
  <2>2. [guard[k] EXCEPT !.state = "Reversed", !.stan = NoStan, !.resp = FALSE] \in Entry
    BY <2>1 DEF Entry, States
  <2>3. guard' \in [Keys -> Entry \cup {NoEntry}]
    BY <2>2 DEF TypeOK
  <2>4. answer' \in [Attempts -> Codes] /\ rstan' \in Stans \cup {NoStan}
    BY <2>1 DEF TypeOK, Respond, Codes, Entry
  <2> QED
    BY <2>3, <2>4 DEF TypeOK
<1>2. ContextInv'
  BY DEF TypeOK, ContextInv, Reversible, Respond, GuardInv, Present, Entry, NoEntry
<1>3. ThreadInv'
  BY DEF TypeOK, ThreadInv, Reversible, Present, Entry, NoEntry, States
<1>4. GuardInv'
  BY DEF TypeOK, GuardInv, Present, Reversible, Respond, Entry, NoEntry
<1>5. AdviceInv'
  BY DEF TypeOK, AdviceInv, Reversible, Respond, GuardInv, Present, Entry, NoEntry
<1> QED
  BY <1>1, <1>2, <1>3, <1>4, <1>5

(* Skipping changes nothing but the list. *)
LEMMA ReaperSkipStep ==
  ASSUME IInv, NEW k \in Keys, ReaperSkip(k)
  PROVE  IInv'
<1> USE KeyInKeys, AttributeAssumption, BoundAssumption, SentinelAssumption, StansFacts
<1> USE DEF ReaperSkip, IInv, vars, ctxVars, envVars, bankVars, histVars, reapVars, replyVars
<1>1. TypeOK'
  BY DEF TypeOK
<1>2. ContextInv'
  BY DEF TypeOK, ContextInv
<1>3. ThreadInv'
  BY DEF TypeOK, ThreadInv
<1>4. GuardInv'
  BY DEF TypeOK, GuardInv, Present
<1>5. AdviceInv'
  BY DEF TypeOK, AdviceInv
<1> QED
  BY <1>1, <1>2, <1>3, <1>4, <1>5

(* The 0420 goes out for the attempt of the locked, reversed entry. *)
LEMMA ReaperAdviseStep ==
  ASSUME IInv, ReaperAdvise
  PROVE  IInv'
<1> USE KeyInKeys, AttributeAssumption, BoundAssumption, SentinelAssumption, StansFacts
<1> USE DEF ReaperAdvise, IInv, vars, ctxVars, envVars, bankVars, histVars, reapVars, replyVars
<1>1. TypeOK'
  <2> DEFINE a == guard[rkey].att
             n == Route[a].primary
  <2>1. rkey \in Keys /\ Present(rkey)
    BY DEF ThreadInv, Present
  <2>2. a \in Attempts
    BY <2>1, PresentEntry DEF Entry
  <2>3. n \in Nodes \cup {NoNode} /\ [mti |-> "0420", att |-> a, stan |-> Stan[a]] \in Frame
    BY <2>2 DEF Routes, Frame, Mtis
  <2>4. egress' \in [Nodes -> Seq(Frame)] /\ advised' \subseteq Attempts
    <3>1. CASE n = NoNode
      BY <3>1 DEF TypeOK
    <3>2. CASE n # NoNode
      <4>1. n \in Nodes /\ Send(n, "0420", a, Stan[a]) /\ advised' = advised \cup {a}
        BY <2>3, <3>2
      <4> QED
        BY <2>2, <2>3, <4>1, SendFacts DEF TypeOK
    <3> QED
      BY <3>1, <3>2
  <2> QED
    BY <2>4 DEF TypeOK
<1>2. ContextInv'
  BY DEF TypeOK, ContextInv
<1>3. ThreadInv'
  BY DEF TypeOK, ThreadInv
<1>4. GuardInv'
  BY DEF TypeOK, GuardInv, Present
<1>5. AdviceInv'
  <2> DEFINE a == guard[rkey].att
             n == Route[a].primary
  <2>1. rkey \in Keys /\ Present(rkey) /\ guard[rkey].state = "Reversed"
    BY DEF ThreadInv, Present
  <2>2. a \in Attempts /\ (answer[a] = "68" \/ Mti[a] = "0420")
    BY <2>1, PresentEntry, SessionAssumption DEF Entry, GuardInv
  <2>3. n \in Nodes \cup {NoNode} /\ [mti |-> "0420", att |-> a, stan |-> Stan[a]] \in Frame
    BY <2>2 DEF Routes, Frame, Mtis
  <2>4. CASE n = NoNode
    BY <2>4 DEF AdviceInv
  <2>5. CASE n # NoNode
    <3>1. n \in Nodes /\ Send(n, "0420", a, Stan[a]) /\ advised' = advised \cup {a}
      BY <2>3, <2>5
    <3>2. \A m \in Nodes : \A i \in 1 .. Len(egress'[m]) :
            \/ i \in 1 .. Len(egress[m]) /\ egress'[m][i] = egress[m][i]
            \/ egress'[m][i] = [mti |-> "0420", att |-> a, stan |-> Stan[a]]
      <4> HIDE DEF a, n
      <4> QED
        BY <2>3, <3>1, SendFacts
    <3> HIDE DEF a
    <3> QED
      BY <2>2, <3>1, <3>2 DEF AdviceInv
  <2> QED
    BY <2>4, <2>5
<1> QED
  BY <1>1, <1>2, <1>3, <1>4, <1>5

(* Collecting a NAT entry touches the NAT only. *)
LEMMA ReaperGcStep ==
  ASSUME IInv, ReaperGc
  PROVE  IInv'
<1> USE KeyInKeys, AttributeAssumption, BoundAssumption, SentinelAssumption, StansFacts
<1> USE DEF ReaperGc, IInv, vars, ctxVars, envVars, bankVars, histVars, reapVars, replyVars
<1>1. TypeOK'
  BY DEF TypeOK
<1>2. ContextInv'
  BY DEF TypeOK, ContextInv
<1>3. ThreadInv'
  BY DEF TypeOK, ThreadInv
<1>4. GuardInv'
  BY DEF TypeOK, GuardInv, Present
<1>5. AdviceInv'
  BY DEF TypeOK, AdviceInv
<1> QED
  BY <1>1, <1>2, <1>3, <1>4, <1>5

(* The reaper's eviction. *)
LEMMA ReaperEvictStep ==
  ASSUME IInv, ReaperEvict
  PROVE  IInv'
<1> USE KeyInKeys, AttributeAssumption, BoundAssumption, SentinelAssumption, StansFacts
<1> USE DEF ReaperEvict, IInv, vars, ctxVars, envVars, bankVars, histVars, reapVars, replyVars
<1>1. TypeOK'
  BY DEF TypeOK, ThreadInv
<1>2. ContextInv'
  BY DEF TypeOK, ContextInv
<1>3. ThreadInv'
  BY DEF TypeOK, ThreadInv, NoEntry
<1>4. GuardInv'
  BY DEF TypeOK, GuardInv, Present, ThreadInv, NoEntry
<1>5. AdviceInv'
  BY DEF TypeOK, AdviceInv
<1> QED
  BY <1>1, <1>2, <1>3, <1>4, <1>5

(* The second pass only collects keys. *)
LEMMA ReaperSweepStep ==
  ASSUME IInv, ReaperSweep
  PROVE  IInv'
<1> USE KeyInKeys, AttributeAssumption, BoundAssumption, SentinelAssumption, StansFacts
<1> USE DEF ReaperSweep, IInv, vars, ctxVars, envVars, bankVars, histVars, reapVars, replyVars
<1>1. TypeOK'
  BY DEF TypeOK, StaleKeys
<1>2. ContextInv'
  BY DEF TypeOK, ContextInv
<1>3. ThreadInv'
  BY DEF TypeOK, ThreadInv
<1>4. GuardInv'
  BY DEF TypeOK, GuardInv, Present
<1>5. AdviceInv'
  BY DEF TypeOK, AdviceInv
<1> QED
  BY <1>1, <1>2, <1>3, <1>4, <1>5

(* And removes them. *)
LEMMA ReaperPruneStep ==
  ASSUME IInv, NEW k \in Keys, ReaperPrune(k)
  PROVE  IInv'
<1> USE KeyInKeys, AttributeAssumption, BoundAssumption, SentinelAssumption, StansFacts
<1> USE DEF ReaperPrune, IInv, vars, ctxVars, envVars, bankVars, histVars, reapVars, replyVars
<1>1. TypeOK'
  BY DEF TypeOK
<1>2. ContextInv'
  BY DEF TypeOK, ContextInv
<1>3. ThreadInv'
  BY DEF TypeOK, ThreadInv, NoEntry
<1>4. GuardInv'
  BY DEF TypeOK, GuardInv, Present, NoEntry
<1>5. AdviceInv'
  BY DEF TypeOK, AdviceInv
<1> QED
  BY <1>1, <1>2, <1>3, <1>4, <1>5

(* A translated reply has a guard key. *)
LEMMA ReplyTranslateStep ==
  ASSUME IInv, NEW w \in Repliers, NEW m \in replies, ReplyTranslate(w, m)
  PROVE  IInv'
<1> USE KeyInKeys, AttributeAssumption, BoundAssumption, SentinelAssumption, StansFacts
<1> USE DEF ReplyTranslate, IInv, vars, ctxVars, envVars, bankVars, histVars, reapVars, replyVars
<1>1. TypeOK'
  <2>1. m \in Reply /\ m.stan \in Stans
    BY DEF TypeOK, Reply
  <2>2. nat' \in [Stans -> Stans \cup {NoStan}] /\ replies' \subseteq Reply
    BY <2>1 DEF TypeOK
  <2>3. CASE m.att = NoAttempt
    BY <2>2, <2>3 DEF TypeOK
  <2>4. CASE m.att # NoAttempt
    <3>1. ReplyKey(m) \in Keys
      BY <2>1, <2>4 DEF TypeOK, Reply, ReplyKey, IngressStan, Keys, Ids
    <3>2. /\ wpc' = [wpc EXCEPT ![w] = "apply"] /\ wmsg' = [wmsg EXCEPT ![w] = m]
          /\ wkey' = [wkey EXCEPT ![w] = ReplyKey(m)]
      BY <2>4
    <3>3. /\ wpc' \in [Repliers -> {"idle", "apply", "evict"}]
          /\ wmsg' \in [Repliers -> Reply \cup {NoReply}]
          /\ wkey' \in [Repliers -> Keys \cup {<<>>}]
      BY <2>1, <3>1, <3>2 DEF TypeOK
    <3> QED
      BY <2>2, <3>3 DEF TypeOK
  <2> QED
    BY <2>3, <2>4
<1>2. ContextInv'
  BY DEF TypeOK, ContextInv
<1>3. ThreadInv'
  <2>1. m \in Reply
    BY DEF TypeOK
  <2>2. ASSUME m.att # NoAttempt PROVE ReplyKey(m) \in Keys /\ m.att \in Attempts
    BY <2>1, <2>2 DEF TypeOK, Reply, ReplyKey, IngressStan, Keys, Ids
  <2> QED
    BY <2>1, <2>2 DEF TypeOK, ThreadInv
<1>4. GuardInv'
  BY DEF TypeOK, GuardInv, Present
<1>5. AdviceInv'
  BY DEF TypeOK, AdviceInv
<1> QED
  BY <1>1, <1>2, <1>3, <1>4, <1>5

(* A reply is passed on only through a responder still in the guard. *)
LEMMA ReplyApplyStep ==
  ASSUME IInv, NEW w \in Repliers, ReplyApply(w)
  PROVE  IInv'
<1> USE KeyInKeys, AttributeAssumption, BoundAssumption, SentinelAssumption, StansFacts
<1> USE DEF ReplyApply, IInv, vars, ctxVars, envVars, bankVars, histVars, reapVars, replyVars
<1>1. TypeOK'
  <2>0. wkey[w] \in Keys /\ wmsg[w] \in Reply /\ wmsg[w].att \in Attempts
    BY DEF ThreadInv
  <2>1. guard' \in [Keys -> Entry \cup {NoEntry}]
    <3>1. CASE ~Present(wkey[w])
      BY <3>1 DEF TypeOK
    <3>2. CASE Present(wkey[w])
      <4>1. guard[wkey[w]] \in Entry
        BY <2>0, <3>2, PresentEntry
      <4>2. [guard[wkey[w]] EXCEPT !.state = "Completed", !.resp = FALSE] \in Entry
        BY <4>1 DEF Entry, States
      <4> QED
        BY <3>2, <4>2 DEF TypeOK
    <3> QED
      BY <3>1, <3>2
  <2>2. answer' \in [Attempts -> Codes]
    BY <2>0, PresentEntry, SMTT(30) DEF TypeOK, Respond, Entry, Reply, Codes
  <2>3. journal' \subseteq Records
    BY <2>0 DEF TypeOK, Records, Reply, Mtis
  <2> QED
    BY <2>0, <2>1, <2>2, <2>3 DEF TypeOK, NoReply
<1>2. ContextInv'
  BY DEF TypeOK, ContextInv, Respond, GuardInv, ThreadInv, Present, Entry, NoEntry
<1>3. ThreadInv'
  BY DEF TypeOK, ThreadInv, Locked, Entry, NoEntry, Present
<1>4. GuardInv'
  <2>1. wkey[w] \in Keys
    BY DEF ThreadInv
  <2>2. CASE ~(Present(wkey[w]) /\ ~Late(guard[wkey[w]]))
    BY <2>2 DEF GuardInv, Present, Key
  <2>3. CASE (Present(wkey[w]) /\ ~Late(guard[wkey[w]]))
    <3> DEFINE e == guard[wkey[w]]
    <3>1. e \in Entry /\ e.att \in Attempts /\ Key(e.att) = wkey[w] /\ pc[e.att] # "new"
              /\ e.att \in Online
      BY <2>1, <2>3, PresentEntry DEF Entry, GuardInv
    <3>2. guard' = [guard EXCEPT ![wkey[w]] = [e EXCEPT !.state = "Completed", !.resp = FALSE]]
      BY <2>3
    <3>3. \A b \in Attempts : b # e.att => answer'[b] = answer[b]
      BY <2>3, <3>1 DEF TypeOK, Respond
    <3>4. \A b \in Attempts : pc[b] # "new" => pc'[b] # "new"
      OBVIOUS
    <3> SUFFICES ASSUME NEW l \in Keys, Present(l)'
                 PROVE  /\ Key(guard'[l].att) = l
                        /\ pc'[guard'[l].att] # "new" /\ guard'[l].att \in Online
                        /\ guard'[l].state = "UpstreamSent" /\ Held[guard'[l].att] => guard'[l].resp
                        /\ guard'[l].resp => answer'[guard'[l].att] = "none"
                        /\ guard'[l].state = "Reversed" /\ Held[guard'[l].att] => answer'[guard'[l].att] = "68"
      BY DEF GuardInv, Key
    <3>5. CASE l = wkey[w]
      <4>1. guard'[l] = [e EXCEPT !.state = "Completed", !.resp = FALSE]
        BY <3>2, <3>5 DEF TypeOK
      <4> QED
        BY <3>1, <3>4, <3>5, <4>1 DEF Entry
    <3>6. CASE l # wkey[w]
      <4>1. guard'[l] = guard[l] /\ Present(l)
        BY <3>2, <3>6 DEF TypeOK, Present
      <4>2. guard[l].att \in Attempts /\ guard[l].att # e.att
        BY <2>1, <2>3, <3>6, <4>1, PresentEntry, OneKeyPerAttempt DEF Entry
      <4> QED
        BY <3>3, <3>4, <4>1, <4>2 DEF GuardInv
    <3> QED
      BY <3>5, <3>6
  <2> QED
    BY <2>2, <2>3
<1>5. AdviceInv'
  BY DEF TypeOK, AdviceInv, Respond, GuardInv, ThreadInv, Present, Entry, NoEntry
<1> QED
  BY <1>1, <1>2, <1>3, <1>4, <1>5

(* A reply that the journal does not take completes an entry and moves no responder. *)
LEMMA ReplyUnjournaledStep ==
  ASSUME IInv, NEW w \in Repliers, ReplyUnjournaled(w)
  PROVE  IInv'
<1> USE KeyInKeys, AttributeAssumption, BoundAssumption, SentinelAssumption, StansFacts
<1> USE DEF ReplyUnjournaled, IInv, vars, ctxVars, envVars, bankVars, histVars, reapVars, replyVars
<1> DEFINE k == wkey[w]
           e == [guard[k] EXCEPT !.state = "Completed"]
<1>1. k \in Keys /\ Present(k) /\ ~Locked(k) /\ guard[k] \in Entry
  BY PresentEntry DEF ThreadInv
<1>2. e \in Entry /\ guard[k].att \in Attempts /\ e.att = guard[k].att
      /\ e.state = "Completed" /\ e.resp = guard[k].resp
  BY <1>1 DEF Entry, States
<1>3. guard' = [guard EXCEPT ![k] = e]
  OBVIOUS
<1>4. wpc' = [wpc EXCEPT ![w] = "idle"] /\ wmsg' = [wmsg EXCEPT ![w] = NoReply]
      /\ wkey' = [wkey EXCEPT ![w] = <<>>]
  OBVIOUS
<1> HIDE DEF k, e
<1>5. TypeOK'
  <2>1. unjournaled' \subseteq Attempts
    BY <1>2 DEF TypeOK, k
  <2>2. guard' \in [Keys -> Entry \cup {NoEntry}]
    <3>1. guard \in [Keys -> Entry \cup {NoEntry}]
      BY DEF TypeOK
    <3> QED
      BY ONLY <1>2, <1>3, <3>1
  <2> QED
    BY <1>4, <2>1, <2>2 DEF TypeOK
<1>6. ContextInv'
  BY DEF TypeOK, ContextInv
<1>7. ThreadInv'
  BY <1>1, <1>3, <1>4 DEF TypeOK, ThreadInv, Locked
<1>8. GuardInv'
  <2> SUFFICES ASSUME NEW l \in Keys, Present(l)'
               PROVE  Present(l) /\ guard'[l].att = guard[l].att /\ guard'[l].resp = guard[l].resp
                      /\ guard'[l].state \in {guard[l].state, "Completed"}
    BY DEF GuardInv, Key
  <2> QED
    BY <1>1, <1>2, <1>3 DEF TypeOK, Present
<1>9. AdviceInv'
  BY DEF TypeOK, AdviceInv
<1> QED
  BY <1>5, <1>6, <1>7, <1>8, <1>9

(* The reply worker's eviction. *)
LEMMA ReplyEvictStep ==
  ASSUME IInv, NEW w \in Repliers, ReplyEvict(w)
  PROVE  IInv'
<1> USE KeyInKeys, AttributeAssumption, BoundAssumption, SentinelAssumption, StansFacts
<1> USE DEF ReplyEvict, IInv, vars, ctxVars, envVars, bankVars, histVars, reapVars, replyVars
<1>1. TypeOK'
  BY DEF TypeOK, ThreadInv
<1>2. ContextInv'
  BY DEF TypeOK, ContextInv
<1>3. ThreadInv'
  BY DEF TypeOK, ThreadInv, Locked, NoEntry
<1>4. GuardInv'
  BY DEF TypeOK, GuardInv, Present, ThreadInv, NoEntry
<1>5. AdviceInv'
  BY DEF TypeOK, AdviceInv
<1> QED
  BY <1>1, <1>2, <1>3, <1>4, <1>5

(* Time changes ages only. *)
LEMMA AgeStep ==
  ASSUME IInv, NEW k \in Keys, Age(k)
  PROVE  IInv'
<1> USE KeyInKeys, AttributeAssumption, BoundAssumption, SentinelAssumption, StansFacts
<1> USE DEF Age, IInv, vars, ctxVars, envVars, bankVars, histVars, reapVars, replyVars
<1>1. TypeOK'
  <2>1. guard[k] \in Entry
    BY PresentEntry
  <2>2. guard[k].age + 1 \in {Fresh, Overdue, Stale}
    BY <2>1 DEF Entry, Fresh, Overdue, Stale
  <2>3. [guard[k] EXCEPT !.age = guard[k].age + 1] \in Entry
    BY <2>1, <2>2 DEF Entry
  <2>4. guard' = [guard EXCEPT ![k] = [guard[k] EXCEPT !.age = guard[k].age + 1]]
    OBVIOUS
  <2>5. guard' \in [Keys -> Entry \cup {NoEntry}]
    BY <2>3, <2>4 DEF TypeOK
  <2> QED
    BY <2>5 DEF TypeOK
<1>2. ContextInv'
  BY DEF TypeOK, ContextInv
<1>3. ThreadInv'
  BY DEF TypeOK, ThreadInv, Present, Entry, NoEntry, States
<1>4. GuardInv'
  BY DEF TypeOK, GuardInv, Present, Entry, NoEntry
<1>5. AdviceInv'
  BY DEF TypeOK, AdviceInv
<1> QED
  BY <1>1, <1>2, <1>3, <1>4, <1>5

(* A probe is a 0800. *)
LEMMA ProbeStep ==
  ASSUME IInv, NEW n \in Nodes, NEW s \in Stans, Probe(n, s)
  PROVE  IInv'
<1> USE KeyInKeys, AttributeAssumption, BoundAssumption, SentinelAssumption, StansFacts
<1> USE DEF Probe, IInv, vars, ctxVars, envVars, bankVars, histVars, reapVars, replyVars
<1>1. TypeOK'
  <2>1. [mti |-> "0800", att |-> NoAttempt, stan |-> s] \in Frame
    BY DEF Frame
  <2>2. egress' \in [Nodes -> Seq(Frame)]
    BY <2>1, SendFacts DEF TypeOK
  <2>3. probes' \in 0 .. MaxProbes
    BY DEF TypeOK
  <2>4. health' \in [Nodes -> {"absent", "up", "down"}]
    <3>1. health \in [Nodes -> {"absent", "up", "down"}]
      BY Zenon DEF TypeOK
    <3>2. \/ health' = [health EXCEPT ![n] = "up"]
          \/ health' = [health EXCEPT ![n] = "down"]
      BY Zenon
    <3> QED
      BY ONLY <3>1, <3>2, n \in Nodes
  <2> QED
    BY <2>2, <2>3, <2>4 DEF TypeOK
<1>2. ContextInv'
  BY DEF TypeOK, ContextInv
<1>3. ThreadInv'
  BY DEF TypeOK, ThreadInv
<1>4. GuardInv'
  BY DEF TypeOK, GuardInv, Present
<1>5. AdviceInv'
  <2>1. CASE HasRoom(n)
    <3>1. /\ [mti |-> "0800", att |-> NoAttempt, stan |-> s] \in Frame
          /\ Send(n, "0800", NoAttempt, s)
      BY <2>1 DEF Frame
    <3>2. \A m \in Nodes : \A i \in 1 .. Len(egress'[m]) :
            \/ i \in 1 .. Len(egress[m]) /\ egress'[m][i] = egress[m][i]
            \/ egress'[m][i] = [mti |-> "0800", att |-> NoAttempt, stan |-> s]
      BY <3>1, SendFacts
    <3> QED
      BY <3>2, SMTT(30) DEF AdviceInv
  <2>2. CASE ~HasRoom(n)
    BY <2>2 DEF AdviceInv
  <2> QED
    BY <2>1, <2>2
<1> QED
  BY <1>1, <1>2, <1>3, <1>4, <1>5

(* A lost frame leaves the others in order. *)
LEMMA LoseFrameStep ==
  ASSUME IInv, NEW n \in Nodes, LoseFrame(n)
  PROVE  IInv'
<1> USE KeyInKeys, AttributeAssumption, BoundAssumption, SentinelAssumption, StansFacts
<1> USE DEF LoseFrame, IInv, vars, ctxVars, envVars, bankVars, histVars, reapVars, replyVars
<1>1. TypeOK'
  BY DEF TypeOK
<1>2. ContextInv'
  BY DEF TypeOK, ContextInv
<1>3. ThreadInv'
  BY DEF TypeOK, ThreadInv
<1>4. GuardInv'
  BY DEF TypeOK, GuardInv, Present
<1>5. AdviceInv'
  BY DEF TypeOK, AdviceInv
<1> QED
  BY <1>1, <1>2, <1>3, <1>4, <1>5

(* The bank acknowledges only advices that were queued. *)
LEMMA BankAnswerStep ==
  ASSUME IInv, NEW n \in Nodes, NEW rc \in {"00", "51"}, NEW delivered \in BOOLEAN, BankAnswer(n, rc, delivered)
  PROVE  IInv'
<1> USE KeyInKeys, AttributeAssumption, BoundAssumption, SentinelAssumption, StansFacts
<1> USE DEF BankAnswer, IInv, vars, ctxVars, envVars, bankVars, histVars, reapVars, replyVars
<1>1. TypeOK'
  <2> DEFINE f == Head(egress[n])
  <2>1. f \in Frame /\ egress' \in [Nodes -> Seq(Frame)]
    BY DEF TypeOK
  <2>2. bank' \in [Attempts -> {"none", "approved", "declined"}] /\ acked' \subseteq Attempts
    BY <2>1, ZenonT(40) DEF TypeOK, BankDecides, Frame
  <2>3. [mti |-> ReplyMti(f.mti), att |-> f.att, stan |-> f.stan, rc |-> rc] \in Reply
    BY <2>1 DEF ReplyMti, Frame, Reply, Mtis
  <2>4. replies' \subseteq Reply
    BY <2>3 DEF TypeOK
  <2> QED
    BY <2>1, <2>2, <2>4 DEF TypeOK
<1>2. ContextInv'
  BY DEF TypeOK, ContextInv
<1>3. ThreadInv'
  BY DEF TypeOK, ThreadInv
<1>4. GuardInv'
  BY DEF TypeOK, GuardInv, Present
<1>5. AdviceInv'
  BY DEF TypeOK, AdviceInv, BankDecides, Frame
<1> QED
  BY <1>1, <1>2, <1>3, <1>4, <1>5

(* The journal thread's end changes what the others may do, not what they hold. *)
LEMMA JournalFailsStep ==
  ASSUME IInv, JournalFails
  PROVE  IInv'
<1> USE DEF JournalFails, IInv, vars, ctxVars, envVars, bankVars, histVars, reapVars, replyVars
<1>1. TypeOK'
  BY DEF TypeOK
<1>2. ContextInv' /\ ThreadInv'
  BY DEF ContextInv, ThreadInv
<1>3. GuardInv' /\ AdviceInv'
  BY DEF GuardInv, AdviceInv, Present, Key
<1> QED
  BY <1>1, <1>2, <1>3

(* A stuttering step. *)
LEMMA StutterStep ==
  ASSUME IInv, UNCHANGED vars
  PROVE  IInv'
<1> USE DEF IInv, vars, ctxVars, envVars, bankVars, histVars, reapVars, replyVars
<1>1. TypeOK'
  BY DEF TypeOK
<1>2. ContextInv' /\ ThreadInv'
  BY DEF ContextInv, ThreadInv
<1>3. GuardInv' /\ AdviceInv'
  BY DEF GuardInv, AdviceInv, Present, Key
<1> QED
  BY <1>1, <1>2, <1>3

(* Every step of the pipeline preserves the invariant: one case per action. *)
LEMMA NextIInv == IInv /\ [Next]_vars => IInv'
<1> SUFFICES ASSUME IInv, [Next]_vars
             PROVE  IInv'
  OBVIOUS
<1>1. ASSUME NEW a \in Attempts, IngressStep(a)
      PROVE  IInv'
  BY <1>1, ScreenDeclineStep, EchoReplyStep, TerminalReversalStep, RejectDuplicateStep,
     AdmitStep DEF IngressStep
<1>2. ASSUME NEW a \in Attempts, WorkerStep(a)
      PROVE  IInv'
  BY <1>2, RouteTransactionStep, RouteUnjournaledStep, AssignEgressStanStep, RecordEgressStanStep,
     ForwardUpstreamStep, StipFallbackStep, DeclineUnroutedStep, EvictUnroutedStep,
     HsmDropStep, HsmAcceptStep, HsmForwardStep DEF WorkerStep
<1>3. CASE ReaperStep
  BY <1>3, ReaperScanStep, ReaperReverseStep, ReaperSkipStep, ReaperAdviseStep,
     ReaperGcStep, ReaperEvictStep, ReaperSweepStep, ReaperPruneStep DEF ReaperStep
<1>4. ASSUME NEW w \in Repliers, ReplyStep(w)
      PROVE  IInv'
  BY <1>4, ReplyTranslateStep, ReplyApplyStep, ReplyUnjournaledStep, ReplyEvictStep DEF ReplyStep
<1>5. ASSUME NEW n \in Nodes, LinkStep(n)
      PROVE  IInv'
  BY <1>5, LoseFrameStep, BankAnswerStep DEF LinkStep
<1>6. ASSUME NEW k \in Keys, Age(k)
      PROVE  IInv'
  BY <1>6, AgeStep
<1>7. ASSUME NEW n \in Nodes, NEW s \in Stans, Probe(n, s)
      PROVE  IInv'
  BY <1>7, ProbeStep
<1>8. CASE JournalFails
  BY <1>8, JournalFailsStep
<1>9. CASE UNCHANGED vars
  BY <1>9, StutterStep
<1> QED
  BY <1>1, <1>2, <1>3, <1>4, <1>5, <1>6, <1>7, <1>8, <1>9 DEF Next

(* The invariant of the pipeline: guard entries, contexts, threads and 0420s
   stay consistent in every reachable state of SwitchEngine's threads. *)
THEOREM PipelineInvariant == Spec => []IInv
<1> QED
  BY InitIInv, NextIInv, PTL DEF Spec

(* Every variable of the pipeline keeps its type; in particular egress STANs
   stay within six digits and channels hold only frames the engine builds. *)
THEOREM TypeCorrect == Spec => []TypeOK
<1>1. IInv => TypeOK
  BY DEF IInv
<1> QED
  BY <1>1, PipelineInvariant, PTL

(* The reaper's second look under the lock is enough: for any number of
   attempts, retries, nodes and reply workers, a 0420 queued for the bank or
   received by it belongs to a request whose terminal was told 68, or is itself
   a 0420 that came in unmarked, from a terminal or from the session of one. *)
THEOREM ReversalSafety == Spec => []ReversalMeansTimeout
<1>1. IInv => ReversalMeansTimeout
  BY DEF IInv, AdviceInv, ReversalMeansTimeout, Voided
<1> QED
  BY <1>1, PipelineInvariant, PTL
-----------------------------------------------------------------------------
(* What every step leaves alone.                                           *)

(* The reaper leaves contexts, replies, journal and bank alone, and writes to the
   channels in one step only. *)
LEMMA ReaperFrame ==
  ASSUME ReaperStep
  PROVE  /\ UNCHANGED <<pc, node, bank, acked, replies, journal, unjournaled, walUp, wpc, wmsg, wkey>>
         /\ ReaperAdvise \/ UNCHANGED <<egress, advised>>
<1> DEFINE Rest == /\ UNCHANGED <<pc, node, bank, acked, replies, journal, unjournaled, walUp, wpc, wmsg, wkey>>
                   /\ ReaperAdvise \/ UNCHANGED <<egress, advised>>
<1> USE DEF ctxVars, envVars, bankVars, histVars, replyVars
<1>1. ReaperScan \/ ReaperGc \/ ReaperEvict \/ ReaperSweep => Rest
  BY DEF ReaperScan, ReaperGc, ReaperEvict, ReaperSweep
<1>2. ReaperAdvise => Rest
  BY DEF ReaperAdvise
<1>3. ASSUME NEW k \in Keys, ReaperReverse(k) \/ ReaperSkip(k)
      PROVE  Rest
  BY <1>3 DEF ReaperReverse, ReaperSkip
<1>4. ASSUME NEW k \in Keys, ReaperPrune(k)
      PROVE  Rest
  BY <1>4 DEF ReaperPrune
<1> HIDE DEF Rest
<1>5. Rest
  BY <1>1, <1>2, <1>3, <1>4 DEF ReaperStep
<1> QED
  BY <1>5 DEF Rest

(* A context that is done stays done, with the node it was routed to. *)
LEMMA DoneStays ==
  ASSUME IInv, [Next]_vars, NEW a \in Attempts, pc[a] = "done"
  PROVE  pc'[a] = "done" /\ node'[a] = node[a]
<1> USE DEF IInv, TypeOK, Goto, vars, ctxVars, envVars, bankVars, histVars, reapVars, replyVars
<1>1. ASSUME NEW b \in Attempts, IngressStep(b)
      PROVE  pc'[a] = "done" /\ node'[a] = node[a]
  BY <1>1 DEF IngressStep, ScreenDecline, EchoReply, TerminalReversal, RejectDuplicate, Admit
<1>2. ASSUME NEW b \in Attempts, WorkerStep(b)
      PROVE  pc'[a] = "done" /\ node'[a] = node[a]
  BY <1>2 DEF WorkerStep, RouteTransaction, RouteUnjournaled, AssignEgressStan, RecordEgressStan, ForwardUpstream,
     StipFallback, DeclineUnrouted, EvictUnrouted, HsmDrop, HsmAccept, HsmForward
<1>3. CASE ReaperStep
  BY <1>3, ReaperFrame
<1>4. ASSUME NEW w \in Repliers, ReplyStep(w)
      PROVE  pc'[a] = "done" /\ node'[a] = node[a]
  BY <1>4 DEF ReplyStep, ReplyTranslate, ReplyApply, ReplyUnjournaled, ReplyEvict
<1>5. ASSUME NEW n \in Nodes, LinkStep(n)
      PROVE  pc'[a] = "done" /\ node'[a] = node[a]
  BY <1>5 DEF LinkStep, LoseFrame, BankAnswer
<1>6. CASE (\E k \in Keys : Age(k)) \/ (\E n \in Nodes, s \in Stans : Probe(n, s)) \/ JournalFails \/ UNCHANGED vars
  BY <1>6 DEF Age, Probe, JournalFails
<1> QED
  BY <1>1, <1>2, <1>3, <1>4, <1>5, <1>6 DEF Next

(* Answering through an entry's responder answers a terminal that has none. *)
LEMMA RespondOnce ==
  ASSUME IInv, NEW k \in Keys, Present(k), NEW rc \in Codes, Respond(guard[k], rc),
         NEW a \in Attempts, answer[a] # "none"
  PROVE  answer'[a] = answer[a]
<1>1. guard[k] \in Entry /\ guard[k].att \in Attempts
  BY PresentEntry DEF IInv, Entry
<1>2. guard[k].resp => answer[guard[k].att] = "none"
  BY DEF IInv, GuardInv
<1> QED
  BY <1>1, <1>2 DEF Respond, IInv, TypeOK

(* A terminal is answered once. *)
LEMMA AnswerStays ==
  ASSUME IInv, [Next]_vars, NEW a \in Attempts, answer[a] # "none"
  PROVE  answer'[a] = answer[a]
<1> USE DEF vars, ctxVars, envVars, bankVars, histVars, reapVars, replyVars
<1>1. ASSUME NEW b \in Attempts, IngressStep(b)
      PROVE  answer'[a] = answer[a]
  BY <1>1 DEF IInv, TypeOK, ContextInv, IngressStep, ScreenDecline, EchoReply, TerminalReversal,
     RejectDuplicate, Admit, Tell
<1>2. ASSUME NEW b \in Attempts, WorkerStep(b)
      PROVE  answer'[a] = answer[a]
  <2>1. CASE DeclineUnrouted(b)
    <3>1. Key(b) \in Keys /\ "05" \in Codes
      BY KeyInKeys DEF Codes
    <3> QED
      BY <2>1, <3>1, RespondOnce DEF DeclineUnrouted
  <2> QED
    BY <1>2, <2>1 DEF WorkerStep, RouteTransaction, RouteUnjournaled, AssignEgressStan, RecordEgressStan,
       ForwardUpstream, StipFallback, EvictUnrouted, HsmDrop, HsmAccept, HsmForward
<1>3. CASE ReaperStep
  <2>1. ASSUME NEW k \in Keys, ReaperReverse(k)
        PROVE  answer'[a] = answer[a]
    <3>1. Present(k) /\ "68" \in Codes /\ Respond(guard[k], "68")
      BY <2>1 DEF ReaperReverse, Reversible, Present, Codes
    <3> QED
      BY <3>1, RespondOnce
  <2> QED
    BY <1>3, <2>1 DEF ReaperStep, ReaperScan, ReaperAdvise, ReaperGc, ReaperEvict, ReaperSweep,
       ReaperSkip, ReaperPrune
<1>4. ASSUME NEW w \in Repliers, ReplyStep(w)
      PROVE  answer'[a] = answer[a]
  <2>1. CASE ReplyApply(w)
    <3>1. wkey[w] \in Keys /\ wmsg[w].rc \in Codes
      BY <2>1 DEF ReplyApply, IInv, ThreadInv, Reply, Codes
    <3> QED
      BY <2>1, <3>1, RespondOnce DEF ReplyApply
  <2> QED
    BY <1>4, <2>1 DEF ReplyStep, ReplyTranslate, ReplyUnjournaled, ReplyEvict
<1>5. CASE (\E n \in Nodes : LinkStep(n)) \/ (\E k \in Keys : Age(k))
           \/ (\E n \in Nodes, s \in Stans : Probe(n, s)) \/ JournalFails \/ UNCHANGED vars
  BY <1>5 DEF LinkStep, LoseFrame, BankAnswer, Age, Probe, JournalFails
<1> QED
  BY <1>1, <1>2, <1>3, <1>4, <1>5 DEF Next

(* The actions that touch the channels or the bank's decisions. *)
LEMMA ChannelActions ==
  ASSUME [Next]_vars
  PROVE  \/ UNCHANGED <<egress, bank>>
         \/ \E a \in Attempts : ForwardUpstream(a) \/ HsmForward(a)
         \/ ReaperAdvise
         \/ \E n \in Nodes : LinkStep(n)
         \/ \E n \in Nodes, s \in Stans : Probe(n, s)
<1> USE DEF vars, ctxVars, envVars, bankVars, histVars, reapVars, replyVars
<1>1. ASSUME NEW a \in Attempts, IngressStep(a)
      PROVE  UNCHANGED <<egress, bank>>
  BY <1>1 DEF IngressStep, ScreenDecline, EchoReply, TerminalReversal, RejectDuplicate, Admit
<1>2. ASSUME NEW a \in Attempts, WorkerStep(a)
      PROVE  UNCHANGED <<egress, bank>> \/ ForwardUpstream(a) \/ HsmForward(a)
  BY <1>2 DEF WorkerStep, RouteTransaction, RouteUnjournaled, AssignEgressStan, RecordEgressStan,
     StipFallback, DeclineUnrouted, EvictUnrouted, HsmDrop, HsmAccept
<1>3. CASE ReaperStep
  BY <1>3, ReaperFrame
<1>4. ASSUME NEW w \in Repliers, ReplyStep(w)
      PROVE  UNCHANGED <<egress, bank>>
  BY <1>4 DEF ReplyStep, ReplyTranslate, ReplyApply, ReplyUnjournaled, ReplyEvict
<1>5. CASE (\E k \in Keys : Age(k)) \/ JournalFails \/ UNCHANGED vars
  BY <1>5 DEF Age, JournalFails
<1> QED
  BY <1>1, <1>2, <1>3, <1>4, <1>5 DEF Next
-----------------------------------------------------------------------------
(* Channels and the bank: a request is queued once and decided once.       *)

(* Send puts its frame in the last place of one channel and moves nothing. *)
LEMMA SendPlace ==
  ASSUME TypeOK, NEW n \in Nodes, NEW mti, NEW a, NEW s,
         [mti |-> mti, att |-> a, stan |-> s] \in Frame, Send(n, mti, a, s),
         NEW m \in Nodes, NEW i \in 1 .. Len(egress'[m])
  PROVE  \/ i \in 1 .. Len(egress[m]) /\ egress'[m][i] = egress[m][i]
         \/ /\ m = n /\ i = Len(egress[n]) + 1
            /\ egress'[m][i] = [mti |-> mti, att |-> a, stan |-> s]
<1> DEFINE f == [mti |-> mti, att |-> a, stan |-> s]
<1>1. egress[n] \in Seq(Frame) /\ f \in Frame
  BY DEF TypeOK
<1>2. egress' = [egress EXCEPT ![n] = Append(egress[n], f)]
  BY DEF Send
<1> HIDE DEF f
<1>3. \/ i \in 1 .. Len(egress[m]) /\ egress'[m][i] = egress[m][i]
      \/ m = n /\ i = Len(egress[n]) + 1 /\ egress'[m][i] = f
  BY <1>1, <1>2 DEF TypeOK
<1> QED
  BY <1>3 DEF f

(* Taking the head of a channel moves the others one place up. *)
LEMMA TailPlace ==
  ASSUME TypeOK, NEW n \in Nodes, egress[n] # <<>>, egress' = [egress EXCEPT ![n] = Tail(@)],
         NEW m \in Nodes, NEW i \in 1 .. Len(egress'[m])
  PROVE  /\ m = n => i + 1 \in 1 .. Len(egress[m]) /\ egress'[m][i] = egress[m][i + 1]
         /\ m # n => i \in 1 .. Len(egress[m]) /\ egress'[m][i] = egress[m][i]
<1>1. egress[n] \in Seq(Frame) /\ egress \in [Nodes -> Seq(Frame)]
  BY DEF TypeOK
<1>2. CASE m = n
  <2>1. egress'[m] = Tail(egress[n])
    BY <1>1, <1>2
  <2>2. Len(egress[n]) \in Nat /\ Len(egress[n]) > 0 /\ Len(Tail(egress[n])) = Len(egress[n]) - 1
    BY <1>1
  <2>3. i \in 1 .. Len(Tail(egress[n])) /\ Tail(egress[n])[i] = egress[n][i + 1]
    BY <1>1, <2>1, <2>2
  <2>4. i + 1 \in 1 .. Len(egress[n])
    BY <2>2, <2>3
  <2>5. egress'[m][i] = egress[m][i + 1]
    BY <1>2, <2>1, <2>3
  <2> QED
    BY <1>2, <2>4, <2>5
<1>3. CASE m # n
  BY <1>1, <1>3
<1> QED
  BY <1>2, <1>3

(* The frame taken from a channel is the one in its first place. *)
LEMMA HeadPlace ==
  ASSUME TypeOK, NEW n \in Nodes, egress[n] # <<>>
  PROVE  /\ 1 \in 1 .. Len(egress[n]) /\ Head(egress[n]) = egress[n][1]
         /\ Head(egress[n]) \in Frame
<1>1. egress[n] \in Seq(Frame)
  BY DEF TypeOK
<1> QED
  BY <1>1

(* The two threads that send a request hold its context until then. *)
LEMMA ForwardFacts ==
  ASSUME IInv, NEW a \in Attempts, ForwardUpstream(a) \/ HsmForward(a)
  PROVE  /\ pc[a] # "done" /\ pc' = [pc EXCEPT ![a] = "done"] /\ node' = node /\ bank' = bank
         /\ node[a] \in Nodes
         /\ \E s \in Stans : Send(node[a], Mti[a], a, s)
<1>1. Stan[a] \in Stans
  BY AttributeAssumption
<1> QED
  BY <1>1 DEF ForwardUpstream, HsmForward, Goto, IInv, ContextInv, bankVars

(* A request is queued once, after which its context is done, and decided once. *)
LEMMA RequestStep ==
  ASSUME IInv, RequestInv, [Next]_vars
  PROVE  RequestInv'
<1> USE DEF IInv
<1>1. TypeOK /\ \A a \in Attempts : pc[a] = "done" => pc'[a] = "done" /\ node'[a] = node[a]
  BY DoneStays
<1>2. CASE UNCHANGED <<egress, bank>>
  BY <1>1, <1>2 DEF RequestInv, QueuedAt
<1>3. ASSUME NEW a \in Attempts, ForwardUpstream(a) \/ HsmForward(a)
      PROVE  RequestInv'
  <2>1. PICK s \in Stans : Send(node[a], Mti[a], a, s)
    BY <1>3, ForwardFacts
  <2>2. /\ pc[a] # "done" /\ pc' = [pc EXCEPT ![a] = "done"] /\ node' = node /\ bank' = bank
        /\ node[a] \in Nodes /\ [mti |-> Mti[a], att |-> a, stan |-> s] \in Frame
    BY <1>3, ForwardFacts, AttributeAssumption DEF Frame, Mtis
  <2>3. bank[a] = "none" /\ pc'[a] = "done"
    BY <2>2 DEF RequestInv, TypeOK
  <2>4. \A n \in Nodes : \A i \in 1 .. Len(egress[n]) : ~QueuedAt(a, n, i)
    BY <2>2 DEF RequestInv
  <2>5. ASSUME NEW b \in Attempts, NEW n \in Nodes, NEW i \in 1 .. Len(egress'[n]), QueuedAt(b, n, i)'
        PROVE  \/ QueuedAt(b, n, i) /\ b # a /\ egress'[n][i] = egress[n][i]
               \/ /\ b = a /\ n = node[a] /\ i = Len(egress[node[a]]) + 1
                  /\ egress'[n][i].mti = Mti[a]
    BY <1>1, <2>1, <2>2, <2>4, <2>5, SendPlace DEF QueuedAt
  <2> QED
    BY <1>1, <2>2, <2>3, <2>5, SMTT(30) DEF RequestInv, QueuedAt
<1>4. ASSUME UNCHANGED bank, 
             \A b \in Attempts : \A n \in Nodes : \A i \in 1 .. Len(egress'[n]) :
                QueuedAt(b, n, i)' => QueuedAt(b, n, i) /\ egress'[n][i] = egress[n][i]
      PROVE  RequestInv'
  BY <1>1, <1>4 DEF RequestInv, QueuedAt
<1>5. CASE ReaperAdvise
  <2>1. UNCHANGED bank
    BY <1>5 DEF ReaperAdvise, bankVars
  <2>2. CASE UNCHANGED egress
    BY <1>2, <2>1, <2>2
  <2>3. CASE ~UNCHANGED egress
    <3> DEFINE a == guard[rkey].att  n == Route[a].primary
    <3>1. rkey \in Keys /\ Present(rkey)
      BY <1>5 DEF ReaperAdvise, ThreadInv, Present
    <3>2. a \in Attempts
      BY <3>1, PresentEntry DEF Entry
    <3>3. n \in Nodes /\ [mti |-> "0420", att |-> a, stan |-> Stan[a]] \in Frame
      BY <1>5, <2>3, <3>2, AttributeAssumption DEF ReaperAdvise, Routes, Frame, Mtis
    <3>4. Send(n, "0420", a, Stan[a])
      BY <1>5, <2>3 DEF ReaperAdvise
    <3> HIDE DEF a, n
    <3>5. ASSUME NEW b \in Attempts, NEW m \in Nodes, NEW i \in 1 .. Len(egress'[m]), QueuedAt(b, m, i)'
          PROVE  QueuedAt(b, m, i) /\ egress'[m][i] = egress[m][i]
      BY <1>1, <3>3, <3>4, <3>5, SendPlace DEF QueuedAt
    <3> QED
      BY <1>4, <2>1, <3>5
  <2> QED
    BY <2>2, <2>3
<1>6. ASSUME NEW n \in Nodes, NEW s \in Stans, Probe(n, s)
      PROVE  RequestInv'
  <2>1. UNCHANGED bank
    BY <1>6 DEF Probe, bankVars
  <2>2. CASE UNCHANGED egress
    BY <1>2, <2>1, <2>2
  <2>3. CASE ~UNCHANGED egress
    <3>1. Send(n, "0800", NoAttempt, s) /\ [mti |-> "0800", att |-> NoAttempt, stan |-> s] \in Frame
      BY <1>6, <2>3 DEF Probe, Frame
    <3>2. ASSUME NEW b \in Attempts, NEW m \in Nodes, NEW i \in 1 .. Len(egress'[m]), QueuedAt(b, m, i)'
          PROVE  QueuedAt(b, m, i) /\ egress'[m][i] = egress[m][i]
      BY <1>1, <3>1, <3>2, SendPlace, SentinelAssumption DEF QueuedAt
    <3> QED
      BY <1>4, <2>1, <3>2
  <2> QED
    BY <2>2, <2>3
<1>7. ASSUME NEW n \in Nodes, LinkStep(n)
      PROVE  RequestInv'
  <2> DEFINE f == Head(egress[n])
  <2>1. egress[n] # <<>> /\ egress' = [egress EXCEPT ![n] = Tail(@)] /\ UNCHANGED <<pc, node>>
    BY <1>7 DEF LinkStep, LoseFrame, BankAnswer, ctxVars
  <2>2. /\ 1 \in 1 .. Len(egress[n]) /\ f = egress[n][1]
        /\ f \in Frame
    BY <1>1, <2>1, HeadPlace
  <2>3. \/ UNCHANGED bank
        \/ /\ f.mti # "0420" /\ f.att # NoAttempt
           /\ \E v \in {"approved", "declined"} : bank' = [bank EXCEPT ![f.att] = v]
    BY <1>7 DEF LinkStep, LoseFrame, BankAnswer, BankDecides, bankVars
  <2> HIDE DEF f
  <2>4. f.mti # "0420" /\ f.att # NoAttempt => f.att \in Attempts /\ QueuedAt(f.att, n, 1)
    BY <2>2 DEF QueuedAt, Frame
  <2>5. ASSUME NEW b \in Attempts, NEW m \in Nodes, NEW i \in 1 .. Len(egress'[m]), QueuedAt(b, m, i)'
        PROVE  /\ QueuedAt(b, m, IF m = n THEN i + 1 ELSE i)
               /\ (IF m = n THEN i + 1 ELSE i) \in 1 .. Len(egress[m])
               /\ egress'[m][i] = egress[m][IF m = n THEN i + 1 ELSE i]
    <3>1. /\ m = n => i + 1 \in 1 .. Len(egress[m]) /\ egress'[m][i] = egress[m][i + 1]
          /\ m # n => i \in 1 .. Len(egress[m]) /\ egress'[m][i] = egress[m][i]
      BY <1>1, <2>1, TailPlace
    <3>2. egress'[m][i].mti # "0420" /\ egress'[m][i].att = b
      BY <2>5 DEF QueuedAt
    <3>3. CASE m = n
      BY <3>1, <3>2, <3>3 DEF QueuedAt
    <3>4. CASE m # n
      BY <3>1, <3>2, <3>4 DEF QueuedAt
    <3> QED
      BY <3>3, <3>4
  <2>6. ASSUME NEW b \in Attempts, NEW m \in Nodes, NEW i \in 1 .. Len(egress'[m]), QueuedAt(b, m, i)'
        PROVE  /\ pc[b] = "done" /\ node[b] \in Nodes /\ bank[b] = "none" /\ egress'[m][i].mti = Mti[b] /\ (f.mti # "0420" => b # f.att)
               /\ \A l \in Nodes : \A j \in 1 .. Len(egress'[l]) : QueuedAt(b, l, j)' => l = m /\ j = i
    <3> DEFINE P(x, y) == IF x = n THEN y + 1 ELSE y
    <3>1. /\ P(m, i) \in 1 .. Len(egress[m]) /\ QueuedAt(b, m, P(m, i))
          /\ egress'[m][i] = egress[m][P(m, i)]
      BY <2>5, <2>6
    <3>2. ASSUME NEW l \in Nodes, NEW j \in 1 .. Len(egress'[l]), QueuedAt(b, l, j)'
          PROVE  l = m /\ j = i
      <4>1. P(l, j) \in 1 .. Len(egress[l]) /\ QueuedAt(b, l, P(l, j))
        BY <2>5, <3>2
      <4>2. l = m /\ P(l, j) = P(m, i)
        BY <3>1, <4>1 DEF RequestInv
      <4> QED
        BY <4>2, i \in Int, j \in Int
    <3>3. f.mti # "0420" => b # f.att
      <4> SUFFICES ASSUME f.mti # "0420", b = f.att PROVE FALSE
        OBVIOUS
      <4>0. b \in Attempts /\ QueuedAt(b, n, 1)
        BY <2>4, SentinelAssumption
      <4>1. m = n /\ 1 = P(m, i)
        BY <2>2, <3>1, <4>0 DEF RequestInv
      <4> QED
        BY <4>1, i \in 1 .. Len(egress'[m])
    <3>4. /\ pc[b] = "done" /\ node[b] \in Nodes /\ bank[b] = "none"
          /\ egress[m][P(m, i)].mti = Mti[b]
      <4> HIDE DEF P
      <4> QED
        BY <3>1 DEF RequestInv
    <3> QED
      BY <3>1, <3>2, <3>3, <3>4
  <2>7. ASSUME NEW b \in Attempts, bank'[b] # "none"
        PROVE  pc[b] = "done" /\ node[b] \in Nodes
    BY <1>1, <2>2, <2>3, <2>4, <2>7 DEF RequestInv, TypeOK
  <2>8. ASSUME NEW b \in Attempts, bank[b] = "none", f.mti # "0420" => b # f.att
        PROVE  bank'[b] = "none"
    BY <1>1, <2>3, <2>8 DEF TypeOK
  <2> QED
    BY <2>1, <2>6, <2>7, <2>8 DEF RequestInv
<1> QED
  BY <1>2, <1>3, <1>5, <1>6, <1>7, ChannelActions
-----------------------------------------------------------------------------
(* What a reply says.                                                      *)

(* The bank never takes a decision back, nor forgets a 0420. *)
LEMMA BankStays ==
  ASSUME IInv, RequestInv, [Next]_vars
  PROVE  /\ \A a \in Attempts : bank[a] # "none" => bank'[a] = bank[a]
         /\ acked \subseteq acked'
<1> USE DEF IInv, vars, ctxVars, envVars, bankVars, histVars, reapVars, replyVars
<1>1. ASSUME NEW n \in Nodes, LinkStep(n)
      PROVE  /\ \A a \in Attempts : bank[a] # "none" => bank'[a] = bank[a]
             /\ acked \subseteq acked'
  <2>1. CASE LoseFrame(n)
    BY <2>1 DEF LoseFrame
  <2>2. ASSUME NEW rc, NEW delivered, BankAnswer(n, rc, delivered)
        PROVE  /\ \A a \in Attempts : bank[a] # "none" => bank'[a] = bank[a]
               /\ acked \subseteq acked'
    <3> DEFINE f == Head(egress[n])
    <3>1. /\ 1 \in 1 .. Len(egress[n]) /\ f = egress[n][1]
          /\ f \in Frame
      BY <2>2, HeadPlace DEF BankAnswer
    <3>2. BankDecides(f, rc)
      BY <2>2 DEF BankAnswer
    <3> HIDE DEF f
    <3>3. f.mti # "0420" /\ f.att # NoAttempt => f.att \in Attempts /\ bank[f.att] = "none"
      BY <3>1 DEF RequestInv, QueuedAt, Frame
    <3> QED
      BY <3>2, <3>3 DEF BankDecides, TypeOK
  <2> QED
    BY <1>1, <2>1, <2>2 DEF LinkStep
<1>2. ASSUME NEW a \in Attempts, IngressStep(a)
      PROVE  UNCHANGED bankVars
  BY <1>2 DEF IngressStep, ScreenDecline, EchoReply, TerminalReversal, RejectDuplicate, Admit
<1>3. ASSUME NEW a \in Attempts, WorkerStep(a)
      PROVE  UNCHANGED bankVars
  BY <1>3 DEF WorkerStep, RouteTransaction, RouteUnjournaled, AssignEgressStan, RecordEgressStan, ForwardUpstream,
     StipFallback, DeclineUnrouted, EvictUnrouted, HsmDrop, HsmAccept, HsmForward
<1>4. CASE ReaperStep
  BY <1>4, ReaperFrame
<1>5. ASSUME NEW w \in Repliers, ReplyStep(w)
      PROVE  UNCHANGED bankVars
  BY <1>5 DEF ReplyStep, ReplyTranslate, ReplyApply, ReplyUnjournaled, ReplyEvict
<1>6. CASE (\E k \in Keys : Age(k)) \/ (\E n \in Nodes, s \in Stans : Probe(n, s)) \/ JournalFails \/ UNCHANGED vars
  BY <1>6 DEF Age, Probe, JournalFails
<1> QED
  BY <1>1, <1>2, <1>3, <1>4, <1>5, <1>6 DEF Next

(* Replies are produced by the bank and handled by the reply workers only. *)
LEMMA ReplyActions ==
  ASSUME [Next]_vars
  PROVE  \/ UNCHANGED <<replies, replyVars>>
         \/ \E w \in Repliers : ReplyStep(w)
         \/ \E n \in Nodes, rc \in {"00", "51"}, delivered \in BOOLEAN : BankAnswer(n, rc, delivered)
<1> USE DEF vars, ctxVars, envVars, bankVars, histVars, reapVars
<1>1. ASSUME NEW a \in Attempts, IngressStep(a)
      PROVE  UNCHANGED <<replies, replyVars>>
  BY <1>1 DEF IngressStep, ScreenDecline, EchoReply, TerminalReversal, RejectDuplicate, Admit
<1>2. ASSUME NEW a \in Attempts, WorkerStep(a)
      PROVE  UNCHANGED <<replies, replyVars>>
  BY <1>2 DEF WorkerStep, RouteTransaction, RouteUnjournaled, AssignEgressStan, RecordEgressStan, ForwardUpstream,
     StipFallback, DeclineUnrouted, EvictUnrouted, HsmDrop, HsmAccept, HsmForward
<1>3. CASE ReaperStep
  BY <1>3, ReaperFrame DEF replyVars
<1>4. ASSUME NEW n \in Nodes, LoseFrame(n)
      PROVE  UNCHANGED <<replies, replyVars>>
  BY <1>4 DEF LoseFrame
<1>5. CASE (\E k \in Keys : Age(k)) \/ (\E n \in Nodes, s \in Stans : Probe(n, s)) \/ JournalFails \/ UNCHANGED vars
  BY <1>5 DEF Age, Probe, JournalFails
<1> QED
  BY <1>1, <1>2, <1>3, <1>4, <1>5 DEF Next, LinkStep

(* What the bank has said stays true. *)
LEMMA WordStays ==
  ASSUME IInv, RequestInv, [Next]_vars, NEW m \in Reply, Word(m)
  PROVE  Word(m)'
<1>1. /\ \A a \in Attempts : bank[a] # "none" => bank'[a] = bank[a]
      /\ acked \subseteq acked'
  BY BankStays
<1> QED
  BY <1>1 DEF Word

(* A reply carries the bank's word from the bank to the entry it is applied to. *)
LEMMA WordStep ==
  ASSUME IInv, RequestInv, WordInv, [Next]_vars
  PROVE  WordInv'
<1> USE DEF IInv
<1>1. TypeOK /\ \A m \in Reply : Word(m) => Word(m)'
  BY WordStays
<1>2. CASE UNCHANGED <<replies, replyVars>>
  <2>1. \A w \in Repliers : wpc[w] = "apply" => wmsg[w] \in Reply
    BY DEF ThreadInv
  <2> QED
    BY <1>1, <1>2, <2>1 DEF WordInv, replyVars, TypeOK, Word
<1>3. ASSUME NEW w \in Repliers, NEW m \in replies, ReplyTranslate(w, m)
      PROVE  WordInv'
  <2>1. UNCHANGED <<bank, acked>> /\ replies' \subseteq replies
    BY <1>3 DEF ReplyTranslate, bankVars
  <2>2. CASE m.att = NoAttempt
    BY <1>3, <2>1, <2>2 DEF ReplyTranslate, WordInv, Word, replyVars
  <2>3. CASE m.att # NoAttempt
    <3>1. /\ wpc' = [wpc EXCEPT ![w] = "apply"]
          /\ wmsg' = [wmsg EXCEPT ![w] = m]
          /\ wkey' = [wkey EXCEPT ![w] = ReplyKey(m)]
      BY <1>3, <2>3 DEF ReplyTranslate
    <3>2. ReplyKey(m)[1] = Id[m.att] /\ Word(m)
      BY DEF ReplyKey, WordInv
    <3> QED
      BY <1>1, <2>1, <3>1, <3>2 DEF WordInv, Word, TypeOK
  <2> QED
    BY <2>2, <2>3
<1>4. ASSUME NEW w \in Repliers, ReplyApply(w) \/ ReplyUnjournaled(w) \/ ReplyEvict(w)
      PROVE  WordInv'
  <2>1. UNCHANGED <<bank, acked, replies>>
    BY <1>4 DEF ReplyApply, ReplyUnjournaled, ReplyEvict, bankVars
  <2>2. \A x \in Repliers : wpc'[x] = "apply" => /\ wpc[x] = "apply"
                                                  /\ wmsg'[x] = wmsg[x] /\ wkey'[x] = wkey[x]
    BY <1>1, <1>4 DEF ReplyApply, ReplyUnjournaled, ReplyEvict, TypeOK
  <2> QED
    BY <2>1, <2>2 DEF WordInv, Word
<1>5. ASSUME NEW n \in Nodes, NEW rc \in {"00", "51"}, NEW delivered \in BOOLEAN,
             BankAnswer(n, rc, delivered)
      PROVE  WordInv'
  <2>1. PICK f \in Frame : f = Head(egress[n])
    BY <1>1, <1>5, HeadPlace DEF BankAnswer
  <2> DEFINE r == [mti |-> ReplyMti(f.mti), att |-> f.att, stan |-> f.stan, rc |-> rc]
  <2>2. replies' \subseteq replies \cup {r} /\ BankDecides(f, rc) /\ UNCHANGED replyVars
    BY <1>5, <2>1 DEF BankAnswer
  <2>3. Word(r)'
    <3>1. CASE f.mti # "0420" /\ f.att # NoAttempt
      <4>1. f.att \in Attempts /\ f = egress[n][1] /\ 1 \in 1 .. Len(egress[n])
        BY <1>1, <1>5, <2>1, <3>1, HeadPlace DEF BankAnswer, Frame
      <4>2. f.mti = Mti[f.att]
        BY <3>1, <4>1 DEF RequestInv, QueuedAt
      <4>3. bank' = [bank EXCEPT ![f.att] = IF rc = "00" THEN "approved" ELSE "declined"]
        BY <2>2, <3>1 DEF BankDecides
      <4>4. bank'[f.att] = IF rc = "00" THEN "approved" ELSE "declined"
        BY <1>1, <4>1, <4>3 DEF TypeOK
      <4>5. r.mti = ReplyMti(Mti[r.att]) /\ r.rc = rc /\ r.att = f.att
        BY <4>2
      <4> HIDE DEF r
      <4> QED
        BY <4>4, <4>5 DEF Word
    <3>2. CASE f.mti = "0420"
      <4>1. r.mti = "0430" /\ r.att = f.att /\ r.rc = "00" /\ f.att \in acked'
        BY <2>2, <3>2, SentinelAssumption DEF BankDecides, ReplyMti, Frame
      <4> HIDE DEF r
      <4> QED
        BY <4>1 DEF Word
    <3>3. CASE f.att = NoAttempt
      BY <3>3, SentinelAssumption DEF Word
    <3> QED
      BY <3>1, <3>2, <3>3
  <2> HIDE DEF r
  <2>4. \A m \in replies' : Word(m)'
    BY <1>1, <2>2, <2>3 DEF WordInv, TypeOK
  <2>5. \A w \in Repliers : wpc[w] = "apply" => wmsg[w] \in Reply
    BY DEF ThreadInv
  <2> QED
    BY <1>1, <2>2, <2>4, <2>5 DEF WordInv, replyVars, Word
<1> QED
  BY <1>2, <1>3, <1>4, <1>5, ReplyActions DEF ReplyStep
-----------------------------------------------------------------------------
(* The life of a guard entry and of a context.                             *)

(* The life of a guard entry: it is created by Admit, relabelled by a terminal's
   reversal, completed by a worker or a reply worker, with or without an answer,
   reversed by the reaper, and removed by one of four threads. *)
EntryGone(k) ==
    /\ guard'[k] = NoEntry
    /\ \/ \E a \in Attempts : pc[a] = "evict" /\ Key(a) = k
       \/ rpc = "evict" /\ rkey = k
       \/ rpc = "prune" /\ k \in rtodo
       \/ \E w \in Repliers : wpc[w] = "evict" /\ wkey[w] = k

EntryBorn(k) ==
    ~Present(k) /\ \E a \in Attempts : Admit(a) /\ Key(a) = k /\ guard'[k] = NewEntry(a)

EntryNoted(k) ==
    /\ Present(k) /\ guard'[k].state = guard[k].state
    /\ guard'[k].resp = guard[k].resp /\ guard'[k].att = guard[k].att

EntryMarked(k) ==
    /\ Present(k) /\ guard'[k].state = "ReversedPending"
    /\ guard'[k].resp = guard[k].resp /\ guard'[k].att = guard[k].att
    /\ \E r \in Attempts : TerminalReversal(r) /\ OrigStan[r] = k[2]

EntryCompleted(k) ==
    /\ Present(k) /\ guard'[k].state = "Completed"
    /\ ~guard'[k].resp /\ guard'[k].att = guard[k].att
    /\ \/ \E a \in Attempts : DeclineUnrouted(a) /\ Key(a) = k
       \/ \E w \in Repliers : ReplyApply(w) /\ wkey[w] = k /\ ~Late(guard[k])

EntryUnjournaled(k) ==
    /\ Present(k) /\ guard'[k].state = "Completed"
    /\ guard'[k].resp = guard[k].resp /\ guard'[k].att = guard[k].att
    /\ guard[k].att \in unjournaled'

EntryTimedOut(k) ==
    /\ Present(k) /\ guard'[k].state = "Reversed"
    /\ ~guard'[k].resp /\ guard'[k].att = guard[k].att
    /\ ReaperReverse(k)

(* No step does anything else to an entry. *)
LEMMA EntrySteps ==
  ASSUME IInv, [Next]_vars, NEW k \in Keys
  PROVE  \/ guard'[k] = guard[k] \/ EntryNoted(k)
         \/ EntryGone(k) \/ EntryBorn(k) \/ EntryMarked(k) \/ EntryCompleted(k)
         \/ EntryUnjournaled(k) \/ EntryTimedOut(k)
<1> DEFINE Same == guard'[k] = guard[k]
<1> USE DEF IInv, TypeOK, vars, ctxVars, envVars, bankVars, histVars, reapVars, replyVars
<1>0. Present(k) => guard[k] \in Entry
  BY PresentEntry
<1>1. ASSUME NEW a \in Attempts, IngressStep(a)
      PROVE  Same \/ EntryBorn(k) \/ EntryMarked(k)
  <2>1. CASE TerminalReversal(a)
    <3>1. CASE Present(k) /\ k[2] = OrigStan[a]
      BY <1>0, <2>1, <3>1 DEF TerminalReversal, Entry, EntryMarked
    <3>2. CASE ~(Present(k) /\ k[2] = OrigStan[a])
      BY <2>1, <3>2 DEF TerminalReversal
    <3> QED
      BY <3>1, <3>2
  <2>2. CASE Admit(a)
    BY <2>2, KeyInKeys DEF Admit, EntryBorn
  <2> QED
    BY <1>1, <2>1, <2>2 DEF IngressStep, ScreenDecline, EchoReply, RejectDuplicate
<1>2. ASSUME NEW a \in Attempts, WorkerStep(a)
      PROVE  Same \/ EntryGone(k) \/ EntryNoted(k) \/ EntryCompleted(k)
  <2>1. CASE RecordEgressStan(a)
    <3>1. CASE Key(a) = k /\ Present(k)
      <4>1. guard'[k] = [guard[k] EXCEPT !.stan = estan[a]]
        BY <2>1, <3>1 DEF RecordEgressStan
      <4> QED
        BY <1>0, <3>1, <4>1 DEF Entry, EntryNoted
    <3>2. CASE ~(Key(a) = k /\ Present(k))
      BY <2>1, <3>2, KeyInKeys DEF RecordEgressStan
    <3> QED
      BY <3>1, <3>2
  <2>2. CASE DeclineUnrouted(a)
    <3>1. CASE Key(a) = k /\ Present(k)
      <4>1. guard'[k] = [guard[k] EXCEPT !.state = "Completed", !.resp = FALSE]
        BY <2>2, <3>1 DEF DeclineUnrouted
      <4> QED
        BY <1>0, <2>2, <3>1, <4>1 DEF Entry, EntryCompleted
    <3>2. CASE ~(Key(a) = k /\ Present(k))
      BY <2>2, <3>2, KeyInKeys DEF DeclineUnrouted
    <3> QED
      BY <3>1, <3>2
  <2>3. CASE EvictUnrouted(a)
    BY <2>3, KeyInKeys DEF EvictUnrouted, EntryGone
  <2> QED
    BY <1>2, <2>1, <2>2, <2>3 DEF WorkerStep, RouteTransaction, RouteUnjournaled, AssignEgressStan, ForwardUpstream,
       StipFallback, HsmDrop, HsmAccept, HsmForward
<1>3. CASE ReaperStep
  <2>1. ASSUME NEW l \in Keys, ReaperReverse(l)
        PROVE  Same \/ EntryTimedOut(k)
    <3>1. CASE l = k
      <4>1. guard[k] \in Entry /\ Present(k)
        BY <1>0, <2>1, <3>1 DEF ReaperReverse, Reversible, Present
      <4>2. guard'[k] = [guard[k] EXCEPT !.state = "Reversed", !.stan = NoStan, !.resp = FALSE]
        BY <2>1, <3>1 DEF ReaperReverse
      <4> QED
        BY <2>1, <3>1, <4>1, <4>2 DEF Entry, EntryTimedOut
    <3>2. CASE l # k
      BY <2>1, <3>2 DEF ReaperReverse
    <3> QED
      BY <3>1, <3>2
  <2>2. CASE ReaperEvict
    BY <2>2 DEF ReaperEvict, ThreadInv, EntryGone
  <2>3. ASSUME NEW l \in Keys, ReaperPrune(l)
        PROVE  Same \/ EntryGone(k)
    BY <2>3 DEF ReaperPrune, EntryGone
  <2>4. ReaperScan \/ ReaperAdvise \/ ReaperGc \/ ReaperSweep \/ (\E l \in Keys : ReaperSkip(l)) => Same
    BY DEF ReaperScan, ReaperAdvise, ReaperGc, ReaperSweep, ReaperSkip
  <2> QED
    BY <1>3, <2>1, <2>2, <2>3, <2>4 DEF ReaperStep
<1>4. ASSUME NEW w \in Repliers, ReplyStep(w)
      PROVE  Same \/ EntryGone(k) \/ EntryCompleted(k) \/ EntryUnjournaled(k)
  <2>0. CASE ReplyUnjournaled(w)
    <3>1. CASE wkey[w] = k
      <4>1. Present(k) /\ guard'[k] = [guard[k] EXCEPT !.state = "Completed"]
            /\ unjournaled' = unjournaled \cup {guard[k].att}
        BY <2>0, <3>1 DEF ReplyUnjournaled
      <4> QED
        BY <1>0, <4>1 DEF Entry, EntryUnjournaled
    <3>2. CASE wkey[w] # k
      BY <2>0, <3>2 DEF ReplyUnjournaled, ThreadInv
    <3> QED
      BY <3>1, <3>2
  <2>1. CASE ReplyApply(w)
    <3>1. CASE wkey[w] = k /\ Present(k) /\ ~Late(guard[k])
      <4>1. guard'[k] = [guard[k] EXCEPT !.state = "Completed", !.resp = FALSE]
        BY <2>1, <3>1 DEF ReplyApply
      <4> QED
        BY <1>0, <2>1, <3>1, <4>1 DEF Entry, EntryCompleted
    <3>2. CASE ~(wkey[w] = k /\ Present(k) /\ ~Late(guard[k]))
      BY <2>1, <3>2 DEF ReplyApply, ThreadInv
    <3> QED
      BY <3>1, <3>2
  <2>2. CASE ReplyEvict(w)
    BY <2>2 DEF ReplyEvict, ThreadInv, EntryGone
  <2> QED
    BY <1>4, <2>0, <2>1, <2>2 DEF ReplyStep, ReplyTranslate
<1>5. ASSUME NEW l \in Keys, Age(l)
      PROVE  Same \/ EntryNoted(k)
  <2>1. CASE l = k
    <3>1. Present(k) /\ guard'[k] = [guard[k] EXCEPT !.age = @ + 1]
      BY <1>5, <2>1 DEF Age
    <3> QED
      BY <1>0, <3>1 DEF Entry, EntryNoted
  <2>2. CASE l # k
    BY <1>5, <2>2 DEF Age
  <2> QED
    BY <2>1, <2>2
<1>6. CASE (\E n \in Nodes : LinkStep(n)) \/ (\E n \in Nodes, s \in Stans : Probe(n, s)) \/ JournalFails \/ UNCHANGED vars
  BY <1>6 DEF LinkStep, LoseFrame, BankAnswer, Probe, JournalFails
<1> QED
  BY <1>1, <1>2, <1>3, <1>4, <1>5, <1>6 DEF Next

(* The way of a context: answered at once or admitted, then moved on by the
   thread that holds it. *)
ContextSettled(a) ==
    /\ pc[a] = "new" /\ pc'[a] = "done" /\ node'[a] = node[a]
    /\ answer'[a] # "none" \/ ~Held[a]

ContextAdmitted(a) ==
    /\ pc[a] = "new" /\ pc'[a] \in {"hsm", "route"} /\ node'[a] = node[a]
    /\ a \in Online /\ guard'[Key(a)] = NewEntry(a)

ContextMoved(a) ==
    /\ pc[a] \notin {"new", "done", "decline", "evict"} /\ pc'[a] \notin {"new", "evict"}
    /\ pc'[a] = "decline" => node'[a] = NoNode

ContextDeclined(a) ==
    pc'[a] = "evict" /\ node'[a] = node[a] /\ DeclineUnrouted(a)

ContextEvicted(a) ==
    pc[a] = "evict" /\ pc'[a] = "done" /\ node'[a] = node[a]

(* No step does anything else to a context. *)
LEMMA ContextSteps ==
  ASSUME IInv, [Next]_vars, NEW a \in Attempts
  PROVE  \/ pc'[a] = pc[a] /\ node'[a] = node[a]
         \/ ContextSettled(a) \/ ContextAdmitted(a) \/ ContextMoved(a) \/ ContextDeclined(a)
         \/ ContextEvicted(a)
<1> DEFINE Same == pc'[a] = pc[a] /\ node'[a] = node[a]
<1> USE DEF IInv, TypeOK, Goto, vars, ctxVars, envVars, bankVars, histVars, reapVars, replyVars
<1>1. ASSUME NEW b \in Attempts, IngressStep(b)
      PROVE  Same \/ ContextSettled(a) \/ ContextAdmitted(a)
  <2>1. CASE b = a /\ Admit(a)
    BY <2>1, KeyInKeys DEF Admit, ContextAdmitted, Online
  <2>2. CASE b = a /\ ~Admit(a)
    <3>1. (\E rc \in ScreenCodes : ScreenDecline(a, rc)) \/ EchoReply(a) \/ TerminalReversal(a) \/ RejectDuplicate(a)
      BY ONLY <1>1, <2>2, Zenon DEF IngressStep
    <3>2. ASSUME NEW rc \in ScreenCodes, ScreenDecline(a, rc) PROVE ContextSettled(a)
      BY <3>2, BoundAssumption DEF ScreenDecline, ContextSettled, Tell
    <3>3. CASE EchoReply(a)
      BY <3>3, BoundAssumption DEF EchoReply, ContextSettled, Tell
    <3>4. CASE TerminalReversal(a)
      BY <3>4, BoundAssumption DEF TerminalReversal, ContextSettled, Tell
    <3>5. CASE RejectDuplicate(a)
      BY <3>5, BoundAssumption DEF RejectDuplicate, ContextSettled, Tell
    <3> QED
      BY <3>1, <3>2, <3>3, <3>4, <3>5
  <2>3. CASE b # a
    BY <1>1, <2>3 DEF IngressStep, ScreenDecline, EchoReply, TerminalReversal, RejectDuplicate, Admit
  <2> QED
    BY <2>1, <2>2, <2>3
<1>2. ASSUME NEW b \in Attempts, WorkerStep(b)
      PROVE  Same \/ ContextMoved(a) \/ ContextDeclined(a) \/ ContextEvicted(a)
  <2>1. CASE b = a
    <3>1. CASE DeclineUnrouted(a)
      BY <3>1 DEF DeclineUnrouted, ContextDeclined
    <3>2. CASE EvictUnrouted(a)
      BY <3>2 DEF EvictUnrouted, ContextEvicted
    <3> QED
      BY <1>2, <2>1, <3>1, <3>2 DEF WorkerStep, RouteTransaction, RouteUnjournaled, AssignEgressStan, RecordEgressStan,
         ForwardUpstream, StipFallback, HsmDrop, HsmAccept, HsmForward, ContextMoved
  <2>2. CASE b # a
    BY <1>2, <2>2, SMTT(30) DEF WorkerStep, RouteTransaction, RouteUnjournaled, AssignEgressStan, RecordEgressStan,
       ForwardUpstream, StipFallback, DeclineUnrouted, EvictUnrouted, HsmDrop, HsmAccept, HsmForward
  <2> QED
    BY <2>1, <2>2
<1>3. CASE ReaperStep
  BY <1>3, ReaperFrame
<1>4. ASSUME NEW w \in Repliers, ReplyStep(w)
      PROVE  Same
  BY <1>4 DEF ReplyStep, ReplyTranslate, ReplyApply, ReplyUnjournaled, ReplyEvict
<1>5. CASE (\E n \in Nodes : LinkStep(n)) \/ (\E k \in Keys : Age(k))
           \/ (\E n \in Nodes, s \in Stans : Probe(n, s)) \/ JournalFails \/ UNCHANGED vars
  BY <1>5 DEF LinkStep, LoseFrame, BankAnswer, Age, Probe, JournalFails
<1> QED
  BY <1>1, <1>2, <1>3, <1>4, <1>5 DEF Next

(* What the journal lost stays lost. *)
LEMMA UnjournaledStays ==
  ASSUME [Next]_vars
  PROVE  /\ unjournaled \subseteq unjournaled'
         /\ \/ UNCHANGED unjournaled /\ (walUp' => walUp)
            \/ ~walUp'
<1> DEFINE Same == UNCHANGED <<unjournaled, walUp>>
<1> USE DEF vars, ctxVars, envVars, bankVars, histVars, reapVars, replyVars
<1>1. ASSUME NEW b \in Attempts, IngressStep(b)
      PROVE  Same
  BY <1>1 DEF IngressStep, ScreenDecline, EchoReply, TerminalReversal, RejectDuplicate, Admit
<1>2. ASSUME NEW b \in Attempts, WorkerStep(b)
      PROVE  Same
  BY <1>2 DEF WorkerStep, RouteTransaction, RouteUnjournaled, AssignEgressStan, RecordEgressStan, ForwardUpstream,
     StipFallback, DeclineUnrouted, EvictUnrouted, HsmDrop, HsmAccept, HsmForward
<1>3. CASE ReaperStep
  BY <1>3, ReaperFrame
<1>4. ASSUME NEW w \in Repliers, ReplyStep(w)
      PROVE  Same \/ (unjournaled \subseteq unjournaled' /\ ~walUp')
  BY <1>4 DEF ReplyStep, ReplyTranslate, ReplyApply, ReplyUnjournaled, ReplyEvict
<1>5. CASE (\E n \in Nodes : LinkStep(n)) \/ (\E k \in Keys : Age(k))
           \/ (\E n \in Nodes, s \in Stans : Probe(n, s)) \/ UNCHANGED vars
  BY <1>5 DEF LinkStep, LoseFrame, BankAnswer, Age, Probe
<1>6. CASE JournalFails
  BY <1>6 DEF JournalFails
<1> QED
  BY <1>1, <1>2, <1>3, <1>4, <1>5, <1>6 DEF Next

(* Nor does a request that has had its answer, or could have none, lose that. *)
LEMMA ServedStays ==
  ASSUME IInv, [Next]_vars, NEW a \in Attempts, Served(a)
  PROVE  Served(a)'
<1>1. pc[a] # "new" => pc'[a] # "new"
  BY ContextSteps DEF ContextSettled, ContextAdmitted, ContextMoved, ContextDeclined, ContextEvicted
<1> QED
  BY <1>1, AnswerStays, UnjournaledStays DEF Served

(* An answer under a key stays one. *)
LEMMA AnsweredStays ==
  ASSUME IInv, [Next]_vars, NEW k, Answered(k)
  PROVE  Answered(k)'
  BY ServedStays DEF Answered, Key

(* What is removed from the guard has been answered. *)
LEMMA GoneAnswered ==
  ASSUME TrackInv, NEW k \in Keys, EntryGone(k)
  PROVE  Answered(k)
  BY DEF TrackInv, ContextTrack, ThreadTrack, EntryGone

(* Answering through an entry leaves its terminal answered, either way, if there
   is one. *)
LEMMA RespondAnswers ==
  ASSUME TypeOK, EntryTrack, NEW k \in Keys, Present(k), NEW rc \in Codes \ {"none"},
         Respond(guard[k], rc)
  PROVE  answer'[guard[k].att] # "none" \/ ~Held[guard[k].att]
<1>1. guard[k] \in Entry
  BY PresentEntry
<1> QED
  BY <1>1 DEF Respond, TypeOK, EntryTrack, Entry

(* An entry gives its responder up only to answer with it: one case per way an
   entry can change. *)
LEMMA EntryTrackStep ==
  ASSUME IInv, TrackInv, [Next]_vars
  PROVE  EntryTrack'
<1> SUFFICES ASSUME NEW k \in Keys, Present(k)'
             PROVE  /\ ~guard'[k].resp => answer'[guard'[k].att] # "none" \/ ~Held[guard'[k].att]
                    /\ guard'[k].state = "Completed" =>
                          ~guard'[k].resp \/ guard'[k].att \in unjournaled'
  BY DEF EntryTrack
<1> USE DEF IInv, TrackInv
<1>1. Present(k) => guard[k] \in Entry /\ guard[k].att \in Attempts
  BY PresentEntry DEF Entry
<1>2. /\ Present(k) /\ ~guard[k].resp => answer'[guard[k].att] # "none" \/ ~Held[guard[k].att]
      /\ unjournaled \subseteq unjournaled'
  BY <1>1, AnswerStays, UnjournaledStays DEF EntryTrack
<1>3. CASE guard'[k] = guard[k] \/ EntryNoted(k)
  BY <1>2, <1>3 DEF EntryTrack, EntryNoted, Present
<1>4. CASE EntryGone(k)
  BY <1>4 DEF EntryGone, Present, NoEntry
<1>5. CASE EntryBorn(k)
  BY <1>5 DEF EntryBorn, NewEntry
<1>6. CASE EntryMarked(k) \/ EntryUnjournaled(k)
  BY <1>2, <1>6 DEF EntryMarked, EntryUnjournaled
<1>7. CASE EntryCompleted(k)
  <2>1. Present(k) /\ \E rc \in Codes \ {"none"} : Respond(guard[k], rc)
    <3>1. ASSUME NEW w \in Repliers, ReplyApply(w)
          PROVE  wmsg[w].rc \in Codes \ {"none"}
      BY <3>1 DEF ReplyApply, ThreadInv, Reply, Codes
    <3>2. "05" \in Codes \ {"none"}
      BY DEF Codes
    <3> QED
      <4>1. ASSUME NEW b \in Attempts, DeclineUnrouted(b), Key(b) = k, Present(k)
            PROVE  Respond(guard[k], "05")
        BY <4>1 DEF DeclineUnrouted
      <4>2. ASSUME NEW w \in Repliers, ReplyApply(w), wkey[w] = k, ~Late(guard[k]), Present(k)
            PROVE  Respond(guard[k], wmsg[w].rc)
        BY <4>2 DEF ReplyApply
      <4> QED
        BY ONLY <1>7, <3>1, <3>2, <4>1, <4>2, Zenon DEF EntryCompleted
  <2> QED
    BY <1>7, <2>1, RespondAnswers DEF EntryCompleted
<1>8. CASE EntryTimedOut(k)
  <2>1. Present(k) /\ "68" \in Codes \ {"none"} /\ Respond(guard[k], "68")
    BY <1>8 DEF EntryTimedOut, ReaperReverse, Codes
  <2> QED
    BY <1>8, <2>1, RespondAnswers DEF EntryTimedOut
<1> QED
  BY <1>3, <1>4, <1>5, <1>6, <1>7, <1>8, EntrySteps

(* Presence is lost only to an answer. *)
LEMMA PresentOrAnswered ==
  ASSUME IInv, TrackInv, [Next]_vars, NEW k \in Keys, Present(k)
  PROVE  Present(k)' \/ Answered(k)'
<1>1. CASE EntryGone(k)
  BY <1>1, GoneAnswered, AnsweredStays
<1> QED
  BY <1>1, EntrySteps DEF Present, EntryNoted, EntryBorn, EntryMarked, EntryCompleted,
     EntryUnjournaled, EntryTimedOut

(* An entry that is completed or reversed has an answered terminal. *)
LEMMA ClosedAnswered ==
  ASSUME IInv, EntryTrack, NEW k \in Keys, guard[k].state \in {"Completed", "Reversed"}
  PROVE  Answered(k)
<1>1. Present(k)
  BY DEF Present
<1>2. guard[k].att \in Attempts
  BY <1>1, PresentEntry DEF IInv, Entry
<1> QED
  BY <1>1, <1>2 DEF IInv, GuardInv, EntryTrack, Answered, Served

(* An admitted key is present or answered: one case per way a context can change. *)
LEMMA ContextTrackStep ==
  ASSUME IInv, TrackInv, [Next]_vars
  PROVE  ContextTrack'
<1> SUFFICES ASSUME NEW a \in Attempts
             PROVE  /\ pc'[a] \notin {"new", "done"} => a \in Online
                    /\ a \in Online /\ pc'[a] # "new" => Present(Key(a))' \/ Answered(Key(a))'
                    /\ pc'[a] = "evict" => Answered(Key(a))'
  BY DEF ContextTrack, Online, Key
<1>1. Key(a) \in Keys
  BY KeyInKeys
<1>2. Present(Key(a)) \/ Answered(Key(a)) => Present(Key(a))' \/ Answered(Key(a))'
  BY <1>1, PresentOrAnswered, AnsweredStays DEF Key
<1>3. Answered(Key(a)) => Answered(Key(a))'
  BY AnsweredStays DEF Key
<1>4. CASE pc'[a] = pc[a] /\ node'[a] = node[a]
  BY <1>2, <1>3, <1>4 DEF TrackInv, ContextTrack
<1>5. CASE ContextSettled(a)
  BY <1>5 DEF ContextSettled, Answered, Served, Key
<1>6. CASE ContextAdmitted(a)
  BY <1>6 DEF ContextAdmitted, Present, NewEntry, Key
<1>7. CASE ContextMoved(a)
  BY <1>2, <1>7 DEF ContextMoved, TrackInv, ContextTrack
<1>8. CASE ContextDeclined(a)
  <2>1. pc[a] = "decline" /\ pc'[a] = "evict" /\ a \in Online
    BY <1>8 DEF ContextDeclined, DeclineUnrouted, TrackInv, ContextTrack
  <2>2. Answered(Key(a))'
    <3>1. CASE Present(Key(a))
      <4>1. Respond(guard[Key(a)], "05") /\ "05" \in Codes \ {"none"}
        BY <1>8, <3>1 DEF ContextDeclined, DeclineUnrouted, Codes
      <4>2. answer'[guard[Key(a)].att] # "none" \/ ~Held[guard[Key(a)].att]
        BY <1>1, <3>1, <4>1, RespondAnswers DEF TrackInv, IInv
      <4>3. guard[Key(a)].att \in Attempts /\ Key(guard[Key(a)].att) = Key(a)
            /\ pc[guard[Key(a)].att] # "new"
        BY <1>1, <3>1, PresentEntry DEF IInv, GuardInv, Entry
      <4>4. pc'[guard[Key(a)].att] # "new"
        BY <1>8, <4>3 DEF ContextDeclined, DeclineUnrouted, Goto, IInv, TypeOK
      <4> QED
        BY <4>2, <4>3, <4>4 DEF Answered, Served, Key
    <3>2. CASE ~Present(Key(a))
      BY <1>3, <2>1, <3>2 DEF TrackInv, ContextTrack
    <3> QED
      BY <3>1, <3>2
  <2> QED
    BY <2>1, <2>2
<1>9. CASE ContextEvicted(a)
  BY <1>2, <1>9 DEF ContextEvicted, TrackInv, ContextTrack
<1> QED
  BY <1>4, <1>5, <1>6, <1>7, <1>8, <1>9, ContextSteps

(* The reaper and the reply workers remove only keys they know to be answered. *)
LEMMA ThreadTrackStep ==
  ASSUME IInv, TrackInv, [Next]_vars
  PROVE  ThreadTrack'
<1> USE DEF TrackInv, vars, ctxVars, envVars, bankVars, histVars, reapVars, replyVars
<1>1. \A k : Answered(k) => Answered(k)'
  BY AnsweredStays
<1>2. EntryTrack' /\ IInv'
  BY EntryTrackStep, NextIInv
<1>3. (rpc \in {"gc", "evict"} => Answered(rkey)) /\ (rpc = "prune" => \A k \in rtodo : Answered(k))
      /\ \A w \in Repliers : wpc[w] = "evict" => Answered(wkey[w])
  BY DEF ThreadTrack
<1>4. CASE UNCHANGED <<reapVars, replyVars>>
  BY <1>1, <1>3, <1>4 DEF ThreadTrack, Answered
<1>5. CASE ReaperStep
  <2>0. UNCHANGED replyVars
    BY <1>5, ReaperFrame
  <2>1. \A w \in Repliers : wpc'[w] = "evict" => Answered(wkey[w])' /\ wkey'[w] = wkey[w]
    BY <1>1, <1>3, <2>0 DEF Answered
  <2>2. rpc' \in {"gc", "evict"} => Answered(rkey)' 
    <3>1. CASE ReaperAdvise
      <4>1. rkey \in Keys /\ guard[rkey].state = "Reversed"
        BY <3>1 DEF ReaperAdvise, IInv, ThreadInv
      <4>2. Answered(rkey) /\ UNCHANGED <<answer, rkey>>
        BY <3>1, <4>1, ClosedAnswered DEF ReaperAdvise
      <4> QED
        BY <1>1, <4>2 DEF Answered
    <3>2. CASE ReaperGc
      BY <1>1, <1>3, <3>2 DEF ReaperGc, Answered
    <3>3. ReaperScan \/ ReaperEvict \/ ReaperSweep => rpc' \notin {"gc", "evict"}
      BY DEF ReaperScan, ReaperEvict, ReaperSweep
    <3>4. ASSUME NEW k \in Keys, ReaperReverse(k) \/ ReaperSkip(k) \/ ReaperPrune(k)
          PROVE  rpc' \notin {"gc", "evict"}
      BY <3>4 DEF ReaperReverse, ReaperSkip, ReaperPrune
    <3> QED
      BY <1>5, <3>1, <3>2, <3>3, <3>4 DEF ReaperStep
  <2>3. rpc' = "prune" => \A k \in rtodo' : Answered(k)'
    <3>1. CASE ReaperSweep
      <4>1. \A k \in StaleKeys : Answered(k)
        BY ClosedAnswered DEF StaleKeys
      <4> QED
        BY <1>1, <3>1, <4>1 DEF ReaperSweep
    <3>2. ASSUME NEW l \in Keys, ReaperPrune(l)
          PROVE  \A k \in rtodo' : Answered(k)'
      BY <1>1, <1>3, <3>2 DEF ReaperPrune
    <3> QED
      BY <1>5, <3>1, <3>2 DEF ReaperStep, ReaperScan, ReaperAdvise, ReaperGc, ReaperEvict,
         ReaperReverse, ReaperSkip
  <2> QED
    BY <2>1, <2>2, <2>3, SMTT(30) DEF ThreadTrack, Answered
<1>6. ASSUME NEW w \in Repliers, ReplyStep(w)
      PROVE  ThreadTrack'
  <2>0. UNCHANGED reapVars
    BY <1>6 DEF ReplyStep, ReplyTranslate, ReplyApply, ReplyUnjournaled, ReplyEvict
  <2>1. ASSUME NEW x \in Repliers, wpc'[x] = "evict"
        PROVE  \E k \in Keys \cup {wkey[x]} : wkey'[x] = k /\ Answered(k)'
    <3>1. CASE x # w \/ wpc[x] = "evict"
      <4>1. wkey'[x] = wkey[x] /\ wpc[x] = "evict"
        BY <1>6, <2>1, <3>1 DEF ReplyStep, ReplyTranslate, ReplyApply, ReplyUnjournaled, ReplyEvict, IInv, TypeOK
      <4> QED
        BY <1>1, <1>3, <4>1
    <3>2. CASE x = w /\ ReplyApply(w)
      <4>1. wkey[w] \in Keys /\ Present(wkey[w]) /\ wkey'[w] = wkey[w]
        BY <2>1, <3>2 DEF ReplyApply, IInv, ThreadInv, TypeOK
      <4>2. Answered(wkey[w]) \/ guard'[wkey[w]].state = "Completed"
        <5>1. CASE Late(guard[wkey[w]])
          BY <4>1, <5>1, ClosedAnswered DEF Late
        <5>2. CASE ~Late(guard[wkey[w]])
          <6>1. guard'[wkey[w]] = [guard[wkey[w]] EXCEPT !.state = "Completed", !.resp = FALSE]
            BY <3>2, <4>1, <5>2 DEF ReplyApply, IInv, TypeOK
          <6> QED
            BY <4>1, <6>1, PresentEntry DEF Entry, IInv
        <5> QED
          BY <5>1, <5>2
      <4>3. PICK k \in Keys : k = wkey[w]
        BY <4>1
      <4>4. guard'[k].state = "Completed" => Answered(k)'
        <5> SUFFICES ASSUME guard'[k].state = "Completed" PROVE Answered(k)'
          OBVIOUS
        <5>0. Present(k)' /\ TypeOK'
          BY <1>2 DEF Present, IInv
        <5>1. PICK b \in Attempts : b = guard'[k].att
          <6>1. guard'[k] \in Entry \cup {NoEntry} /\ guard'[k].state # "Absent"
            BY <5>0 DEF TypeOK, Present
          <6> QED
            BY <6>1 DEF NoEntry, Entry
        <5>2. Key(b) = k /\ pc'[b] # "new"
              /\ (answer'[b] # "none" \/ ~Held[b] \/ b \in unjournaled')
          BY <1>2, <5>1, SMTT(30) DEF IInv, GuardInv, EntryTrack, Present, Key
        <5> QED
          BY <5>2 DEF Answered, Served, Key
      <4> QED
        BY <1>1, <3>2, <4>1, <4>2, <4>3, <4>4
    <3> QED
      BY <1>6, <2>1, <3>1, <3>2 DEF ReplyStep, ReplyTranslate, ReplyUnjournaled, ReplyEvict, IInv, TypeOK
  <2> QED
    BY <1>1, <1>3, <2>0, <2>1 DEF ThreadTrack, Answered
<1>7. CASE \/ \E a \in Attempts : IngressStep(a) \/ WorkerStep(a)
           \/ \E n \in Nodes : LinkStep(n)
           \/ \E k \in Keys : Age(k)
           \/ \E n \in Nodes, s \in Stans : Probe(n, s)
           \/ JournalFails \/ UNCHANGED vars
  <2>1. UNCHANGED <<reapVars, replyVars>>
    BY <1>7, ZenonT(40) DEF IngressStep, ScreenDecline, EchoReply, TerminalReversal, RejectDuplicate, Admit,
       WorkerStep, RouteTransaction, RouteUnjournaled, AssignEgressStan, RecordEgressStan, ForwardUpstream,
       StipFallback, DeclineUnrouted, EvictUnrouted, HsmDrop, HsmAccept, HsmForward, LinkStep,
       LoseFrame, BankAnswer, Age, Probe, JournalFails
  <2> QED
    BY <1>4, <2>1, SMTT(30)
<1> QED
  BY <1>5, <1>6, <1>7 DEF Next
-----------------------------------------------------------------------------
(* Where answers come from.                                                *)

(* The four ways a terminal gets its answer: at once from the worker that took its
   context, or through its guard entry from a worker that found no channel, from
   the reaper, or from a reply worker. *)
AnsweredAtOnce(a, rc) ==
    /\ pc[a] = "new" /\ answer' = [answer EXCEPT ![a] = rc]
    /\ rc \in {"56", "59", "93", "94"} \/ (rc = "00" /\ a \notin Online)

AnsweredUnrouted(a) ==
    answer' = [answer EXCEPT ![a] = "05"] /\ \E b \in Attempts : DeclineUnrouted(b)

AnsweredTimeout(a) ==
    answer' = [answer EXCEPT ![a] = "68"] /\ \E k \in Keys : ReaperReverse(k)

AnsweredByReply(a, rc) ==
    /\ answer' = [answer EXCEPT ![a] = rc]
    /\ \E w \in Repliers : ReplyApply(w) /\ rc = wmsg[w].rc /\ wkey[w] = Key(a)

(* There is no fifth way, and each answers a terminal that had no answer. *)
LEMMA AnswerSteps ==
  ASSUME IInv, [Next]_vars
  PROVE  \/ UNCHANGED answer
         \/ \E a \in Attempts :
               /\ answer[a] = "none"
               /\ \/ \E rc \in Codes : AnsweredAtOnce(a, rc)
                  \/ AnsweredUnrouted(a) \/ AnsweredTimeout(a)
                  \/ \E rc \in {"00", "51"} : AnsweredByReply(a, rc)
<1> USE DEF IInv, vars, ctxVars, envVars, bankVars, histVars, reapVars, replyVars
<1>0. ASSUME NEW k \in Keys, Present(k), NEW rc, Respond(guard[k], rc)
      PROVE  \/ UNCHANGED answer
             \/ \E a \in Attempts : /\ answer[a] = "none" /\ Key(a) = k
                                    /\ answer' = [answer EXCEPT ![a] = rc]
  <2>1. guard[k].att \in Attempts /\ Key(guard[k].att) = k
    BY <1>0, PresentEntry DEF Entry, GuardInv
  <2> QED
    BY <1>0, <2>1 DEF Respond, GuardInv
<1>1. ASSUME NEW b \in Attempts, IngressStep(b)
      PROVE  \/ UNCHANGED answer
             \/ answer[b] = "none" /\ \E rc \in Codes : AnsweredAtOnce(b, rc)
  <2>0. CASE ~Held[b]
    BY <1>1, <2>0 DEF IngressStep, ScreenDecline, EchoReply, TerminalReversal, RejectDuplicate, Admit, Tell
  <2>1. pc[b] = "new" /\ answer[b] = "none"
    BY <1>1 DEF IngressStep, ScreenDecline, EchoReply, TerminalReversal, RejectDuplicate, Admit, ContextInv
  <2>2. ASSUME NEW rc \in ScreenCodes, ScreenDecline(b, rc)
        PROVE  UNCHANGED answer \/ \E r \in Codes : AnsweredAtOnce(b, r)
    BY <2>1, <2>2, BoundAssumption DEF ScreenDecline, AnsweredAtOnce, Codes, Tell
  <2>3. CASE Held[b] /\ (EchoReply(b) \/ TerminalReversal(b))
    <3>1. answer' = [answer EXCEPT ![b] = "00"] /\ b \notin Online /\ "00" \in Codes
      BY <2>3 DEF EchoReply, TerminalReversal, Online, Codes, Tell
    <3> QED
      BY <2>1, <3>1 DEF AnsweredAtOnce
  <2>4. CASE Held[b] /\ RejectDuplicate(b)
    <3>1. answer' = [answer EXCEPT ![b] = "94"] /\ "94" \in Codes
      BY <2>4 DEF RejectDuplicate, Codes, Tell
    <3> QED
      BY <2>1, <3>1 DEF AnsweredAtOnce
  <2>5. CASE Admit(b)
    BY <2>5 DEF Admit
  <2> QED
    BY <1>1, <2>0, <2>1, <2>2, <2>3, <2>4, <2>5 DEF IngressStep
<1>2. ASSUME NEW b \in Attempts, WorkerStep(b)
      PROVE  UNCHANGED answer \/ \E a \in Attempts : answer[a] = "none" /\ AnsweredUnrouted(a)
  <2>1. CASE DeclineUnrouted(b)
    BY <1>0, <2>1, KeyInKeys, ZenonT(40) DEF DeclineUnrouted, AnsweredUnrouted
  <2> QED
    BY <1>2, <2>1 DEF WorkerStep, RouteTransaction, RouteUnjournaled, AssignEgressStan, RecordEgressStan,
       ForwardUpstream, StipFallback, EvictUnrouted, HsmDrop, HsmAccept, HsmForward
<1>3. CASE ReaperStep
  <2>1. ASSUME NEW k \in Keys, ReaperReverse(k)
        PROVE  UNCHANGED answer \/ \E a \in Attempts : answer[a] = "none" /\ AnsweredTimeout(a)
    <3>1. Present(k) /\ Respond(guard[k], "68")
      BY <2>1 DEF ReaperReverse, Reversible, Present
    <3> QED
      BY <1>0, <2>1, <3>1 DEF AnsweredTimeout
  <2> QED
    BY <1>3, <2>1 DEF ReaperStep, ReaperScan, ReaperAdvise, ReaperGc, ReaperEvict, ReaperSweep,
       ReaperSkip, ReaperPrune
<1>4. ASSUME NEW w \in Repliers, ReplyStep(w)
      PROVE  \/ UNCHANGED answer
             \/ \E a \in Attempts : answer[a] = "none" /\ \E rc \in {"00", "51"} : AnsweredByReply(a, rc)
  <2>1. CASE ReplyApply(w)
    <3>1. wkey[w] \in Keys /\ wmsg[w].rc \in {"00", "51"}
      BY <2>1 DEF ReplyApply, ThreadInv, Reply
    <3>2. CASE Present(wkey[w]) /\ ~Late(guard[wkey[w]])
      <4>1. Respond(guard[wkey[w]], wmsg[w].rc)
        BY <2>1, <3>2 DEF ReplyApply
      <4> QED
        BY <1>0, <2>1, <3>1, <3>2, <4>1 DEF AnsweredByReply
    <3>3. CASE ~(Present(wkey[w]) /\ ~Late(guard[wkey[w]]))
      BY <2>1, <3>3 DEF ReplyApply
    <3> QED
      BY <3>2, <3>3
  <2> QED
    BY <1>4, <2>1 DEF ReplyStep, ReplyTranslate, ReplyUnjournaled, ReplyEvict
<1>5. CASE (\E n \in Nodes : LinkStep(n)) \/ (\E k \in Keys : Age(k))
           \/ (\E n \in Nodes, s \in Stans : Probe(n, s)) \/ JournalFails \/ UNCHANGED vars
  BY <1>5 DEF LinkStep, LoseFrame, BankAnswer, Age, Probe, JournalFails
<1> QED
  BY <1>1, <1>2, <1>3, <1>4, <1>5 DEF Next

(* A reply that answers is the bank's word on a request of that transaction. *)
LEMMA ReplyOrigin ==
  ASSUME IInv, WordInv, NEW a \in Attempts, NEW w \in Repliers, wpc[w] = "apply", wkey[w] = Key(a)
  PROVE  /\ wmsg[w].att \in Attempts /\ Id[wmsg[w].att] = Id[a]
         /\ \/ wmsg[w].mti = ReplyMti(Mti[wmsg[w].att]) /\ wmsg[w].rc = "00" /\ bank[wmsg[w].att] = "approved"
            \/ wmsg[w].mti = ReplyMti(Mti[wmsg[w].att]) /\ wmsg[w].rc = "51" /\ bank[wmsg[w].att] = "declined"
            \/ wmsg[w].mti = "0430" /\ wmsg[w].rc = "00" /\ wmsg[w].att \in acked
  BY DEF IInv, ThreadInv, WordInv, Word, Key

(* A new approval has its origin in the reply it is taken from. *)
LEMMA ApprovalStep ==
  ASSUME IInv, RequestInv, WordInv, ApprovalHasOrigin, [Next]_vars
  PROVE  ApprovalHasOrigin'
<1> SUFFICES ASSUME NEW a \in Online, answer'[a] = "00"
             PROVE  \E b \in Attempts : Id[b] = Id[a] /\ (bank'[b] = "approved" \/ b \in acked')
  BY DEF ApprovalHasOrigin, Online
<1>1. a \in Attempts
  BY DEF Online
<1>2. \A b \in Attempts : bank[b] = "approved" \/ b \in acked => bank'[b] = "approved" \/ b \in acked'
  BY BankStays
<1>3. CASE answer[a] = "00"
  BY <1>2, <1>3 DEF ApprovalHasOrigin
<1>4. CASE answer[a] # "00"
  <2>1. \E rc \in {"00", "51"} : rc = "00" /\ AnsweredByReply(a, rc)
    BY <1>1, <1>4, AnswerSteps
       DEF AnsweredAtOnce, AnsweredUnrouted, AnsweredTimeout, AnsweredByReply, IInv, TypeOK
  <2>2. PICK w \in Repliers : wpc[w] = "apply" /\ wmsg[w].rc = "00" /\ wkey[w] = Key(a)
    BY <2>1 DEF AnsweredByReply, ReplyApply
  <2>3. \E b \in Attempts : Id[b] = Id[a] /\ (bank[b] = "approved" \/ b \in acked)
    BY <1>1, <2>2, ReplyOrigin
  <2> QED
    BY <1>2, <2>3
<1> QED
  BY <1>3, <1>4
-----------------------------------------------------------------------------
(* What is journaled.                                                      *)

(* Only a reply worker that completes an entry journals a bank reply. *)
LEMMA JournalSteps ==
  ASSUME [Next]_vars, NEW a \in Attempts, NEW t \in {"0110", "0810"}
  PROVE  \/ (<<a, t>> \in journal') <=> (<<a, t>> \in journal)
         \/ \E w \in Repliers :
               /\ ReplyApply(w) /\ Present(wkey[w]) /\ ~Late(guard[wkey[w]])
               /\ wmsg[w].att = a /\ wmsg[w].mti = t
<1> DEFINE Same == (<<a, t>> \in journal') <=> (<<a, t>> \in journal)
<1>0. t # "stip" /\ \A b \in Attempts : Mti[b] # t
  BY AttributeAssumption DEF Mtis
<1> USE DEF vars, ctxVars, envVars, bankVars, histVars, reapVars, replyVars
<1>1. ASSUME NEW b \in Attempts, IngressStep(b)
      PROVE  Same
  BY <1>1 DEF IngressStep, ScreenDecline, EchoReply, TerminalReversal, RejectDuplicate, Admit
<1>2. ASSUME NEW b \in Attempts, WorkerStep(b)
      PROVE  Same
  BY <1>0, <1>2 DEF WorkerStep, RouteTransaction, RouteUnjournaled, AssignEgressStan, RecordEgressStan, ForwardUpstream,
     StipFallback, DeclineUnrouted, EvictUnrouted, HsmDrop, HsmAccept, HsmForward
<1>3. CASE ReaperStep
  BY <1>3, ReaperFrame
<1>4. ASSUME NEW w \in Repliers, ReplyStep(w)
      PROVE  \/ Same
             \/ /\ ReplyApply(w) /\ Present(wkey[w]) /\ ~Late(guard[wkey[w]])
                /\ wmsg[w].att = a /\ wmsg[w].mti = t
  <2>1. CASE ReplyApply(w)
    BY <2>1 DEF ReplyApply
  <2> QED
    BY <1>4, <2>1 DEF ReplyStep, ReplyTranslate, ReplyUnjournaled, ReplyEvict
<1>5. CASE (\E n \in Nodes : LinkStep(n)) \/ (\E k \in Keys : Age(k))
           \/ (\E n \in Nodes, s \in Stans : Probe(n, s)) \/ JournalFails \/ UNCHANGED vars
  BY <1>5 DEF LinkStep, LoseFrame, BankAnswer, Age, Probe, JournalFails
<1> QED
  BY <1>1, <1>2, <1>3, <1>4, <1>5 DEF Next

(* The entry under an undisturbed request's key is its own and is not marked. *)
LEMMA UndisturbedEntry ==
  ASSUME IInv, JournalInv, NEW a \in Attempts, Undisturbed(a), Present(Key(a))
  PROVE  guard[Key(a)].att = a /\ guard[Key(a)].state # "ReversedPending"
<1>1. Key(a) \in Keys /\ guard[Key(a)] \in Entry
  BY KeyInKeys, PresentEntry DEF IInv
<1>2. guard[Key(a)].att \in Attempts /\ Id[guard[Key(a)].att] = Id[a]
  BY <1>1 DEF IInv, GuardInv, Entry, Key
<1>3. guard[Key(a)].state = "ReversedPending" => \E r \in Attempts : Kind[r] = "reversal" /\ OrigStan[r] = Stan[a]
  BY <1>1 DEF JournalInv, Key
<1> QED
  BY <1>2, <1>3 DEF Undisturbed, Solo, Unnamed

(* An undisturbed request has a responder. *)
LEMMA UndisturbedHeld ==
  ASSUME NEW a \in Attempts, Solo(a)
  PROVE  Held[a]
  BY SessionAssumption DEF Solo

(* A bank reply that completes the entry of an undisturbed request is the bank's
   answer to that very request, unless nothing was ever sent for it. *)
LEMMA UndisturbedReply ==
  ASSUME PipelineInv, NEW a \in Attempts, Undisturbed(a), NEW w \in Repliers, ReplyApply(w),
         wkey[w] = Key(a), Present(Key(a)), ~Late(guard[Key(a)])
  PROVE  /\ wmsg[w].att = a
         /\ \/ answer[a] = "none" /\ wmsg[w].mti = ReplyMti(Mti[a]) /\ answer' = [answer EXCEPT ![a] = wmsg[w].rc]
            \/ answer[a] \in {"00", "51"} /\ answer' = answer
            \/ /\ node[a] = NoNode /\ pc[a] \in {"evict", "done"}
               /\ answer' = answer /\ wmsg[w].mti = "0430"
<1> USE DEF PipelineInv
<1> DEFINE e == guard[Key(a)]  m == wmsg[w]
<1>1. Key(a) \in Keys /\ e \in Entry /\ e.att = a /\ e.state \notin {"ReversedPending", "Reversed", "Absent"}
  BY KeyInKeys, PresentEntry, UndisturbedEntry DEF IInv, Late, Present
<1>2. wpc[w] = "apply" /\ Respond(e, m.rc) /\ walUp
  BY DEF ReplyApply
<1>0. Held[a] /\ Mti[a] # "0420" /\ unjournaled = {}
  BY <1>2, UndisturbedHeld DEF Undisturbed, JournalInv
<1>3. /\ m.att \in Attempts /\ Id[m.att] = Id[a]
      /\ \/ m.mti = ReplyMti(Mti[m.att]) /\ m.rc = "00" /\ bank[m.att] = "approved"
         \/ m.mti = ReplyMti(Mti[m.att]) /\ m.rc = "51" /\ bank[m.att] = "declined"
         \/ m.mti = "0430" /\ m.rc = "00" /\ m.att \in acked
  BY <1>2, ReplyOrigin
<1>4. m.att = a
  BY <1>3 DEF Undisturbed, Solo
<1>5. a \in acked => answer[a] = "68"
  BY <1>0 DEF IInv, AdviceInv
<1>6. CASE e.state = "UpstreamSent"
  <2>1. e.resp /\ answer[a] = "none"
    BY <1>0, <1>1, <1>6 DEF IInv, GuardInv, Present
  <2> QED
    BY <1>1, <1>2, <1>3, <1>4, <1>5, <2>1 DEF Respond
<1>7. CASE e.state = "Completed"
  <2>1. ~e.resp
    BY <1>0, <1>1, <1>7 DEF TrackInv, EntryTrack
  <2>2. answer' = answer
    BY <1>2, <2>1 DEF Respond
  <2>3. answer[a] \in {"00", "51"} \/ (node[a] = NoNode /\ pc[a] \in {"evict", "done"})
    BY <1>0, <1>7 DEF JournalInv
  <2>4. node[a] = NoNode => bank[a] = "none"
    BY SentinelAssumption DEF RequestInv
  <2> QED
    BY <1>3, <1>4, <2>2, <2>3, <2>4
<1> QED
  BY <1>1, <1>6, <1>7 DEF Entry, States

(* A new entry waits for the bank. *)
LEMMA BornWaits ==
  ASSUME NEW k, EntryBorn(k)
  PROVE  guard'[k].state = "UpstreamSent"
<1>1. PICK a \in Attempts : guard'[k] = NewEntry(a)
  BY DEF EntryBorn
<1> QED
  BY <1>1 DEF NewEntry

(* An entry is marked ReversedPending only by a reversal that names its STAN. *)
LEMMA MarkedStep ==
  ASSUME IInv, JournalInv, [Next]_vars, NEW k \in Keys, guard'[k].state = "ReversedPending"
  PROVE  \E r \in Attempts : Kind[r] = "reversal" /\ OrigStan[r] = k[2]
<1>1. CASE guard'[k] = guard[k] \/ EntryNoted(k)
  BY <1>1 DEF EntryNoted, JournalInv
<1>2. CASE EntryMarked(k)
  BY <1>2 DEF EntryMarked, TerminalReversal
<1>3. ~EntryGone(k) /\ ~EntryCompleted(k) /\ ~EntryUnjournaled(k) /\ ~EntryTimedOut(k)
  BY DEF EntryGone, NoEntry, EntryCompleted, EntryUnjournaled, EntryTimedOut
<1>4. ~EntryBorn(k)
  BY BornWaits
<1> QED
  BY <1>1, <1>2, <1>3, <1>4, EntrySteps

(* A context declined for want of a channel keeps having none. *)
LEMMA UnroutedStays ==
  ASSUME IInv, JournalInv, [Next]_vars, NEW a \in Attempts
  PROVE  /\ pc'[a] \in {"decline", "evict"} => node'[a] = NoNode
         /\ node[a] = NoNode /\ pc[a] \in {"evict", "done"} =>
               node'[a] = NoNode /\ pc'[a] \in {"evict", "done"}
<1>1. pc[a] \in {"decline", "evict"} => node[a] = NoNode
  BY DEF JournalInv
<1> QED
  <2>1. ContextDeclined(a) => pc[a] = "decline" /\ pc'[a] = "evict" /\ node'[a] = node[a]
    BY DEF ContextDeclined, DeclineUnrouted
  <2> QED
    BY <1>1, <2>1, ContextSteps DEF ContextSettled, ContextAdmitted, ContextMoved, ContextEvicted

(* The entry of an undisturbed request is completed by the bank, or by the worker
   that found no channel. *)
LEMMA CompletedStep ==
  ASSUME PipelineInv, [Next]_vars, NEW a \in Attempts, Undisturbed(a),
         guard'[Key(a)].state = "Completed"
  PROVE  \/ answer'[a] \in {"00", "51"}
         \/ node'[a] = NoNode /\ pc'[a] \in {"evict", "done"}
         \/ a \in unjournaled'
<1> USE DEF PipelineInv
<1>1. Key(a) \in Keys
  BY KeyInKeys
<1>2. /\ answer[a] # "none" => answer'[a] = answer[a]
      /\ node[a] = NoNode /\ pc[a] \in {"evict", "done"} => node'[a] = NoNode /\ pc'[a] \in {"evict", "done"}
      /\ unjournaled \subseteq unjournaled'
  BY AnswerStays, UnroutedStays, UnjournaledStays
<1>3. CASE guard'[Key(a)] = guard[Key(a)] \/ EntryNoted(Key(a))
  BY <1>2, <1>3 DEF EntryNoted, JournalInv
<1>4. CASE EntryCompleted(Key(a))
  <2>1. ASSUME NEW b \in Attempts, DeclineUnrouted(b), Key(b) = Key(a)
        PROVE  node'[a] = NoNode /\ pc'[a] \in {"evict", "done"}
    <3>1. b = a
      BY <2>1 DEF Undisturbed, Solo, Key
    <3> QED
      BY <2>1, <3>1 DEF DeclineUnrouted, JournalInv, Goto, IInv, TypeOK
  <2>2. ASSUME NEW w \in Repliers, ReplyApply(w), wkey[w] = Key(a), ~Late(guard[Key(a)])
        PROVE  \/ answer'[a] \in {"00", "51"}
               \/ node'[a] = NoNode /\ pc'[a] \in {"evict", "done"}
    <3>1. Present(Key(a)) /\ wmsg[w].rc \in {"00", "51"}
      <4>0. Present(Key(a))
        BY ONLY <1>4 DEF EntryCompleted
      <4>1. Present(Key(a)) /\ wpc[w] = "apply"
        BY ONLY <2>2, <4>0 DEF ReplyApply
      <4>2. wmsg[w] \in Reply
        BY <4>1 DEF IInv, ThreadInv
      <4> QED
        BY <4>1, <4>2 DEF Reply
    <3>2. \/ answer' = [answer EXCEPT ![a] = wmsg[w].rc]
          \/ answer[a] \in {"00", "51"}
          \/ node[a] = NoNode /\ pc[a] \in {"evict", "done"}
      BY <2>2, <3>1, UndisturbedReply
    <3> QED
      BY <1>2, <3>1, <3>2 DEF IInv, TypeOK
  <2> QED
    BY <1>4, <2>1, <2>2 DEF EntryCompleted
<1>5. ~EntryGone(Key(a)) /\ ~EntryMarked(Key(a)) /\ ~EntryTimedOut(Key(a))
  BY DEF EntryGone, NoEntry, EntryMarked, EntryTimedOut
<1>6. ~EntryBorn(Key(a))
  BY BornWaits
<1>7. CASE EntryUnjournaled(Key(a))
  BY <1>7, UndisturbedEntry DEF EntryUnjournaled
<1> QED
  BY <1>1, <1>3, <1>4, <1>5, <1>6, <1>7, EntrySteps

(* The bank's answer is journaled and given to the terminal in the same step. *)
LEMMA JournaledStep ==
  ASSUME PipelineInv, [Next]_vars, NEW a \in Attempts, Undisturbed(a)
  PROVE  (<<a, ReplyMti(Mti[a])>> \in journal') <=> (answer'[a] \in {"00", "51"})
<1> USE DEF PipelineInv
<1>0. PICK t \in {"0110", "0810"} : t = ReplyMti(Mti[a])
  BY AttributeAssumption DEF Undisturbed, Mtis, ReplyMti
<1>1. (<<a, t>> \in journal) <=> (answer[a] \in {"00", "51"})
  BY <1>0 DEF JournalInv
<1>2. answer[a] # "none" => answer'[a] = answer[a]
  BY AnswerStays
<1>3. ASSUME NEW w \in Repliers, ReplyApply(w), wkey[w] = Key(a), Present(Key(a)), ~Late(guard[Key(a)])
      PROVE  (<<a, t>> \in journal') <=> (answer'[a] \in {"00", "51"})
  <2>1. journal' = journal \cup {<<wmsg[w].att, wmsg[w].mti>>} /\ wmsg[w].rc \in {"00", "51"}
    BY <1>3 DEF ReplyApply, IInv, ThreadInv, Reply
  <2>2. t # "0430"
    OBVIOUS
  <2> QED
    BY <1>0, <1>1, <1>3, <2>1, <2>2, UndisturbedReply DEF IInv, TypeOK
<1>4. ASSUME NEW w \in Repliers, ReplyApply(w), Present(wkey[w]), ~Late(guard[wkey[w]]),
             wmsg[w].att = a
      PROVE  wkey[w] = Key(a)
  <2>1. wkey[w] \in Keys /\ guard[wkey[w]].att \in Attempts /\ Key(guard[wkey[w]].att) = wkey[w]
    BY <1>4, PresentEntry DEF ReplyApply, IInv, ThreadInv, GuardInv, Entry
  <2>2. Id[guard[wkey[w]].att] = Id[a]
    BY <1>4, <2>1 DEF ReplyApply, WordInv, Key
  <2> QED
    BY <2>1, <2>2 DEF Undisturbed, Solo
<1>5. CASE <<a, t>> \in journal' /\ <<a, t>> \notin journal
  <2>1. PICK w \in Repliers : /\ ReplyApply(w) /\ Present(wkey[w]) /\ ~Late(guard[wkey[w]])
                              /\ wmsg[w].att = a
    BY <1>5, JournalSteps
  <2> QED
    BY <1>0, <1>3, <1>4, <2>1
<1>6. CASE answer'[a] \in {"00", "51"} /\ answer[a] \notin {"00", "51"}
  <2>1. answer'[a] # answer[a] /\ answer \in [Attempts -> Codes] /\ a \in Online
    BY <1>6 DEF IInv, TypeOK, Undisturbed
  <2>2. \E rc \in {"00", "51"} : AnsweredByReply(a, rc)
    BY <1>6, <2>1, AnswerSteps DEF AnsweredAtOnce, AnsweredUnrouted, AnsweredTimeout, AnsweredByReply
  <2>3. PICK w \in Repliers : ReplyApply(w) /\ wkey[w] = Key(a)
    BY <2>2 DEF AnsweredByReply
  <2>4. Present(Key(a)) /\ ~Late(guard[Key(a)])
    BY <2>1, <2>3 DEF ReplyApply
  <2> QED
    BY <1>0, <1>3, <2>3, <2>4
<1>7. <<a, t>> \in journal => <<a, t>> \in journal'
  <2>1. ASSUME NEW w \in Repliers, ReplyApply(w)
        PROVE  journal \subseteq journal'
    BY <2>1 DEF ReplyApply
  <2> QED
    BY <2>1, JournalSteps
<1> QED
  BY <1>0, <1>1, <1>2, <1>5, <1>6, <1>7

(* The journal thread has gone before its first loss. *)
LEMMA LossStep ==
  ASSUME JournalInv, [Next]_vars
  PROVE  unjournaled' # {} => ~walUp'
  BY UnjournaledStays DEF JournalInv

(* The five parts of JournalInv together. *)
LEMMA JournalStep ==
  ASSUME PipelineInv, [Next]_vars
  PROVE  JournalInv'
<1>1. IInv /\ JournalInv
  BY DEF PipelineInv
<1> QED
  BY <1>1, MarkedStep, UnroutedStays, LossStep, CompletedStep, JournaledStep
     DEF JournalInv, Undisturbed, Solo, Unnamed, Online, Key
-----------------------------------------------------------------------------
(* The invariant, and what follows from it.                                *)

(* Initially the guard, the channels and the journal are empty. *)
LEMMA InitPipelineInv == Init => PipelineInv
<1> SUFFICES ASSUME Init PROVE PipelineInv
  OBVIOUS
<1>1. IInv
  BY InitIInv
<1>2. TrackInv
  BY DEF Init, TrackInv, EntryTrack, ContextTrack, ThreadTrack, Present, NoEntry
<1>3. RequestInv
  BY DEF Init, RequestInv, QueuedAt
<1>4. WordInv /\ ApprovalHasOrigin
  BY DEF Init, WordInv, ApprovalHasOrigin, Online
<1>5. JournalInv
  BY KeyInKeys DEF Init, JournalInv, NoEntry
<1> QED
  BY <1>1, <1>2, <1>3, <1>4, <1>5 DEF PipelineInv

(* Every step preserves the invariant, part by part. *)
LEMMA NextPipelineInv == PipelineInv /\ [Next]_vars => PipelineInv'
<1> SUFFICES ASSUME PipelineInv, [Next]_vars
             PROVE  PipelineInv'
  OBVIOUS
<1>1. IInv /\ TrackInv /\ RequestInv /\ WordInv /\ ApprovalHasOrigin
  BY DEF PipelineInv
<1>2. IInv' /\ TrackInv'
  BY <1>1, NextIInv, EntryTrackStep, ContextTrackStep, ThreadTrackStep DEF TrackInv
<1>3. RequestInv' /\ WordInv' /\ ApprovalHasOrigin'
  BY <1>1, RequestStep, WordStep, ApprovalStep
<1>4. JournalInv'
  BY JournalStep
<1> QED
  BY <1>2, <1>3, <1>4 DEF PipelineInv

(* The invariant of the pipeline with the bank: what is tracked, what is queued,
   what a reply says and what is journaled, in every reachable state. *)
THEOREM FullInvariant == Spec => []PipelineInv
<1> QED
  BY InitPipelineInv, NextPipelineInv, PTL DEF Spec

(* A request that is not retried is in the guard with its responder until it is
   answered, or its reply lost to the journal, whatever order workers, reaper and
   reply workers remove keys in. *)
THEOREM SoloSafety == Spec => []SoloTracked
<1>1. PipelineInv => SoloTracked
  <2> SUFFICES ASSUME PipelineInv, NEW a \in Online, a \notin unjournaled,
                      Solo(a), pc[a] # "new", answer[a] = "none"
               PROVE  Present(Key(a)) /\ guard[Key(a)].resp /\ guard[Key(a)].att = a
    BY DEF SoloTracked, Present
  <2> USE DEF PipelineInv
  <2>1. a \in Attempts /\ Key(a) \in Keys
    BY KeyInKeys DEF Online
  <2>2. Answered(Key(a)) => FALSE
    BY <2>1, UndisturbedHeld DEF Answered, Served, Key, Solo
  <2>3. Present(Key(a))
    BY <2>1, <2>2 DEF TrackInv, ContextTrack
  <2>4. guard[Key(a)].att \in Attempts /\ Key(guard[Key(a)].att) = Key(a)
    BY <2>1, <2>3, PresentEntry DEF IInv, GuardInv, Entry
  <2>5. guard[Key(a)].att = a
    BY <2>4 DEF Solo, Key
  <2> QED
    BY <2>1, <2>3, <2>5, UndisturbedHeld DEF TrackInv, EntryTrack
<1> QED
  BY <1>1, FullInvariant, PTL

(* An approval comes from the bank, whichever NAT entry translated the reply. *)
THEOREM ApprovalSafety == Spec => []ApprovalHasOrigin
<1>1. PipelineInv => ApprovalHasOrigin
  BY DEF PipelineInv
<1> QED
  BY <1>1, FullInvariant, PTL

(* The journal holds the bank's answer exactly when the terminal has it. *)
THEOREM JournalSafety == Spec => []JournalMatchesTerminal
<1>1. PipelineInv => JournalMatchesTerminal
  BY DEF PipelineInv, JournalInv, JournalMatchesTerminal, Undisturbed, Online
<1> QED
  BY <1>1, FullInvariant, PTL
-----------------------------------------------------------------------------
(* The pipeline implements PaymentLifecycle.                               *)

(* Who changes the bank's decisions and the advices. *)
LEMMA BankSideSteps ==
  ASSUME IInv, [Next]_vars
  PROVE  \/ UNCHANGED <<bank, advised>>
         \/ \E a \in Attempts : ForwardUpstream(a) \/ HsmForward(a)
         \/ ReaperAdvise
         \/ \E n \in Nodes, rc \in {"00", "51"}, delivered \in BOOLEAN : BankAnswer(n, rc, delivered)
<1> USE DEF vars, ctxVars, envVars, bankVars, histVars, reapVars, replyVars
<1>1. ASSUME NEW a \in Attempts, IngressStep(a)
      PROVE  UNCHANGED <<bank, advised>>
  BY <1>1 DEF IngressStep, ScreenDecline, EchoReply, TerminalReversal, RejectDuplicate, Admit
<1>2. ASSUME NEW a \in Attempts, WorkerStep(a)
      PROVE  UNCHANGED <<bank, advised>> \/ ForwardUpstream(a) \/ HsmForward(a)
  BY <1>2 DEF WorkerStep, RouteTransaction, RouteUnjournaled, AssignEgressStan, RecordEgressStan,
     StipFallback, DeclineUnrouted, EvictUnrouted, HsmDrop, HsmAccept
<1>3. CASE ReaperStep
  BY <1>3, ReaperFrame
<1>4. ASSUME NEW w \in Repliers, ReplyStep(w)
      PROVE  UNCHANGED <<bank, advised>>
  BY <1>4 DEF ReplyStep, ReplyTranslate, ReplyApply, ReplyUnjournaled, ReplyEvict
<1>5. ASSUME NEW n \in Nodes, LoseFrame(n)
      PROVE  UNCHANGED <<bank, advised>>
  BY <1>5 DEF LoseFrame
<1>6. CASE (\E k \in Keys : Age(k)) \/ (\E n \in Nodes, s \in Stans : Probe(n, s)) \/ JournalFails \/ UNCHANGED vars
  BY <1>6 DEF Age, Probe, JournalFails
<1> QED
  BY <1>1, <1>2, <1>3, <1>4, <1>5, <1>6 DEF Next, LinkStep

(* The bank decides on a request it has not decided before. *)
LEMMA BankAnswerImplements ==
  ASSUME PipelineInv, NEW n \in Nodes, NEW rc \in {"00", "51"}, NEW delivered \in BOOLEAN,
         BankAnswer(n, rc, delivered)
  PROVE  Lifecycle!Next \/ UNCHANGED Lifecycle!vars
<1>1. PICK f \in Frame : f = egress[n][1] /\ f = Head(egress[n]) /\ 1 \in 1 .. Len(egress[n])
  BY HeadPlace DEF PipelineInv, IInv, BankAnswer
<1>2. BankDecides(f, rc) /\ UNCHANGED <<answer, advised>>
  BY <1>1 DEF BankAnswer
<1>3. CASE f.mti # "0420" /\ f.att # NoAttempt
  <2>1. f.att \in Attempts /\ bank[f.att] = "none"
    BY <1>1, <1>3 DEF PipelineInv, RequestInv, QueuedAt, Frame
  <2>2. \E v \in {"approved", "declined"} : bank' = [bank EXCEPT ![f.att] = v]
    BY <1>2, <1>3 DEF BankDecides
  <2> QED
    BY <1>2, <2>1, <2>2 DEF Lifecycle!Next, Lifecycle!BankDecides
<1>4. CASE f.mti = "0420" \/ f.att = NoAttempt
  BY <1>2, <1>4 DEF BankDecides, bankVars, Lifecycle!vars
<1> QED
  BY <1>3, <1>4

(* A 0420 that came in is passed on as one. *)
LEMMA ForwardImplements ==
  ASSUME PipelineInv, NEW a \in Attempts, ForwardUpstream(a) \/ HsmForward(a)
  PROVE  Lifecycle!Next \/ UNCHANGED Lifecycle!vars
<1>1. UNCHANGED <<answer, bank>> /\ advised' = Advised(a) /\ a \in Online
  BY DEF ForwardUpstream, HsmForward, bankVars, PipelineInv, TrackInv, ContextTrack
<1>2. CASE advised' = advised
  BY <1>1, <1>2 DEF Lifecycle!vars
<1>3. CASE advised' # advised
  <2>1. Mti[a] = "0420" /\ a \notin advised /\ advised' = advised \cup {a}
    BY <1>1, <1>3 DEF Advised
  <2> QED
    BY <1>1, <2>1 DEF Lifecycle!Next, Lifecycle!Advise
<1> QED
  BY <1>2, <1>3

(* The reaper advises once it has answered 68, unless there was nobody to answer. *)
LEMMA AdviseImplements ==
  ASSUME IInv, ReaperAdvise
  PROVE  Lifecycle!Next \/ UNCHANGED Lifecycle!vars
<1>1. rkey \in Keys /\ guard[rkey].state = "Reversed" /\ Present(rkey)
  BY DEF ReaperAdvise, IInv, ThreadInv, Present
<1>2. PICK a \in Attempts :
         a = guard[rkey].att /\ (answer[a] = "68" \/ (a \in Online /\ Mti[a] = "0420"))
  BY <1>1, PresentEntry, SessionAssumption DEF IInv, GuardInv, Entry
<1>3. UNCHANGED <<answer, bank>> /\ (advised' = advised \/ advised' = advised \cup {a})
  BY <1>2 DEF ReaperAdvise, bankVars
<1>4. CASE advised' = advised
  BY <1>3, <1>4 DEF Lifecycle!vars
<1>5. CASE a \notin advised /\ advised' = advised \cup {a}
  BY <1>2, <1>3, <1>5 DEF Lifecycle!Next, Lifecycle!Advise
<1> QED
  BY <1>3, <1>4, <1>5

(* An answer is one of the four kinds the lifecycle knows. *)
LEMMA AnswerImplements ==
  ASSUME PipelineInv, [Next]_vars, UNCHANGED <<bank, advised>>
  PROVE  Lifecycle!Next \/ UNCHANGED Lifecycle!vars
<1>1. CASE UNCHANGED answer
  BY <1>1 DEF Lifecycle!vars
<1>2. ASSUME NEW a \in Attempts, answer[a] = "none", NEW rc \in Codes, AnsweredAtOnce(a, rc)
      PROVE  Lifecycle!Next
  BY <1>2 DEF AnsweredAtOnce, Lifecycle!Next, Lifecycle!AnswerLocally, Lifecycle!Answer,
     Lifecycle!LocalDeclines
<1>3. ASSUME NEW a \in Attempts, answer[a] = "none", AnsweredUnrouted(a)
      PROVE  Lifecycle!Next
  BY <1>3 DEF AnsweredUnrouted, Lifecycle!Next, Lifecycle!AnswerLocally, Lifecycle!Answer,
     Lifecycle!LocalDeclines
<1>4. ASSUME NEW a \in Attempts, answer[a] = "none", AnsweredTimeout(a)
      PROVE  Lifecycle!Next
  BY <1>4 DEF AnsweredTimeout, Lifecycle!Next, Lifecycle!TimeOut, Lifecycle!Answer
<1>5. ASSUME NEW a \in Attempts, answer[a] = "none", NEW rc \in {"00", "51"}, AnsweredByReply(a, rc)
      PROVE  Lifecycle!Next
  <2>1. PICK w \in Repliers : wpc[w] = "apply" /\ wmsg[w].rc = rc /\ wkey[w] = Key(a)
    BY <1>5 DEF AnsweredByReply, ReplyApply
  <2>2. PICK b \in Attempts : /\ Id[b] = Id[a]
                              /\ \/ rc = "00" /\ (bank[b] = "approved" \/ b \in acked)
                                 \/ rc = "51" /\ bank[b] = "declined"
    BY <2>1, ReplyOrigin DEF PipelineInv
  <2>3. b \in acked => b \in advised
    BY DEF PipelineInv, IInv, AdviceInv
  <2>4. Lifecycle!PassOn(a, rc)
    BY <1>5, <2>2, <2>3 DEF AnsweredByReply, Lifecycle!PassOn, Lifecycle!Answer
  <2> QED
    BY <2>4 DEF Lifecycle!Next
<1> QED
  BY <1>1, <1>2, <1>3, <1>4, <1>5, AnswerSteps DEF PipelineInv

(* Every step of the pipeline is a step of the lifecycle or a stutter. *)
LEMMA StepImplements == PipelineInv /\ [Next]_vars => [Lifecycle!Next]_Lifecycle!vars
<1> SUFFICES ASSUME PipelineInv, [Next]_vars
             PROVE  Lifecycle!Next \/ UNCHANGED Lifecycle!vars
  OBVIOUS
<1>1. IInv
  BY DEF PipelineInv
<1> QED
  BY <1>1, BankSideSteps, BankAnswerImplements, ForwardImplements, AdviseImplements,
     AnswerImplements

(* The pipeline implements the lifecycle: every step of its threads, seen from the
   terminals and the bank, is one of the lifecycle's steps or nothing; a 0420 that
   came in unmarked is passed on, any other follows a 68. *)
THEOREM Refinement == Spec => LifecycleSpec
<1>1. Init => Lifecycle!Init
  BY DEF Init, Lifecycle!Init
<1> QED
  BY <1>1, StepImplements, FullInvariant, PTL DEF Spec, LifecycleSpec, Lifecycle!Spec
=============================================================================

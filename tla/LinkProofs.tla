----------------------------- MODULE LinkProofs -----------------------------
(* Proofs about the two kinds of outgoing connections of the daemon: to the   *)
(* HSM, for any calls, header space and counter width, and to the banks, for  *)
(* any clients, frames and number of breaks.                                  *)
EXTENDS HsmClient, StoreForward, TLAPS

-----------------------------------------------------------------------------
(***************************************************************************)
(* HsmClient                                                               *)
(***************************************************************************)

\* Appending adds one element, ...
LEMMA ElemsAppend ==
    ASSUME NEW S, NEW s \in Seq(S), NEW e \in S
    PROVE  Append(s, e) \in Seq(S) /\ Elems(Append(s, e)) = Elems(s) \cup {e}
BY DEF Elems

\* ... taking the head off adds none, ...
LEMMA ElemsTail ==
    ASSUME NEW S, NEW s \in Seq(S), s # <<>>
    PROVE  /\ Head(s) \in S /\ Head(s) \in Elems(s)
           /\ Tail(s) \in Seq(S) /\ Elems(Tail(s)) \subseteq Elems(s)
BY DEF Elems

\* ... and every element has the type of the sequence.
LEMMA ElemsIn ==
    ASSUME NEW S, NEW s \in Seq(S)
    PROVE  Elems(s) \subseteq S
BY DEF Elems

\* Dropping a sender closes at most an empty oneshot, the one of that header.
LEMMA DropSender ==
    ASSUME HsmTypeOK, NEW h \in Headers
    PROVE  /\ SlotsWithout(h) \in [Calls -> {"empty", "full", "closed"}]
           /\ \A c \in Calls : c # corr[h] => SlotsWithout(h)[c] = slot[c]
           /\ \A c \in Calls : SlotsWithout(h)[c] = "full" <=> slot[c] = "full"
BY CallAssumption DEF SlotsWithout, HsmTypeOK

\* The invariant of the HSM client holds before any call, ...
LEMMA InitHsmInv == HsmInit => HsmInv
<1> SUFFICES ASSUME HsmInit PROVE HsmInv
  OBVIOUS
<1>1. HsmTypeOK
  BY ModAssumption, CallAssumption DEF HsmInit, HsmTypeOK, Headers
<1>2. EntryLive /\ FreshInv /\ FullInv /\ ResultInv
  BY DEF HsmInit, EntryLive, FreshInv, FullInv, ResultInv
<1>3. QueueInv
  BY DEF HsmInit, QueueInv, Elems
<1> QED
  BY <1>1, <1>2, <1>3 DEF HsmInv

\* A call that gives up takes its header's entry along, whosever it is.
LEMMA GiveUpKeepsIInv ==
    ASSUME HsmInv, NEW c \in Calls, GiveUp(c), pc[c] \in {"registered", "waiting"},
           UNCHANGED <<counter, header, from, netVars>>
    PROVE  HsmInv'
<1> USE CallAssumption DEF GiveUp, netVars
<1>0. header[c] \in Headers
  BY DEF HsmInv, HsmTypeOK
<1>1. /\ slot' \in [Calls -> {"empty", "full", "closed"}]
      /\ \A d \in Calls : d # corr[header[c]] => slot'[d] = slot[d]
      /\ \A d \in Calls : slot'[d] = "full" <=> slot[d] = "full"
  BY <1>0, DropSender DEF HsmInv
<1>2. HsmTypeOK'
  BY <1>0, <1>1 DEF HsmInv, HsmTypeOK
<1>3. EntryLive'
  BY <1>0, <1>1 DEF HsmInv, HsmTypeOK, EntryLive
<1>4. FreshInv'
  BY <1>0, <1>1 DEF HsmInv, HsmTypeOK, EntryLive, FreshInv
<1>5. QueueInv'
  BY DEF HsmInv, HsmTypeOK, QueueInv
<1>6. FullInv'
  BY <1>1 DEF HsmInv, HsmTypeOK, FullInv
<1>7. ResultInv'
  BY <1>1 DEF HsmInv, HsmTypeOK, ResultInv, Outcome
<1> QED
  BY <1>2, <1>3, <1>4, <1>5, <1>6, <1>7 DEF HsmInv

\* The steps of a call keep it, ...
LEMMA CallKeepsHsmInv ==
    ASSUME HsmInv, NEW c \in Calls, CallStep(c)
    PROVE  HsmInv'
<1> USE CallAssumption
<1>1. CASE NextHeader(c)
  <2> USE <1>1 DEF NextHeader, netVars
  <2>1. counter % HeaderMod \in Headers /\ (counter + 1) % CounterMod \in 0 .. CounterMod - 1
    BY ModAssumption DEF HsmInv, HsmTypeOK, Headers
  <2>2. HsmTypeOK'
    BY <2>1 DEF HsmInv, HsmTypeOK
  <2>3. EntryLive' /\ FreshInv'
    BY DEF HsmInv, HsmTypeOK, EntryLive, FreshInv
  <2>4. QueueInv'
    BY ElemsIn DEF HsmInv, HsmTypeOK, QueueInv
  <2>5. FullInv' /\ ResultInv'
    BY DEF HsmInv, HsmTypeOK, FreshInv, FullInv, ResultInv, Outcome
  <2> QED
    BY <2>2, <2>3, <2>4, <2>5 DEF HsmInv
<1>2. CASE Register(c)
  <2> USE <1>2 DEF Register, netVars
  <2>0. header[c] \in Headers
    BY DEF HsmInv, HsmTypeOK
  <2>1. /\ slot' \in [Calls -> {"empty", "full", "closed"}]
        /\ \A d \in Calls : d # corr[header[c]] => slot'[d] = slot[d]
        /\ \A d \in Calls : slot'[d] = "full" <=> slot[d] = "full"
    BY <2>0, DropSender DEF HsmInv
  <2>2. HsmTypeOK'
    BY <2>0, <2>1 DEF HsmInv, HsmTypeOK
  <2>3. EntryLive'
    BY <2>0, <2>1 DEF HsmInv, HsmTypeOK, EntryLive, FreshInv
  <2>4. FreshInv'
    <3> SUFFICES ASSUME NEW d \in Calls, pc'[d] \in {"idle", "numbered"}
                 PROVE  slot'[d] = "empty"
      BY DEF FreshInv
    <3>1. pc[d] \in {"idle", "numbered"}
      BY DEF HsmInv, HsmTypeOK
    <3>2. d # corr[header[c]]
      BY <2>0, <3>1 DEF HsmInv, EntryLive
    <3> QED
      BY <2>1, <3>1, <3>2 DEF HsmInv, FreshInv
  <2>5. QueueInv'
    BY DEF HsmInv, HsmTypeOK, QueueInv
  <2>6. FullInv' /\ ResultInv'
    BY <2>1 DEF HsmInv, HsmTypeOK, FullInv, ResultInv, Outcome
  <2> QED
    BY <2>2, <2>3, <2>4, <2>5, <2>6 DEF HsmInv
<1>3. CASE FormatPanPanics(c)
  BY <1>3 DEF FormatPanPanics, netVars, HsmInv, HsmTypeOK, EntryLive, FreshInv, QueueInv, FullInv,
              ResultInv, Outcome
<1>4. CASE SendRequest(c)
  <2>1. CASE writing
    <3> USE <1>4, <2>1 DEF SendRequest
    <3>0. outq \in Seq(Calls) /\ outq' = Append(outq, c)
      BY DEF HsmInv, HsmTypeOK
    <3>1. outq' \in Seq(Calls) /\ Elems(outq') = Elems(outq) \cup {c}
      BY <3>0, ElemsAppend
    <3>2. HsmTypeOK'
      BY <3>1 DEF HsmInv, HsmTypeOK
    <3>4. QueueInv'
      BY <3>1, ElemsIn DEF HsmInv, HsmTypeOK, QueueInv
    <3>3. EntryLive' /\ FreshInv' /\ FullInv' /\ ResultInv'
      BY DEF HsmInv, HsmTypeOK, EntryLive, FreshInv, FullInv, ResultInv, Outcome
    <3> QED
      BY <3>2, <3>3, <3>4 DEF HsmInv
  <2>2. CASE ~writing
    BY <1>4, <2>2, GiveUpKeepsIInv DEF SendRequest, netVars
  <2> QED
    BY <2>1, <2>2
<1>5. CASE ReceiveAnswer(c)
  <2> USE <1>5 DEF ReceiveAnswer, netVars
  <2>1. HsmTypeOK'
    BY DEF HsmInv, HsmTypeOK, Outcome
  <2>2. EntryLive' /\ FreshInv' /\ QueueInv' /\ FullInv'
    BY DEF HsmInv, HsmTypeOK, EntryLive, FreshInv, QueueInv, FullInv
  <2>3. ResultInv'
    BY DEF HsmInv, HsmTypeOK, ResultInv, Outcome
  <2> QED
    BY <2>1, <2>2, <2>3 DEF HsmInv
<1>6. CASE ReceiverDropped(c)
  <2>1. CASE Kind[c] = "translate"
    BY <1>6, <2>1, GiveUpKeepsIInv DEF ReceiverDropped
  <2>2. CASE Kind[c] # "translate"
    <3> USE <1>6, <2>2 DEF ReceiverDropped, netVars
    <3>1. HsmTypeOK'
      BY DEF HsmInv, HsmTypeOK
    <3>2. EntryLive' /\ FreshInv'
      BY SMTT(30) DEF HsmInv, HsmTypeOK, EntryLive, FreshInv
    <3>3. QueueInv'
      BY ElemsIn DEF HsmInv, HsmTypeOK, QueueInv
    <3>4. FullInv' /\ ResultInv'
      BY DEF HsmInv, HsmTypeOK, FullInv, ResultInv, Outcome
    <3> QED
      BY <3>1, <3>2, <3>3, <3>4 DEF HsmInv
  <2> QED
    BY <2>1, <2>2
<1>7. CASE Timeout(c)
  BY <1>7, GiveUpKeepsIInv DEF Timeout
<1> QED
  BY <1>1, <1>2, <1>3, <1>4, <1>5, <1>6, <1>7 DEF CallStep

\* ... and every step keeps it.
LEMMA NextHsmInv == HsmInv /\ [HsmNext]_hsmVars => HsmInv'
<1> SUFFICES ASSUME HsmInv, [HsmNext]_hsmVars PROVE HsmInv'
  OBVIOUS
<1> USE CallAssumption
<1>1. CASE WriterSend
  <2> USE <1>1 DEF WriterSend
  <2>1. Head(outq) \in Calls /\ Head(outq) \in Elems(outq)
        /\ outq' \in Seq(Calls) /\ Elems(outq') \subseteq Elems(outq)
    BY ElemsTail DEF HsmInv, HsmTypeOK
  <2>2. wire' \in Seq(Calls) /\ Elems(wire') = Elems(wire) \cup {Head(outq)}
    BY <2>1, ElemsAppend DEF HsmInv, HsmTypeOK
  <2>3. HsmTypeOK' /\ QueueInv'
    BY <2>1, <2>2 DEF HsmInv, HsmTypeOK, QueueInv
  <2> QED
    BY <2>3 DEF HsmInv, EntryLive, FreshInv, FullInv, ResultInv, Outcome
<1>2. CASE WriterEnds
  <2>1. Elems(outq') = {}
    BY <1>2 DEF WriterEnds, Elems
  <2> QED
    <3>1. outq' = <<>> /\ writing' = FALSE
      BY <1>2 DEF WriterEnds
    <3>3. outq' \in Seq(Calls)
      BY <3>1
    <3>4. writing' \in BOOLEAN
      BY <3>1
    <3>5. HsmTypeOK'
      BY <1>2, <3>3, <3>4 DEF WriterEnds, HsmInv, HsmTypeOK
    <3>2. QueueInv'
      BY <1>2, <2>1 DEF WriterEnds, HsmInv, QueueInv
    <3> QED
      BY <1>2, <3>2, <3>5 DEF WriterEnds, HsmInv, EntryLive, FreshInv, FullInv, ResultInv, Outcome
<1>3. CASE HsmAnswer
  <2> USE <1>3 DEF HsmAnswer
  <2>1. Head(wire) \in Calls /\ Head(wire) \in Elems(wire)
        /\ wire' \in Seq(Calls) /\ Elems(wire') \subseteq Elems(wire)
    BY ElemsTail DEF HsmInv, HsmTypeOK
  <2>2. back' \in Seq(Calls) /\ Elems(back') = Elems(back) \cup {Head(wire)}
    BY <2>1, ElemsAppend DEF HsmInv, HsmTypeOK
  <2>3. HsmTypeOK' /\ QueueInv'
    BY <2>1, <2>2 DEF HsmInv, HsmTypeOK, QueueInv
  <2> QED
    BY <2>3 DEF HsmInv, EntryLive, FreshInv, FullInv, ResultInv, Outcome
<1>4. CASE ReaderDeliver
  <2> DEFINE d == Head(back)
             c == corr[header[d]]
  <2> USE <1>4 DEF ReaderDeliver
  <2>1. d \in Calls /\ pc[d] # "idle" /\ back' \in Seq(Calls) /\ Elems(back') \subseteq Elems(back)
    BY ElemsTail DEF HsmInv, HsmTypeOK, QueueInv
  <2>2. header[d] \in Headers /\ c \in Calls \cup {NoCall}
    BY <2>1 DEF HsmInv, HsmTypeOK
  <2>3. HsmTypeOK'
    BY <2>1, <2>2 DEF HsmInv, HsmTypeOK
  <2>4. QueueInv'
    BY <2>1 DEF HsmInv, QueueInv
  <2>5. EntryLive'
    BY <2>1, <2>2 DEF HsmInv, HsmTypeOK, EntryLive
  <2>6. FreshInv'
    <3> SUFFICES ASSUME NEW e \in Calls, pc[e] \in {"idle", "numbered"}
                 PROVE  slot'[e] = "empty"
      BY DEF FreshInv
    <3>1. e # c
      BY <2>2 DEF HsmInv, EntryLive
    <3> QED
      BY <2>2, <3>1 DEF HsmInv, HsmTypeOK, FreshInv
  <2>8. FullInv'
    <3> SUFFICES ASSUME NEW e \in Calls, slot'[e] = "full"
                 PROVE  /\ from'[e] \in Calls /\ header[from'[e]] = header[e]
                        /\ pc[from'[e]] # "idle" /\ pc[e] # "idle"
      BY DEF FullInv
    <3>1. CASE e = c
      <4>1. from'[e] = d
        BY <2>2, <3>1 DEF HsmInv, HsmTypeOK
      <4>2. header[e] = header[d] /\ pc[e] # "idle"
        BY <2>2, <3>1 DEF HsmInv, EntryLive
      <4> QED
        BY <2>1, <4>1, <4>2
    <3>2. CASE e # c
      BY <2>2, <3>2 DEF HsmInv, HsmTypeOK, FullInv
    <3> QED
      BY <3>1, <3>2
  <2>7. ResultInv'
    BY <2>1, <2>2 DEF HsmInv, HsmTypeOK, EntryLive, ResultInv, Outcome
  <2> QED
    BY <2>3, <2>4, <2>5, <2>6, <2>7, <2>8 DEF HsmInv
<1>5. CASE ReaderEnds
  BY <1>5 DEF ReaderEnds, HsmInv, HsmTypeOK, EntryLive, FreshInv, QueueInv, FullInv, ResultInv, Outcome
<1>6. CASE UNCHANGED hsmVars
  BY <1>6 DEF hsmVars, netVars, HsmInv, HsmTypeOK, EntryLive, FreshInv, QueueInv, FullInv, ResultInv,
              Outcome
<1> QED
  BY <1>1, <1>2, <1>3, <1>4, <1>5, <1>6, CallKeepsHsmInv DEF HsmNext

\* No path of verify_pin, translate_pin or verify_mac leaves its sender in the
\* correlation map (hsm_client.rs).
THEOREM EntrySafety == HsmSpec => []EntryLive
<1>1. HsmInv => EntryLive
  BY DEF HsmInv
<1> QED
  BY InitHsmInv, NextHsmInv, <1>1, PTL DEF HsmSpec

\* A PIN or MAC is accepted or refused only on such an answer of the HSM to a
\* request of the same kind under the same header (hsm_client.rs).
THEOREM AnswerSafety == HsmSpec => []AnswerMatches
<1>1. HsmInv => AnswerMatches
  <2> SUFFICES ASSUME HsmInv, NEW c \in Calls, result[c] \in {"ok", "refused"}
               PROVE  /\ from[c] \in Calls
                      /\ header[from[c]] = header[c] /\ Kind[from[c]] = Kind[c]
                      /\ Verdict[from[c]] = (IF result[c] = "ok" THEN "00" ELSE "05")
    BY DEF AnswerMatches
  <2>1. slot[c] = "full" /\ result[c] = Outcome(c, from[c])
    BY DEF HsmInv, ResultInv
  <2>2. from[c] \in Calls /\ header[from[c]] = header[c]
    BY <2>1 DEF HsmInv, FullInv
  <2> QED
    BY <2>1, <2>2 DEF Outcome
<1> QED
  BY InitHsmInv, NextHsmInv, <1>1, PTL DEF HsmSpec

-----------------------------------------------------------------------------
(***************************************************************************)
(* StoreForward                                                            *)
(***************************************************************************)

\* A frame has a key.
LEMMA KeyInKeys ==
    ASSUME NEW f \in Frames
    PROVE  Key[f] \in Keys
BY DEF Keys

\* db.insert adds a row under its own key and forgets no row of another key.
LEMMA StoreKeepsIInv ==
    ASSUME IInv, NEW f \in Frames, Store(f), UNCHANGED <<sent, written>>
    PROVE  /\ saf' \in [Keys -> Frames \cup {NoFrame}]
           /\ stored' \subseteq Frames /\ lost' \subseteq Frames
           /\ RowInv' /\ (DistinctKeys => SentInv') /\ StoredUntilWritten'
<1>1. Key[f] \in Keys
  BY KeyInKeys
<1>2. /\ saf' \in [Keys -> Frames \cup {NoFrame}]
      /\ stored' \subseteq Frames /\ lost' \subseteq Frames
  <2>1. /\ saf \in [Keys -> Frames \cup {NoFrame}]
        /\ stored \subseteq Frames /\ lost \subseteq Frames
    BY DEF IInv, TypeOK
  <2> QED
    BY <1>1, <2>1 DEF Store
<1>3. CASE f \notin Advices
  BY <1>2, <1>3 DEF IInv, Store, RowInv, SentInv, StoredUntilWritten
<1>4. CASE f \in Advices
  <2>1. saf' = [saf EXCEPT ![Key[f]] = f] /\ stored' = stored \cup {f}
    BY <1>4 DEF Store
  <2>2. RowInv'
    <3> SUFFICES ASSUME NEW k \in Keys, saf'[k] # NoFrame
                 PROVE  Key[saf'[k]] = k
      BY DEF RowInv
    <3>1. CASE k = Key[f]
      BY <1>1, <2>1, <3>1 DEF IInv, TypeOK
    <3>2. CASE k # Key[f]
      BY <1>1, <2>1, <3>2 DEF IInv, TypeOK, RowInv
    <3> QED
      BY <3>1, <3>2
  <2>3. DistinctKeys => SentInv'
    BY DEF IInv, SentInv
  <2>4. StoredUntilWritten'
    <3> SUFFICES ASSUME DistinctKeys, NEW g \in stored'
                 PROVE  saf'[Key[g]] = g \/ g \in written
      BY DEF StoredUntilWritten, DistinctKeys
    <3>1. g \in Frames /\ Key[g] \in Keys
      BY <1>2, KeyInKeys
    <3>2. CASE g = f
      BY <1>1, <2>1, <3>2 DEF IInv, TypeOK
    <3>3. CASE g # f
      <4>1. g \in stored /\ Key[g] # Key[f]
        BY <2>1, <3>1, <3>3 DEF DistinctKeys
      <4> QED
        BY <1>1, <2>1, <3>1, <4>1 DEF IInv, TypeOK, StoredUntilWritten
    <3> QED
      BY <3>2, <3>3
  <2> QED
    BY <1>2, <2>2, <2>3, <2>4
<1> QED
  BY <1>3, <1>4

\* A step that leaves the database and the drain tasks' bookkeeping alone.
LEMMA FrameKeepsIInv ==
    ASSUME IInv, TypeOK', UNCHANGED <<saf, sent, stored, written>>
    PROVE  IInv'
BY DEF IInv, RowInv, SentInv, StoredUntilWritten

\* The invariant of store and forward holds of an empty database, ...
LEMMA InitIInv == Init => IInv
<1> SUFFICES ASSUME Init PROVE IInv
  OBVIOUS
<1>1. TypeOK
  BY FrameAssumption DEF Init, TypeOK
<1>2. RowInv /\ SentInv /\ StoredUntilWritten
  BY DEF Init, RowInv, SentInv, StoredUntilWritten
<1> QED
  BY <1>1, <1>2 DEF IInv

\* The steps of a client's main loop keep the invariant, ...
LEMMA MainKeepsIInv ==
    ASSUME IInv, NEW c \in Clients, MainStep(c)
    PROVE  IInv'
<1> USE FrameAssumption
<1>1. CASE Connect(c)
  BY <1>1, FrameKeepsIInv DEF Connect, IInv, TypeOK, queueVars, drainVars
<1>2. CASE TakeOffline(c)
  <2>1. Head(chan[c]) \in Frames /\ Tail(chan[c]) \in Seq(Frames)
    BY <1>2 DEF TakeOffline, IInv, TypeOK
  <2>2. QED
    BY <1>2, <2>1, StoreKeepsIInv DEF TakeOffline, IInv, TypeOK, linkVars, drainVars
<1>3. CASE TakeOnline(c)
  <2>1. Head(chan[c]) \in Frames /\ Tail(chan[c]) \in Seq(Frames)
    BY <1>3 DEF TakeOnline, IInv, TypeOK
  <2>2. QED
    BY <1>3, <2>1, FrameKeepsIInv DEF TakeOnline, IInv, TypeOK, linkVars, drainVars
<1>4. CASE LeaveConnection(c)
  <2>1. {sinkq[c][i] : i \in 1 .. Len(sinkq[c])} \subseteq Frames
    <3>1. sinkq[c] \in Seq(Frames)
      BY DEF IInv, TypeOK
    <3> QED
      BY <3>1
  <2>2. lost' \subseteq Frames /\ stray' \subseteq Frames
    <3>1. lost \subseteq Frames /\ stray \subseteq Frames /\ tasks[c] \subseteq Frames
      BY DEF IInv, TypeOK
    <3>2. /\ lost' = lost \cup {sinkq[c][i] : i \in 1 .. Len(sinkq[c])}
          /\ stray' = stray \cup tasks[c]
      BY <1>4 DEF LeaveConnection
    <3> QED
      BY <2>1, <3>1, <3>2
  <2>3. sinkq' \in [Clients -> Seq(Frames)] /\ tasks' \in [Clients -> SUBSET Frames]
    BY <1>4 DEF LeaveConnection, IInv, TypeOK
  <2>4. TypeOK'
    BY <1>4, <2>2, <2>3 DEF LeaveConnection, IInv, TypeOK, drainVars
  <2> QED
    BY <1>4, <2>4, FrameKeepsIInv DEF LeaveConnection, drainVars
<1>5. CASE WriterFeed(c)
  <2>1. Head(sinkq[c]) \in Frames /\ Tail(sinkq[c]) \in Seq(Frames)
    BY <1>5 DEF WriterFeed, IInv, TypeOK
  <2>2. sinkq' \in [Clients -> Seq(Frames)]
    BY <1>5, <2>1 DEF WriterFeed, IInv, TypeOK
  <2>3. got' \in [Clients -> SUBSET Frames] /\ lost' \subseteq Frames
    <3>1. got \in [Clients -> SUBSET Frames] /\ lost \subseteq Frames
      BY DEF IInv, TypeOK
    <3>2. CASE conn[c] = "open"
      <4>1. got' = [got EXCEPT ![c] = @ \cup {Head(sinkq[c])}] /\ lost' = lost
        BY <1>5, <3>2 DEF WriterFeed
      <4> QED
        BY <2>1, <3>1, <4>1
    <3>3. CASE conn[c] # "open"
      <4>1. lost' = lost \cup {Head(sinkq[c])} /\ got' = got
        BY <1>5, <3>3 DEF WriterFeed
      <4> QED
        BY <2>1, <3>1, <4>1
    <3> QED
      BY <3>2, <3>3
  <2>4. TypeOK'
    BY <1>5, <2>2, <2>3 DEF WriterFeed, IInv, TypeOK, linkVars, drainVars
  <2> QED
    BY <1>5, <2>4, FrameKeepsIInv DEF WriterFeed, drainVars
<1>6. CASE WriterFail(c)
  <2>1. \A i \in 1 .. Len(sinkq[c]) : sinkq[c][i] \in Frames
    BY DEF IInv, TypeOK
  <2>2. lost' \subseteq Frames
    BY <1>6, <2>1 DEF WriterFail, IInv, TypeOK
  <2>3. sinkq' \in [Clients -> Seq(Frames)] /\ writer' \in [Clients -> BOOLEAN]
    BY <1>6 DEF WriterFail, IInv, TypeOK
  <2>4. TypeOK'
    BY <1>6, <2>2, <2>3 DEF WriterFail, IInv, TypeOK, drainVars
  <2> QED
    BY <1>6, <2>4, FrameKeepsIInv DEF WriterFail, drainVars
<1>7. ASSUME NEW f \in Frames, HandOver(c, f) PROVE IInv'
  <2>1. CASE writer[c]
    <3>1. sinkq' \in [Clients -> Seq(Frames)] /\ tasks' \in [Clients -> SUBSET Frames]
      <4>1. /\ sinkq \in [Clients -> Seq(Frames)] /\ tasks \in [Clients -> SUBSET Frames]
            /\ sinkq' = [sinkq EXCEPT ![c] = Append(@, f)]
            /\ tasks' = [tasks EXCEPT ![c] = @ \ {f}]
        BY <1>7, <2>1 DEF HandOver, IInv, TypeOK
      <4>2. Append(sinkq[c], f) \in Seq(Frames)
        BY <1>7, <4>1
      <4>3. sinkq' \in [Clients -> Seq(Frames)]
        BY <4>1, <4>2
      <4>4. tasks' \in [Clients -> SUBSET Frames]
        BY <4>1
      <4> QED
        BY <4>3, <4>4
    <3>2. TypeOK'
      BY <1>7, <2>1, <3>1 DEF HandOver, IInv, TypeOK, linkVars, drainVars
    <3> QED
      BY <1>7, <2>1, <3>2, FrameKeepsIInv DEF HandOver, drainVars
  <2>2. CASE ~writer[c]
    BY <1>7, <2>2, StoreKeepsIInv DEF HandOver, IInv, TypeOK, linkVars, drainVars
  <2>3. QED
    BY <2>1, <2>2
<1> QED
  BY <1>1, <1>2, <1>3, <1>4, <1>5, <1>6, <1>7 DEF MainStep

\* ... and so do the steps that drain the database.
LEMMA DrainKeepsIInv ==
    ASSUME IInv, NEW c \in Clients, DrainStep(c)
    PROVE  IInv'
<1> USE FrameAssumption
<1>1. CASE DrainConnect(c)
  BY <1>1, FrameKeepsIInv DEF DrainConnect, IInv, TypeOK, queueVars, linkVars
<1>2. CASE DrainEnd(c)
  BY <1>2, FrameKeepsIInv DEF DrainEnd, IInv, TypeOK, queueVars, linkVars
<1>3. CASE DrainRemove(c)
  <2>1. CASE sent[c] = {}
    BY <1>3, <2>1, FrameKeepsIInv DEF DrainRemove, IInv, TypeOK, queueVars, linkVars
  <2>2. CASE sent[c] # {}
    <3>1. PICK k \in sent[c] : /\ saf' = [saf EXCEPT ![k] = NoFrame]
                               /\ sent' = [sent EXCEPT ![c] = @ \ {k}]
                               /\ UNCHANGED dpc
      BY <1>3, <2>2 DEF DrainRemove
    <3>2. k \in Keys
      BY <3>1 DEF IInv, TypeOK
    <3>3. TypeOK'
      BY <1>3, <3>1, <3>2 DEF DrainRemove, IInv, TypeOK, queueVars, linkVars
    <3>4. RowInv'
      BY <3>1, <3>2 DEF IInv, TypeOK, RowInv
    <3>5. DistinctKeys => SentInv'
      BY <1>3, <3>1 DEF DrainRemove, IInv, TypeOK, SentInv
    <3>6. StoredUntilWritten'
      \* Only the row of k goes, and SentInv says its frame was written.
      <4> SUFFICES ASSUME DistinctKeys, NEW f \in stored
                   PROVE  saf'[Key[f]] = f \/ f \in written
        BY <1>3 DEF DrainRemove, StoredUntilWritten, DistinctKeys
      <4>1. f \in Frames /\ Key[f] \in Keys
        BY KeyInKeys DEF IInv, TypeOK
      <4>2. CASE Key[f] = k
        BY <3>1, <4>1, <4>2 DEF IInv, SentInv
      <4>3. CASE Key[f] # k
        BY <3>1, <3>2, <4>1, <4>3 DEF IInv, TypeOK, StoredUntilWritten
      <4> QED
        BY <4>2, <4>3
    <3> QED
      BY <3>3, <3>4, <3>5, <3>6 DEF IInv
  <2> QED
    BY <2>1, <2>2
<1>4. ASSUME NEW k \in Keys, NEW ok \in BOOLEAN, DrainRow(c, k, ok) PROVE IInv'
  <2>1. saf[k] \in Frames /\ Key[saf[k]] = k
    BY <1>4 DEF DrainRow, NextRow, IInv, TypeOK, RowInv
  <2>2. TypeOK'
    BY <1>4, <2>1 DEF DrainRow, IInv, TypeOK, queueVars, linkVars
  <2>3. RowInv' /\ StoredUntilWritten'
    BY <1>4 DEF DrainRow, IInv, RowInv, StoredUntilWritten
  <2>4. DistinctKeys => SentInv'
    <3> SUFFICES ASSUME DistinctKeys, NEW d \in Clients, NEW j \in sent'[d],
                        NEW f \in Frames, Key[f] = j
                 PROVE  f \in written'
      BY DEF SentInv
    <3>1. CASE j \in sent[d]
      BY <1>4, <3>1 DEF DrainRow, IInv, SentInv
    <3>2. CASE j \notin sent[d]
      <4>1. ok /\ j = k
        BY <1>4, <3>2 DEF DrainRow, IInv, TypeOK
      <4>2. f = saf[k]
        BY <2>1, <4>1 DEF DistinctKeys
      <4> QED
        BY <1>4, <4>1, <4>2 DEF DrainRow
    <3> QED
      BY <3>1, <3>2
  <2> QED
    BY <2>2, <2>3, <2>4 DEF IInv
<1> QED
  BY <1>1, <1>2, <1>3, <1>4 DEF DrainStep

\* ... and every step keeps it.
LEMMA NextIInv == IInv /\ [Next]_vars => IInv'
<1> SUFFICES ASSUME IInv, [Next]_vars PROVE IInv'
  OBVIOUS
<1> USE FrameAssumption
<1>1. ASSUME NEW f \in Frames, Submit(f) PROVE IInv'
  <2>1. Home[f] \in Clients
    OBVIOUS
  <2> QED
    BY <1>1, <2>1, FrameKeepsIInv, SMTT(60) DEF Submit, IInv, TypeOK, linkVars, drainVars
<1>2. ASSUME NEW f \in Frames, NEW accepted \in BOOLEAN, StrayTask(f, accepted) PROVE IInv'
  <2>1. CASE accepted
    BY <1>2, <2>1, FrameKeepsIInv DEF StrayTask, IInv, TypeOK, linkVars, drainVars
  <2>2. CASE ~accepted
    BY <1>2, <2>2, StoreKeepsIInv DEF StrayTask, IInv, TypeOK, linkVars, drainVars
  <2> QED
    BY <2>1, <2>2
<1>3. ASSUME NEW c \in Clients, PeerUp(c) PROVE IInv'
  BY <1>3, FrameKeepsIInv DEF PeerUp, IInv, TypeOK, queueVars, drainVars
<1>4. ASSUME NEW c \in Clients, PeerDown(c) PROVE IInv'
  BY <1>4, FrameKeepsIInv, SMTT(30) DEF PeerDown, IInv, TypeOK, queueVars
<1>5. ASSUME NEW c \in Clients, StopReading(c) PROVE IInv'
  BY <1>5, FrameKeepsIInv DEF StopReading, IInv, TypeOK, queueVars, drainVars
<1>6. CASE UNCHANGED vars
  BY <1>6 DEF vars, queueVars, linkVars, drainVars, IInv, TypeOK, RowInv, SentInv,
              StoredUntilWritten
<1> QED
  BY <1>1, <1>2, <1>3, <1>4, <1>5, <1>6, MainKeepsIInv, DrainKeepsIInv DEF Next

\* For any clients and frames with distinct keys, an advice put into saf_db leaves
\* it only after a drain task wrote it to a socket (client.rs, keys_to_remove).
THEOREM StoredSafety == Spec => []StoredUntilWritten
<1>1. IInv => StoredUntilWritten
  BY DEF IInv
<1> QED
  BY InitIInv, NextIInv, <1>1, PTL DEF Spec
-----------------------------------------------------------------------------
\* Storing a frame, or dropping one that is no advice, loses no advice.
LEMMA StoreLosesNoAdvice ==
    ASSUME NEW f \in Frames, Store(f)
    PROVE  lost' \cap Advices \subseteq lost \cap Advices
BY DEF Store

\* So does the invariant of the time before the first break.
LEMMA NextNoBreak == TypeOK /\ NoBreakInv /\ [Next]_vars => NoBreakInv'
<1> SUFFICES ASSUME TypeOK, NoBreakInv, [Next]_vars, breaks' = 0 PROVE NoBreakInv'
  BY DEF NoBreakInv
<1>1. ASSUME NEW f \in Frames, Submit(f) PROVE NoBreakInv'
  BY <1>1 DEF Submit, NoBreakInv, linkVars
<1>2. ASSUME NEW f \in Frames, NEW accepted \in BOOLEAN, StrayTask(f, accepted)
      PROVE  NoBreakInv'
  <2>1. breaks = 0 /\ f \in stray
    BY <1>2 DEF StrayTask, linkVars
  <2> QED
    BY <2>1 DEF NoBreakInv
<1>3. ASSUME NEW c \in Clients, PeerUp(c) PROVE NoBreakInv'
  BY <1>3 DEF PeerUp, NoBreakInv, queueVars
<1>4. ASSUME NEW c \in Clients, PeerDown(c) PROVE NoBreakInv'
  <2>1. breaks \in Nat /\ breaks' = breaks + 1
    BY <1>4, FrameAssumption DEF PeerDown, TypeOK
  <2> QED
    BY <2>1
<1>5. ASSUME NEW c \in Clients, MainStep(c) PROVE NoBreakInv'
  <2>1. CASE Connect(c)
    BY <2>1 DEF Connect, NoBreakInv, TypeOK, queueVars
  <2>2. CASE TakeOffline(c)
    <3>1. Head(chan[c]) \in Frames
      BY <2>2 DEF TakeOffline, TypeOK
    <3>2. lost' \cap Advices \subseteq lost \cap Advices
      BY <2>2, <3>1, StoreLosesNoAdvice DEF TakeOffline
    <3> QED
      BY <2>2, <3>2 DEF TakeOffline, NoBreakInv, linkVars
  <2>3. CASE TakeOnline(c)
    BY <2>3 DEF TakeOnline, NoBreakInv, linkVars
  <2>4. CASE LeaveConnection(c)
    BY <2>4 DEF LeaveConnection, NoBreakInv
  <2>5. CASE WriterFeed(c)
    BY <2>5 DEF WriterFeed, NoBreakInv, linkVars
  <2>6. CASE WriterFail(c)
    BY <2>6 DEF WriterFail, NoBreakInv
  <2>7. ASSUME NEW f \in Frames, HandOver(c, f) PROVE NoBreakInv'
    <3>1. lost' \cap Advices \subseteq lost \cap Advices
      BY <2>7, StoreLosesNoAdvice DEF HandOver
    <3> QED
      BY <2>7, <3>1 DEF HandOver, NoBreakInv, linkVars
  <2> QED
    BY <1>5, <2>1, <2>2, <2>3, <2>4, <2>5, <2>6, <2>7 DEF MainStep
<1>6. ASSUME NEW c \in Clients, DrainStep(c) PROVE NoBreakInv'
  <2>1. UNCHANGED <<stray, lost, conn, mpc, writer, breaks>>
    BY <1>6 DEF DrainStep, DrainConnect, DrainRow, DrainEnd, DrainRemove, queueVars, linkVars
  <2> QED
    BY <2>1 DEF NoBreakInv
<1>7. ASSUME NEW c \in Clients, StopReading(c) PROVE NoBreakInv'
  BY <1>7 DEF StopReading, NoBreakInv, queueVars
<1>8. CASE UNCHANGED vars
  BY <1>8 DEF vars, queueVars, linkVars, NoBreakInv
<1> QED
  BY <1>1, <1>2, <1>3, <1>4, <1>5, <1>6, <1>7, <1>8 DEF Next

\* For any clients and frames: as long as no connection has broken, no advice is
\* lost, whatever task holds it (client.rs, frame, writer and main loop).
THEOREM LossSafety == Spec => []AdviceLostInBreak
<1>1. Init => NoBreakInv
  BY DEF Init, NoBreakInv
<1>2. IInv => TypeOK
  BY DEF IInv
<1>3. NoBreakInv => AdviceLostInBreak
  BY DEF NoBreakInv, AdviceLostInBreak
<1> QED
  BY InitIInv, NextIInv, NextNoBreak, <1>1, <1>2, <1>3, PTL DEF Spec
=============================================================================

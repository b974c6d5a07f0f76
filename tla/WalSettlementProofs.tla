------------------------ MODULE WalSettlementProofs ------------------------
(***************************************************************************)
(* Proofs about WalSettlement: what settle has paid out and still holds is *)
(* exactly, or after a crash at least, what the log says.                  *)
(***************************************************************************)
EXTENDS WalSettlement, FiniteSetTheorems, TLAPS

-----------------------------------------------------------------------------
(* Sums over finite sets of slots.                                         *)

\* The units that a sum counts are finitely many.
LEMMA UnitsFinite ==
    ASSUME NEW S, IsFiniteSet(S), NEW f, \A i \in S : f[i] \in Nat
    PROVE  IsFiniteSet(UNION {{i} \X (1 .. f[i]) : i \in S})
<1> DEFINE g == [i \in S |-> {i} \X (1 .. f[i])]
           T == {{i} \X (1 .. f[i]) : i \in S}
<1>1. g \in Surjection(S, T)
  BY DEF Surjection
<1>2. IsFiniteSet(T)
  BY <1>1, FS_Surjection
<1>3. \A i \in S : IsFiniteSet({i} \X (1 .. f[i]))
  <2> TAKE i \in S
  <2>1. IsFiniteSet({i})
    BY FS_Singleton
  <2>2. IsFiniteSet(1 .. f[i])
    BY FS_Interval
  <2> QED BY <2>1, <2>2, FS_Product
<1>4. \A U \in T : IsFiniteSet(U)
  BY <1>3
<1> QED BY <1>2, <1>4, FS_UNION

\* A sum is a natural number, and one over fewer slots is no larger.
LEMMA SumMonotone ==
    ASSUME NEW S, IsFiniteSet(S), NEW f, \A i \in S : f[i] \in Nat, NEW T \in SUBSET S
    PROVE  SumOver(f, S) \in Nat /\ SumOver(f, T) \in Nat /\ SumOver(f, T) <= SumOver(f, S)
<1> DEFINE A == UNION {{i} \X (1 .. f[i]) : i \in S}
           B == UNION {{i} \X (1 .. f[i]) : i \in T}
<1>1. IsFiniteSet(A)
  BY UnitsFinite
<1>2. B \in SUBSET A
  OBVIOUS
<1>3. IsFiniteSet(B) /\ Cardinality(B) <= Cardinality(A)
  BY <1>1, <1>2, FS_Subset
<1> QED BY <1>1, <1>3, FS_CardinalityType DEF SumOver

\* One more slot adds what it is worth.
LEMMA SumAdd ==
    ASSUME NEW S, IsFiniteSet(S), NEW f, \A i \in S : f[i] \in Nat,
           NEW x, x \notin S, f[x] \in Nat
    PROVE  SumOver(f, S \cup {x}) = SumOver(f, S) + f[x]
<1> DEFINE A == UNION {{i} \X (1 .. f[i]) : i \in S}
           X == {x} \X (1 .. f[x])
<1>1. UNION {{i} \X (1 .. f[i]) : i \in S \cup {x}} = A \cup X
  OBVIOUS
<1>2. IsFiniteSet(A)
  BY UnitsFinite
<1>3. IsFiniteSet(X) /\ Cardinality(X) = f[x]
  <2>1. IsFiniteSet({x}) /\ Cardinality({x}) = 1
    BY FS_Singleton
  <2>2. IsFiniteSet(1 .. f[x]) /\ Cardinality(1 .. f[x]) = f[x]
    BY FS_Interval, SMTT(30)
  <2>3. IsFiniteSet(X) /\ Cardinality(X) = Cardinality({x}) * Cardinality(1 .. f[x])
    BY <2>1, <2>2, FS_Product
  <2> QED BY <2>1, <2>2, <2>3
<1>4. A \cap X = {}
  OBVIOUS
<1> HIDE DEF A, X
<1>5. Cardinality(A \cup X) = Cardinality(A) + Cardinality(X) - Cardinality(A \cap X)
  BY <1>2, <1>3, FS_Union
<1>6. Cardinality(A \cap X) = 0
  BY <1>4, FS_EmptySet
<1>7. Cardinality(A) \in Nat
  BY <1>2, FS_CardinalityType
<1>8. Cardinality(A \cup X) = Cardinality(A) + f[x]
  BY <1>3, <1>5, <1>6, <1>7
<1> QED BY <1>1, <1>8 DEF SumOver, A

\* A sum depends only on the slots summed over.
LEMMA SumSame ==
    ASSUME NEW S, NEW f, NEW g, \A i \in S : f[i] = g[i]
    PROVE  SumOver(f, S) = SumOver(g, S)
<1>1. {{i} \X (1 .. f[i]) : i \in S} = {{i} \X (1 .. g[i]) : i \in S}
  OBVIOUS
<1> QED BY <1>1 DEF SumOver

\* Nothing is worth nothing.
LEMMA SumEmpty == ASSUME NEW f PROVE SumOver(f, {}) = 0
<1>1. UNION {{i} \X (1 .. f[i]) : i \in {}} = {}
  OBVIOUS
<1> QED BY <1>1, FS_EmptySet DEF SumOver
-----------------------------------------------------------------------------
(* Slots.                                                                  *)

\* A slot that is not zero holds a record.
LEMMA SlotCases ==
    ASSUME TypeOK, NEW i \in 1 .. WalCap
    PROVE  /\ wal[i] = Zero <=> wal[i].state = "zero"
           /\ wal[i] # Zero => /\ wal[i].rec \in Records
                               /\ wal[i].state \in {"length", "whole"}
                               /\ wal[i] = [state |-> wal[i].state, rec |-> wal[i].rec]
<1>1. wal[i] \in Slot
  BY DEF TypeOK
<1> QED BY <1>1 DEF Slot, Zero

\* What a slot is worth is a natural number.
LEMMA WorthNat ==
    ASSUME TypeOK
    PROVE  \A i \in 1 .. WalCap : Worth[i] \in Nat
<1> SUFFICES ASSUME NEW i \in 1 .. WalCap PROVE Worth[i] \in Nat
  OBVIOUS
<1>1. wal[i] # Zero => wal[i].rec \in Records
  BY SlotCases
<1> QED BY <1>1, FieldAssumption DEF Worth

\* The slots that settle has counted in are finitely many slots of the file.
LEMMA InsertedFinite ==
    ASSUME TypeOK, SweepInv, NEW a \in Acquirers
    PROVE  /\ Inserted(a) \subseteq 1 .. WalCap /\ IsFiniteSet(Inserted(a))
           /\ Swept(a, Base) \subseteq Inserted(a) /\ IsFiniteSet(Swept(a, Base))
           /\ Swept(a, cursor) \subseteq 1 .. WalCap /\ IsFiniteSet(Swept(a, cursor))
           /\ \A i \in Inserted(a) : Worth[i] \in Nat
<1>1. Base \in 0 .. WalCap /\ cursor \in 0 .. WalCap /\ pos \in 0 .. WalCap /\ WalCap \in Nat
  BY CapAssumption DEF TypeOK, Base
<1>2. spc = "count" => pos + 1 \in 1 .. WalCap
  BY <1>1 DEF SweepInv, Tallying
<1>3. Swept(a, Base) \subseteq 1 .. WalCap /\ Swept(a, cursor) \subseteq 1 .. WalCap
  BY <1>1 DEF Swept
<1>4. Inserted(a) \subseteq 1 .. WalCap
  BY <1>2, <1>3 DEF Inserted
<1>5. IsFiniteSet(1 .. WalCap)
  BY <1>1, FS_Interval
<1>6. \A S \in SUBSET (1 .. WalCap) : IsFiniteSet(S)
  BY <1>5, FS_Subset
<1>7. Swept(a, Base) \subseteq Inserted(a)
  BY DEF Inserted
<1> QED BY <1>3, <1>4, <1>6, <1>7, WorthNat
-----------------------------------------------------------------------------
(* The file and the sweep's place in it.                                   *)

\* The types, the shape of the file and the sweep's place in it.
PlaceInv == TypeOK /\ LogInv /\ SweepInv

\* A record in the channel is not in the file yet.
LEMMA PlaceAppend ==
    ASSUME PlaceInv, NEW r \in Records, JournalAppend(r) PROVE PlaceInv'
<1> USE DEF PlaceInv, JournalAppend, daemonVars, dbVars, ghostVars, boundVars
<1>1. TypeOK'
  <2>1. chan' \in Seq(Records) /\ Len(chan') = Len(chan) + 1
    BY DEF TypeOK
  <2> QED BY <2>1, CapAssumption DEF TypeOK
<1>2. LogInv'
  BY DEF LogInv
<1>3. SweepInv'
  BY DEF SweepInv, Tallying
<1> QED BY <1>1, <1>2, <1>3

\* A length goes to the first zero slot, if there is one.
LEMMA PlaceLength ==
    ASSUME PlaceInv, JournalLength
    PROVE  PlaceInv' /\ \A i \in 1 .. WalCap : wal[i] # Zero => wal'[i] = wal[i]
<1> USE DEF PlaceInv, daemonVars, dbVars, ghostVars, boundVars
<1> DEFINE new == [state |-> "length", rec |-> Head(chan)]
<1>1. Head(chan) \in Records /\ chan' \in Seq(Records) /\ Len(chan') <= ChanCap
  BY CapAssumption DEF TypeOK, JournalLength
<1>2. new \in Slot /\ new # Zero /\ new.state = "length"
  BY <1>1 DEF Slot, Zero
<1>3. offset \in 0 .. WalCap /\ WalCap \in Nat /\ pos \in 0 .. WalCap /\ cursor \in 0 .. WalCap
  BY CapAssumption DEF TypeOK
<1>4. CASE offset + 1 > WalCap
  <2>1. TypeOK'
    BY <1>1, <1>4 DEF TypeOK, JournalLength
  <2>2. LogInv'
    BY <1>4 DEF LogInv, JournalLength
  <2>3. SweepInv'
    BY <1>4 DEF SweepInv, Tallying, JournalLength
  <2> QED BY <1>4, <2>1, <2>2, <2>3 DEF JournalLength
<1>5. CASE ~(offset + 1 > WalCap)
  <2> HIDE DEF new
  <2>1. /\ wal' = [wal EXCEPT ![offset + 1] = new] /\ jpc' = "body" /\ jpc = "record"
        /\ UNCHANGED <<appended, offset, dbVars, spc, pos, held, left, ghostVars, boundVars>>
    BY <1>5 DEF JournalLength, new
  <2>2. offset + 1 \in 1 .. WalCap /\ wal[offset + 1] = Zero
    BY <1>3, <1>5, <2>1 DEF LogInv
  <2>3. wal' \in [1 .. WalCap -> Slot]
    BY <1>2, <2>1 DEF TypeOK
  <2>4. wal'[offset + 1] = new /\ \A i \in 1 .. WalCap : i # offset + 1 => wal'[i] = wal[i]
    BY <2>1, <2>2 DEF TypeOK
  <2>5. TypeOK'
    BY <1>1, <2>1, <2>3 DEF TypeOK
  <2>6. LogInv'
    <3>1. offset < WalCap /\ wal'[offset + 1].state = "length"
      BY <1>2, <1>3, <1>5, <2>4
    <3>2. \A i \in 1 .. WalCap : wal'[i] = Zero <=> i > offset + 1
      BY <1>2, <1>3, <2>1, <2>4 DEF LogInv
    <3> QED BY <2>1, <3>1, <3>2 DEF LogInv
  <2>7. \A i \in 1 .. WalCap : wal[i] # Zero => wal'[i] = wal[i]
    BY <2>2, <2>4
  <2>8. SweepInv'
    <3>1. Tallying' <=> Tallying
      BY <2>1 DEF Tallying
    <3>2. ASSUME restarts = 0, Tallying PROVE wal'[pos + 1] = wal[pos + 1]
      <4>1. wal[pos + 1].state = "whole" /\ pos + 1 \in 1 .. WalCap
        BY <1>3, <3>2 DEF SweepInv
      <4> QED BY <2>7, <4>1, SlotCases
    <3>3. Zero' = Zero
      BY DEF Zero
    <3> QED BY <1>3, <2>1, <2>7, <3>1, <3>2 DEF SweepInv, Qualifies
  <2> QED BY <2>5, <2>6, <2>7, <2>8
<1> QED BY <1>4, <1>5

\* A body completes the slot whose length was written.
LEMMA PlaceBody ==
    ASSUME PlaceInv, JournalBody
    PROVE  /\ PlaceInv'
           /\ \A i \in 1 .. WalCap : wal[i] # Zero => wal'[i] # Zero /\ wal'[i].rec = wal[i].rec
<1> USE DEF PlaceInv, daemonVars, dbVars, ghostVars, boundVars
<1>1. offset \in 0 .. WalCap /\ WalCap \in Nat /\ pos \in 0 .. WalCap /\ cursor \in 0 .. WalCap
  BY CapAssumption DEF TypeOK
<1>2. jpc = "body" /\ offset + 1 \in 1 .. WalCap /\ wal[offset + 1].state = "length"
  BY <1>1 DEF LogInv, JournalBody
<1> DEFINE r == wal[offset + 1].rec
           new == [state |-> "whole", rec |-> r]
<1>3. wal[offset + 1] = [state |-> "length", rec |-> r] /\ r \in Records
  BY <1>2, SlotCases
<1>4. new \in Slot /\ new # Zero /\ new.rec = r
  BY <1>3 DEF Slot, Zero
<1>5. wal' = [wal EXCEPT ![offset + 1] = new]
  <2>1. [wal[offset + 1] EXCEPT !.state = "whole"] = new
    BY <1>3
  <2>2. wal' = [wal EXCEPT ![offset + 1] = [wal[offset + 1] EXCEPT !.state = "whole"]]
    BY DEF JournalBody
  <2> QED BY <2>1, <2>2
<1> HIDE DEF r, new
<1>6. wal'[offset + 1] = new /\ \A i \in 1 .. WalCap : i # offset + 1 => wal'[i] = wal[i]
  BY <1>2, <1>5 DEF TypeOK
<1>7. TypeOK'
  <2>1. wal' \in [1 .. WalCap -> Slot]
    BY <1>4, <1>5 DEF TypeOK
  <2> QED BY <1>1, <1>2, <2>1, SMTT(30) DEF TypeOK, JournalBody
<1>8. \A i \in 1 .. WalCap : wal[i] # Zero => wal'[i] # Zero /\ wal'[i].rec = wal[i].rec
  BY <1>4, <1>6 DEF r
<1>9. LogInv'
  <2>1. \A i \in 1 .. WalCap : wal'[i] = Zero <=> i > offset + 1
    BY <1>1, <1>2, <1>4, <1>6 DEF LogInv
  <2> QED BY <1>1, <2>1 DEF LogInv, JournalBody
<1>10. SweepInv'
  <2>1. UNCHANGED <<dbVars, spc, pos, held, boundVars>> /\ (Tallying' <=> Tallying)
    BY DEF JournalBody, Tallying
  <2>2. ASSUME restarts = 0, Tallying PROVE wal'[pos + 1] = wal[pos + 1]
    <3>1. wal[pos + 1].state = "whole" /\ pos + 1 \in 1 .. WalCap
      BY <1>1, <2>2 DEF SweepInv
    <3> QED BY <1>2, <1>6, <3>1
  <2> QED BY <1>1, <1>8, <2>1, <2>2 DEF SweepInv, Qualifies
<1> QED BY <1>7, <1>8, <1>9, <1>10

\* A restart empties the file; what is held is still a record.
LEMMA PlaceRestart ==
    ASSUME PlaceInv, DaemonRestart PROVE PlaceInv'
<1> USE DEF PlaceInv, DaemonRestart, daemonVars, dbVars, ghostVars, boundVars
<1>1. TypeOK'
  <2>1. wal' \in [1 .. WalCap -> Slot]
    BY DEF Slot
  <2>2. chan' \in Seq(Records) /\ Len(chan') <= ChanCap
    BY CapAssumption
  <2>3. offset' \in 0 .. WalCap /\ restarts' \in 0 .. MaxRestarts
    BY CapAssumption DEF TypeOK
  <2> QED BY <2>1, <2>2, <2>3 DEF TypeOK
<1>2. LogInv'
  BY CapAssumption DEF LogInv
<1>3. SweepInv'
  BY DEF SweepInv, Tallying, TypeOK
<1> QED BY <1>1, <1>2, <1>3

\* A step of settle leaves the file alone.
LEMMA LogKept == ASSUME LogInv, UNCHANGED daemonVars PROVE LogInv'
BY DEF LogInv, daemonVars

\* A sweep starts at the saved cursor.
LEMMA PlaceStart ==
    ASSUME PlaceInv, SweepStart PROVE PlaceInv'
<1> USE DEF PlaceInv, SweepStart, daemonVars, dbVars, ghostVars, boundVars
<1>1. TypeOK'
  BY DEF TypeOK
<1>2. LogInv'
  BY LogKept
<1>3. SweepInv'
  BY DEF SweepInv, Tallying, TypeOK
<1> QED BY <1>1, <1>2, <1>3

\* A sweep passes over, or holds, the record at its position.
LEMMA PlaceRecord ==
    ASSUME PlaceInv, SweepRecord PROVE PlaceInv'
<1> USE DEF PlaceInv, daemonVars, dbVars, ghostVars, boundVars
<1>1. /\ spc = "scan" /\ pos < WalCap /\ wal[pos + 1] # Zero
      /\ UNCHANGED <<daemonVars, dbVars, left, exported, boundVars>>
  BY DEF SweepRecord
<1>2. pos \in 0 .. WalCap /\ WalCap \in Nat /\ pos + 1 \in 1 .. WalCap /\ cursor \in 0 .. WalCap
  BY <1>1, CapAssumption DEF TypeOK
<1>3. /\ wal[pos + 1].rec \in Records
      /\ wal[pos + 1] = [state |-> wal[pos + 1].state, rec |-> wal[pos + 1].rec]
  BY <1>1, <1>2, SlotCases
<1>4. LogInv'
  BY <1>1, LogKept
<1>5. CASE wal[pos + 1].state = "whole" /\ Qualifies(wal[pos + 1].rec)
  <2>1. spc' = "total" /\ held' = wal[pos + 1].rec /\ UNCHANGED <<pos, skipped>>
    BY <1>5 DEF SweepRecord
  <2>2. TypeOK'
    BY <1>1, <1>3, <2>1 DEF TypeOK
  <2>3. SweepInv'
    BY <1>1, <1>2, <1>3, <1>5, <2>1 DEF SweepInv, Tallying, Qualifies
  <2> QED BY <1>4, <2>2, <2>3
<1>6. CASE ~(wal[pos + 1].state = "whole" /\ Qualifies(wal[pos + 1].rec))
  <2>1. /\ pos' = pos + 1 /\ UNCHANGED <<spc, held>>
        /\ skipped' = IF wal[pos + 1].state = "length" THEN skipped \cup {pos + 1} ELSE skipped
    BY <1>6 DEF SweepRecord
  <2>2. skipped' \subseteq 1 .. WalCap
    BY <1>2, <2>1 DEF TypeOK
  <2>3. TypeOK'
    BY <1>1, <1>2, <2>1, <2>2 DEF TypeOK
  <2>4. SweepInv'
    <3>1. ~Tallying'
      BY <1>1, <2>1 DEF Tallying
    <3>2. restarts = 0 => \A i \in 1 .. pos + 1 : wal[i] # Zero
      BY <1>1, <1>2 DEF SweepInv
    <3> QED BY <1>1, <1>2, <2>1, <3>1, <3>2 DEF SweepInv
  <2> QED BY <1>4, <2>3, <2>4
<1> QED BY <1>5, <1>6

\* Adding to a total leaves the sweep where it is.
LEMMA PlaceTotal ==
    ASSUME PlaceInv, InsertTotal PROVE PlaceInv'
<1> USE DEF PlaceInv, InsertTotal, daemonVars, dbVars, ghostVars, boundVars
<1>1. held \in Records
  BY DEF SweepInv, Tallying
<1>2. total' \in [Acquirers -> Nat]
  <2>1. Amount[held] \in Nat /\ Acquirer[held] \in Acquirers
    BY <1>1, FieldAssumption
  <2> QED BY <2>1, SMTT(30) DEF TypeOK
<1>3. TypeOK'
  BY <1>2 DEF TypeOK
<1>4. LogInv'
  BY LogKept
<1>5. SweepInv'
  BY DEF SweepInv, Tallying, Qualifies
<1> QED BY <1>3, <1>4, <1>5

\* Adding to a count moves the sweep on, past a record.
LEMMA PlaceCount ==
    ASSUME PlaceInv, InsertCount PROVE PlaceInv'
<1> USE DEF PlaceInv, InsertCount, daemonVars, dbVars, ghostVars, boundVars
<1>1. held \in Records /\ pos < WalCap
  BY DEF SweepInv, Tallying
<1>2. count' \in [Acquirers -> Nat]
  <2>1. Acquirer[held] \in Acquirers
    BY <1>1, FieldAssumption
  <2> QED BY <2>1 DEF TypeOK
<1>3. pos \in 0 .. WalCap /\ WalCap \in Nat /\ cursor \in 0 .. WalCap
  BY CapAssumption DEF TypeOK
<1>4. TypeOK'
  BY <1>1, <1>2, <1>3 DEF TypeOK
<1>5. LogInv'
  BY LogKept
<1>6. SweepInv'
  <2>1. ~Tallying'
    BY DEF Tallying
  <2>2. restarts = 0 => wal[pos + 1] # Zero
    BY SlotCases, <1>1, <1>3 DEF SweepInv, Tallying
  <2>3. restarts = 0 => \A i \in 1 .. pos + 1 : wal[i] # Zero
    BY <1>3, <2>2 DEF SweepInv
  <2> QED BY <1>3, <2>1, <2>3 DEF SweepInv
<1> QED BY <1>4, <1>5, <1>6

\* A sweep ends where every slot behind it holds a record.
LEMMA PlaceEnd ==
    ASSUME PlaceInv, SweepEnd PROVE PlaceInv'
<1> USE DEF PlaceInv, SweepEnd, daemonVars, dbVars, ghostVars, boundVars
<1>1. TypeOK'
  BY DEF TypeOK
<1>2. LogInv'
  BY LogKept
<1>3. SweepInv'
  BY DEF SweepInv, Tallying
<1> QED BY <1>1, <1>2, <1>3

\* A cutoff reports numbers.
LEMMA PlaceReport ==
    ASSUME PlaceInv, CutoffReport PROVE PlaceInv'
<1> USE DEF PlaceInv, CutoffReport, daemonVars, dbVars, ghostVars, boundVars
<1>1. TypeOK'
  <2>1. exported' \in [Acquirers -> Report]
    <3> SUFFICES ASSUME NEW a \in Acquirers
                 PROVE  [amount |-> exported[a].amount + total[a],
                         count |-> exported[a].count +
                            (IF a \in {b \in Acquirers : total[b] > 0} THEN count[a] ELSE 0)]
                        \in Report
      OBVIOUS
    <3>1. exported[a].amount \in Nat /\ exported[a].count \in Nat
          /\ total[a] \in Nat /\ count[a] \in Nat
      BY DEF TypeOK, Report
    <3> QED BY <3>1 DEF Report
  <2>2. left' \subseteq Acquirers \X {"total", "count"}
    OBVIOUS
  <2>3. cutoffs' \in 0 .. MaxCutoffs
    BY CapAssumption DEF TypeOK
  <2> QED BY <2>1, <2>2, <2>3 DEF TypeOK
<1>2. LogInv'
  BY LogKept
<1>3. SweepInv'
  BY DEF SweepInv, Tallying
<1> QED BY <1>1, <1>2, <1>3

\* A cutoff removes keys of its report.
LEMMA PlaceReset ==
    ASSUME PlaceInv, NEW a \in Acquirers, NEW k \in {"total", "count"}, CutoffReset(a, k)
    PROVE  PlaceInv'
<1> USE DEF PlaceInv, CutoffReset, daemonVars, dbVars, ghostVars, boundVars
<1>1. TypeOK'
  <2>1. total' \in [Acquirers -> Nat] /\ count' \in [Acquirers -> Nat]
    BY DEF TypeOK
  <2>2. left' \subseteq Acquirers \X {"total", "count"}
    BY DEF TypeOK
  <2>3. spc' \in {"idle", "reset"}
    OBVIOUS
  <2> QED BY <2>1, <2>2, <2>3 DEF TypeOK
<1>2. LogInv'
  BY LogKept
<1>3. SweepInv'
  BY DEF SweepInv, Tallying
<1> QED BY <1>1, <1>2, <1>3

\* A crash returns to the saved cursor.
LEMMA PlaceCrash ==
    ASSUME PlaceInv, SettleCrash PROVE PlaceInv'
<1> USE DEF PlaceInv, SettleCrash, daemonVars, dbVars, ghostVars, boundVars
<1>1. TypeOK'
  BY CapAssumption DEF TypeOK
<1>2. LogInv'
  BY LogKept
<1>3. SweepInv'
  BY DEF SweepInv, Tallying
<1> QED BY <1>1, <1>2, <1>3
-----------------------------------------------------------------------------
(* The tally.                                                              *)

TallyInv == CoverInv /\ ExactInv

\* What the tally is compared with, before and after a step that does not add
\* to it: the slots counted in stay, and so does what they are worth.
SameTally ==
    \A a \in Acquirers : /\ Inserted(a)' = Inserted(a)
                         /\ AmountOf(Inserted(a))' = AmountOf(Inserted(a))
                         /\ Swept(a, Base)' = Swept(a, Base)

\* The amounts and numbers in the invariant are numbers.
LEMMA TallyTypes ==
    ASSUME TypeOK, SweepInv, NEW a \in Acquirers
    PROVE  /\ total[a] \in Nat /\ count[a] \in Nat
           /\ exported[a].amount \in Nat /\ exported[a].count \in Nat
           /\ AmountOf(Inserted(a)) \in Nat /\ Cardinality(Swept(a, Base)) \in Nat
<1>1. AmountOf(Inserted(a)) \in Nat
  BY InsertedFinite, SumMonotone DEF AmountOf
<1>2. Cardinality(Swept(a, Base)) \in Nat
  BY InsertedFinite, FS_CardinalityType
<1> QED BY <1>1, <1>2 DEF TypeOK, Report

\* The worth of slots depends on the records in them only.
LEMMA AmountKept ==
    ASSUME NEW a \in Acquirers, Inserted(a)' = Inserted(a), Inserted(a) \subseteq 1 .. WalCap,
           \A i \in Inserted(a) : /\ wal[i] # Zero /\ wal'[i] # Zero
                                  /\ wal'[i].rec = wal[i].rec
    PROVE  AmountOf(Inserted(a))' = AmountOf(Inserted(a))
<1>1. \A i \in Inserted(a) : Worth'[i] = Worth[i]
  BY DEF Worth, Zero
<1>2. SumOver(Worth', Inserted(a)) = SumOver(Worth, Inserted(a))
  BY <1>1, SumSame
<1> QED BY <1>2 DEF AmountOf

\* The slots counted in hold records.
LEMMA InsertedRecords ==
    ASSUME PlaceInv, restarts = 0, NEW a \in Acquirers
    PROVE  \A i \in Inserted(a) : wal[i] # Zero
<1>1. \A i \in Swept(a, Base) : wal[i] # Zero
  BY DEF Swept
<1>2. spc = "count" => wal[pos + 1] # Zero
  BY DEF PlaceInv, SweepInv, Tallying, Zero
<1> QED BY <1>1, <1>2 DEF Inserted

\* The journal thread writes no slot that has been counted in.
LEMMA JournalSameTally ==
    ASSUME PlaceInv, restarts = 0, UNCHANGED <<dbVars, spc, pos, held, left, ghostVars, boundVars>>,
           \A i \in 1 .. WalCap : wal[i] # Zero => wal'[i] # Zero /\ wal'[i].rec = wal[i].rec
    PROVE  SameTally
<1> SUFFICES ASSUME NEW a \in Acquirers
             PROVE  /\ Inserted(a)' = Inserted(a)
                    /\ AmountOf(Inserted(a))' = AmountOf(Inserted(a))
                    /\ Swept(a, Base)' = Swept(a, Base)
  BY DEF SameTally
<1> USE DEF PlaceInv, dbVars, ghostVars, boundVars
<1>1. Base' = Base /\ Base \in 0 .. WalCap /\ WalCap \in Nat
  BY CapAssumption DEF Base, TypeOK
<1>2. \A i \in 1 .. Base : wal[i] # Zero
  BY DEF Base, SweepInv, TypeOK
<1>3. \A i \in 1 .. Base : i \in 1 .. WalCap
  BY <1>1
<1>4. Swept(a, Base)' = Swept(a, Base)
  BY <1>1, <1>2, <1>3 DEF Swept, Qualifies, Zero
<1>5. Inserted(a)' = Inserted(a)
  BY <1>4 DEF Inserted
<1>6. Inserted(a) \subseteq 1 .. WalCap /\ \A i \in Inserted(a) : wal[i] # Zero
  BY InsertedFinite, InsertedRecords
<1> QED BY <1>4, <1>5, <1>6, AmountKept

\* With the same slots counted in, settle's own variables decide.
LEMMA TallyKept ==
    ASSUME PlaceInv, TallyInv, restarts = 0 => SameTally,
           UNCHANGED <<total, count, exported, crashes, restarts>>,
           spc # "reset", spc' # "reset",
           restarts = 0 /\ crashes = 0 => \A i \in skipped' : i <= Base'
    PROVE  TallyInv'
<1>1. CASE restarts # 0
  BY <1>1 DEF TallyInv, CoverInv, ExactInv
<1>2. CASE restarts = 0
  <2>1. CoverInv'
    BY <1>2 DEF TallyInv, CoverInv, SameTally
  <2>2. ExactInv'
    BY <1>2 DEF TallyInv, ExactInv, SameTally, Standing
  <2> QED BY <2>1, <2>2 DEF TallyInv
<1> QED BY <1>1, <1>2

\* So its steps leave the tally alone.
LEMMA TallyJournal ==
    ASSUME PlaceInv, TallyInv, UNCHANGED <<dbVars, spc, pos, held, left, ghostVars, boundVars>>,
           \A i \in 1 .. WalCap : wal[i] # Zero => wal'[i] # Zero /\ wal'[i].rec = wal[i].rec
    PROVE  TallyInv'
<1> USE DEF dbVars, ghostVars, boundVars
<1>1. CASE restarts # 0
  BY <1>1 DEF TallyInv, CoverInv, ExactInv
<1>2. CASE restarts = 0
  <2>1. SameTally /\ Base' = Base
    BY <1>2, JournalSameTally DEF Base
  <2>2. CoverInv'
    BY <1>2, <2>1 DEF TallyInv, CoverInv, SameTally
  <2>3. ExactInv'
    BY <1>2, <2>1 DEF TallyInv, ExactInv, SameTally, Standing
  <2> QED BY <2>2, <2>3 DEF TallyInv
<1> QED BY <1>1, <1>2

\* A step of settle that counts no slot in: the same slots of the same file.
LEMMA SettleSameTally ==
    ASSUME PlaceInv, restarts = 0, UNCHANGED daemonVars,
           \A a \in Acquirers : Inserted(a)' = Inserted(a) /\ Swept(a, Base)' = Swept(a, Base)
    PROVE  SameTally
<1> SUFFICES ASSUME NEW a \in Acquirers
             PROVE  AmountOf(Inserted(a))' = AmountOf(Inserted(a))
  BY DEF SameTally
<1>1. Inserted(a) \subseteq 1 .. WalCap /\ \A i \in Inserted(a) : wal[i] # Zero
  BY InsertedFinite, InsertedRecords DEF PlaceInv
<1> QED BY <1>1, AmountKept DEF daemonVars

\* Starting a sweep counts nothing in, ...
LEMMA TallyStart ==
    ASSUME PlaceInv, TallyInv, SweepStart PROVE TallyInv'
<1> USE DEF SweepStart, daemonVars, dbVars, ghostVars, boundVars
<1>1. Base' = Base
  BY DEF Base
<1>2. \A a \in Acquirers : Inserted(a)' = Inserted(a) /\ Swept(a, Base)' = Swept(a, Base)
  BY <1>1 DEF Inserted, Swept, Qualifies, Zero
<1>3. restarts = 0 => SameTally
  BY <1>2, SettleSameTally
<1>4. restarts = 0 /\ crashes = 0 => \A i \in skipped' : i <= Base'
  BY <1>1 DEF TallyInv, ExactInv
<1> QED BY <1>3, <1>4, TallyKept

\* ... nor does ending one, ...
LEMMA TallyEnd ==
    ASSUME PlaceInv, TallyInv, SweepEnd PROVE TallyInv'
<1> USE DEF SweepEnd, daemonVars, dbVars, ghostVars, boundVars
<1>1. Base' = Base
  BY DEF Base
<1>2. \A a \in Acquirers : Inserted(a)' = Inserted(a) /\ Swept(a, Base)' = Swept(a, Base)
  BY <1>1 DEF Inserted, Swept, Qualifies, Zero
<1>3. restarts = 0 => SameTally
  BY <1>2, SettleSameTally
<1>4. restarts = 0 /\ crashes = 0 => \A i \in skipped' : i <= Base'
  BY <1>1 DEF TallyInv, ExactInv
<1> QED BY <1>3, <1>4, TallyKept

\* ... nor does decoding a record or passing over it.
LEMMA TallyRecord ==
    ASSUME PlaceInv, TallyInv, SweepRecord PROVE TallyInv'
<1> USE DEF PlaceInv, daemonVars, dbVars, ghostVars, boundVars
<1>1. /\ spc = "scan" /\ pos < WalCap /\ wal[pos + 1] # Zero
      /\ UNCHANGED <<daemonVars, dbVars, left, exported, boundVars>>
  BY DEF SweepRecord
<1>2. pos \in 0 .. WalCap /\ WalCap \in Nat /\ pos + 1 \in 1 .. WalCap /\ Base = pos
      /\ skipped \subseteq 1 .. WalCap
  BY <1>1, CapAssumption DEF TypeOK, Base
<1>3. wal[pos + 1].state \in {"length", "whole"}
  BY <1>1, <1>2, SlotCases
<1>4. CASE wal[pos + 1].state = "whole" /\ Qualifies(wal[pos + 1].rec)
  <2>1. spc' = "total" /\ held' = wal[pos + 1].rec /\ UNCHANGED <<pos, skipped>>
    BY <1>4 DEF SweepRecord
  <2>2. Base' = Base
    BY <1>1, <2>1 DEF Base
  <2>3. \A a \in Acquirers : Inserted(a)' = Inserted(a) /\ Swept(a, Base)' = Swept(a, Base)
    BY <1>1, <2>1, <2>2 DEF Inserted, Swept, Qualifies, Zero
  <2>4. restarts = 0 => SameTally
    BY <1>1, <2>3, SettleSameTally
  <2>5. restarts = 0 /\ crashes = 0 => \A i \in skipped' : i <= Base'
    BY <2>1, <2>2 DEF TallyInv, ExactInv
  <2> QED BY <1>1, <2>1, <2>4, <2>5, TallyKept
<1>5. CASE ~(wal[pos + 1].state = "whole" /\ Qualifies(wal[pos + 1].rec))
  <2>1. /\ pos' = pos + 1 /\ UNCHANGED <<spc, held>>
        /\ skipped' = IF wal[pos + 1].state = "length" THEN skipped \cup {pos + 1} ELSE skipped
    BY <1>5 DEF SweepRecord
  <2>2. Base' = pos + 1
    BY <1>1, <2>1 DEF Base
  <2>3. \A a \in Acquirers : Swept(a, Base)' = Swept(a, Base)
    <3> TAKE a \in Acquirers
    <3>1. \A i \in 1 .. pos : i \in skipped' <=> i \in skipped
      BY <1>2, <2>1
    <3>2. pos + 1 \in skipped' \/ ~Qualifies(wal[pos + 1].rec)
      BY <1>3, <1>5, <2>1
    <3>3. 1 .. pos + 1 = (1 .. pos) \cup {pos + 1}
      BY <1>2
    <3> QED BY <1>1, <1>2, <2>2, <3>1, <3>2, <3>3 DEF Swept, Qualifies, Zero
  <2>4. \A a \in Acquirers : Inserted(a)' = Inserted(a)
    BY <1>1, <2>1, <2>3 DEF Inserted
  <2>5. restarts = 0 => SameTally
    BY <1>1, <2>3, <2>4, SettleSameTally
  <2>6. restarts = 0 /\ crashes = 0 => \A i \in skipped' : i <= Base'
    BY <1>2, <2>1, <2>2 DEF TallyInv, ExactInv
  <2> QED BY <1>1, <2>1, <2>5, <2>6, TallyKept
<1> QED BY <1>4, <1>5

\* The total takes in the slot of the record held.
LEMMA TallyTotal ==
    ASSUME PlaceInv, TallyInv, InsertTotal PROVE TallyInv'
<1> USE DEF PlaceInv, daemonVars, dbVars, ghostVars, boundVars
<1>0. CASE restarts # 0
  BY <1>0 DEF TallyInv, CoverInv, ExactInv, InsertTotal
<1>1. CASE restarts = 0
  <2>1. /\ spc = "total" /\ spc' = "count"
        /\ total' = [total EXCEPT ![Acquirer[held]] = @ + Amount[held]]
        /\ UNCHANGED <<wal, count, cursor, pos, held, left, exported, skipped, crashes, restarts>>
    BY DEF InsertTotal
  <2>2. /\ held \in Records /\ pos < WalCap /\ pos \in 0 .. WalCap /\ WalCap \in Nat
        /\ wal[pos + 1] = [state |-> "whole", rec |-> held] /\ pos + 1 \in 1 .. WalCap
    BY <1>1, <2>1, CapAssumption DEF SweepInv, Tallying, TypeOK
  <2>3. Base' = Base /\ Base = pos
    BY <2>1 DEF Base
  <2>4. Worth' = Worth
    BY <2>1 DEF Worth, Zero
  <2>5. Worth[pos + 1] = Amount[held] /\ Amount[held] \in Nat
    <3>1. wal[pos + 1] # Zero /\ wal[pos + 1].rec = held
      BY <2>2 DEF Zero
    <3>2. Amount[held] \in Nat
      BY <2>2, FieldAssumption
    <3> QED BY <2>2, <3>1, <3>2 DEF Worth
  <2>6. \A a \in Acquirers : Swept(a, Base)' = Swept(a, Base) /\ Inserted(a) = Swept(a, Base)
    BY <2>1, <2>3 DEF Swept, Qualifies, Zero, Inserted
  <2>7. \A a \in Acquirers :
            /\ total'[a] = IF Acquirer[held] = a THEN total[a] + Amount[held] ELSE total[a]
            /\ AmountOf(Inserted(a))' = IF Acquirer[held] = a
                                        THEN AmountOf(Inserted(a)) + Amount[held]
                                        ELSE AmountOf(Inserted(a))
    <3> TAKE a \in Acquirers
    <3>1. total'[a] = IF Acquirer[held] = a THEN total[a] + Amount[held] ELSE total[a]
      BY <2>1 DEF TypeOK
    <3>2. Inserted(a)' = IF Acquirer[held] = a THEN Inserted(a) \cup {pos + 1} ELSE Inserted(a)
      BY <2>1, <2>6 DEF Inserted
    <3>3. CASE Acquirer[held] = a
      <4>1. pos + 1 \notin Inserted(a)
        BY <2>2, <2>3, <2>6 DEF Swept
      <4>2. IsFiniteSet(Inserted(a)) /\ \A i \in Inserted(a) : Worth[i] \in Nat
        BY InsertedFinite
      <4>3. SumOver(Worth, Inserted(a) \cup {pos + 1}) = SumOver(Worth, Inserted(a)) + Worth[pos + 1]
        BY <2>5, <4>1, <4>2, SumAdd
      <4> QED BY <2>4, <2>5, <3>1, <3>2, <3>3, <4>3 DEF AmountOf
    <3>4. CASE Acquirer[held] # a
      BY <2>4, <3>1, <3>2, <3>4 DEF AmountOf
    <3> QED BY <3>3, <3>4
  <2>8. CoverInv'
    <3> SUFFICES ASSUME NEW a \in Acquirers
                 PROVE  total'[a] + exported[a].amount >= AmountOf(Inserted(a))'
      BY <2>1 DEF CoverInv
    <3>1. total[a] + exported[a].amount >= AmountOf(Inserted(a))
      BY <1>1, <2>1 DEF TallyInv, CoverInv
    <3> QED BY <2>5, <2>7, <3>1, TallyTypes
  <2>9. ExactInv'
    <3> SUFFICES ASSUME crashes = 0, NEW a \in Acquirers
                 PROVE  /\ total'[a] + exported[a].amount = AmountOf(Inserted(a))'
                        /\ count[a] + exported[a].count = Cardinality(Swept(a, Base))'
      <4>1. crashes = 0 => \A i \in skipped' : i <= Base'
        BY <1>1, <2>1, <2>3 DEF TallyInv, ExactInv
      <4> QED BY <1>1, <2>1, <4>1 DEF ExactInv, Standing
    <3>1. /\ total[a] + exported[a].amount = AmountOf(Inserted(a))
          /\ count[a] + exported[a].count = Cardinality(Swept(a, Base))
      BY <1>1, <2>1 DEF TallyInv, ExactInv, Standing
    <3> QED BY <2>5, <2>6, <2>7, <3>1, TallyTypes
  <2> QED BY <2>8, <2>9 DEF TallyInv
<1> QED BY <1>0, <1>1

\* The count takes it in as well, and the slot is behind the sweep.
LEMMA TallyCount ==
    ASSUME PlaceInv, TallyInv, InsertCount PROVE TallyInv'
<1> USE DEF PlaceInv, daemonVars, dbVars, ghostVars, boundVars
<1>0. CASE restarts # 0
  BY <1>0 DEF TallyInv, CoverInv, ExactInv, InsertCount
<1>1. CASE restarts = 0
  <2>1. /\ spc = "count" /\ spc' = "scan" /\ pos' = pos + 1
        /\ count' = [count EXCEPT ![Acquirer[held]] = @ + 1]
        /\ UNCHANGED <<wal, total, cursor, left, exported, skipped, crashes, restarts>>
    BY DEF InsertCount
  <2>2. /\ held \in Records /\ pos < WalCap /\ pos \in 0 .. WalCap /\ WalCap \in Nat
        /\ wal[pos + 1] # Zero /\ wal[pos + 1].rec = held /\ Qualifies(held)
    BY <1>1, <2>1, CapAssumption DEF SweepInv, Tallying, TypeOK, Zero
  <2>3. Base = pos /\ Base' = pos + 1
    BY <2>1 DEF Base
  <2>4. Worth' = Worth
    BY <2>1 DEF Worth, Zero
  <2>5. \A a \in Acquirers :
            /\ Inserted(a) = Swept(a, pos) \cup (IF Acquirer[held] = a THEN {pos + 1} ELSE {})
            /\ Swept(a, Base) = Swept(a, pos) /\ pos + 1 \notin Swept(a, pos)
            /\ Inserted(a)' = Swept(a, pos + 1)
            /\ Swept(a, Base)' = Swept(a, pos + 1)
    <3> TAKE a \in Acquirers
    <3>1. Swept(a, Base)' = Swept(a, pos + 1)
      BY <2>1, <2>3 DEF Swept, Qualifies, Zero
    <3>2. Swept(a, Base) = Swept(a, pos) /\ pos + 1 \notin Swept(a, pos)
      BY <2>2, <2>3 DEF Swept
    <3> QED BY <2>1, <3>1, <3>2 DEF Inserted
  <2>6. \A a \in Acquirers :
            Swept(a, pos + 1) = Swept(a, pos) \cup (IF Acquirer[held] = a /\ pos + 1 \notin skipped
                                                    THEN {pos + 1} ELSE {})
    <3> TAKE a \in Acquirers
    <3>1. 1 .. pos + 1 = (1 .. pos) \cup {pos + 1}
      BY <2>2
    <3> QED BY <2>2, <3>1 DEF Swept
  <2>7. CoverInv'
    <3> SUFFICES ASSUME NEW a \in Acquirers
                 PROVE  total[a] + exported[a].amount >= AmountOf(Inserted(a))'
      BY <2>1 DEF CoverInv
    <3>1. total[a] + exported[a].amount >= AmountOf(Inserted(a))
      BY <1>1, <2>1 DEF TallyInv, CoverInv
    <3>2. Swept(a, pos + 1) \subseteq Inserted(a)
      BY <2>5, <2>6
    <3>3. /\ SumOver(Worth, Swept(a, pos + 1)) <= SumOver(Worth, Inserted(a))
          /\ SumOver(Worth, Swept(a, pos + 1)) \in Nat
      BY <3>2, InsertedFinite, SumMonotone
    <3>4. AmountOf(Inserted(a))' = SumOver(Worth, Swept(a, pos + 1))
      BY <2>4, <2>5 DEF AmountOf
    <3>5. AmountOf(Inserted(a)) = SumOver(Worth, Inserted(a))
      BY DEF AmountOf
    <3> QED BY <3>1, <3>3, <3>4, <3>5, TallyTypes
  <2>8. ExactInv'
    <3> SUFFICES ASSUME crashes = 0
                 PROVE  /\ \A i \in skipped' : i <= Base'
                        /\ \A a \in Acquirers :
                              /\ total[a] + exported[a].amount = AmountOf(Inserted(a))'
                              /\ count'[a] + exported[a].count = Cardinality(Swept(a, Base))'
      BY <2>1 DEF ExactInv, Standing
    <3>1. \A i \in skipped : i <= pos
      BY <1>1, <2>3 DEF TallyInv, ExactInv
    <3>2. pos + 1 \notin skipped /\ \A i \in skipped' : i <= Base'
      BY <2>1, <2>2, <2>3, <3>1 DEF TypeOK
    <3>3. ASSUME NEW a \in Acquirers
          PROVE  /\ total[a] + exported[a].amount = AmountOf(Inserted(a))'
                 /\ count'[a] + exported[a].count = Cardinality(Swept(a, Base))'
      <4>1. /\ total[a] + exported[a].amount = AmountOf(Inserted(a))
            /\ count[a] + exported[a].count = Cardinality(Swept(a, Base))
        BY <1>1, <2>1 DEF TallyInv, ExactInv, Standing
      <4>2. Inserted(a)' = Inserted(a)
        BY <2>5, <2>6, <3>2
      <4>3. AmountOf(Inserted(a))' = AmountOf(Inserted(a))
        BY <2>4, <4>2 DEF AmountOf
      <4>4. IsFiniteSet(Swept(a, pos))
        BY <2>5, InsertedFinite
      <4>5. Cardinality(Swept(a, Base))' = IF Acquirer[held] = a THEN Cardinality(Swept(a, Base)) + 1
                                           ELSE Cardinality(Swept(a, Base))
        <5>1. CASE Acquirer[held] = a
          <6>1. Swept(a, pos + 1) = Swept(a, pos) \cup {pos + 1}
            BY <2>6, <3>2, <5>1
          <6>2. Cardinality(Swept(a, pos) \cup {pos + 1}) = Cardinality(Swept(a, pos)) + 1
            BY <2>5, <4>4, FS_AddElement
          <6> QED BY <2>5, <5>1, <6>1, <6>2
        <5>2. CASE Acquirer[held] # a
          <6>1. Swept(a, pos + 1) = Swept(a, pos)
            BY <2>6, <5>2
          <6> QED BY <2>5, <5>2, <6>1
        <5> QED BY <5>1, <5>2
      <4>6. count'[a] = IF Acquirer[held] = a THEN count[a] + 1 ELSE count[a]
        BY <2>1 DEF TypeOK
      <4>7. count[a] \in Nat /\ exported[a].count \in Nat /\ Cardinality(Swept(a, Base)) \in Nat
        BY TallyTypes
      <4>8. count'[a] + exported[a].count = Cardinality(Swept(a, Base))'
        BY <4>1, <4>5, <4>6, <4>7
      <4> QED BY <4>1, <4>3, <4>8
    <3> QED BY <3>2, <3>3
  <2> QED BY <2>7, <2>8 DEF TallyInv
<1> QED BY <1>0, <1>1

\* A report moves an acquirer's amount and number out of the database.
LEMMA TallyReport ==
    ASSUME PlaceInv, TallyInv, CutoffReport PROVE TallyInv'
<1> USE DEF PlaceInv, daemonVars, dbVars, ghostVars, boundVars
<1>0. CASE restarts # 0
  BY <1>0 DEF TallyInv, CoverInv, ExactInv, CutoffReport
<1>1. CASE restarts = 0
  <2> DEFINE due == {a \in Acquirers : total[a] > 0}
  <2>1. /\ spc = "idle" /\ spc' = "reset" /\ left' = due \X {"total", "count"}
        /\ exported' = [a \in Acquirers |->
               [amount |-> exported[a].amount + total[a],
                count  |-> exported[a].count + (IF a \in due THEN count[a] ELSE 0)]]
        /\ UNCHANGED <<daemonVars, dbVars, pos, held, skipped, crashes, restarts>>
    BY DEF CutoffReport
  <2>2. Base' = Base
    BY <2>1 DEF Base
  <2>3. \A a \in Acquirers : Inserted(a)' = Inserted(a) /\ Swept(a, Base)' = Swept(a, Base)
    BY <2>1, <2>2 DEF Inserted, Swept, Qualifies, Zero
  <2>4. SameTally
    BY <1>1, <2>1, <2>3, SettleSameTally
  <2>5. \A a \in Acquirers :
            /\ exported'[a].amount = exported[a].amount + total[a]
            /\ exported'[a].count = exported[a].count + (IF a \in due THEN count[a] ELSE 0)
    BY <2>1
  <2>6. \A a \in Acquirers : (a \in due <=> total[a] # 0)
                             /\ (<<a, "total">> \in left' <=> a \in due)
                             /\ (<<a, "count">> \in left' <=> a \in due)
    BY <2>1 DEF TypeOK
  <2> HIDE DEF due
  <2>7. CoverInv'
    <3> SUFFICES ASSUME NEW a \in Acquirers
                 PROVE  0 + exported'[a].amount >= AmountOf(Inserted(a))'
      BY <2>1 DEF CoverInv
    <3>1. total[a] + exported[a].amount >= AmountOf(Inserted(a))
      BY <1>1, <2>1 DEF TallyInv, CoverInv
    <3> QED BY <2>4, <2>5, <3>1, TallyTypes DEF SameTally
  <2>8. ExactInv'
    <3> SUFFICES ASSUME crashes = 0
                 PROVE  \A a \in Acquirers :
                           /\ Standing(a, "total", total[a])' + exported'[a].amount
                                 = AmountOf(Inserted(a))'
                           /\ Standing(a, "count", count[a])' + exported'[a].count
                                 = Cardinality(Swept(a, Base))'
      BY <1>1, <2>1, <2>2 DEF TallyInv, ExactInv
    <3> TAKE a \in Acquirers
    <3>1. /\ total[a] + exported[a].amount = AmountOf(Inserted(a))
          /\ count[a] + exported[a].count = Cardinality(Swept(a, Base))
      BY <1>1, <2>1 DEF TallyInv, ExactInv, Standing
    <3>2. /\ Standing(a, "total", total[a])' = 0
          /\ Standing(a, "count", count[a])' = IF a \in due THEN 0 ELSE count[a]
      BY <2>1, <2>6 DEF Standing
    <3>3. /\ AmountOf(Inserted(a))' = AmountOf(Inserted(a))
          /\ Cardinality(Swept(a, Base))' = Cardinality(Swept(a, Base))
      BY <2>4 DEF SameTally
    <3> QED BY <2>5, <3>1, <3>2, <3>3, TallyTypes
  <2> QED BY <2>7, <2>8 DEF TallyInv
<1> QED BY <1>0, <1>1

\* Removing a reported key changes what the database holds, not what is owed.
LEMMA TallyReset ==
    ASSUME PlaceInv, TallyInv, NEW b \in Acquirers, NEW k \in {"total", "count"}, CutoffReset(b, k)
    PROVE  TallyInv'
<1> USE DEF PlaceInv, daemonVars, dbVars, ghostVars, boundVars
<1>0. CASE restarts # 0
  BY <1>0 DEF TallyInv, CoverInv, ExactInv, CutoffReset
<1>1. CASE restarts = 0
  <2>1. /\ spc = "reset" /\ <<b, k>> \in left /\ left' = left \ {<<b, k>>}
        /\ total' = IF k = "total" THEN [total EXCEPT ![b] = 0] ELSE total
        /\ count' = IF k = "count" THEN [count EXCEPT ![b] = 0] ELSE count
        /\ spc' = (IF left' = {} THEN "idle" ELSE "reset")
        /\ UNCHANGED <<daemonVars, cursor, pos, held, exported, skipped, crashes, restarts>>
    BY DEF CutoffReset
  <2>2. Base' = Base
    BY <2>1 DEF Base
  <2>3. \A a \in Acquirers : Inserted(a)' = Inserted(a) /\ Swept(a, Base)' = Swept(a, Base)
    BY <2>1, <2>2 DEF Inserted, Swept, Qualifies, Zero
  <2>4. SameTally
    BY <1>1, <2>1, <2>3, SettleSameTally
  <2>5. \A a \in Acquirers : total'[a] \in Nat
    BY <2>1 DEF TypeOK
  <2>6. CoverInv'
    <3> SUFFICES ASSUME NEW a \in Acquirers
                 PROVE  (IF spc' = "reset" THEN 0 ELSE total'[a]) + exported'[a].amount
                            >= AmountOf(Inserted(a))'
      BY DEF CoverInv
    <3>1. 0 + exported[a].amount >= AmountOf(Inserted(a))
      BY <1>1, <2>1 DEF TallyInv, CoverInv
    <3> QED BY <2>1, <2>4, <2>5, <3>1, TallyTypes DEF SameTally
  <2>7. \A a \in Acquirers :
            /\ Standing(a, "total", total[a])' = Standing(a, "total", total[a])
            /\ Standing(a, "count", count[a])' = Standing(a, "count", count[a])
    <3> TAKE a \in Acquirers
    <3>1. CASE a = b /\ k = "total"
      BY <2>1, <3>1 DEF Standing, TypeOK
    <3>2. CASE a = b /\ k = "count"
      BY <2>1, <3>2 DEF Standing, TypeOK
    <3>3. CASE a # b
      BY <2>1, <3>3 DEF Standing, TypeOK
    <3> QED BY <3>1, <3>2, <3>3
  <2>8. ExactInv'
    BY <1>1, <2>1, <2>2, <2>4, <2>7 DEF TallyInv, ExactInv, SameTally
  <2> QED BY <2>6, <2>8 DEF TallyInv
<1> QED BY <1>0, <1>1

\* A crash gives up the sweep, never what is behind the saved cursor.
LEMMA TallyCrash ==
    ASSUME PlaceInv, TallyInv, SettleCrash PROVE TallyInv'
<1> USE DEF PlaceInv, daemonVars, dbVars, ghostVars, boundVars
<1>1. ExactInv'
  BY DEF ExactInv, SettleCrash, TypeOK
<1>2. CASE restarts # 0
  BY <1>1, <1>2 DEF TallyInv, CoverInv, SettleCrash
<1>3. CASE restarts = 0
  <2>1. spc' = "idle" /\ UNCHANGED <<wal, cursor, total, exported, skipped, restarts>>
    BY DEF SettleCrash
  <2>2. Worth' = Worth
    BY <2>1 DEF Worth, Zero
  <2> SUFFICES ASSUME NEW a \in Acquirers
               PROVE  total[a] + exported[a].amount >= AmountOf(Inserted(a))'
    BY <1>1, <2>1 DEF TallyInv, CoverInv
  <2>3. Inserted(a)' = Swept(a, cursor)
    BY <2>1 DEF Inserted, Base, Swept, Qualifies, Zero
  <2>4. cursor <= Base /\ cursor \in Nat /\ Base \in Nat
    BY <1>3 DEF Base, SweepInv, TypeOK
  <2>5. Swept(a, cursor) \subseteq Inserted(a)
    BY <2>4 DEF Swept, Inserted
  <2>6. /\ SumOver(Worth, Swept(a, cursor)) <= SumOver(Worth, Inserted(a))
        /\ SumOver(Worth, Swept(a, cursor)) \in Nat
    BY <2>5, InsertedFinite, SumMonotone
  <2>7. AmountOf(Inserted(a))' = SumOver(Worth, Swept(a, cursor))
        /\ AmountOf(Inserted(a)) = SumOver(Worth, Inserted(a))
    BY <2>2, <2>3 DEF AmountOf
  <2>8. (IF spc = "reset" THEN 0 ELSE total[a]) + exported[a].amount >= AmountOf(Inserted(a))
    BY <1>3 DEF TallyInv, CoverInv
  <2> QED BY <2>6, <2>7, <2>8, TallyTypes
<1> QED BY <1>2, <1>3
-----------------------------------------------------------------------------
(* The theorems.                                                           *)

\* The invariant holds of an empty log, ...
LEMMA InitWalInv == Init => WalInv
<1> SUFFICES ASSUME Init PROVE WalInv
  OBVIOUS
<1> USE DEF Init
<1>1. TypeOK
  <2>1. wal \in [1 .. WalCap -> Slot]
    BY DEF Slot
  <2>2. exported \in [Acquirers -> Report]
    BY DEF Report
  <2>3. chan \in Seq(Records) /\ Len(chan) <= ChanCap
    BY CapAssumption
  <2> QED BY <2>1, <2>2, <2>3, CapAssumption DEF TypeOK
<1>2. LogInv
  BY CapAssumption DEF LogInv
<1>3. SweepInv
  BY DEF SweepInv, Tallying
<1>4. \A a \in Acquirers : Inserted(a) = {} /\ Swept(a, Base) = {}
  BY DEF Inserted, Swept, Base
<1>5. \A a \in Acquirers : AmountOf(Inserted(a)) = 0 /\ Cardinality(Swept(a, Base)) = 0
  BY <1>4, SumEmpty, FS_EmptySet DEF AmountOf
<1>6. CoverInv
  BY <1>5 DEF CoverInv
<1>7. ExactInv
  BY <1>5 DEF ExactInv, Standing
<1> QED BY <1>1, <1>2, <1>3, <1>6, <1>7 DEF WalInv

\* ... and every step keeps it.
LEMMA NextWalInv == WalInv /\ [Next]_vars => WalInv'
<1> SUFFICES ASSUME WalInv, [Next]_vars PROVE WalInv'
  OBVIOUS
<1> SUFFICES PlaceInv' /\ TallyInv'
  BY DEF WalInv, PlaceInv, TallyInv
<1>0. PlaceInv /\ TallyInv
  BY DEF WalInv, PlaceInv, TallyInv
<1>1. ASSUME NEW r \in Records, JournalAppend(r) PROVE PlaceInv' /\ TallyInv'
  <2>1. /\ UNCHANGED <<dbVars, spc, pos, held, left, ghostVars, boundVars>>
        /\ \A i \in 1 .. WalCap : wal[i] # Zero => wal'[i] # Zero /\ wal'[i].rec = wal[i].rec
    BY <1>1 DEF JournalAppend, Zero
  <2> QED BY <1>0, <1>1, <2>1, PlaceAppend, TallyJournal
<1>2. ASSUME JournalLength PROVE PlaceInv' /\ TallyInv'
  <2>1. UNCHANGED <<dbVars, spc, pos, held, left, ghostVars, boundVars>>
    BY <1>2 DEF JournalLength
  <2>2. PlaceInv' /\ \A i \in 1 .. WalCap : wal[i] # Zero => wal'[i] = wal[i]
    BY <1>0, <1>2, PlaceLength
  <2>3. \A i \in 1 .. WalCap : wal[i] # Zero => wal'[i] # Zero /\ wal'[i].rec = wal[i].rec
    BY <2>2
  <2> QED BY <1>0, <2>1, <2>2, <2>3, TallyJournal
<1>3. ASSUME JournalBody PROVE PlaceInv' /\ TallyInv'
  <2>1. UNCHANGED <<dbVars, spc, pos, held, left, ghostVars, boundVars>>
    BY <1>3 DEF JournalBody
  <2> QED BY <1>0, <1>3, <2>1, PlaceBody, TallyJournal
<1>4. ASSUME DaemonRestart PROVE PlaceInv' /\ TallyInv'
  <2>1. restarts' # 0
    BY <1>0, <1>4 DEF DaemonRestart, PlaceInv, TypeOK
  <2> QED BY <1>0, <1>4, <2>1, PlaceRestart DEF TallyInv, CoverInv, ExactInv
<1>5. ASSUME SweepStart PROVE PlaceInv' /\ TallyInv'
  BY <1>0, <1>5, PlaceStart, TallyStart
<1>6. ASSUME SweepRecord PROVE PlaceInv' /\ TallyInv'
  BY <1>0, <1>6, PlaceRecord, TallyRecord
<1>7. ASSUME InsertTotal PROVE PlaceInv' /\ TallyInv'
  BY <1>0, <1>7, PlaceTotal, TallyTotal
<1>8. ASSUME InsertCount PROVE PlaceInv' /\ TallyInv'
  BY <1>0, <1>8, PlaceCount, TallyCount
<1>9. ASSUME SweepEnd PROVE PlaceInv' /\ TallyInv'
  BY <1>0, <1>9, PlaceEnd, TallyEnd
<1>10. ASSUME NEW a \in Acquirers, NEW k \in {"total", "count"}, CutoffReset(a, k)
       PROVE  PlaceInv' /\ TallyInv'
  BY <1>0, <1>10, PlaceReset, TallyReset
<1>11. ASSUME CutoffReport PROVE PlaceInv' /\ TallyInv'
  BY <1>0, <1>11, PlaceReport, TallyReport
<1>12. ASSUME SettleCrash PROVE PlaceInv' /\ TallyInv'
  BY <1>0, <1>12, PlaceCrash, TallyCrash
<1>13. ASSUME UNCHANGED vars PROVE PlaceInv' /\ TallyInv'
  <2> USE <1>13 DEF vars, daemonVars, dbVars, ghostVars, boundVars
  <2>1. PlaceInv'
    BY <1>0 DEF PlaceInv, TypeOK, LogInv, SweepInv, Tallying, Qualifies
  <2>2. TallyInv'
    BY <1>0, TallyJournal DEF Zero
  <2> QED BY <2>1, <2>2
<1> QED BY <1>1, <1>2, <1>3, <1>4, <1>5, <1>6, <1>7, <1>8, <1>9, <1>10, <1>11, <1>12, <1>13
      DEF Next, DaemonStep, SettleStep

\* WalInv is an invariant: the file is a run of records with at most one body
\* missing, and database, reports and sweep position agree on what was counted
\* (journal.rs, the thread; settle.rs, run_settlement_loop and execute_cutoff).
THEOREM TallyInvariant == Spec => []WalInv
BY InitWalInv, NextWalInv, PTL DEF Spec

\* Every reachable state is well typed: the journal thread never writes past the
\* end of the file (journal.rs, the space check).
THEOREM TypeCorrect == Spec => []TypeOK
<1>1. WalInv => TypeOK
  BY DEF WalInv
<1> QED BY <1>1, TallyInvariant, PTL

\* For any log, channel, records and number of sweeps and cutoffs: as long as
\* neither process dies, amounts and numbers match the log (settle.rs, sweep
\* and cutoff).
THEOREM TallySafety == Spec => []TallyExact
<1>1. WalInv => TallyExact
  <2> SUFFICES ASSUME WalInv, crashes = 0, restarts = 0, spc \in {"idle", "scan"},
                      NEW a \in Acquirers
               PROVE  /\ total[a] + exported[a].amount = AmountOf(Swept(a, Base))
                      /\ count[a] + exported[a].count = Cardinality(Swept(a, Base))
    BY DEF TallyExact, Base
  <2>1. Inserted(a) = Swept(a, Base)
    BY DEF Inserted
  <2> QED BY <2>1 DEF WalInv, ExactInv, Standing
<1> QED BY <1>1, TallyInvariant, PTL

\* However often settle dies, what is behind its saved cursor has been tallied
\* (settle.rs: the cursor is saved after the totals).
THEOREM CoverSafety == Spec => []TalliedAtLeastOnce
<1>1. WalInv => TalliedAtLeastOnce
  <2> SUFFICES ASSUME WalInv, restarts = 0, NEW a \in Acquirers
               PROVE  total[a] + exported[a].amount >= AmountOf(Swept(a, cursor))
    BY DEF TalliedAtLeastOnce
  <2>1. TypeOK /\ SweepInv
    BY DEF WalInv
  <2>2. cursor <= Base /\ cursor \in Nat /\ Base \in Nat
    BY <2>1 DEF Base, SweepInv, TypeOK
  <2>3. Swept(a, cursor) \subseteq Inserted(a)
    BY <2>2 DEF Swept, Inserted
  <2>4. /\ SumOver(Worth, Swept(a, cursor)) <= SumOver(Worth, Inserted(a))
        /\ SumOver(Worth, Swept(a, cursor)) \in Nat
    BY <2>1, <2>3, InsertedFinite, SumMonotone
  <2>5. (IF spc = "reset" THEN 0 ELSE total[a]) + exported[a].amount >= AmountOf(Inserted(a))
    BY DEF WalInv, CoverInv
  <2> QED BY <2>1, <2>4, <2>5, TallyTypes DEF AmountOf
<1> QED BY <1>1, TallyInvariant, PTL
=============================================================================

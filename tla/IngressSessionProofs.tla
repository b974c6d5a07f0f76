----------------------- MODULE IngressSessionProofs -----------------------
(***************************************************************************)
(* Proofs about IngressSession: however reads split the stream, the frames *)
(* are those sent, and an answer and a reversal exclude each other.        *)
(***************************************************************************)
EXTENDS IngressSession, FiniteSetTheorems, SequenceTheorems, WellFoundedInduction, TLAPS

-----------------------------------------------------------------------------
(* Counting the bytes of a stream.                                         *)

\* A non-empty set of natural numbers has a least element.
LEMMA LeastNatural ==
    ASSUME NEW T \in SUBSET Nat, T # {}
    PROVE  \E x \in T : \A y \in T : x <= y
<1>1. \E x \in T : \A y \in T : ~(<<y, x>> \in OpToRel(<, Nat))
  BY NatLessThanWellFounded, WFMin
<1>2. PICK x \in T : \A y \in T : ~(<<y, x>> \in OpToRel(<, Nat))
  BY <1>1
<1>3. \A y \in T : ~(y < x)
  BY <1>2 DEF OpToRel
<1> QED BY <1>3

\* The first n numbers are n.
LEMMA FirstNumbers ==
    ASSUME NEW n \in Nat PROVE IsFiniteSet(1 .. n) /\ Cardinality(1 .. n) = n
BY FS_Interval

\* The places that the first n frames of a connection take.
Places(c, n) == UNION {{i} \X DOMAIN Bytes(Script[c][i]) : i \in 1 .. n}

\* Frame i of a script is a frame and its bytes are numbered from 1.
LEMMA ScriptFrame ==
    ASSUME NEW c \in Conns, NEW i \in 1 .. Len(Script[c])
    PROVE  /\ Script[c][i] \in Frames /\ Size[Script[c][i]] \in Nat
           /\ DOMAIN Bytes(Script[c][i]) = 1 .. Size[Script[c][i]] + 2
<1>1. Script[c] \in Seq(Frames)
  BY FrameAssumption
<1>2. Script[c][i] \in Frames
  BY <1>1
<1> QED BY <1>2, FrameAssumption DEF Bytes

\* A script is a sequence.
LEMMA ScriptLen == ASSUME NEW c \in Conns
                   PROVE  Len(Script[c]) \in Nat /\ DOMAIN Script[c] = 1 .. Len(Script[c])
<1>1. Script[c] \in Seq(Frames)
  BY FrameAssumption
<1> QED BY <1>1

\* They are finitely many.
LEMMA PlacesFinite ==
    ASSUME NEW c \in Conns, NEW n \in 0 .. Len(Script[c])
    PROVE  IsFiniteSet(Places(c, n)) /\ Before(c, n) = Cardinality(Places(c, n)) /\ Before(c, n) \in Nat
<1> DEFINE g == [i \in 1 .. n |-> {i} \X DOMAIN Bytes(Script[c][i])]
           T == {{i} \X DOMAIN Bytes(Script[c][i]) : i \in 1 .. n}
<1>1. g \in Surjection(1 .. n, T)
  BY DEF Surjection
<1>2. IsFiniteSet(1 .. n)
  BY ScriptLen, FS_Interval
<1>3. IsFiniteSet(T)
  BY <1>1, <1>2, FS_Surjection
<1>4. \A i \in 1 .. n : IsFiniteSet({i} \X DOMAIN Bytes(Script[c][i]))
  <2> TAKE i \in 1 .. n
  <2>1. i \in 1 .. Len(Script[c])
    BY ScriptLen
  <2> DEFINE b == Size[Script[c][i]] + 2
  <2>2. b \in Nat /\ DOMAIN Bytes(Script[c][i]) = 1 .. b
    BY <2>1, ScriptFrame
  <2> HIDE DEF b
  <2>3. IsFiniteSet({i})
    BY FS_Singleton
  <2>4. IsFiniteSet(DOMAIN Bytes(Script[c][i]))
    BY <2>2, FirstNumbers
  <2> QED BY <2>3, <2>4, FS_Product
<1>5. \A U \in T : IsFiniteSet(U)
  BY <1>4
<1>6. IsFiniteSet(Places(c, n))
  BY <1>3, <1>5, FS_UNION DEF Places
<1> QED BY <1>6, FS_CardinalityType DEF Before, Places

\* Nothing comes before the first frame.
LEMMA BeforeZero == ASSUME NEW c \in Conns PROVE Before(c, 0) = 0
<1>1. Places(c, 0) = {}
  BY DEF Places
<1> QED BY <1>1, FS_EmptySet DEF Before, Places

\* A frame takes its payload and two bytes more.
LEMMA BeforeNext ==
    ASSUME NEW c \in Conns, NEW n \in 0 .. Len(Script[c]) - 1
    PROVE  Before(c, n + 1) = Before(c, n) + Size[Script[c][n + 1]] + 2
<1> DEFINE f == Script[c][n + 1]
           A == Places(c, n)
           X == {n + 1} \X (1 .. Size[f] + 2)
<1>0. /\ n \in 0 .. Len(Script[c]) /\ n + 1 \in 0 .. Len(Script[c])
      /\ n + 1 \in 1 .. Len(Script[c]) /\ n \in Nat
  BY ScriptLen
<1>1. Size[f] \in Nat /\ DOMAIN Bytes(f) = 1 .. Size[f] + 2
  BY <1>0, ScriptFrame
<1>2. Places(c, n + 1) = A \cup X
  <2>1. 1 .. n + 1 = (1 .. n) \cup {n + 1}
    BY <1>0
  <2> QED BY <1>1, <2>1 DEF Places
<1>3. A \cap X = {}
  <2>1. n + 1 \notin 1 .. n
    BY <1>0
  <2> QED BY <2>1 DEF Places
<1>4. IsFiniteSet(A) /\ Cardinality(A) = Before(c, n) /\ Before(c, n) \in Nat
  BY <1>0, PlacesFinite
<1>5. IsFiniteSet(X) /\ Cardinality(X) = Size[f] + 2
  <2>1. IsFiniteSet({n + 1}) /\ Cardinality({n + 1}) = 1
    BY FS_Singleton
  <2>2. IsFiniteSet(1 .. Size[f] + 2) /\ Cardinality(1 .. Size[f] + 2) = Size[f] + 2
    <3> DEFINE b == Size[f] + 2
    <3>1. b \in Nat
      BY <1>1
    <3> HIDE DEF b
    <3>2. IsFiniteSet(1 .. b) /\ Cardinality(1 .. b) = b
      BY <3>1, FirstNumbers
    <3> QED BY <3>2 DEF b
  <2>3. IsFiniteSet(X) /\ Cardinality(X) = Cardinality({n + 1}) * Cardinality(1 .. Size[f] + 2)
    BY <2>1, <2>2, FS_Product
  <2> QED BY <1>1, <2>1, <2>2, <2>3
<1> HIDE DEF f, A, X
<1>6. Cardinality(A \cup X) = Cardinality(A) + Cardinality(X) - Cardinality(A \cap X)
  BY <1>4, <1>5, FS_Union
<1>7. Cardinality(A \cap X) = 0
  BY <1>3, FS_EmptySet
<1>8. Before(c, n + 1) = Cardinality(A \cup X)
  BY <1>0, <1>2, PlacesFinite
<1> QED BY <1>1, <1>4, <1>5, <1>6, <1>7, <1>8 DEF f

\* More frames take no fewer bytes.
LEMMA BeforeMonotone ==
    ASSUME NEW c \in Conns, NEW n \in 0 .. Len(Script[c]), NEW m \in 0 .. n
    PROVE  Before(c, m) <= Before(c, n) /\ Before(c, m) \in Nat /\ Before(c, n) \in Nat
<1>1. m \in 0 .. Len(Script[c]) /\ 1 .. m \subseteq 1 .. n
  BY ScriptLen
<1>2. Places(c, m) \in SUBSET Places(c, n)
  BY <1>1 DEF Places
<1>3. IsFiniteSet(Places(c, n)) /\ Before(c, n) = Cardinality(Places(c, n)) /\ Before(c, n) \in Nat
  BY PlacesFinite
<1>4. Before(c, m) = Cardinality(Places(c, m)) /\ Before(c, m) \in Nat
  BY <1>1, PlacesFinite
<1> QED BY <1>2, <1>3, <1>4, FS_Subset

\* Byte k of frame n + 1 follows the bytes of the first n frames.
LEMMA StreamAt ==
    ASSUME NEW c \in Conns, NEW n \in 0 .. Len(Script[c]) - 1,
           NEW k \in 1 .. Size[Script[c][n + 1]] + 2
    PROVE  /\ Before(c, n) + k \in 1 .. Before(c, Len(Script[c]))
           /\ Stream(c)[Before(c, n) + k] = <<Script[c][n + 1], k>>
<1> DEFINE p == Before(c, n) + k
           N == Len(Script[c])
           R(i) == Before(c, i - 1) < p /\ p <= Before(c, i)
<1>0. /\ N \in Nat /\ DOMAIN Script[c] = 1 .. N /\ n \in 0 .. N /\ n + 1 \in 0 .. N
      /\ n + 1 \in 1 .. N /\ n \in Nat /\ N \in 0 .. N
  BY ScriptLen
<1>1. Size[Script[c][n + 1]] \in Nat /\ DOMAIN Bytes(Script[c][n + 1]) = 1 .. Size[Script[c][n + 1]] + 2
  BY <1>0, ScriptFrame
<1>2. Before(c, n + 1) = Before(c, n) + Size[Script[c][n + 1]] + 2
  BY BeforeNext
<1>3. Before(c, n) \in Nat /\ Before(c, n + 1) \in Nat /\ Before(c, N) \in Nat
      /\ Before(c, n + 1) <= Before(c, N)
  <2>1. Before(c, n) \in Nat
    BY <1>0, PlacesFinite
  <2> HIDE DEF N
  <2>2. n + 1 \in 0 .. N /\ N \in 0 .. Len(Script[c])
    BY <1>0 DEF N
  <2> QED BY <2>1, <2>2, BeforeMonotone
<1>4. k \in Nat /\ k >= 1 /\ p \in 1 .. Before(c, N) /\ R(n + 1)
  <2>1. k \in Nat /\ k >= 1 /\ k <= Size[Script[c][n + 1]] + 2
    BY <1>1
  <2>2. (n + 1) - 1 = n
    BY <1>0
  <2>3. p <= Before(c, n + 1) /\ p > Before(c, n)
    <3> DEFINE z == Size[Script[c][n + 1]]
               x == Before(c, n)
               y == Before(c, n + 1)
    <3>1. z \in Nat /\ x \in Nat /\ y = x + z + 2 /\ k \in Nat /\ k >= 1 /\ k <= z + 2
      BY <1>1, <1>2, <1>3, <2>1
    <3> HIDE DEF x, y, z
    <3>2. x + k <= y /\ x + k > x
      BY <3>1
    <3> QED BY <3>2 DEF x, y
  <2>4. R(n + 1)
    BY <2>2, <2>3
  <2> QED BY <1>3, <2>1, <2>3, <2>4
<1>5. ASSUME NEW i \in 1 .. N, R(i) PROVE i = n + 1
  <2>0. i \in Nat /\ i \in 0 .. N /\ i - 1 \in 0 .. N /\ Before(c, i) \in Nat /\ Before(c, i - 1) \in Nat
    <3>1. i \in Nat /\ i \in 0 .. N /\ i - 1 \in 0 .. N
      BY <1>0
    <3> QED BY <3>1, PlacesFinite
  <2>1. CASE i < n + 1
    <3>1. i \in 0 .. n
      BY <1>0, <2>0, <2>1
    <3>2. Before(c, i) <= Before(c, n)
      BY <1>0, <3>1, BeforeMonotone
    <3> QED BY <1>3, <1>4, <1>5, <2>0, <3>2
  <2>2. CASE i > n + 1
    <3>1. n + 1 \in 0 .. i - 1
      BY <1>0, <2>0, <2>2
    <3>2. Before(c, n + 1) <= Before(c, i - 1)
      BY <2>0, <3>1, BeforeMonotone
    <3> QED BY <1>3, <1>4, <1>5, <2>0, <3>2
  <2> QED BY <1>0, <2>0, <2>1, <2>2
<1>6. (CHOOSE i \in DOMAIN Script[c] : R(i)) = n + 1
  <2> HIDE DEF R
  <2> QED BY <1>0, <1>4, <1>5
<1>7. Stream(c)[p] = Bytes(Script[c][n + 1])[p - Before(c, (n + 1) - 1)]
  BY <1>4, <1>6 DEF Stream
<1>8. (n + 1) - 1 = n /\ p - Before(c, n) = k
  BY <1>0, <1>3, <1>4
<1>9. Bytes(Script[c][n + 1])[k] = <<Script[c][n + 1], k>>
  BY <1>1 DEF Bytes
<1> QED BY <1>4, <1>7, <1>8, <1>9

\* The stream is a sequence of bytes: every place of it is a byte of some frame.
LEMMA StreamType ==
    ASSUME NEW c \in Conns
    PROVE  /\ Stream(c) \in Seq(Byte) /\ Len(Stream(c)) = Before(c, Len(Script[c]))
           /\ Before(c, Len(Script[c])) \in Nat
<1> DEFINE N == Len(Script[c])
           L == Before(c, N)
<1>0. N \in Nat /\ N \in 0 .. N
  BY ScriptLen
<1>1. L \in Nat
  BY <1>0, PlacesFinite
<1>2. ASSUME NEW p \in 1 .. L PROVE Stream(c)[p] \in Byte
  <2> DEFINE T == {i \in 0 .. N : p <= Before(c, i)}
  <2>1. N \in T /\ T \in SUBSET Nat
    BY <1>0, <1>1
  <2>2. PICK i \in T : \A j \in T : i <= j
    BY <2>1, LeastNatural
  <2>3. i # 0
    BY <1>1, BeforeZero
  <2> DEFINE n == i - 1
             k == p - Before(c, n)
  <2>4. i \in 0 .. N /\ n \in 0 .. N - 1 /\ n \in 0 .. N /\ n + 1 = i /\ n \notin T
    BY <1>0, <2>2, <2>3
  <2>5. Before(c, n) \in Nat /\ p <= Before(c, i) /\ Before(c, n) < p
    BY <1>1, <2>4, PlacesFinite
  <2>6. Before(c, i) = Before(c, n) + Size[Script[c][i]] + 2
    BY <2>4, BeforeNext
  <2>7. Script[c][i] \in Frames /\ Size[Script[c][i]] \in Nat
    BY <1>0, <2>3, <2>4, ScriptFrame
  <2>8. k \in 1 .. Size[Script[c][i]] + 2 /\ p = Before(c, n) + k /\ k \in Nat
    <3> DEFINE z == Size[Script[c][i]]
               x == Before(c, n)
               y == Before(c, i)
    <3>1. z \in Nat /\ x \in Nat /\ y = x + z + 2 /\ p \in Nat /\ p <= y /\ x < p /\ k = p - x
      BY <1>1, <2>5, <2>6, <2>7
    <3> HIDE DEF x, y, z, k
    <3>2. k \in 1 .. z + 2 /\ p = x + k /\ k \in Nat
      BY <3>1
    <3> QED BY <3>2 DEF x, z
  <2> HIDE DEF n, k
  <2>9. Stream(c)[Before(c, n) + k] = <<Script[c][n + 1], k>>
    BY <2>4, <2>8, StreamAt
  <2> QED BY <2>4, <2>7, <2>8, <2>9 DEF Byte
<1>3. DOMAIN Stream(c) = 1 .. L
  BY DEF Stream
<1>4. Stream(c) = [p \in 1 .. L |-> Stream(c)[p]]
  BY <1>3 DEF Stream
<1> QED BY <1>1, <1>2, <1>3, <1>4
-----------------------------------------------------------------------------
(* Ranges of sequences.                                                    *)

\* Appending adds one element ...
LEMMA RangeAppend ==
    ASSUME NEW S, NEW s \in Seq(S), NEW x \in S
    PROVE  Range(Append(s, x)) = Range(s) \cup {x}
<1>1. /\ Append(s, x) \in Seq(S) /\ Len(Append(s, x)) = Len(s) + 1
      /\ \A i \in 1 .. Len(s) : Append(s, x)[i] = s[i]
      /\ Append(s, x)[Len(s) + 1] = x
  BY AppendProperties
<1>2. DOMAIN s = 1 .. Len(s) /\ Len(s) \in Nat /\ DOMAIN Append(s, x) = 1 .. Len(s) + 1
  BY <1>1
<1>3. \A i \in 1 .. Len(s) : i \in 1 .. Len(s) + 1 /\ i # Len(s) + 1
  BY <1>2
<1>4. Len(s) + 1 \in 1 .. Len(s) + 1
  BY <1>2
<1>5. \A i \in 1 .. Len(s) + 1 : i = Len(s) + 1 \/ i \in 1 .. Len(s)
  BY <1>2
<1> QED BY <1>1, <1>2, <1>3, <1>4, <1>5 DEF Range

\* ... and taking the head off adds none.
LEMMA RangeTail ==
    ASSUME NEW S, NEW s \in Seq(S), s # <<>>
    PROVE  Range(Tail(s)) \subseteq Range(s) /\ Head(s) \in Range(s)
<1>1. Tail(s) \in Seq(S) /\ Len(Tail(s)) = Len(s) - 1
      /\ \A i \in 1 .. Len(Tail(s)) : Tail(s)[i] = s[i + 1]
  BY HeadTailProperties
<1>2. DOMAIN s = 1 .. Len(s) /\ DOMAIN Tail(s) = 1 .. Len(s) - 1 /\ Len(s) \in Nat /\ Len(s) >= 1
  BY <1>1
<1>3. \A i \in 1 .. Len(s) - 1 : i + 1 \in 1 .. Len(s)
  BY <1>2
<1>4. Head(s) = s[1] /\ 1 \in 1 .. Len(s)
  BY <1>2
<1> QED BY <1>1, <1>2, <1>3, <1>4 DEF Range
-----------------------------------------------------------------------------
(* Steps that leave a part of the invariant alone.                         *)

\* The counter is right while no session starts or ends.
LEMMA ConnsKept == ASSUME ConnsInv, UNCHANGED <<session, conns>> PROVE ConnsInv'
<1>1. Readers' = Readers
  BY DEF Readers
<1> QED BY <1>1 DEF ConnsInv

\* Bytes keep their places while nothing is read or decoded.
LEMMA StreamKept ==
    ASSUME StreamInv, UNCHANGED <<line, buf, decoded>>,
           \A f \in Frames : task[f] = "none" => task'[f] = "none"
    PROVE  StreamInv'
<1>1. \A c \in Conns : \A i \in DOMAIN Script[c] : Script[c][i] \in Frames
  BY ScriptFrame, ScriptLen
<1>2. ASSUME NEW c \in Conns PROVE Placed(c)'
  <2>1. Placed(c)
    BY DEF StreamInv
  <2> QED BY <1>1, <2>1 DEF Placed
<1> QED BY <1>2 DEF StreamInv

\* Nothing new is answered or reversed, and ended tasks stay ended.
LEMMA OnceKept ==
    ASSUME TypeOK, OnceInv, Reversing' \subseteq Reversing, Answering' \subseteq Answering,
           \A f \in Frames : task[f] = "done" => task'[f] = "done"
    PROVE  OnceInv'
<1>1. Reversing' \cup Answering' \subseteq Reversing \cup Answering
  OBVIOUS
<1>2. Reversing \cup Answering \subseteq Frames
  BY DEF Reversing, Answering, TypeOK
<1> QED BY <1>1, <1>2 DEF OnceInv

\* What only the contexts, or only the answers, are made of.
LEMMA ReversingKept == ASSUME UNCHANGED <<core, worker, upstream>> PROVE Reversing' = Reversing
BY DEF Reversing

\* ... and what only the answers are made of.
LEMMA AnsweringKept == ASSUME UNCHANGED <<delivered, fed, queue>> PROVE Answering' = Answering
BY DEF Answering

\* Every frame is sent on some connection.
LEMMA ConnOfFrame ==
    ASSUME NEW f \in Frames PROVE ConnOf(f) \in Conns /\ f \in Range(Script[ConnOf(f)])
BY FrameAssumption DEF ConnOf
-----------------------------------------------------------------------------
(* The connection.                                                         *)

\* Hanging up changes the socket only.
LEMMA HangUpInv ==
    ASSUME SessionInv, NEW c \in Conns, NEW s \in {"half", "down"}, HangUp(c, s)
    PROVE  SessionInv'
<1> USE DEF SessionInv, HangUp, peerVars, readVars, writeVars, coreVars
<1>1. TypeOK'
  BY DEF TypeOK
<1>2. ConnsInv'
  BY ConnsKept
<1>3. StreamInv'
  BY StreamKept
<1>4. OnceInv'
  BY OnceKept, ReversingKept, AnsweringKept
<1> QED BY <1>1, <1>2, <1>3, <1>4

\* A terminal that stops reading changes nothing else.
LEMMA StopReadingInv ==
    ASSUME SessionInv, NEW c \in Conns, StopReading(c) PROVE SessionInv'
<1> USE DEF SessionInv, StopReading, peerVars, readVars, writeVars, coreVars
<1>1. TypeOK'
  BY DEF TypeOK
<1>2. ConnsInv'
  BY ConnsKept
<1>3. StreamInv'
  BY StreamKept
<1>4. OnceInv'
  BY OnceKept, ReversingKept, AnsweringKept
<1> QED BY <1>1, <1>2, <1>3, <1>4

\* An accepted connection is counted.
LEMMA AcceptInv ==
    ASSUME SessionInv, NEW c \in Conns, Accept(c) PROVE SessionInv'
<1> USE DEF SessionInv, Accept, peerVars, readVars, writeVars, coreVars
<1>1. TypeOK'
  BY DEF TypeOK
<1>2. ConnsInv'
  <2>1. Readers' = Readers \cup {c} /\ c \notin Readers
    BY DEF Readers, TypeOK
  <2> QED BY <2>1, FS_AddElement DEF ConnsInv
<1>3. StreamInv'
  BY StreamKept
<1>4. OnceInv'
  BY OnceKept, ReversingKept, AnsweringKept
<1> QED BY <1>1, <1>2, <1>3, <1>4

\* A connection that is counted off was counted.
LEMMA EndSessionInv ==
    ASSUME SessionInv, NEW c \in Conns, EndSession(c) PROVE SessionInv'
<1> USE DEF SessionInv, EndSession, peerVars, readVars, writeVars, coreVars
<1>1. Readers' = Readers \ {c} /\ c \in Readers
  BY DEF Readers, TypeOK
<1>2. IsFiniteSet(Readers') /\ conns' = Cardinality(Readers')
  BY <1>1, FS_RemoveElement DEF ConnsInv
<1>3. TypeOK'
  <2>1. conns' \in Nat
    BY <1>2, FS_CardinalityType
  <2> QED BY <2>1 DEF TypeOK
<1>4. StreamInv'
  BY StreamKept
<1>5. OnceInv'
  BY OnceKept, ReversingKept, AnsweringKept
<1> QED BY <1>2, <1>3, <1>4, <1>5 DEF ConnsInv

\* A read moves bytes from the line to the buffer and keeps their places.
LEMMA ArriveInv ==
    ASSUME SessionInv, NEW c \in Conns, NEW n \in 1 .. Len(line[c]), Arrive(c, n)
    PROVE  SessionInv'
<1> USE DEF SessionInv, peerVars, readVars, writeVars, coreVars
<1>0. /\ buf' = [buf EXCEPT ![c] = @ \o SubSeq(line[c], 1, n)]
      /\ line' = [line EXCEPT ![c] = SubSeq(@, n + 1, Len(@))]
      /\ UNCHANGED <<peerVars, decoded, session, conns, task, slot, writeVars, core, coreVars>>
  BY DEF Arrive
<1>1. TypeOK'
  BY <1>0 DEF TypeOK
<1>2. ConnsInv'
  BY <1>0, ConnsKept
<1>3. OnceInv'
  BY <1>0, OnceKept, ReversingKept, AnsweringKept
<1>4. StreamInv'
  <2> DEFINE l == line[c]
             b == buf[c]
             got == SubSeq(l, 1, n)
             rest == SubSeq(l, n + 1, Len(l))
  <2>1. l \in Seq(Byte) /\ b \in Seq(Byte) /\ n \in Nat /\ n >= 1 /\ n <= Len(l)
    BY DEF StreamInv
  <2>2. got \in Seq(Byte) /\ Len(got) = n /\ \A i \in 1 .. n : got[i] = l[i]
    BY <2>1
  <2>3. rest \in Seq(Byte) /\ Len(rest) = Len(l) - n
        /\ \A i \in 1 .. Len(l) - n : rest[i] = l[n + i]
    <3>1. \A i \in n + 1 .. Len(l) : l[i] \in Byte
      BY <2>1
    <3>2. rest \in Seq(Byte) /\ Len(rest) = IF n + 1 <= Len(l) THEN Len(l) - (n + 1) + 1 ELSE 0
      BY <2>1, <3>1, SubSeqProperties
    <3>3. \A i \in 1 .. Len(l) - (n + 1) + 1 : rest[i] = l[(n + 1) + i - 1]
      BY <2>1, <3>1, SubSeqProperties
    <3>4. Len(rest) = Len(l) - n
      BY <2>1, <3>2
    <3>5. ASSUME NEW i \in 1 .. Len(l) - n PROVE rest[i] = l[n + i]
      <4>1. i \in 1 .. Len(l) - (n + 1) + 1 /\ (n + 1) + i - 1 = n + i
        BY <2>1
      <4> QED BY <3>3, <4>1
    <3> QED BY <3>2, <3>4, <3>5
  <2>4. /\ buf'[c] = b \o got /\ line'[c] = rest
        /\ buf' = [buf EXCEPT ![c] = b \o got] /\ line' = [line EXCEPT ![c] = rest]
    BY <1>0 DEF StreamInv
  <2> HIDE DEF got, rest
  <2>5. /\ b \o got \in Seq(Byte) /\ Len(b \o got) = Len(b) + n
        /\ \A i \in 1 .. Len(b) : (b \o got)[i] = b[i]
        /\ \A i \in 1 .. n : (b \o got)[Len(b) + i] = got[i]
    <3> HIDE DEF b, l
    <3>1. /\ b \o got \in Seq(Byte) /\ Len(b \o got) = Len(b) + Len(got)
          /\ \A i \in 1 .. Len(b) + Len(got) :
                (b \o got)[i] = IF i <= Len(b) THEN b[i] ELSE got[i - Len(b)]
      BY <2>1, <2>2, ConcatProperties, ZenonT(40)
    <3>2. Len(b) \in Nat
      BY <2>1
    <3>3. ASSUME NEW i \in 1 .. Len(b) PROVE (b \o got)[i] = b[i]
      BY <2>1, <2>2, <3>1, <3>2
    <3>4. ASSUME NEW i \in 1 .. n PROVE (b \o got)[Len(b) + i] = got[i]
      <4>1. /\ Len(b) + i \in 1 .. Len(b) + Len(got) /\ ~(Len(b) + i <= Len(b))
            /\ (Len(b) + i) - Len(b) = i
        BY <2>1, <2>2, <3>2
      <4> QED BY <3>1, <4>1
    <3> QED BY <2>2, <3>1, <3>3, <3>4
  <2>6. line' \in [Conns -> Seq(Byte)] /\ buf' \in [Conns -> Seq(Byte)]
        /\ decoded' \in [Conns -> Seq(Seq(Byte))]
    BY <1>0, <2>3, <2>4, <2>5 DEF StreamInv
  <2> DEFINE m == Len(decoded[c])
             p == Before(c, m)
             q == p + Len(b)
             N == Before(c, Len(Script[c]))
  <2>7. /\ m <= Len(Script[c]) /\ \A i \in 1 .. m : decoded[c][i] = Body(Script[c][i])
        /\ \A i \in 1 .. Len(b) : b[i] = Stream(c)[p + i]
        /\ \A i \in 1 .. Len(l) : l[i] = Stream(c)[q + i]
        /\ q + Len(l) = N
        /\ \A i \in DOMAIN Script[c] : i > m => task[Script[c][i]] = "none"
    BY DEF StreamInv, Placed
  <2>8. p \in Nat
    <3>1. m \in 0 .. Len(Script[c])
      BY <2>7, ScriptLen DEF StreamInv
    <3> QED BY <3>1, PlacesFinite
  <2> DEFINE B == b \o got
             r == p + Len(B)
  <2>9. \A i \in 1 .. Len(B) : B[i] = Stream(c)[p + i]
    <3> SUFFICES ASSUME NEW i \in 1 .. Len(B) PROVE B[i] = Stream(c)[p + i]
      OBVIOUS
    <3>1. CASE i <= Len(b)
      BY <2>1, <2>5, <2>7, <3>1
    <3>2. CASE i > Len(b)
      <4> DEFINE j == i - Len(b)
      <4>1. j \in 1 .. n /\ j \in 1 .. Len(l) /\ i = Len(b) + j /\ p + i = q + j
        BY <2>1, <2>5, <2>8, <3>2, SMTT(30)
      <4>2. B[Len(b) + j] = l[j]
        BY <2>2, <2>5, <4>1
      <4>3. l[j] = Stream(c)[q + j]
        BY <2>7, <4>1
      <4> QED BY <4>1, <4>2, <4>3
    <3> QED BY <2>1, <3>1, <3>2
  <2>10. r = q + n
    BY <2>1, <2>5, <2>8
  <2>11. \A i \in 1 .. Len(rest) : rest[i] = Stream(c)[r + i]
    <3> SUFFICES ASSUME NEW i \in 1 .. Len(rest) PROVE rest[i] = Stream(c)[r + i]
      OBVIOUS
    <3>1. n + i \in 1 .. Len(l) /\ r + i = q + (n + i) /\ i \in 1 .. Len(l) - n
      BY <2>1, <2>3, <2>8, <2>10, SMTT(30)
    <3> QED BY <2>3, <2>7, <3>1
  <2>12. r + Len(rest) = N
    BY <2>1, <2>3, <2>7, <2>8, <2>10
  <2> HIDE DEF l, b, m, p, q, N, B, r
  <2>13. ASSUME NEW d \in Conns, d # c
         PROVE  buf'[d] = buf[d] /\ line'[d] = line[d]
    BY <1>0, <2>13 DEF StreamInv
  <2>14. decoded' = decoded /\ task' = task
    BY <1>0
  <2> SUFFICES ASSUME NEW d \in Conns PROVE Placed(d)'
    BY <2>6 DEF StreamInv
  <2>15. CASE d = c
    <3>1. buf'[d] = B /\ line'[d] = rest /\ decoded'[d] = decoded[c] /\ task' = task
      BY <2>4, <2>14, <2>15 DEF B
    <3>2. Len(decoded'[d]) = m /\ Before(d, Len(decoded'[d])) = p
          /\ Before(d, Len(decoded'[d])) + Len(buf'[d]) = r
      BY <2>15, <3>1 DEF m, p, r
    <3> HIDE DEF got, rest
    <3> QED BY <2>7, <2>9, <2>11, <2>12, <2>15, <3>1, <3>2 DEF Placed, N
  <2>16. CASE d # c
    <3>1. Placed(d)
      BY DEF StreamInv
    <3> QED BY <2>13, <2>14, <2>16, <3>1 DEF Placed
  <2> QED BY <2>15, <2>16
<1> QED BY <1>1, <1>2, <1>3, <1>4

\* A complete buffer begins with the frame after those decoded, whole.
LEMMA NextFrame ==
    ASSUME StreamInv, NEW c \in Conns, Complete(buf[c]), NEW n, n = Len(decoded[c]),
           NEW f, f = Script[c][n + 1]
    PROVE  /\ n \in 0 .. Len(Script[c]) - 1 /\ f \in Frames /\ Size[f] \in Nat
           /\ buf[c][1][1] = f /\ FrameLength(buf[c]) = Size[f] /\ Size[f] + 2 <= Len(buf[c])
           /\ \A i \in 1 .. Size[f] + 2 : buf[c][i] = <<f, i>>
<1> DEFINE b == buf[c]
           N == Len(Script[c])
           p == Before(c, n)
<1>1. /\ b \in Seq(Byte) /\ Len(b) \in Nat /\ Len(b) >= 2 /\ Len(b) >= 2 + FrameLength(b)
      /\ line[c] \in Seq(Byte) /\ Len(line[c]) \in Nat /\ n \in Nat
  BY DEF StreamInv, Complete
<1>2. /\ n <= N /\ \A i \in 1 .. Len(b) : b[i] = Stream(c)[p + i]
      /\ p + Len(b) + Len(line[c]) = Before(c, N)
  BY DEF StreamInv, Placed
<1>3. N \in Nat /\ n \in 0 .. N
  BY <1>1, <1>2, ScriptLen
<1>4. p \in Nat
  BY <1>3, PlacesFinite
<1>5. n # N
  <2> SUFFICES ASSUME n = N PROVE FALSE
    OBVIOUS
  <2> DEFINE x == Before(c, N)
  <2>1. p = x
    OBVIOUS
  <2> HIDE DEF x, p, N
  <2> QED BY <1>1, <1>2, <1>4, <2>1, SMTT(30) DEF x
<1>6. n \in 0 .. N - 1 /\ n + 1 \in 1 .. N
  BY <1>3, <1>5
<1>7. f \in Frames /\ Size[f] \in Nat
  BY <1>6, ScriptFrame
<1>8. \A k \in 1 .. Size[f] + 2 : Stream(c)[p + k] = <<f, k>>
  BY <1>6, StreamAt
<1> HIDE DEF p, N
<1>9. b[1][1] = f
  <2>1. 1 \in 1 .. Len(b) /\ 1 \in 1 .. Size[f] + 2
    BY <1>1, <1>7
  <2>2. b[1] = <<f, 1>>
    BY <1>2, <1>8, <2>1
  <2> QED BY <2>2
<1>10. FrameLength(b) = Size[f]
  BY <1>9 DEF FrameLength
<1>11. Size[f] + 2 <= Len(b)
  BY <1>1, <1>7, <1>10
<1>12. ASSUME NEW i \in 1 .. Size[f] + 2 PROVE b[i] = <<f, i>>
  <2>1. i \in 1 .. Len(b)
    BY <1>1, <1>7, <1>11
  <2> QED BY <1>2, <1>8, <2>1
<1> QED BY <1>6, <1>7, <1>9, <1>10, <1>11, <1>12 DEF N

\* Its payload is what the terminal sent ...
LEMMA PayloadIsBody ==
    ASSUME StreamInv, NEW c \in Conns, Complete(buf[c]), NEW n, n = Len(decoded[c]),
           NEW f, f = Script[c][n + 1]
    PROVE  Payload(buf[c]) = Body(f) /\ Payload(buf[c]) \in Seq(Byte)
<1> DEFINE b == buf[c]
           e == Size[f] + 2
<1>1. /\ f \in Frames /\ Size[f] \in Nat /\ FrameLength(b) = Size[f]
      /\ \A i \in 1 .. e : b[i] = <<f, i>>
  <2>1. f \in Frames /\ Size[f] \in Nat /\ FrameLength(b) = Size[f]
    BY NextFrame
  <2>2. ASSUME NEW i \in 1 .. Size[f] + 2 PROVE buf[c][i] = <<f, i>>
    BY <2>2, NextFrame, SMTT(30)
  <2> QED BY <2>1, <2>2
<1>2. e \in Int /\ e >= 2 /\ e = 2 + Size[f]
  BY <1>1, SMTT(30)
<1>3. Bytes(f) = [i \in 1 .. e |-> <<f, i>>]
  BY DEF Bytes
<1>4. Payload(b) = SubSeq(b, 3, e) /\ Body(f) = SubSeq(Bytes(f), 3, e)
  BY <1>1, <1>2 DEF Payload, Body
<1> DEFINE P == SubSeq(b, 3, e)
           Q == SubSeq(Bytes(f), 3, e)
<1> HIDE DEF b, e
<1>5. \A i \in 3 .. e : b[i] = Bytes(f)[i] /\ b[i] \in Byte /\ Bytes(f)[i] \in Byte
  <2> TAKE i \in 3 .. e
  <2>1. i \in 1 .. e /\ i \in Nat
    BY <1>2
  <2>2. <<f, i>> \in Byte
    BY <1>1, <2>1 DEF Byte
  <2> QED BY <1>1, <1>3, <2>1, <2>2
<1>6. /\ P \in Seq(Byte) /\ Len(P) = IF 3 <= e THEN e - 3 + 1 ELSE 0
      /\ \A i \in 1 .. e - 3 + 1 : P[i] = b[3 + i - 1]
  <2>1. 3 \in Int /\ e \in Int /\ \A i \in 3 .. e : b[i] \in Byte
    BY <1>2, <1>5
  <2> QED BY ONLY <2>1, SubSeqProperties DEF P
<1>7. /\ Q \in Seq(Byte) /\ Len(Q) = IF 3 <= e THEN e - 3 + 1 ELSE 0
      /\ \A i \in 1 .. e - 3 + 1 : Q[i] = Bytes(f)[3 + i - 1]
  <2>1. 3 \in Int /\ e \in Int /\ \A i \in 3 .. e : Bytes(f)[i] \in Byte
    BY <1>2, <1>5
  <2> QED BY ONLY <2>1, SubSeqProperties DEF Q
<1> HIDE DEF P, Q
<1>8. \A i \in 1 .. Len(P) : P[i] = Q[i]
  <2> TAKE i \in 1 .. Len(P)
  <2>1. i \in 1 .. e - 3 + 1 /\ 3 + i - 1 \in 3 .. e
    BY <1>2, <1>6, SMTT(30)
  <2> QED BY <1>5, <1>6, <1>7, <2>1
<1>9. P = Q
  BY <1>6, <1>7, <1>8, SeqEqual
<1> QED BY <1>4, <1>6, <1>9 DEF P, Q, b

\* ... and what is left in the buffer continues the stream.
LEMMA RestContinues ==
    ASSUME StreamInv, NEW c \in Conns, Complete(buf[c]), NEW n, n = Len(decoded[c]),
           NEW f, f = Script[c][n + 1]
    PROVE  /\ Rest(buf[c]) \in Seq(Byte)
           /\ Before(c, n + 1) \in Nat
           /\ Before(c, n + 1) + Len(Rest(buf[c])) = Before(c, n) + Len(buf[c])
           /\ \A i \in 1 .. Len(Rest(buf[c])) : Rest(buf[c])[i] = Stream(c)[Before(c, n + 1) + i]
<1> DEFINE b == buf[c]
           z == Size[f]
           p == Before(c, n)
           q == Before(c, n + 1)
           R == SubSeq(b, 3 + z, Len(b))
<1>1. /\ n \in 0 .. Len(Script[c]) - 1 /\ z \in Nat /\ FrameLength(b) = z /\ z + 2 <= Len(b)
  BY NextFrame, SMTT(30)
<1>2. b \in Seq(Byte) /\ Len(b) \in Nat /\ \A i \in 1 .. Len(b) : b[i] = Stream(c)[p + i]
  BY DEF StreamInv, Placed
<1>3. p \in Nat /\ q = p + z + 2
  <2>1. n \in 0 .. Len(Script[c])
    BY <1>1, ScriptLen
  <2> QED BY <1>1, <2>1, PlacesFinite, BeforeNext
<1>4. Rest(b) = R
  BY <1>1 DEF Rest
<1> HIDE DEF b, z, p, q
<1>5. \A i \in 3 + z .. Len(b) : b[i] \in Byte
  BY <1>1, <1>2
<1>6. 3 + z \in Int /\ Len(b) \in Int
  BY <1>1, <1>2
<1>7. /\ R \in Seq(Byte) /\ Len(R) = IF 3 + z <= Len(b) THEN Len(b) - (3 + z) + 1 ELSE 0
      /\ \A i \in 1 .. Len(b) - (3 + z) + 1 : R[i] = b[(3 + z) + i - 1]
  BY <1>5, <1>6, SubSeqProperties, SMTT(30)
<1> HIDE DEF R
<1>8. Len(R) = Len(b) - (z + 2)
  BY <1>1, <1>2, <1>7
<1>9. ASSUME NEW i \in 1 .. Len(R) PROVE R[i] = Stream(c)[q + i]
  <2>1. /\ i \in 1 .. Len(b) - (3 + z) + 1 /\ (3 + z) + i - 1 \in 1 .. Len(b)
        /\ p + ((3 + z) + i - 1) = q + i
    BY <1>1, <1>2, <1>3, <1>8
  <2> QED BY <1>2, <1>7, <2>1
<1>10. q + Len(R) = p + Len(b) /\ q \in Nat
  BY <1>1, <1>2, <1>3, <1>8, SMTT(30)
<1> QED BY <1>4, <1>7, <1>9, <1>10 DEF b, p, q

\* A frame is decoded once: its task has not been there before.
LEMMA DecodeInv ==
    ASSUME SessionInv, NEW c \in Conns, Decode(c) PROVE SessionInv'
<1> USE DEF SessionInv, peerVars, readVars, writeVars, coreVars
<1> DEFINE n == Len(decoded[c])
           f == Script[c][n + 1]
           b == buf[c]
<1>1. StreamInv /\ Complete(buf[c])
  BY DEF Decode
<1>2. n \in 0 .. Len(Script[c]) - 1 /\ f \in Frames /\ b[1][1] = f
  <2>1. ASSUME NEW m, m = Len(decoded[c]), NEW g, g = Script[c][m + 1]
        PROVE  m \in 0 .. Len(Script[c]) - 1 /\ g \in Frames /\ buf[c][1][1] = g
    BY ONLY <1>1, <2>1, NextFrame, c \in Conns
  <2> QED BY ONLY <2>1 DEF n, f, b
<1>3. /\ decoded' = [decoded EXCEPT ![c] = Append(decoded[c], Payload(b))]
      /\ buf' = [buf EXCEPT ![c] = Rest(b)]
      /\ task' = IF Kind[f] = "malformed" THEN task ELSE [task EXCEPT ![f] = "send"]
      /\ UNCHANGED <<peerVars, line, session, conns, slot, writeVars, core, coreVars>>
  BY <1>2 DEF Decode
<1>4. Len(Script[c]) \in Nat /\ DOMAIN Script[c] = 1 .. Len(Script[c])
  BY ScriptLen
<1>5. n \in Nat /\ n + 1 \in DOMAIN Script[c] /\ task[f] = "none"
  <2>1. n \in Nat /\ n + 1 \in DOMAIN Script[c] /\ n + 1 > n
    BY <1>2, <1>4
  <2> QED BY <2>1 DEF StreamInv, Placed
<1>6. Payload(b) = Body(f) /\ Payload(b) \in Seq(Byte)
  BY <1>1, PayloadIsBody
<1>7. /\ Rest(b) \in Seq(Byte) /\ Before(c, n + 1) \in Nat
      /\ Before(c, n + 1) + Len(Rest(b)) = Before(c, n) + Len(b)
      /\ \A i \in 1 .. Len(Rest(b)) : Rest(b)[i] = Stream(c)[Before(c, n + 1) + i]
  BY <1>1, RestContinues
<1> DEFINE D == Append(decoded[c], Payload(b))
<1>8. /\ D \in Seq(Seq(Byte)) /\ Len(D) = n + 1
      /\ \A i \in 1 .. n : D[i] = decoded[c][i]
      /\ D[n + 1] = Payload(b)
  <2>1. decoded[c] \in Seq(Seq(Byte))
    BY DEF StreamInv
  <2> HIDE DEF b
  <2> QED BY <1>6, <2>1, AppendProperties
<1> HIDE DEF n, f, b, D
<1>9. TypeOK'
  BY <1>2, <1>3 DEF TypeOK
<1>10. ConnsInv'
  BY <1>3, ConnsKept
<1>11. OnceInv'
  <2>1. Reversing' = Reversing /\ Answering' = Answering
    BY <1>3, ReversingKept, AnsweringKept
  <2>2. \A g \in Frames : task[g] = "done" => task'[g] = "done"
    BY <1>2, <1>3, <1>5 DEF TypeOK
  <2> QED BY <2>1, <2>2, OnceKept
<1>12. \A g \in Frames : g # f => task'[g] = task[g]
  BY <1>3 DEF TypeOK
<1>13. /\ decoded'[c] = D /\ buf'[c] = Rest(b) /\ line' = line
       /\ \A d \in Conns : d # c => decoded'[d] = decoded[d] /\ buf'[d] = buf[d]
  BY <1>3 DEF StreamInv, D
<1>14. line' \in [Conns -> Seq(Byte)] /\ buf' \in [Conns -> Seq(Byte)]
       /\ decoded' \in [Conns -> Seq(Seq(Byte))]
  BY <1>3, <1>7, <1>8 DEF StreamInv, D
<1>15. Placed(c)'
  <2>1. /\ \A i \in 1 .. n : decoded[c][i] = Body(Script[c][i])
        /\ \A i \in 1 .. Len(line[c]) : line[c][i] = Stream(c)[(Before(c, n) + Len(b)) + i]
        /\ (Before(c, n) + Len(b)) + Len(line[c]) = Before(c, Len(Script[c]))
        /\ \A i \in DOMAIN Script[c] : i > n => task[Script[c][i]] = "none"
    BY DEF StreamInv, Placed, n, b
  <2>2. n + 1 <= Len(Script[c])
    BY <1>2, <1>4
  <2>3. ASSUME NEW i \in 1 .. n + 1 PROVE D[i] = Body(Script[c][i])
    <3>1. CASE i = n + 1
      BY <1>6, <1>8, <3>1 DEF f
    <3>2. CASE i # n + 1
      <4>1. i \in 1 .. n
        BY <1>5, <3>2
      <4> QED BY <1>8, <2>1, <4>1
    <3> QED BY <3>1, <3>2
  <2>4. ASSUME NEW i \in DOMAIN Script[c], i > n + 1 PROVE task'[Script[c][i]] = "none"
    <3>1. Script[c][i] # f
      <4>1. IsInjective(Script[c]) /\ i # n + 1
        BY <1>5, <2>4, FrameAssumption
      <4> QED BY <1>5, <4>1 DEF IsInjective, f
    <3>2. i > n /\ Script[c][i] \in Frames
      BY <1>4, <1>5, <2>4, ScriptFrame
    <3> QED BY <1>12, <2>1, <3>1, <3>2
  <2>5. Len(decoded'[c]) = n + 1 /\ decoded'[c] = D /\ buf'[c] = Rest(b) /\ line'[c] = line[c]
    BY <1>8, <1>13
  <2> QED BY <1>7, <2>1, <2>2, <2>3, <2>4, <2>5 DEF Placed
<1>16. ASSUME NEW d \in Conns, d # c PROVE Placed(d)'
  <2>1. Placed(d)
    BY DEF StreamInv
  <2>2. ASSUME NEW i \in DOMAIN Script[d] PROVE task'[Script[d][i]] = task[Script[d][i]]
    <3>1. Script[d][i] \in Frames /\ Script[d][i] # f
      <4>1. Script[d][i] \in Frames
        BY ScriptLen, ScriptFrame
      <4>2. Script[d][i] \in Range(Script[d]) /\ f \in Range(Script[c])
        BY <1>5 DEF Range, f
      <4> QED BY <1>16, <4>1, <4>2, FrameAssumption
    <3> QED BY <1>12, <3>1
  <2>3. decoded'[d] = decoded[d] /\ buf'[d] = buf[d] /\ line'[d] = line[d]
    BY <1>13, <1>16
  <2> QED BY <2>1, <2>2, <2>3 DEF Placed
<1>17. StreamInv'
  BY <1>14, <1>15, <1>16 DEF StreamInv
<1> QED BY <1>9, <1>10, <1>11, <1>17
-----------------------------------------------------------------------------
(* The task of a frame.                                                    *)

\* A task step keeps tasks that have not begun and tasks that have ended.
LEMMA TaskMoves ==
    ASSUME TypeOK, NEW f \in Frames, task[f] \notin {"none", "done"}, NEW s,
           s \in {"wait", "reply", "reverse", "done"}, task' = [task EXCEPT ![f] = s]
    PROVE  /\ task' \in [Frames -> {"none", "send", "wait", "reply", "reverse", "done"}]
           /\ \A g \in Frames : task[g] = "none" => task'[g] = "none"
           /\ \A g \in Frames : task[g] = "done" => task'[g] = "done"
BY DEF TypeOK

\* What Enqueue adds to the channel.
LEMMA Enqueued ==
    ASSUME TypeOK, NEW mti \in {"0100", "0420"}, NEW f \in Frames, Enqueue(mti, f)
    PROVE  core' \in Seq(Context) /\ Range(core') = Range(core) \cup {[mti |-> mti, frame |-> f]}
<1> DEFINE x == [mti |-> mti, frame |-> f]
<1>1. x \in Context /\ core \in Seq(Context) /\ core' = Append(core, x)
  BY DEF TypeOK, Context, Enqueue
<1> HIDE DEF x
<1>2. core' \in Seq(Context) /\ Range(core') = Range(core) \cup {x}
  BY <1>1, RangeAppend, AppendProperties
<1> QED BY <1>2 DEF x

\* A request on its way in is not a reversal.
LEMMA TaskSendInv ==
    ASSUME SessionInv, NEW f \in Frames, TaskSend(f) PROVE SessionInv'
<1> USE DEF SessionInv, TaskSend, peerVars, readVars, writeVars, coreVars
<1>1. /\ core' \in Seq(Context)
      /\ Range(core') = Range(core) \cup {[mti |-> "0100", frame |-> f]}
  BY Enqueued
<1>2. /\ task' \in [Frames -> {"none", "send", "wait", "reply", "reverse", "done"}]
      /\ \A g \in Frames : task[g] = "none" => task'[g] = "none"
      /\ \A g \in Frames : task[g] = "done" => task'[g] = "done"
  BY TaskMoves
<1>3. TypeOK'
  BY <1>1, <1>2 DEF TypeOK
<1>4. ConnsInv'
  BY ConnsKept
<1>5. StreamInv'
  BY <1>2, StreamKept
<1>6. Reversing' = Reversing
  <2>1. \A g : [mti |-> "0420", frame |-> g] # [mti |-> "0100", frame |-> f]
    <3> TAKE g
    <3>1. [mti |-> "0420", frame |-> g].mti # [mti |-> "0100", frame |-> f].mti
      OBVIOUS
    <3> QED BY <3>1
  <2> QED BY <1>1, <2>1 DEF Reversing
<1>7. OnceInv'
  BY <1>2, <1>6, OnceKept, AnsweringKept
<1> QED BY <1>3, <1>4, <1>5, <1>7

\* Leaving select! with an answer, or with none, is not yet a reply.
LEMMA TaskAnsweredInv ==
    ASSUME SessionInv, NEW f \in Frames, TaskAnswered(f) PROVE SessionInv'
<1> USE DEF SessionInv, TaskAnswered, peerVars, readVars, writeVars, coreVars
<1>1. /\ task' \in [Frames -> {"none", "send", "wait", "reply", "reverse", "done"}]
      /\ \A g \in Frames : task[g] = "none" => task'[g] = "none"
      /\ \A g \in Frames : task[g] = "done" => task'[g] = "done"
  <2>1. PICK s \in {"reply", "done"} : task' = [task EXCEPT ![f] = s]
    OBVIOUS
  <2> QED BY <2>1, TaskMoves
<1>2. TypeOK'
  BY <1>1 DEF TypeOK
<1>3. ConnsInv'
  BY ConnsKept
<1>4. StreamInv'
  BY <1>1, StreamKept
<1>5. OnceInv'
  BY <1>1, OnceKept, ReversingKept, AnsweringKept
<1> QED BY <1>2, <1>3, <1>4, <1>5

\* Leaving select! on the drop signal is not yet a reversal.
LEMMA TaskDroppedInv ==
    ASSUME SessionInv, NEW f \in Frames, TaskDropped(f) PROVE SessionInv'
<1> USE DEF SessionInv, TaskDropped, peerVars, readVars, writeVars, coreVars
<1>1. /\ task' \in [Frames -> {"none", "send", "wait", "reply", "reverse", "done"}]
      /\ \A g \in Frames : task[g] = "none" => task'[g] = "none"
      /\ \A g \in Frames : task[g] = "done" => task'[g] = "done"
  BY TaskMoves
<1>2. TypeOK'
  BY <1>1 DEF TypeOK
<1>3. ConnsInv'
  BY ConnsKept
<1>4. StreamInv'
  BY <1>1, StreamKept
<1>5. OnceInv'
  BY <1>1, OnceKept, ReversingKept, AnsweringKept
<1> QED BY <1>2, <1>3, <1>4, <1>5

\* A task that replies has not reversed.
LEMMA TaskReplyInv ==
    ASSUME SessionInv, NEW f \in Frames, TaskReply(f) PROVE SessionInv'
<1> USE DEF SessionInv, peerVars, readVars, writeVars, coreVars
<1> DEFINE c == ConnOf(f)
<1>0. /\ task[f] = "reply" /\ c \in Conns
      /\ queue' = [queue EXCEPT ![c] = Append(queue[c], f)] /\ task' = [task EXCEPT ![f] = "done"]
      /\ UNCHANGED <<peerVars, readVars, slot, fed, writer, delivered, core, coreVars>>
  BY ConnOfFrame DEF TaskReply
<1> HIDE DEF c
<1>1. /\ task' \in [Frames -> {"none", "send", "wait", "reply", "reverse", "done"}]
      /\ \A g \in Frames : task[g] = "none" => task'[g] = "none"
      /\ \A g \in Frames : task[g] = "done" => task'[g] = "done"
  BY <1>0, TaskMoves
<1>2. Append(queue[c], f) \in Seq(Frames) /\ Range(Append(queue[c], f)) = Range(queue[c]) \cup {f}
  <2>1. queue[c] \in Seq(Frames)
    BY <1>0 DEF TypeOK
  <2> QED BY <2>1, RangeAppend, AppendProperties
<1>3. TypeOK'
  <2>1. queue' \in [Conns -> Seq(Frames)]
    BY <1>0, <1>2 DEF TypeOK
  <2> QED BY <1>0, <1>1, <2>1 DEF TypeOK
<1>4. ConnsInv'
  BY <1>0, ConnsKept
<1>5. StreamInv'
  BY <1>0, <1>1, StreamKept
<1>6. Reversing' = Reversing
  BY <1>0, ReversingKept
<1>7. Answering' \subseteq Answering \cup {f}
  <2>1. \A d \in Conns : Range(queue'[d]) \subseteq Range(queue[d]) \cup {f}
    BY <1>0, <1>2 DEF TypeOK
  <2> QED BY <1>0, <2>1 DEF Answering
<1>8. Reversing \cup Answering \subseteq Frames /\ f \notin Reversing /\ task'[f] = "done"
  BY <1>0 DEF Reversing, Answering, TypeOK, OnceInv
<1>9. OnceInv'
  BY <1>1, <1>6, <1>7, <1>8 DEF OnceInv
<1> QED BY <1>3, <1>4, <1>5, <1>9

\* A task that reverses has not replied.
LEMMA TaskReverseInv ==
    ASSUME SessionInv, NEW f \in Frames, TaskReverse(f) PROVE SessionInv'
<1> USE DEF SessionInv, TaskReverse, peerVars, readVars, writeVars, coreVars
<1>1. /\ core' \in Seq(Context)
      /\ Range(core') = Range(core) \cup {[mti |-> "0420", frame |-> f]}
  BY Enqueued
<1>2. /\ task' \in [Frames -> {"none", "send", "wait", "reply", "reverse", "done"}]
      /\ \A g \in Frames : task[g] = "none" => task'[g] = "none"
      /\ \A g \in Frames : task[g] = "done" => task'[g] = "done"
  BY TaskMoves
<1>3. TypeOK'
  BY <1>1, <1>2 DEF TypeOK
<1>4. ConnsInv'
  BY ConnsKept
<1>5. StreamInv'
  BY <1>2, StreamKept
<1>6. Reversing' \subseteq Reversing \cup {f}
  <2>1. \A g : [mti |-> "0420", frame |-> g] = [mti |-> "0420", frame |-> f] => g = f
    <3> TAKE g
    <3>1. [mti |-> "0420", frame |-> g].frame = g /\ [mti |-> "0420", frame |-> f].frame = f
      OBVIOUS
    <3> QED BY <3>1
  <2> QED BY <1>1, <2>1 DEF Reversing
<1>7. Answering' = Answering
  BY AnsweringKept
<1>8. Reversing \cup Answering \subseteq Frames /\ f \notin Answering /\ task'[f] = "done"
  BY DEF Reversing, Answering, TypeOK, OnceInv
<1>9. OnceInv'
  BY <1>2, <1>6, <1>7, <1>8 DEF OnceInv
<1> QED BY <1>3, <1>4, <1>5, <1>9
-----------------------------------------------------------------------------
(* The writing task.                                                       *)

\* An answer goes from the channel to the sink ...
LEMMA WriterFeedInv ==
    ASSUME SessionInv, NEW c \in Conns, WriterFeed(c) PROVE SessionInv'
<1> USE DEF SessionInv, peerVars, readVars, writeVars, coreVars
<1>0. /\ queue[c] # <<>> /\ fed' = [fed EXCEPT ![c] = fed[c] \cup {Head(queue[c])}]
      /\ queue' = [queue EXCEPT ![c] = Tail(queue[c])]
      /\ UNCHANGED <<peerVars, readVars, task, slot, writer, delivered, core, coreVars>>
  BY DEF WriterFeed
<1>1. queue[c] \in Seq(Frames)
  BY DEF TypeOK
<1>2. /\ Tail(queue[c]) \in Seq(Frames) /\ Head(queue[c]) \in Frames
      /\ Range(Tail(queue[c])) \subseteq Range(queue[c]) /\ Head(queue[c]) \in Range(queue[c])
  BY <1>0, <1>1, RangeTail, HeadTailProperties
<1>3. TypeOK'
  <2>1. queue' \in [Conns -> Seq(Frames)] /\ fed' \in [Conns -> SUBSET Frames]
    BY <1>0, <1>2 DEF TypeOK
  <2> QED BY <1>0, <2>1 DEF TypeOK
<1>4. ConnsInv'
  BY <1>0, ConnsKept
<1>5. StreamInv'
  BY <1>0, StreamKept
<1>6. Answering' \subseteq Answering
  <2>1. \A d \in Conns : fed'[d] \cup Range(queue'[d]) \subseteq fed[d] \cup Range(queue[d])
    BY <1>0, <1>2 DEF TypeOK
  <2> QED BY <1>0, <2>1 DEF Answering
<1>7. OnceInv'
  BY <1>0, <1>6, OnceKept, ReversingKept
<1> QED BY <1>3, <1>4, <1>5, <1>7

\* ... and from there to the terminal or nowhere.
LEMMA WriterFlushInv ==
    ASSUME SessionInv, NEW c \in Conns, WriterFlush(c) PROVE SessionInv'
<1> USE DEF SessionInv, peerVars, readVars, writeVars, coreVars
<1>0. /\ delivered' \subseteq delivered \cup fed[c] /\ fed' = [fed EXCEPT ![c] = {}]
      /\ UNCHANGED <<peerVars, readVars, task, slot, queue, writer, core, coreVars>>
  BY DEF WriterFlush
<1>1. TypeOK'
  BY <1>0 DEF TypeOK
<1>2. ConnsInv'
  BY <1>0, ConnsKept
<1>3. StreamInv'
  BY <1>0, StreamKept
<1>4. Answering' \subseteq Answering
  <2>1. \A d \in Conns : fed'[d] \subseteq fed[d] /\ fed[d] \subseteq Frames
    BY <1>0 DEF TypeOK
  <2> QED BY <1>0, <2>1 DEF Answering
<1>5. OnceInv'
  BY <1>0, <1>4, OnceKept, ReversingKept
<1> QED BY <1>1, <1>2, <1>3, <1>5

\* The writing task ends.
LEMMA WriterEndInv ==
    ASSUME SessionInv, NEW c \in Conns, WriterEnd(c) PROVE SessionInv'
<1> USE DEF SessionInv, WriterEnd, peerVars, readVars, writeVars, coreVars
<1>1. TypeOK'
  BY DEF TypeOK
<1>2. ConnsInv'
  BY ConnsKept
<1>3. StreamInv'
  BY StreamKept
<1>4. OnceInv'
  BY OnceKept, ReversingKept, AnsweringKept
<1> QED BY <1>1, <1>2, <1>3, <1>4
-----------------------------------------------------------------------------
(* The engine behind the channel.                                          *)

\* A worker holds nothing or a context; resolving a responder keeps the slots' type.
LEMMA WorkerHolds ==
    ASSUME TypeOK, NEW w \in Workers, worker[w] # NoContext
    PROVE  worker[w] \in Context /\ worker[w].frame \in Frames /\ worker[w].mti \in {"0100", "0420"}
BY DEF TypeOK, Context

\* Resolving a responder keeps the type of the slots, ...
LEMMA ResolveType ==
    ASSUME TypeOK, NEW f \in Frames, NEW how \in {"full", "closed"}, Resolve(f, how)
    PROVE  slot' \in [Frames -> {"empty", "full", "closed"}]
BY DEF TypeOK, Resolve

\* ... and so does answering a context.
LEMMA AnswerType ==
    ASSUME TypeOK, NEW x \in Context, Answer(x)
    PROVE  slot' \in [Frames -> {"empty", "full", "closed"}]
<1>1. x.frame \in Frames
  BY DEF Context
<1>2. CASE x.mti = "0100"
  <2>1. Resolve(x.frame, "full")
    BY <1>2 DEF Answer
  <2> QED BY <1>1, <2>1, ResolveType
<1>3. CASE x.mti # "0100"
  BY <1>3 DEF Answer, TypeOK
<1> QED BY <1>2, <1>3

\* A 0420 is a context and never the absence of one.
LEMMA ReversalIsContext == \A f : [mti |-> "0420", frame |-> f] # NoContext
<1> TAKE f
<1>1. [mti |-> "0420", frame |-> f].mti # NoContext.mti
  BY DEF NoContext
<1> QED BY <1>1

\* A worker that lets go of its context adds none.
LEMMA Released ==
    ASSUME TypeOK, NEW w \in Workers, Release(w)
    PROVE  /\ worker' \in [Workers -> Context \cup {NoContext}]
           /\ Range(worker') \subseteq Range(worker) \cup {NoContext}
BY DEF TypeOK, Release, Range

\* A worker takes a context over from the channel.
LEMMA WorkerTakeInv ==
    ASSUME SessionInv, NEW w \in Workers, WorkerTake(w) PROVE SessionInv'
<1> USE DEF SessionInv, peerVars, readVars, writeVars, coreVars
<1>0. /\ core # <<>> /\ worker' = [worker EXCEPT ![w] = Head(core)] /\ core' = Tail(core)
      /\ UNCHANGED <<peerVars, readVars, task, slot, writeVars, guard, upstream, refused>>
  BY DEF WorkerTake
<1>1. core \in Seq(Context)
  BY DEF TypeOK
<1>2. /\ Tail(core) \in Seq(Context) /\ Head(core) \in Context
      /\ Range(Tail(core)) \subseteq Range(core) /\ Head(core) \in Range(core)
  BY <1>0, <1>1, RangeTail, HeadTailProperties
<1>3. TypeOK'
  <2>1. worker' \in [Workers -> Context \cup {NoContext}]
    BY <1>0, <1>2 DEF TypeOK
  <2> QED BY <1>0, <1>2, <2>1 DEF TypeOK
<1>4. ConnsInv'
  BY <1>0, ConnsKept
<1>5. StreamInv'
  BY <1>0, StreamKept
<1>6. Reversing' \subseteq Reversing
  <2>1. Range(worker') \subseteq Range(worker) \cup {Head(core)}
    BY <1>0 DEF TypeOK, Range
  <2>2. Range(core') \cup Range(worker') \cup upstream'
            \subseteq Range(core) \cup Range(worker) \cup upstream
    BY <1>0, <1>2, <2>1
  <2> QED BY <2>2 DEF Reversing
<1>7. OnceInv'
  BY <1>0, <1>6, OnceKept, AnsweringKept
<1> QED BY <1>3, <1>4, <1>5, <1>7

\* A context that is answered at once is gone.
LEMMA WorkerAnswerInv ==
    ASSUME SessionInv, NEW w \in Workers, WorkerAnswer(w) PROVE SessionInv'
<1> USE DEF SessionInv, WorkerAnswer, peerVars, readVars, writeVars, coreVars
<1>1. slot' \in [Frames -> {"empty", "full", "closed"}]
  BY WorkerHolds, AnswerType
<1>2. /\ worker' \in [Workers -> Context \cup {NoContext}]
      /\ Range(worker') \subseteq Range(worker) \cup {NoContext}
  BY Released
<1>3. TypeOK'
  BY <1>1, <1>2 DEF TypeOK
<1>4. ConnsInv'
  BY ConnsKept
<1>5. StreamInv'
  BY StreamKept
<1>6. Reversing' \subseteq Reversing
  BY <1>2, ReversalIsContext DEF Reversing
<1>7. OnceInv'
  BY <1>6, OnceKept, AnsweringKept
<1> QED BY <1>3, <1>4, <1>5, <1>7

\* So is one that is refused as a duplicate.
LEMMA WorkerDuplicateInv ==
    ASSUME SessionInv, NEW w \in Workers, WorkerDuplicate(w) PROVE SessionInv'
<1> USE DEF SessionInv, peerVars, readVars, writeVars, coreVars
<1>0. /\ worker[w] # NoContext /\ Answer(worker[w]) /\ Release(w)
      /\ refused' \subseteq refused \cup {worker[w].frame}
      /\ UNCHANGED <<peerVars, readVars, task, writeVars, core, guard, upstream>>
  BY DEF WorkerDuplicate, Request
<1>1. worker[w] \in Context /\ worker[w].frame \in Frames
  BY <1>0, WorkerHolds
<1>2. slot' \in [Frames -> {"empty", "full", "closed"}]
  BY <1>0, <1>1, AnswerType
<1>3. /\ worker' \in [Workers -> Context \cup {NoContext}]
      /\ Range(worker') \subseteq Range(worker) \cup {NoContext}
  BY <1>0, Released
<1>4. TypeOK'
  BY <1>0, <1>1, <1>2, <1>3 DEF TypeOK
<1>5. ConnsInv'
  BY <1>0, ConnsKept
<1>6. StreamInv'
  BY <1>0, StreamKept
<1>7. Reversing' \subseteq Reversing
  BY <1>0, <1>3, ReversalIsContext DEF Reversing
<1>8. OnceInv'
  BY <1>0, <1>7, OnceKept, AnsweringKept
<1> QED BY <1>4, <1>5, <1>6, <1>8

\* An admitted context may go on to the bank, itself and no other.
LEMMA WorkerAdmitInv ==
    ASSUME SessionInv, NEW w \in Workers, WorkerAdmit(w) PROVE SessionInv'
<1> USE DEF SessionInv, peerVars, readVars, writeVars, coreVars
<1> DEFINE x == worker[w]
           new == [frame |-> x.frame, resp |-> x.mti = "0100"]
<1>0. /\ x # NoContext /\ Release(w)
      /\ guard' = [guard EXCEPT ![Key[x.frame]] = new]
      /\ upstream' \subseteq upstream \cup {x}
      /\ UNCHANGED <<peerVars, readVars, task, slot, writeVars, core, refused>>
  BY DEF WorkerAdmit, Request
<1>1. x \in Context /\ x.frame \in Frames /\ x \in Range(worker)
  BY <1>0, WorkerHolds DEF TypeOK, Range
<1>2. new \in Entry
  BY <1>1 DEF Entry
<1>3. /\ worker' \in [Workers -> Context \cup {NoContext}]
      /\ Range(worker') \subseteq Range(worker) \cup {NoContext}
  BY <1>0, Released
<1> HIDE DEF x, new
<1>4. TypeOK'
  <2>1. guard' \in [Keys -> Entry \cup {NoEntry}]
    BY <1>0, <1>2 DEF TypeOK
  <2>2. upstream' \subseteq Context
    BY <1>0, <1>1 DEF TypeOK
  <2> QED BY <1>0, <1>3, <2>1, <2>2 DEF TypeOK
<1>5. ConnsInv'
  BY <1>0, ConnsKept
<1>6. StreamInv'
  BY <1>0, StreamKept
<1>7. Reversing' \subseteq Reversing
  BY <1>0, <1>1, <1>3, ReversalIsContext DEF Reversing
<1>8. OnceInv'
  BY <1>0, <1>7, OnceKept, AnsweringKept
<1> QED BY <1>4, <1>5, <1>6, <1>8

\* An entry of the guard has a frame.
LEMMA GuardHolds ==
    ASSUME TypeOK, NEW k \in Keys, guard[k] # NoEntry
    PROVE  guard[k] \in Entry /\ guard[k].frame \in Frames
BY DEF TypeOK, Entry

\* Answering from the guard changes the entry and a slot.
LEMMA GuardAnswerInv ==
    ASSUME SessionInv, NEW k \in Keys, GuardAnswer(k) PROVE SessionInv'
<1> USE DEF SessionInv, GuardAnswer, peerVars, readVars, writeVars, coreVars
<1> DEFINE new == [guard[k] EXCEPT !.resp = FALSE]
<1>1. guard[k] \in Entry /\ guard[k].frame \in Frames
  BY GuardHolds
<1>2. new \in Entry
  BY <1>1 DEF Entry
<1>3. slot' \in [Frames -> {"empty", "full", "closed"}]
  BY <1>1, ResolveType
<1>4. guard' = [guard EXCEPT ![k] = new]
  OBVIOUS
<1> HIDE DEF new
<1>5. TypeOK'
  <2>1. guard' \in [Keys -> Entry \cup {NoEntry}]
    BY <1>2, <1>4 DEF TypeOK
  <2> QED BY <1>3, <2>1 DEF TypeOK
<1>6. ConnsInv'
  BY ConnsKept
<1>7. StreamInv'
  BY StreamKept
<1>8. OnceInv'
  BY OnceKept, ReversingKept, AnsweringKept
<1> QED BY <1>5, <1>6, <1>7, <1>8

\* Evicting an entry closes a slot at most.
LEMMA GuardEvictInv ==
    ASSUME SessionInv, NEW k \in Keys, GuardEvict(k) PROVE SessionInv'
<1> USE DEF SessionInv, peerVars, readVars, writeVars, coreVars
<1>0. /\ guard[k] # NoEntry /\ guard' = [guard EXCEPT ![k] = NoEntry]
      /\ UNCHANGED <<peerVars, readVars, task, writeVars, core, worker, upstream, refused>>
  BY DEF GuardEvict
<1>1. guard[k] \in Entry /\ guard[k].frame \in Frames
  BY <1>0, GuardHolds
<1>2. slot' \in [Frames -> {"empty", "full", "closed"}]
  <2>1. CASE guard[k].resp
    <3>1. Resolve(guard[k].frame, "closed")
      BY <2>1 DEF GuardEvict
    <3> QED BY <1>1, <3>1, ResolveType
  <2>2. CASE ~guard[k].resp
    BY <2>2 DEF GuardEvict, TypeOK
  <2> QED BY <2>1, <2>2
<1>3. TypeOK'
  <2>1. guard' \in [Keys -> Entry \cup {NoEntry}]
    BY <1>0 DEF TypeOK
  <2> QED BY <1>0, <1>2, <2>1 DEF TypeOK
<1>4. ConnsInv'
  BY <1>0, ConnsKept
<1>5. StreamInv'
  BY <1>0, StreamKept
<1>6. OnceInv'
  BY <1>0, OnceKept, ReversingKept, AnsweringKept
<1> QED BY <1>3, <1>4, <1>5, <1>6
-----------------------------------------------------------------------------
(* The theorems.                                                           *)

\* The invariant holds when no connection has been accepted, ...
LEMMA InitSessionInv == Init => SessionInv
<1> SUFFICES ASSUME Init PROVE SessionInv
  OBVIOUS
<1> USE DEF Init
<1>1. TypeOK
  BY DEF TypeOK
<1>2. ConnsInv
  <2>1. Readers = {}
    BY DEF Readers
  <2> QED BY <2>1, FS_EmptySet DEF ConnsInv
<1>3. StreamInv
  <2>1. line \in [Conns -> Seq(Byte)]
    BY StreamType
  <2>2. buf \in [Conns -> Seq(Byte)] /\ decoded \in [Conns -> Seq(Seq(Byte))]
    OBVIOUS
  <2>3. ASSUME NEW c \in Conns PROVE Placed(c)
    <3>1. decoded[c] = <<>> /\ buf[c] = <<>> /\ Len(decoded[c]) = 0 /\ Len(buf[c]) = 0
      OBVIOUS
    <3>2. Before(c, 0) = 0 /\ Before(c, 0) + 0 = 0 /\ Len(Script[c]) \in Nat
      BY BeforeZero, ScriptLen
    <3>3. line[c] = Stream(c) /\ Len(line[c]) = Before(c, Len(Script[c])) /\ Len(line[c]) \in Nat
      BY StreamType
    <3>4. \A i \in 1 .. Len(line[c]) : line[c][i] = Stream(c)[0 + i]
      BY <3>3
    <3>5. \A i \in DOMAIN Script[c] : task[Script[c][i]] = "none"
      BY ScriptLen, ScriptFrame
    <3> QED BY <3>1, <3>2, <3>3, <3>4, <3>5 DEF Placed
  <2> QED BY <2>1, <2>2, <2>3 DEF StreamInv
<1>4. OnceInv
  <2>1. Reversing = {}
    <3>1. Range(core) = {} /\ Range(worker) \subseteq {NoContext}
      BY DEF Range
    <3> QED BY <3>1, ReversalIsContext DEF Reversing
  <2>2. Answering = {}
    <3>1. \A c \in Conns : Range(queue[c]) = {} /\ fed[c] = {}
      BY DEF Range
    <3> QED BY <3>1 DEF Answering
  <2> QED BY <2>1, <2>2 DEF OnceInv
<1> QED BY <1>1, <1>2, <1>3, <1>4 DEF SessionInv

\* ... and every step keeps it.
LEMMA NextSessionInv == SessionInv /\ [Next]_vars => SessionInv'
<1> SUFFICES ASSUME SessionInv, [Next]_vars PROVE SessionInv'
  OBVIOUS
<1>1. ASSUME NEW c \in Conns,
             \/ Accept(c) \/ Decode(c) \/ EndSession(c) \/ StopReading(c) \/ WriterStep(c)
             \/ \E n \in 1 .. Len(line[c]) : Arrive(c, n)
             \/ \E s \in {"half", "down"} : HangUp(c, s)
      PROVE  SessionInv'
  BY <1>1, AcceptInv, DecodeInv, EndSessionInv, WriterFeedInv, WriterFlushInv, WriterEndInv,
     ArriveInv, HangUpInv, StopReadingInv DEF WriterStep
<1>2. ASSUME NEW f \in Frames, TaskStep(f) PROVE SessionInv'
  BY <1>2, TaskSendInv, TaskAnsweredInv, TaskDroppedInv, TaskReplyInv, TaskReverseInv DEF TaskStep
<1>3. ASSUME NEW w \in Workers, WorkerStep(w) PROVE SessionInv'
  BY <1>3, WorkerTakeInv, WorkerAnswerInv, WorkerDuplicateInv, WorkerAdmitInv DEF WorkerStep
<1>4. ASSUME NEW k \in Keys, GuardAnswer(k) \/ GuardEvict(k) PROVE SessionInv'
  BY <1>4, GuardAnswerInv, GuardEvictInv
<1>5. ASSUME UNCHANGED vars PROVE SessionInv'
  <2> USE <1>5 DEF SessionInv, vars, peerVars, readVars, writeVars, coreVars
  <2>1. TypeOK'
    BY DEF TypeOK
  <2>2. ConnsInv'
    BY ConnsKept
  <2>3. StreamInv'
    BY StreamKept
  <2>4. OnceInv'
    BY OnceKept, ReversingKept, AnsweringKept
  <2> QED BY <2>1, <2>2, <2>3, <2>4
<1> QED BY <1>1, <1>2, <1>3, <1>4, <1>5 DEF Next

\* SessionInv is an invariant: the connection counter, the place of every byte
\* and the end of every frame's task are what the code takes them for
\* (server.rs, run_server; codec.rs, decode).
THEOREM SessionInvariant == Spec => []SessionInv
BY InitSessionInv, NextSessionInv, PTL DEF Spec

\* However a stream of any length is split into reads, and whatever its frames'
\* sizes, what is decoded is what was sent, whole and in order (codec.rs, decode).
THEOREM FrameSafety == Spec => []FramesIntact
<1>1. SessionInv => FramesIntact
  <2> SUFFICES ASSUME SessionInv, NEW c \in Conns
               PROVE  IsPrefix(decoded[c], [i \in DOMAIN Script[c] |-> Body(Script[c][i])])
    BY DEF FramesIntact
  <2> DEFINE s == decoded[c]
             t == [i \in DOMAIN Script[c] |-> Body(Script[c][i])]
             N == Len(Script[c])
             n == Len(s)
             T == {t[i] : i \in 1 .. N}
  <2>1. s \in Seq(Seq(Byte)) /\ n <= N /\ \A i \in 1 .. n : s[i] = Body(Script[c][i])
    BY DEF SessionInv, StreamInv, Placed
  <2>2. N \in Nat /\ DOMAIN Script[c] = 1 .. N
    BY ScriptLen
  <2>3. t \in Seq(T) /\ Len(t) = N
    BY <2>2
  <2>4. n \in Nat /\ \A i \in 1 .. n : i \in 1 .. N /\ t[i] = s[i] /\ s[i] \in Seq(Byte)
    BY <2>1, <2>2
  <2> DEFINE P == SubSeq(s, 1, n)
             Q == SubSeq(t, 1, n)
  <2> HIDE DEF s, t, N, n
  <2>5. /\ P \in Seq(Seq(Byte)) /\ Len(P) = (IF 1 <= n THEN n - 1 + 1 ELSE 0)
        /\ \A i \in 1 .. n - 1 + 1 : P[i] = s[1 + i - 1]
    BY <2>4, SubSeqProperties
  <2>6. /\ Q \in Seq(Seq(Byte)) /\ Len(Q) = (IF 1 <= n THEN n - 1 + 1 ELSE 0)
        /\ \A i \in 1 .. n - 1 + 1 : Q[i] = t[1 + i - 1]
    BY <2>4, SubSeqProperties
  <2> HIDE DEF P, Q
  <2>7. \A i \in 1 .. Len(P) : P[i] = Q[i]
    <3> TAKE i \in 1 .. Len(P)
    <3>1. i \in 1 .. n - 1 + 1 /\ 1 + i - 1 \in 1 .. n
      BY <2>4, <2>5
    <3> QED BY <2>4, <2>5, <2>6, <3>1
  <2>8. P = Q
    BY <2>5, <2>6, <2>7, SeqEqual
  <2>9. IsPrefix(s, t)
    BY <2>1, <2>3, <2>8 DEF IsPrefix, P, Q, n
  <2> QED BY <2>9 DEF s, t
<1> QED BY <1>1, SessionInvariant, PTL

\* For any number of connections, frames and workers: what the session reverses
\* it does not answer (server.rs, select!).
THEOREM ReversalSafety == Spec => []ReversedNotAnswered
<1>1. SessionInv => ReversedNotAnswered
  <2> SUFFICES ASSUME SessionInv, NEW f \in Reversing
               PROVE  f \notin delivered \cup fed[ConnOf(f)] \cup Range(queue[ConnOf(f)])
    BY DEF ReversedNotAnswered
  <2>1. f \in Frames /\ f \notin Answering
    BY DEF SessionInv, OnceInv, Reversing
  <2>2. ConnOf(f) \in Conns
    BY <2>1, ConnOfFrame
  <2> QED BY <2>1, <2>2 DEF Answering
<1> QED BY <1>1, SessionInvariant, PTL
=============================================================================

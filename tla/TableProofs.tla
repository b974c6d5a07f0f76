---------------------------- MODULE TableProofs -----------------------------
(* Proofs about the tables of the operators: versions of a row under          *)
(* concurrent updates and what a lone publish leaves in the daemon, for every *)
(* set of keys, values and requests; and the router compiled from such a      *)
(* table, for any digits, tables, cards, handlers and workers.                *)
EXTENDS ControlPlane, BinRouting, FiniteSetTheorems, SequenceTheorems, TLAPS

-----------------------------------------------------------------------------
(***************************************************************************)
(* ControlPlane                                                            *)
(***************************************************************************)

(* Versions of a row.                                                      *)

\* An element of a sequence of rows is a row.
LEMMA RowFields ==
    ASSUME NEW s \in Seq(Row), NEW i \in 1 .. Len(s)
    PROVE  s[i] \in Row /\ s[i].root \in Nat /\ s[i].version \in Nat
<1>1. s[i] \in Row
  BY ElementOfSeq, Zenon
<1> QED
  BY <1>1 DEF Row

\* Of two versions of a row at most one is live, the newer one.
LEMMA TwoVersions ==
    ASSUME LineInv, NEW i \in 1 .. Len(rows), NEW j \in 1 .. Len(rows),
           rows[i].root = rows[j].root, i # j
    PROVE  /\ rows[i].version # rows[j].version
           /\ rows[i].live => ~rows[j].live /\ rows[j].version < rows[i].version
BY Zenon DEF LineInv

\* Replacing one row leaves the others.
LEMMA RowReplaced ==
    ASSUME NEW s \in Seq(Row), NEW i \in 1 .. Len(s), NEW e \in Row, NEW t, t = [s EXCEPT ![i] = e]
    PROVE  /\ t \in Seq(Row) /\ Len(t) = Len(s) /\ t[i] = e
           /\ \A j \in 1 .. Len(s) : j # i => t[j] = s[j]
BY ExceptSeq

\* The seeded rows are versions of their own.
LEMMA DbInit == Init => DbInv
<1> SUFFICES ASSUME Init PROVE DbInv
  OBVIOUS
<1>1. Cardinality(Seeded) \in Nat
  BY KeyAssumption, FS_CardinalityType
<1>2. PICK s \in [1 .. Cardinality(Seeded) -> Seeded] :
         rows = [i \in DOMAIN s |-> Version(s[i], SeedValue, 1, TRUE, i)]
  BY DEF Init
<1> DEFINE n == Cardinality(Seeded)
<1> HIDE DEF n
<1>3. n \in Nat /\ s \in [1 .. n -> Seeded]
  BY <1>1 DEF n
<1>4. rows = [i \in 1 .. n |-> Version(s[i], SeedValue, 1, TRUE, i)]
  BY <1>2, <1>3
<1>5. \A i \in 1 .. n : rows[i] \in Row
  <2> SUFFICES ASSUME NEW i \in 1 .. n PROVE Version(s[i], SeedValue, 1, TRUE, i) \in Row
    BY <1>4
  <2>1. i \in Nat
    BY <1>3
  <2>2. s[i] \in Seeded
    BY <1>3
  <2>3. s[i] \in Keys /\ SeedValue \in Values
    BY <2>2, KeyAssumption, Zenon
  <2> QED
    BY <2>1, <2>3 DEF Version, Row
<1>6. rows \in Seq(Row) /\ Len(rows) = n
  <2>1. DOMAIN rows = 1 .. n /\ rows = [i \in 1 .. n |-> rows[i]]
    BY <1>4
  <2> QED
    BY <1>3, <1>5, <2>1
<1>7. \A i \in 1 .. Len(rows) : rows[i].root = i /\ rows[i].live
  BY <1>3, <1>4, <1>6 DEF Version
<1>8. LineInv
  BY <1>3, <1>6, <1>7 DEF LineInv
<1>9. UpdateInv
  BY DEF Init, UpdateInv, Idle
<1> QED
  BY <1>6, <1>8, <1>9 DEF DbInv, Init

\* A new row is a line of its own, and no row changes.
LEMMA DbCreate ==
    ASSUME DbInv, NEW k \in Keys, NEW v \in Values, Create(k, v)
    PROVE  DbInv'
<1> DEFINE n == Len(rows)
<1>1. n \in Nat /\ rows \in Seq(Row)
  BY DEF DbInv
<1>2. Version(k, v, 1, TRUE, n + 1) \in Row
  BY <1>1 DEF Version, Row
<1>3. rows' = Append(rows, Version(k, v, 1, TRUE, n + 1))
  BY DEF Create
<1>4. rows' \in Seq(Row) /\ Len(rows') = n + 1
  BY <1>1, <1>2, <1>3, AppendProperties
<1>5. \A i \in 1 .. n : rows'[i] = rows[i]
  BY <1>1, <1>2, <1>3, AppendProperties
<1>6. rows'[n + 1].root = n + 1 /\ rows'[n + 1].live
  <2>1. rows'[n + 1] = Version(k, v, 1, TRUE, n + 1)
    BY <1>1, <1>2, <1>3, AppendProperties, ZenonT(40)
  <2> QED
    BY <2>1 DEF Version
<1>7. \A i \in 1 .. n : rows[i].root \in Nat /\ rows[i].root <= n
  BY <1>1, RowFields DEF DbInv, LineInv
<1> HIDE DEF n
<1>8. LineInv'
  <2>1. \A i \in 1 .. n + 1 : i \in 1 .. n \/ i = n + 1
    BY <1>1
  <2>2. ASSUME NEW i \in 1 .. n + 1, NEW j \in 1 .. n + 1, rows'[i].root = rows'[j].root, i # j
        PROVE  i \in 1 .. n /\ j \in 1 .. n
    BY <1>1, <1>5, <1>6, <1>7, <2>1, <2>2
  <2>3. ASSUME NEW i \in 1 .. n + 1, NEW j \in 1 .. n + 1, rows'[i].root = rows'[j].root, i # j
        PROVE  /\ rows'[i].version # rows'[j].version
               /\ rows'[i].live => ~rows'[j].live /\ rows'[j].version < rows'[i].version
    <3>1. i \in 1 .. n /\ j \in 1 .. n
      BY <2>2, <2>3
    <3>2. rows'[i] = rows[i] /\ rows'[j] = rows[j]
      BY <1>5, <3>1
    <3>3. LineInv /\ rows[i].root = rows[j].root
      BY <2>3, <3>2, Zenon DEF DbInv
    <3>4. /\ rows[i].version # rows[j].version
          /\ rows[i].live => ~rows[j].live /\ rows[j].version < rows[i].version
      BY <2>3, <3>1, <3>3, TwoVersions, Zenon DEF n
    <3> QED
      BY <3>2, <3>4
  <2>4. ASSUME NEW i \in 1 .. n + 1
        PROVE  /\ rows'[i].root <= n + 1
               /\ \E j \in 1 .. n + 1 : rows'[j].root = rows'[i].root /\ rows'[j].live
    <3>1. CASE i = n + 1
      BY <1>1, <1>6, <3>1
    <3>2. CASE i \in 1 .. n
      <4>1. PICK j \in 1 .. n : rows[j].root = rows[i].root /\ rows[j].live
        BY <3>2 DEF DbInv, LineInv, n
      <4> QED
        BY <1>1, <1>5, <1>7, <3>2, <4>1
    <3> QED
      BY <2>1, <3>1, <3>2
  <2> QED
    BY <1>4, <2>3, <2>4 DEF LineInv
<1>9. UpdateInv'
  <2>1. upd' = upd /\ lock' = lock /\ lock = FALSE /\ commits' = commits + 1 /\ commits \in Nat
    BY DEF Create, DbInv
  <2> QED
    BY <2>1 DEF DbInv, UpdateInv
<1>10. commits' \in Nat /\ upd' = [u \in Updaters |-> upd'[u]]
  BY DEF Create, DbInv
<1> QED
  BY <1>4, <1>8, <1>9, <1>10 DEF DbInv

\* A commit soft-deletes the live version and appends the next one.
LEMMA DbCommit ==
    ASSUME DbInv, NEW u \in Updaters, UpdateCommit(u)
    PROVE  DbInv'
<1> DEFINE n == Len(rows)
           i == upd[u].id
           old == rows[i]
           dead == Version(old.key, old.value, old.version, FALSE, old.root)
           new == Version(old.key, upd[u].value, old.version + 1, TRUE, old.root)
<1>1. n \in Nat /\ rows \in Seq(Row) /\ commits \in Nat
  BY DEF DbInv
<1>2. /\ i \in 1 .. n /\ old.live /\ upd[u].value \in Values /\ lock
      /\ \A w \in Updaters : upd[w].pc = "written" => w = u
  BY DEF DbInv, UpdateInv, UpdateCommit
<1>3. old \in Row
  BY <1>1, <1>2
<1>4. dead \in Row /\ new \in Row
  BY <1>2, <1>3 DEF Version, Row
<1>5. rows' = Append([rows EXCEPT ![i] = dead], new)
  BY DEF UpdateCommit
<1> DEFINE mid == [rows EXCEPT ![i] = dead]
<1> HIDE DEF dead, new, i, old
<1>6. mid \in Seq(Row) /\ Len(mid) = n /\ mid[i] = dead /\ \A j \in 1 .. n : j # i => mid[j] = rows[j]
  <2>1. mid = [rows EXCEPT ![i] = dead]
    OBVIOUS
  <2> HIDE DEF mid
  <2> QED
    BY <1>1, <1>2, <1>4, <2>1, RowReplaced
<1> HIDE DEF mid, n
<1>7. rows' = Append(mid, new)
  BY <1>5 DEF mid, dead, new, i, old
<1>8. rows' \in Seq(Row) /\ Len(rows') = n + 1
  BY <1>4, <1>6, <1>7, AppendProperties
<1>9. rows'[n + 1] = new /\ \A j \in 1 .. n : rows'[j] = mid[j]
  BY <1>1, <1>4, <1>6, <1>7, AppendProperties
<1>10. /\ rows'[n + 1].root = old.root /\ rows'[n + 1].live /\ rows'[n + 1].version = old.version + 1
       /\ rows'[i].root = old.root /\ ~rows'[i].live /\ rows'[i].version = old.version
       /\ \A j \in 1 .. n : j # i => rows'[j] = rows[j]
  BY <1>2, <1>6, <1>9 DEF Version, new, dead
<1>11. /\ \A j \in 1 .. n : rows[j].root \in Nat /\ rows[j].root <= n /\ rows[j].version \in Nat
       /\ \A j \in 1 .. n : rows[j].root = old.root /\ j # i =>
             ~rows[j].live /\ rows[j].version < old.version
  BY <1>1, <1>2, RowFields DEF DbInv, LineInv, n, i, old
<1>12. \A j \in 1 .. n + 1 : j \in 1 .. n \/ j = n + 1
  BY <1>1
<1>13. \A j \in 1 .. n : rows'[j].root = rows[j].root /\ rows'[j].version = rows[j].version
  BY <1>2, <1>10 DEF old
<1>14. \A j \in 1 .. n : rows'[j].live => rows[j].live /\ rows[j].root # old.root
  BY <1>2, <1>10, <1>11 DEF old
<1>15. \A j \in 1 .. n : rows'[j].root = old.root => rows'[j].version < old.version + 1 /\ ~rows'[j].live
  BY <1>2, <1>10, <1>11, <1>13, <1>14 DEF old
<1>16. LineInv'
  <2>1. ASSUME NEW a \in 1 .. n + 1, NEW b \in 1 .. n + 1, rows'[a].root = rows'[b].root, a # b
        PROVE  /\ rows'[a].version # rows'[b].version
               /\ rows'[a].live => ~rows'[b].live /\ rows'[b].version < rows'[a].version
    <3>1. CASE a \in 1 .. n /\ b \in 1 .. n
      <4>1. rows[a].root = rows[b].root
        BY <1>13, <2>1, <3>1
      <4>2. /\ rows[a].version # rows[b].version
            /\ rows[a].live => ~rows[b].live /\ rows[b].version < rows[a].version
        BY <2>1, <3>1, <4>1 DEF DbInv, LineInv, n
      <4> QED
        BY <1>13, <1>14, <3>1, <4>2
    <3>2. CASE a = n + 1 /\ b \in 1 .. n
      <4>1. rows'[b].version < old.version + 1 /\ ~rows'[b].live
        BY <1>10, <1>15, <2>1, <3>2
      <4>2. old.version \in Nat /\ rows'[b].version \in Nat
        BY <1>2, <1>11, <1>13, <3>2 DEF old
      <4> QED
        BY <1>10, <3>2, <4>1, <4>2
    <3>3. CASE b = n + 1 /\ a \in 1 .. n
      <4>1. rows'[a].version < old.version + 1 /\ ~rows'[a].live
        BY <1>10, <1>15, <2>1, <3>3
      <4>2. old.version \in Nat /\ rows'[a].version \in Nat
        BY <1>2, <1>11, <1>13, <3>3 DEF old
      <4> QED
        BY <1>10, <3>3, <4>1, <4>2
    <3> QED
      BY <1>12, <2>1, <3>1, <3>2, <3>3
  <2>2. ASSUME NEW a \in 1 .. n + 1
        PROVE  /\ rows'[a].root <= n + 1
               /\ \E b \in 1 .. n + 1 : rows'[b].root = rows'[a].root /\ rows'[b].live
    <3>1. rows'[a].root \in Nat /\ rows'[a].root <= n
      BY <1>2, <1>10, <1>11, <1>12, <1>13 DEF old
    <3>2. CASE rows'[a].root = old.root
      BY <1>1, <1>10, <3>1, <3>2
    <3>3. CASE rows'[a].root # old.root
      <4>1. a \in 1 .. n
        BY <1>10, <1>12, <3>3
      <4>2. PICK b \in 1 .. n : rows[b].root = rows[a].root /\ rows[b].live
        BY <4>1 DEF DbInv, LineInv, n
      <4>3. b # i
        BY <1>13, <3>3, <4>1, <4>2 DEF old
      <4> QED
        BY <1>1, <1>10, <1>13, <3>1, <4>1, <4>2, <4>3
    <3> QED
      BY <3>2, <3>3
  <2> QED
    BY <1>8, <2>1, <2>2 DEF LineInv
<1>17. UpdateInv'
  <2>1. commits' = commits + 1 /\ upd' = [upd EXCEPT ![u] = Idle]
    BY DEF UpdateCommit
  <2> SUFFICES ASSUME NEW w \in Updaters, upd'[w].pc # "idle"
               PROVE  /\ upd'[w].value \in Values /\ upd'[w].since \in Nat /\ upd'[w].since <= commits'
                      /\ upd'[w].since # commits' /\ upd'[w].pc # "written"
    BY DEF UpdateInv
  <2>2. w # u /\ upd'[w] = upd[w]
    BY <2>1 DEF DbInv, Idle
  <2> QED
    BY <1>1, <1>2, <2>1, <2>2 DEF DbInv, UpdateInv
<1>18. commits' \in Nat /\ upd' = [w \in Updaters |-> upd'[w]]
  <2>1. commits' = commits + 1 /\ upd' = [upd EXCEPT ![u] = Idle] /\ upd = [w \in Updaters |-> upd[w]]
    BY DEF UpdateCommit, DbInv
  <2> QED
    BY <1>1, <2>1, SMTT(30)
<1> QED
  BY <1>8, <1>16, <1>17, <1>18 DEF DbInv

\* Reading, taking the lock and rolling back leave the rows alone.
LEMMA DbRead ==
    ASSUME DbInv, NEW u \in Updaters,
           \/ \E i \in 1 .. MaxRows, v \in Values : UpdateRead(u, i, v)
           \/ UpdateWrite(u) \/ UpdateFails(u)
    PROVE  DbInv'
<1>1. rows' = rows /\ commits' = commits /\ commits \in Nat /\ rows \in Seq(Row)
  BY DEF UpdateRead, UpdateWrite, UpdateFails, dbVars, DbInv
<1>2. LineInv'
  BY <1>1 DEF DbInv, LineInv
<1>3. CASE \E i \in 1 .. MaxRows, v \in Values : UpdateRead(u, i, v)
  <2>1. PICK i \in 1 .. MaxRows, v \in Values : UpdateRead(u, i, v)
    BY <1>3
  <2>2. /\ upd' = [upd EXCEPT ![u] = Holding("read", i, v, commits)]
        /\ i <= Len(rows) /\ rows[i].live /\ lock' = lock
    BY <2>1 DEF UpdateRead, dbVars
  <2>3. i \in 1 .. Len(rows)
    BY <1>1, <2>2, BoundAssumption
  <2>4. \A w \in Updaters : IF w = u THEN upd'[w] = Holding("read", i, v, commits) ELSE upd'[w] = upd[w]
    BY <2>2 DEF DbInv
  <2>5. UpdateInv'
    BY <1>1, <2>2, <2>3, <2>4 DEF DbInv, UpdateInv, Holding
  <2>6. upd' = [w \in Updaters |-> upd'[w]]
    BY <2>2 DEF DbInv
  <2> QED
    BY <1>1, <1>2, <2>5, <2>6 DEF DbInv
<1>4. CASE UpdateWrite(u)
  <2>1. upd[u].pc = "read"
    BY <1>4 DEF UpdateWrite
  <2>2. CASE lock \/ commits # upd[u].since
    <3>1. upd' = [upd EXCEPT ![u] = Idle] /\ lock' = lock
      BY <1>4, <2>2 DEF UpdateWrite
    <3>2. \A w \in Updaters : IF w = u THEN upd'[w] = Idle ELSE upd'[w] = upd[w]
      BY <3>1 DEF DbInv
    <3>3. UpdateInv'
      BY <1>1, <3>1, <3>2 DEF DbInv, UpdateInv, Idle
    <3>4. upd' = [w \in Updaters |-> upd'[w]]
      BY <3>1 DEF DbInv
    <3> QED
      BY <1>1, <1>2, <3>3, <3>4 DEF DbInv
  <2>3. CASE ~lock /\ commits = upd[u].since
    <3>1. /\ upd' = [upd EXCEPT ![u] = Holding("written", upd[u].id, upd[u].value, upd[u].since)]
          /\ lock' = TRUE
      BY <1>4, <2>3 DEF UpdateWrite
    <3>2. \A w \in Updaters :
             IF w = u THEN upd'[w] = Holding("written", upd[u].id, upd[u].value, upd[u].since)
                      ELSE upd'[w] = upd[w]
      BY <3>1 DEF DbInv
    <3>3. \A w \in Updaters : upd[w].pc # "written"
      BY <2>3 DEF DbInv, UpdateInv
    <3>4. UpdateInv'
      BY <1>1, <2>1, <2>3, <3>1, <3>2, <3>3 DEF DbInv, UpdateInv, Holding
    <3>5. upd' = [w \in Updaters |-> upd'[w]]
      BY <3>1 DEF DbInv
    <3> QED
      BY <1>1, <1>2, <3>4, <3>5 DEF DbInv
  <2> QED
    BY <2>2, <2>3
<1>5. CASE UpdateFails(u)
  <2>1. upd[u].pc = "written" /\ upd' = [upd EXCEPT ![u] = Idle]
    BY <1>5 DEF UpdateFails
  <2>2. \A w \in Updaters : IF w = u THEN upd'[w] = Idle ELSE upd'[w] = upd[w]
    BY <2>1 DEF DbInv
  <2>3. \A w \in Updaters : upd[w].pc = "written" => w = u
    BY <2>1 DEF DbInv, UpdateInv
  <2>4. UpdateInv'
    BY <1>1, <2>2, <2>3 DEF DbInv, UpdateInv, Idle
  <2>5. upd' = [w \in Updaters |-> upd'[w]]
    BY <2>1 DEF DbInv
  <2> QED
    BY <1>1, <1>2, <2>4, <2>5 DEF DbInv
<1> QED
  BY <1>3, <1>4, <1>5

\* Every step keeps the invariant of the tables, ...
LEMMA DbStep == DbInv /\ [Next]_vars => DbInv'
<1> SUFFICES ASSUME DbInv, [Next]_vars PROVE DbInv'
  OBVIOUS
<1>1. CASE rows' = rows /\ commits' = commits /\ upd' = upd /\ lock' = lock
  BY <1>1 DEF DbInv, LineInv, UpdateInv
<1>2. CASE \E k \in Keys, v \in Values : Create(k, v)
  BY <1>2, DbCreate
<1>3. ASSUME NEW u \in Updaters,
             \/ \E i \in 1 .. MaxRows, v \in Values : UpdateRead(u, i, v)
             \/ UpdateWrite(u) \/ UpdateCommit(u) \/ UpdateFails(u)
      PROVE  DbInv'
  BY <1>3, DbRead, DbCommit
<1>4. ASSUME NEW p \in Publishers, PublishFetch(p) \/ PublishPost(p) \/ PublishFails(p)
      PROVE  rows' = rows /\ commits' = commits /\ upd' = upd /\ lock' = lock
  BY <1>4 DEF PublishFetch, PublishPost, PublishFails, dbVars
<1> QED
  BY <1>1, <1>2, <1>3, <1>4 DEF Next, vars, dbVars

\* ... which says what OneLiveVersion does.
LEMMA DbImplies == DbInv => OneLiveVersion
<1> SUFFICES ASSUME DbInv, NEW r \in 1 .. Len(rows)
             PROVE  LET line == {i \in 1 .. Len(rows) : rows[i].root = r}
                    IN  line # {} =>
                          /\ \E i \in line : \A j \in line : /\ rows[j].live <=> j = i
                                                             /\ rows[j].version <= rows[i].version
                          /\ \A i, j \in line : rows[i].version = rows[j].version => i = j
  BY DEF OneLiveVersion
<1> DEFINE line == {i \in 1 .. Len(rows) : rows[i].root = r}
<1> SUFFICES ASSUME line # {}
             PROVE  /\ \E i \in line : \A j \in line : /\ rows[j].live <=> j = i
                                                       /\ rows[j].version <= rows[i].version
                    /\ \A i, j \in line : rows[i].version = rows[j].version => i = j
  OBVIOUS
<1>1. PICK i \in line : rows[i].live
  BY DEF DbInv, LineInv
<1>2. \A j \in line : rows[j].version \in Nat
  BY RowFields DEF DbInv
<1>3. \A j \in line : (rows[j].live <=> j = i) /\ rows[j].version <= rows[i].version
  <2> SUFFICES ASSUME NEW j \in line
               PROVE  (rows[j].live <=> j = i) /\ rows[j].version <= rows[i].version
    OBVIOUS
  <2>1. CASE j = i
    BY <1>1, <1>2, <2>1
  <2>2. CASE j # i
    <3>1. ~rows[j].live /\ rows[j].version < rows[i].version
      BY <1>1, <2>2, TwoVersions, Zenon DEF DbInv
    <3> QED
      BY <1>1, <1>2, <2>2, <3>1
  <2> QED
    BY <2>1, <2>2
<1> QED
  BY <1>1, <1>3 DEF DbInv, LineInv

\* However update requests interleave, a row and its versions have exactly one
\* live member, the newest (update_crdb, update_stip, update_routing).
THEOREM VersionSafety == Spec => []OneLiveVersion
<1>1. Init => DbInv
  BY DbInit
<1>2. DbInv /\ [Next]_vars => DbInv'
  BY DbStep
<1>3. DbInv => OneLiveVersion
  BY DbImplies
<1> QED
  BY <1>1, <1>2, <1>3, PTL DEF Spec
-----------------------------------------------------------------------------
(* What a publish leaves behind.                                           *)

\* The live table is a function of the rows.
LEMMA TableKept == ASSUME rows' = rows PROVE LiveTable' = LiveTable
BY DEF LiveTable, LiveRows

\* Nothing is published at the start ...
LEMMA PublishInit == Init => PublishInv
BY DEF Init, PublishInv, Idle

\* A publish that reads the table holds the live rows.
LEMMA PublishFetchStep ==
    ASSUME PublishInv, NEW p \in Publishers, PublishFetch(p)
    PROVE  PublishInv'
<1>1. rows' = rows /\ daemon' = daemon /\ pub[p] = Idle /\ faults \in Nat
  BY DEF PublishFetch, PublishInv
<1>2. LiveTable' = LiveTable
  BY <1>1, TableKept
<1>3. \A q \in Publishers : q # p => pub'[q] = pub[q]
  BY DEF PublishFetch, PublishInv
<1>4. pub'[p] # Idle /\ pub'[p].pc = "post"
  BY DEF PublishFetch, PublishInv, Idle
<1>5. pub' = [q \in Publishers |-> pub'[q]]
  BY DEF PublishFetch, PublishInv
<1>6. faults' \in Nat
  BY <1>1 DEF PublishFetch
<1>7. ASSUME ~overlap' PROVE \A q \in Publishers : pub[q] = Idle
  BY <1>7 DEF PublishFetch
<1>8. ASSUME ~overlap', faults' = 0, AutoId PROVE pub'[p].table = LiveTable
  <2>1. faults' # faults + 1
    BY <1>1, <1>8
  <2>2. pub' = [pub EXCEPT ![p] = [pc |-> "post", table |-> Selected]]
    BY <2>1 DEF PublishFetch
  <2> QED
    BY <1>8, <2>2 DEF Selected, PublishInv
<1> QED
  BY <1>2, <1>3, <1>4, <1>5, <1>6, <1>7, <1>8 DEF PublishInv

\* A publish that posts, or fails, holds nothing any more.
LEMMA PublishEndStep ==
    ASSUME PublishInv, NEW p \in Publishers, PublishPost(p) \/ PublishFails(p)
    PROVE  PublishInv'
<1>1. rows' = rows /\ faults' = faults /\ overlap' = overlap /\ pub' = [pub EXCEPT ![p] = Idle]
  BY DEF PublishPost, PublishFails, dbVars
<1>2. LiveTable' = LiveTable
  BY <1>1, TableKept
<1>3. pub[p] # Idle
  BY DEF PublishPost, PublishFails, Idle
<1>4. \A q \in Publishers : IF q = p THEN pub'[q] = Idle ELSE pub'[q] = pub[q]
  BY <1>1 DEF PublishInv
<1>5. pub' = [q \in Publishers |-> pub'[q]]
  BY <1>1 DEF PublishInv
<1>6. ASSUME ~overlap', ~edited', faults' = 0, AutoId PROVE daemon' = LiveTable
  <2>1. daemon' = pub[p].table /\ edited' = edited
    BY <1>6 DEF PublishPost, PublishFails, dbVars
  <2> QED
    BY <1>1, <1>3, <1>6, <2>1 DEF PublishInv
<1> QED
  BY <1>1, <1>2, <1>3, <1>4, <1>5, <1>6 DEF PublishInv

\* ... and every step keeps what is published live.
LEMMA PublishStep == PublishInv /\ [Next]_vars => PublishInv'
<1> SUFFICES ASSUME PublishInv, [Next]_vars PROVE PublishInv'
  OBVIOUS
<1>1. ASSUME pub' = pub, daemon' = daemon, faults' = faults, overlap' = overlap,
             edited' \/ (rows' = rows /\ edited' = edited)
      PROVE  PublishInv'
  <2>1. CASE edited'
    BY <1>1, <2>1 DEF PublishInv
  <2>2. CASE rows' = rows /\ edited' = edited
    <3>1. LiveTable' = LiveTable
      BY <2>2, TableKept
    <3> QED
      BY <1>1, <2>2, <3>1 DEF PublishInv
  <2> QED
    BY <1>1, <2>1, <2>2
<1>2. ASSUME NEW p \in Publishers, PublishFetch(p) \/ PublishPost(p) \/ PublishFails(p)
      PROVE  PublishInv'
  BY <1>2, PublishFetchStep, PublishEndStep
<1>3. ASSUME NEW k \in Keys, NEW v \in Values, Create(k, v) PROVE PublishInv'
  BY <1>1, <1>3 DEF Create, pubVars
<1>4. ASSUME NEW u \in Updaters,
             \/ \E i \in 1 .. MaxRows, v \in Values : UpdateRead(u, i, v)
             \/ UpdateWrite(u) \/ UpdateCommit(u) \/ UpdateFails(u)
      PROVE  PublishInv'
  BY <1>1, <1>4 DEF UpdateRead, UpdateWrite, UpdateCommit, UpdateFails, pubVars, dbVars
<1>5. CASE UNCHANGED vars
  BY <1>1, <1>5 DEF vars, dbVars, pubVars
<1> QED
  BY <1>2, <1>3, <1>4, <1>5 DEF Next

\* After publishes that did not overlap and read what they asked for, the daemon
\* serves the live row written last for every key until the next edit
\* (publish_crdb, publish_stip, publish_routing; hot_reload in the daemon).
THEOREM PublishSafety == Spec => []ServesLiveRows
<1>1. Init => PublishInv
  BY PublishInit
<1>2. PublishInv /\ [Next]_vars => PublishInv'
  BY PublishStep
<1>3. PublishInv => ServesLiveRows
  BY DEF PublishInv, ServesLiveRows
<1> QED
  BY <1>1, <1>2, <1>3, PTL DEF Spec

-----------------------------------------------------------------------------
(***************************************************************************)
(* BinRouting                                                              *)
(***************************************************************************)

\* What a prefix of a sequence is, ...
LEMMA PrefixFacts ==
    ASSUME NEW S, NEW s \in Seq(S), NEW n \in 0 .. Len(s)
    PROVE  /\ Prefix(s, n) \in Seq(S) /\ Len(Prefix(s, n)) = n
           /\ \A i \in 1 .. n : Prefix(s, n)[i] = s[i]
           /\ Prefix(s, 0) = <<>> /\ Prefix(s, Len(s)) = s
<1>1. \A i \in 1 .. n : s[i] \in S
  OBVIOUS
<1>2. Prefix(s, n) \in Seq(S) /\ Len(Prefix(s, n)) = n
      /\ \A i \in 1 .. n : Prefix(s, n)[i] = s[i]
  BY <1>1, SubSeqProperties DEF Prefix
<1>3. Prefix(s, 0) = <<>>
  BY SubSeqEmpty DEF Prefix
<1>4. Prefix(s, Len(s)) = s
  BY SubSeqFull DEF Prefix
<1> QED
  BY <1>2, <1>3, <1>4

\* ... and what a prefix of a prefix is.
LEMMA PrefixOfPrefix ==
    ASSUME NEW S, NEW s \in Seq(S), NEW n \in 0 .. Len(s), NEW m \in 0 .. n
    PROVE  Prefix(Prefix(s, n), m) = Prefix(s, m)
<1>1. /\ Prefix(s, n) \in Seq(S) /\ Len(Prefix(s, n)) = n
      /\ \A i \in 1 .. n : Prefix(s, n)[i] = s[i]
  BY PrefixFacts
<1>2. /\ Prefix(Prefix(s, n), m) \in Seq(S) /\ Len(Prefix(Prefix(s, n), m)) = m
      /\ \A i \in 1 .. m : Prefix(Prefix(s, n), m)[i] = Prefix(s, n)[i]
  BY <1>1, PrefixFacts
<1>3. /\ Prefix(s, m) \in Seq(S) /\ Len(Prefix(s, m)) = m
      /\ \A i \in 1 .. m : Prefix(s, m)[i] = s[i]
  BY PrefixFacts
<1>4. \A i \in 1 .. m : Prefix(Prefix(s, n), m)[i] = Prefix(s, m)[i]
  BY <1>1, <1>2, <1>3
<1> QED
  BY <1>2, <1>3, <1>4, SeqEqual

\* An empty trie represents an empty table.
LEMMA NewTrieRepresents == Represents(NewTrie, <<>>)
<1>1. DOMAIN NewTrie = {<<>>} /\ NewTrie[<<>>] = NoRoute
  BY DEF NewTrie
<1>2. <<>> \in Seq(RouteRow) /\ <<>> \in Seq(Digits) /\ Len(<<>>) = 0
  OBVIOUS
<1>3. Prefix(<<>>, 0) = <<>>
  BY SubSeqEmpty DEF Prefix
<1> QED
  BY <1>1, <1>2, <1>3 DEF Represents

\* A row without a destination leaves the trie as it is.
LEMMA SkipRepresents ==
    ASSUME NEW t, NEW tab, Represents(t, tab), NEW row \in RouteRow, row.route = NoRoute
    PROVE  Represents(t, Append(tab, row))
<1>1. tab \in Seq(RouteRow)
  BY DEF Represents
<1>2. /\ Append(tab, row) \in Seq(RouteRow) /\ Len(Append(tab, row)) = Len(tab) + 1
      /\ \A i \in 1 .. Len(tab) : Append(tab, row)[i] = tab[i]
      /\ Append(tab, row)[Len(tab) + 1] = row
  BY <1>1
<1> DEFINE more == Append(tab, row)
<1> HIDE DEF more
<1>3. /\ more \in Seq(RouteRow) /\ Len(more) = Len(tab) + 1 /\ Len(tab) \in Nat
      /\ \A i \in 1 .. Len(tab) : more[i] = tab[i]
      /\ more[Len(tab) + 1] = row
  BY <1>1, <1>2 DEF more
<1>4. ASSUME NEW p \in DOMAIN t, t[p] # NoRoute
      PROVE  \E i \in 1 .. Len(more) :
               /\ more[i].prefix = p /\ more[i].route = t[p]
               /\ \A j \in 1 .. Len(more) : j > i /\ more[j].prefix = p => more[j].route = NoRoute
  <2>1. PICK i \in 1 .. Len(tab) :
               /\ tab[i].prefix = p /\ tab[i].route = t[p]
               /\ \A j \in 1 .. Len(tab) : j > i /\ tab[j].prefix = p => tab[j].route = NoRoute
    BY <1>4 DEF Represents
  <2>2. \A j \in 1 .. Len(more) : j \in 1 .. Len(tab) \/ j = Len(tab) + 1
    BY <1>3
  <2>3. \A j \in 1 .. Len(more) : j > i /\ more[j].prefix = p => more[j].route = NoRoute
    BY <1>3, <2>1, <2>2
  <2>4. i \in 1 .. Len(more) /\ more[i].prefix = p /\ more[i].route = t[p]
    BY <1>3, <2>1
  <2> QED
    BY <2>3, <2>4
<1>5. \A i \in 1 .. Len(more) : more[i].route # NoRoute =>
          more[i].prefix \in DOMAIN t /\ t[more[i].prefix] # NoRoute
  <2>1. \A i \in 1 .. Len(more) : i \in 1 .. Len(tab) \/ i = Len(tab) + 1
    BY <1>3
  <2> QED
    BY <1>3, <2>1, SMTT(30) DEF Represents
<1>6. Represents(t, more)
  BY <1>3, <1>4, <1>5 DEF Represents
<1> QED
  BY <1>6 DEF more

\* BinTrie::insert adds the row's path and overrides only the row's own node.
LEMMA InsertRepresents ==
    ASSUME NEW t, NEW tab, Represents(t, tab), NEW row \in RouteRow, row.route # NoRoute
    PROVE  Represents(Insert(t, row.prefix, row.route), Append(tab, row))
<1> DEFINE bin == row.prefix
           path == {Prefix(bin, n) : n \in 0 .. Len(bin)}
           u == Insert(t, bin, row.route)
           more == Append(tab, row)
<1>1. bin \in Seq(Digits) /\ row.route \in Routes /\ tab \in Seq(RouteRow)
  BY DEF RouteRow, Represents
<1>2. /\ DOMAIN u = DOMAIN t \cup path
      /\ \A p \in DOMAIN u : u[p] = IF p = bin THEN row.route
                                    ELSE IF p \in DOMAIN t THEN t[p] ELSE NoRoute
  BY DEF Insert
<1>3. path \subseteq Seq(Digits) /\ bin \in path
  <2>1. \A n \in 0 .. Len(bin) : Prefix(bin, n) \in Seq(Digits)
    BY <1>1, PrefixFacts
  <2>2. Len(bin) \in 0 .. Len(bin) /\ Prefix(bin, Len(bin)) = bin
    BY <1>1, PrefixFacts
  <2> QED
    BY <2>1, <2>2
<1>4. \A p \in path : \A n \in 0 .. Len(p) : Prefix(p, n) \in path
  <2> SUFFICES ASSUME NEW k \in 0 .. Len(bin), NEW n \in 0 .. Len(Prefix(bin, k))
               PROVE  Prefix(Prefix(bin, k), n) \in path
    OBVIOUS
  <2>1. n \in 0 .. k /\ n \in 0 .. Len(bin)
    BY <1>1, PrefixFacts
  <2>2. Prefix(Prefix(bin, k), n) = Prefix(bin, n)
    BY <1>1, <2>1, PrefixOfPrefix
  <2> QED
    BY <2>1, <2>2
<1> HIDE DEF path, u, bin
<1>5. /\ more \in Seq(RouteRow) /\ Len(more) = Len(tab) + 1 /\ Len(tab) \in Nat
      /\ \A i \in 1 .. Len(tab) : more[i] = tab[i]
      /\ more[Len(tab) + 1] = row
  BY <1>1
<1> HIDE DEF more
<1>6. \A i \in 1 .. Len(more) : i \in 1 .. Len(tab) \/ i = Len(tab) + 1
  BY <1>5
<1>7. /\ DOMAIN u \subseteq Seq(Digits) /\ <<>> \in DOMAIN u
      /\ \A p \in DOMAIN u : u[p] \in Routes \cup {NoRoute}
  BY <1>1, <1>2, <1>3 DEF Represents
<1>8. \A p \in DOMAIN u : \A n \in 0 .. Len(p) : Prefix(p, n) \in DOMAIN u
  BY <1>2, <1>4 DEF Represents
<1>9. ASSUME NEW p \in DOMAIN u, u[p] # NoRoute
      PROVE  \E i \in 1 .. Len(more) :
               /\ more[i].prefix = p /\ more[i].route = u[p]
               /\ \A j \in 1 .. Len(more) : j > i /\ more[j].prefix = p => more[j].route = NoRoute
  <2>1. CASE p = bin
    <3>1. more[Len(tab) + 1].prefix = p /\ more[Len(tab) + 1].route = u[p]
      BY <1>2, <1>5, <2>1 DEF bin
    <3>2. Len(tab) + 1 \in 1 .. Len(more) /\ \A j \in 1 .. Len(more) : ~(j > Len(tab) + 1)
      BY <1>5
    <3> QED
      BY <3>1, <3>2
  <2>2. CASE p # bin
    <3>1. p \in DOMAIN t /\ u[p] = t[p]
      BY <1>2, <1>9, <2>2
    <3>2. PICK i \in 1 .. Len(tab) :
               /\ tab[i].prefix = p /\ tab[i].route = t[p]
               /\ \A j \in 1 .. Len(tab) : j > i /\ tab[j].prefix = p => tab[j].route = NoRoute
      BY <1>9, <3>1 DEF Represents
    <3>3. \A j \in 1 .. Len(more) : j > i /\ more[j].prefix = p => more[j].route = NoRoute
      BY <1>5, <1>6, <2>2, <3>2 DEF bin
    <3>4. i \in 1 .. Len(more) /\ more[i].prefix = p /\ more[i].route = u[p]
      BY <1>5, <3>1, <3>2
    <3> QED
      BY <3>3, <3>4
  <2> QED
    BY <2>1, <2>2
<1>10. \A i \in 1 .. Len(more) : more[i].route # NoRoute =>
          more[i].prefix \in DOMAIN u /\ u[more[i].prefix] # NoRoute
  <2> SUFFICES ASSUME NEW i \in 1 .. Len(more), more[i].route # NoRoute
               PROVE  more[i].prefix \in DOMAIN u /\ u[more[i].prefix] # NoRoute
    OBVIOUS
  <2>1. CASE i = Len(tab) + 1
    BY <1>2, <1>3, <1>5, <2>1 DEF bin
  <2>2. CASE i \in 1 .. Len(tab)
    <3>1. more[i].prefix \in DOMAIN t /\ t[more[i].prefix] # NoRoute
      BY <1>5, <2>2 DEF Represents
    <3> QED
      BY <1>2, <3>1
  <2> QED
    BY <1>6, <2>1, <2>2
<1>11. Represents(u, more)
  BY <1>5, <1>7, <1>8, <1>9, <1>10 DEF Represents
<1> QED
  BY <1>11 DEF u, more, bin

\* One step of find: the walk goes one node deeper.
LEMMA StepBest ==
    ASSUME NEW t, NEW s, NEW k \in Nat, NEW b, BestSoFar(t, s, k, b)
    PROVE  BestSoFar(t, s, k + 1, IF t[Prefix(s, k + 1)] = NoRoute THEN b ELSE t[Prefix(s, k + 1)])
<1>1. \A n \in 0 .. k + 1 : n \in 0 .. k \/ n = k + 1
  OBVIOUS
<1>2. CASE t[Prefix(s, k + 1)] # NoRoute
  <2>1. k + 1 \in 0 .. k + 1 /\ \A n \in 0 .. k + 1 : ~(n > k + 1)
    OBVIOUS
  <2> QED
    BY <1>2, <2>1 DEF BestSoFar
<1>3. CASE t[Prefix(s, k + 1)] = NoRoute
  <2>1. CASE b = NoRoute
    BY <1>1, <1>3, <2>1 DEF BestSoFar
  <2>2. CASE b # NoRoute
    <3>1. PICK m \in 0 .. k : /\ t[Prefix(s, m)] = b
                             /\ \A n \in 0 .. k : n > m => t[Prefix(s, n)] = NoRoute
      BY <2>2 DEF BestSoFar
    <3>2. m \in 0 .. k + 1 /\ \A n \in 0 .. k + 1 : n > m => t[Prefix(s, n)] = NoRoute
      BY <1>1, <1>3, <3>1
    <3> QED
      BY <1>3, <2>2, <3>1, <3>2 DEF BestSoFar
  <2> QED
    BY <2>1, <2>2
<1> QED
  BY <1>2, <1>3

\* The invariant of routing holds of the first trie.
LEMMA InitIInv == RoutingInit => IInv
<1> SUFFICES ASSUME RoutingInit PROVE IInv
  OBVIOUS
<1>1. RoutingTypeOK
  BY DEF RoutingInit, RoutingTypeOK
<1>2. ReloadInv
  BY NewTrieRepresents DEF RoutingInit, ReloadInv
<1>3. LookupInv
  <2> SUFFICES ASSUME NEW w \in Workers
               PROVE  /\ Represents(snap[w], from[w])
                      /\ depth[w] <= Len(pan[w]) /\ Prefix(pan[w], depth[w]) \in DOMAIN snap[w]
                      /\ BestSoFar(snap[w], pan[w], depth[w], best[w])
                      /\ wpc[w] # "found"
    BY DEF LookupInv
  <2>1. /\ snap[w] = NewTrie /\ from[w] = <<>> /\ pan[w] = <<>> /\ depth[w] = 0
        /\ best[w] = NoRoute /\ wpc[w] = "idle"
    BY DEF RoutingInit
  <2>2. Prefix(<<>>, 0) = <<>>
    BY SubSeqEmpty DEF Prefix
  <2>3. <<>> \in DOMAIN NewTrie /\ NewTrie[<<>>] = NoRoute
    BY DEF NewTrie
  <2>4. BestSoFar(NewTrie, <<>>, 0, NoRoute)
    BY <2>2, <2>3 DEF BestSoFar
  <2> QED
    BY <2>1, <2>2, <2>3, <2>4, NewTrieRepresents
<1> QED
  BY <1>1, <1>2, <1>3 DEF IInv

\* The steps of a reload keep the invariant, ...
LEMMA ReloadKeepsIInv ==
    ASSUME IInv, NEW h \in Handlers,
           (\E tab \in Payloads : Reload(h, tab)) \/ ReloadRow(h) \/ Swap(h)
    PROVE  IInv'
<1>1. LookupInv' /\ UNCHANGED lookupVars
  <2>1. UNCHANGED lookupVars
    BY DEF Reload, ReloadRow, Swap
  <2> QED
    BY <2>1 DEF IInv, LookupInv, HasChild, lookupVars
<1>2. ASSUME NEW tab \in Payloads, Reload(h, tab) PROVE RoutingTypeOK' /\ ReloadInv'
  <2>1. tab \in Seq(RouteRow)
    BY PayloadAssumption
  <2>2. RoutingTypeOK'
    BY <1>1, <1>2, <2>1 DEF Reload, IInv, RoutingTypeOK, lookupVars
  <2>3. ReloadInv'
    BY <1>2, NewTrieRepresents DEF Reload, IInv, RoutingTypeOK, ReloadInv
  <2> QED
    BY <2>2, <2>3
<1>3. CASE ReloadRow(h)
  <2> DEFINE row == Head(todo[h])
  <2>1. row \in RouteRow /\ Tail(todo[h]) \in Seq(RouteRow)
    BY <1>3 DEF ReloadRow, IInv, RoutingTypeOK
  <2>2. RoutingTypeOK'
    BY <1>1, <1>3, <2>1 DEF ReloadRow, IInv, RoutingTypeOK, lookupVars
  <2>3. Represents(trie'[h], done'[h])
    <3>1. Represents(trie[h], done[h])
      BY DEF IInv, ReloadInv
    <3>2. done'[h] = Append(done[h], row)
      BY <1>3 DEF ReloadRow, IInv, RoutingTypeOK
    <3>3. CASE row.route = NoRoute
      BY <1>3, <2>1, <3>1, <3>2, <3>3, SkipRepresents DEF ReloadRow
    <3>4. CASE row.route # NoRoute
      <4>1. trie'[h] = Insert(trie[h], row.prefix, row.route)
        BY <1>3, <3>4 DEF ReloadRow, IInv, RoutingTypeOK
      <4> QED
        BY <2>1, <3>1, <3>2, <3>4, <4>1, InsertRepresents
    <3> QED
      BY <3>3, <3>4
  <2>4. \A g \in Handlers : g # h => trie'[g] = trie[g] /\ done'[g] = done[g]
    BY <1>3 DEF ReloadRow, IInv, RoutingTypeOK
  <2>5. ReloadInv'
    BY <1>3, <2>3, <2>4 DEF ReloadRow, IInv, ReloadInv
  <2> QED
    BY <1>1, <2>2, <2>5 DEF IInv
<1>4. CASE Swap(h)
  <2>1. RoutingTypeOK'
    BY <1>1, <1>4 DEF Swap, IInv, RoutingTypeOK, lookupVars
  <2>2. ReloadInv'
    BY <1>4 DEF Swap, IInv, ReloadInv
  <2> QED
    BY <1>1, <2>1, <2>2 DEF IInv
<1> QED
  BY <1>1, <1>2, <1>3, <1>4 DEF IInv

\* ... and so do the steps of a lookup.
LEMMA LookupKeepsIInv ==
    ASSUME IInv, NEW w \in Workers,
           (\E p \in Pans : Find(w, p)) \/ FindDigit(w) \/ FindEnd(w)
    PROVE  IInv'
<1>1. ReloadInv' /\ UNCHANGED reloadVars
  <2>1. UNCHANGED <<router, table, reloadVars>>
    BY DEF Find, FindDigit, FindEnd
  <2> QED
    BY <2>1 DEF IInv, ReloadInv, reloadVars
<1>2. ASSUME NEW p \in Pans, Find(w, p) PROVE RoutingTypeOK' /\ LookupInv'
  <2>1. p \in Seq(Digits)
    BY PanAssumption
  <2>2. /\ Represents(router, table) /\ <<>> \in DOMAIN router
        /\ router[<<>>] \in Routes \cup {NoRoute}
    BY DEF IInv, ReloadInv, Represents
  <2>3. RoutingTypeOK'
    BY <1>1, <1>2, <2>1, <2>2 DEF Find, IInv, RoutingTypeOK, reloadVars
  <2>4. Prefix(p, 0) = <<>>
    BY SubSeqEmpty DEF Prefix
  <2>5. BestSoFar(router, p, 0, router[<<>>])
    BY <2>4 DEF BestSoFar
  <2>6. /\ snap'[w] = router /\ from'[w] = table /\ pan'[w] = p /\ depth'[w] = 0
        /\ best'[w] = router[<<>>] /\ wpc'[w] = "walk"
    BY <1>2 DEF Find, IInv, RoutingTypeOK
  <2>7. \A v \in Workers : v # w =>
            /\ snap'[v] = snap[v] /\ from'[v] = from[v] /\ pan'[v] = pan[v]
            /\ depth'[v] = depth[v] /\ best'[v] = best[v] /\ wpc'[v] = wpc[v]
    BY <1>2 DEF Find, IInv, RoutingTypeOK
  <2>8. Len(p) >= 0
    BY <2>1
  <2>9. LookupInv'
    BY <2>2, <2>4, <2>5, <2>6, <2>7, <2>8 DEF IInv, LookupInv, HasChild
  <2> QED
    BY <2>3, <2>9
<1>3. CASE FindDigit(w)
  <2> DEFINE node == Prefix(pan[w], depth[w] + 1)
             next == IF snap[w][node] = NoRoute THEN best[w] ELSE snap[w][node]
  <2>1. /\ depth[w] \in Nat /\ depth[w] < Len(pan[w]) /\ node \in DOMAIN snap[w]
        /\ wpc[w] = "walk" /\ Len(pan[w]) \in Nat
    BY <1>3 DEF FindDigit, HasChild, IInv, RoutingTypeOK
  <2>2. Represents(snap[w], from[w]) /\ BestSoFar(snap[w], pan[w], depth[w], best[w])
    BY DEF IInv, LookupInv
  <2>3. BestSoFar(snap[w], pan[w], depth[w] + 1, next)
    BY <2>1, <2>2, StepBest
  <2>4. next \in Routes \cup {NoRoute}
    BY <2>1, <2>2 DEF Represents, IInv, RoutingTypeOK
  <2>5. /\ depth' = [depth EXCEPT ![w] = @ + 1] /\ best' = [best EXCEPT ![w] = next]
        /\ UNCHANGED <<wpc, pan, snap, from>>
    BY <1>3 DEF FindDigit, IInv, RoutingTypeOK
  <2>6. RoutingTypeOK'
    BY <1>1, <2>1, <2>4, <2>5 DEF IInv, RoutingTypeOK, reloadVars
  <2>7. depth'[w] = depth[w] + 1 /\ best'[w] = next
    BY <2>5 DEF IInv, RoutingTypeOK
  <2>8. \A v \in Workers : v # w => depth'[v] = depth[v] /\ best'[v] = best[v]
    BY <2>5 DEF IInv, RoutingTypeOK
  <2> HIDE DEF next
  <2>9. LookupInv'
    BY <2>1, <2>2, <2>3, <2>5, <2>7, <2>8 DEF IInv, LookupInv, HasChild
  <2> QED
    BY <1>1, <2>6, <2>9 DEF IInv
<1>4. CASE FindEnd(w)
  <2>1. RoutingTypeOK'
    BY <1>1, <1>4 DEF FindEnd, IInv, RoutingTypeOK, reloadVars
  <2>2. LookupInv'
    BY <1>4 DEF FindEnd, IInv, RoutingTypeOK, LookupInv, HasChild
  <2> QED
    BY <1>1, <2>1, <2>2 DEF IInv
<1> QED
  BY <1>1, <1>2, <1>3, <1>4 DEF IInv

\* A finished walk has passed every usable row that matches the card.
LEMMA WalkPassed ==
    ASSUME IInv, NEW w \in Workers, wpc[w] = "found", NEW i \in 1 .. Len(from[w]),
           from[w][i].route # NoRoute, IsPrefixOf(from[w][i].prefix, pan[w])
    PROVE  LET n == Len(from[w][i].prefix)
           IN  /\ n \in 0 .. depth[w] /\ from[w][i].prefix = Prefix(pan[w], n)
               /\ snap[w][Prefix(pan[w], n)] # NoRoute
<1> DEFINE q == from[w][i].prefix
           n == Len(q)
<1>1. Represents(snap[w], from[w]) /\ pan[w] \in Seq(Digits) /\ depth[w] \in Nat
      /\ depth[w] <= Len(pan[w])
  BY DEF IInv, LookupInv, RoutingTypeOK
<1>2. q \in DOMAIN snap[w] /\ snap[w][q] # NoRoute /\ q \in Seq(Digits)
  BY <1>1 DEF Represents
<1>3. n \in 0 .. Len(pan[w]) /\ q = Prefix(pan[w], n)
  BY <1>1, <1>2 DEF IsPrefixOf
<1>4. ~(n > depth[w])
  <2> SUFFICES ASSUME n > depth[w] PROVE FALSE
    OBVIOUS
  <2>1. depth[w] + 1 \in 0 .. n
    BY <1>1, <1>3
  <2>2. Prefix(q, depth[w] + 1) \in DOMAIN snap[w]
    BY <1>1, <1>2, <2>1 DEF Represents
  <2>3. Prefix(q, depth[w] + 1) = Prefix(pan[w], depth[w] + 1)
    BY <1>1, <1>3, <2>1, PrefixOfPrefix
  <2> QED
    BY <1>1, <1>3, <2>2, <2>3, SMTT(30) DEF IInv, LookupInv, HasChild
<1> QED
  BY <1>1, <1>2, <1>3, <1>4

\* A lookup that has ended has found what the table says.
LEMMA IInvLookupExact == IInv => LookupExact
<1> SUFFICES ASSUME IInv, NEW w \in Workers, wpc[w] = "found"
             PROVE  IF best[w] = NoRoute
                    THEN \A i \in 1 .. Len(from[w]) :
                             from[w][i].route = NoRoute \/ ~IsPrefixOf(from[w][i].prefix, pan[w])
                    ELSE \E i \in 1 .. Len(from[w]) :
                             Decides(from[w], i, pan[w]) /\ from[w][i].route = best[w]
  BY DEF LookupExact
<1>1. /\ Represents(snap[w], from[w]) /\ pan[w] \in Seq(Digits) /\ depth[w] \in Nat
      /\ depth[w] <= Len(pan[w]) /\ Prefix(pan[w], depth[w]) \in DOMAIN snap[w]
      /\ BestSoFar(snap[w], pan[w], depth[w], best[w])
  BY DEF IInv, LookupInv, RoutingTypeOK
<1>2. CASE best[w] = NoRoute
  <2>1. \A n \in 0 .. depth[w] : snap[w][Prefix(pan[w], n)] = NoRoute
    BY <1>1, <1>2 DEF BestSoFar
  <2>2. ASSUME NEW i \in 1 .. Len(from[w]), from[w][i].route # NoRoute,
               IsPrefixOf(from[w][i].prefix, pan[w])
        PROVE  FALSE
    BY <2>1, <2>2, WalkPassed
  <2> QED
    BY <1>2, <2>2
<1>3. CASE best[w] # NoRoute
  <2>1. PICK m \in 0 .. depth[w] :
            /\ snap[w][Prefix(pan[w], m)] = best[w]
            /\ \A n \in 0 .. depth[w] : n > m => snap[w][Prefix(pan[w], n)] = NoRoute
    BY <1>1, <1>3 DEF BestSoFar
  <2> DEFINE p == Prefix(pan[w], m)
  <2>2. p \in Seq(Digits) /\ Len(p) = m /\ m \in 0 .. Len(pan[w])
    BY <1>1, PrefixFacts
  <2>3. p \in DOMAIN snap[w]
    <3>1. depth[w] \in 0 .. Len(pan[w]) /\ Len(Prefix(pan[w], depth[w])) = depth[w]
      BY <1>1, PrefixFacts
    <3>2. Prefix(Prefix(pan[w], depth[w]), m) = p
      BY <1>1, <3>1, PrefixOfPrefix
    <3> QED
      BY <1>1, <3>1, <3>2 DEF Represents
  <2>4. PICK i \in 1 .. Len(from[w]) :
            /\ from[w][i].prefix = p /\ from[w][i].route = best[w]
            /\ \A j \in 1 .. Len(from[w]) :
                   j > i /\ from[w][j].prefix = p => from[w][j].route = NoRoute
    <3>1. snap[w][p] # NoRoute /\ snap[w][p] = best[w]
      BY <1>3, <2>1
    <3>2. \A r \in DOMAIN snap[w] : snap[w][r] # NoRoute =>
              \E i \in 1 .. Len(from[w]) :
                  /\ from[w][i].prefix = r /\ from[w][i].route = snap[w][r]
                  /\ \A j \in 1 .. Len(from[w]) :
                         j > i /\ from[w][j].prefix = r => from[w][j].route = NoRoute
      BY <1>1 DEF Represents
    <3> HIDE DEF p
    <3> QED
      BY <2>3, <3>1, <3>2
  <2>5. IsPrefixOf(from[w][i].prefix, pan[w])
    BY <1>1, <2>2, <2>4 DEF IsPrefixOf
  <2>6. ASSUME NEW j \in 1 .. Len(from[w]), from[w][j].route # NoRoute,
               IsPrefixOf(from[w][j].prefix, pan[w])
        PROVE  \/ Len(from[w][j].prefix) < Len(from[w][i].prefix)
               \/ Len(from[w][j].prefix) = Len(from[w][i].prefix) /\ j <= i
    <3> DEFINE n == Len(from[w][j].prefix)
    <3>1. /\ n \in 0 .. depth[w] /\ from[w][j].prefix = Prefix(pan[w], n)
          /\ snap[w][Prefix(pan[w], n)] # NoRoute
      BY <2>6, WalkPassed
    <3>2. n <= m
      BY <2>1, <3>1
    <3>3. CASE n = m
      <4>1. ~(j > i)
        BY <2>4, <2>6, <3>1, <3>3
      <4> QED
        BY <2>2, <2>4, <3>3, <4>1
    <3>4. CASE n < m
      BY <2>2, <2>4, <3>4
    <3> QED
      BY <3>1, <3>2, <3>3, <3>4
  <2>7. Decides(from[w], i, pan[w])
    BY <1>3, <2>4, <2>5, <2>6 DEF Decides
  <2> QED
    BY <1>3, <2>4, <2>7
<1> QED
  BY <1>2, <1>3

\* For any tables, cards and number of concurrent reloads and lookups, a lookup
\* is a longest-prefix match in the one table current when it began (routing.rs,
\* BinTrie::find; main.rs, hot_reload_routes).
THEOREM LookupCorrect == RoutingSpec => []LookupExact
<1>1. IInv /\ [RoutingNext]_routingVars => IInv'
  <2> SUFFICES ASSUME IInv, [RoutingNext]_routingVars PROVE IInv'
    OBVIOUS
  <2>1. CASE UNCHANGED routingVars
    BY <2>1 DEF routingVars, reloadVars, lookupVars, IInv, RoutingTypeOK, ReloadInv, LookupInv, HasChild
  <2> QED
    BY <2>1, ReloadKeepsIInv, LookupKeepsIInv DEF RoutingNext
<1> QED
  BY InitIInv, <1>1, IInvLookupExact, PTL DEF RoutingSpec
=============================================================================

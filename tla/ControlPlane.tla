---------------------------- MODULE ControlPlane ----------------------------
(***************************************************************************)
(* The operations control plane (ops-control-plane/src/main.rs): versioned  *)
(* rows in SQLite, edited by concurrent requests, and published to the      *)
(* daemon's memory by its hot_reload handlers (payment-daemon/src/main.rs).  *)
(* crdb_records, stip_rules and routing_rules have the same handlers; an     *)
(* instance is one of them.  SQLite is external: statements outside a        *)
(* transaction are atomic, and a deferred transaction that has read cannot   *)
(* write once another connection holds the write lock or has committed since. *)
(***************************************************************************)
EXTENDS Integers, Sequences, FiniteSets, FiniteSetsExt

CONSTANTS
    Keys,       \* pan_hash, network_id or bin_prefix
    Values,     \* what a row sets for its key
    NoValue,
    Seeded,     \* keys schema.sql inserts a row for, with value SeedValue
    SeedValue,
    AutoId,     \* the id column numbers itself (INTEGER PRIMARY KEY AUTOINCREMENT)
    Updaters,   \* concurrent PUT requests
    Publishers, \* concurrent POST /api/publish requests
    MaxRows,    \* bound: rows of the table
    MaxFaults   \* bound: publishes whose SELECT fails

ASSUME KeyAssumption ==
    /\ Seeded \subseteq Keys /\ IsFiniteSet(Seeded)
    /\ SeedValue \in Values /\ NoValue \notin Values
ASSUME BoundAssumption == AutoId \in BOOLEAN /\ MaxRows \in Nat /\ MaxFaults \in Nat

VARIABLES
    rows,    \* committed rows, in rowid order; root is the row a version goes back to
    lock,    \* whether a transaction holds SQLite's write lock
    commits, \* number of commits so far
    upd,     \* upd[u]: an update request
    pub,     \* pub[p]: a publish request
    daemon,  \* the table in the daemon's memory
    faults,
    overlap, \* two publishes were under way at once
    edited   \* a row was committed since the last SELECT of a publish

dbVars == <<rows, lock, commits, edited>>
pubVars == <<pub, daemon, faults, overlap>>
vars == <<dbVars, upd, pubVars>>

Table == [Keys -> Values \cup {NoValue}]
Row == [key : Keys, value : Values, version : Nat, live : BOOLEAN, root : Nat]
Version(k, v, n, l, r) == [key |-> k, value |-> v, version |-> n, live |-> l, root |-> r]
Update == [pc : {"idle"}] \cup
          [pc : {"read", "written"}, id : 1 .. MaxRows, value : Values, since : Nat]
Holding(pc, i, v, n) == [pc |-> pc, id |-> i, value |-> v, since |-> n]
Publish == [pc : {"idle"}] \cup [pc : {"post"}, table : Table]
Idle == [pc |-> "idle"]
Empty == [k \in Keys |-> NoValue]

TypeOK ==
    /\ rows \in Seq(Row)
    /\ lock \in BOOLEAN /\ commits \in Nat
    /\ upd \in [Updaters -> Update] /\ pub \in [Publishers -> Publish]
    /\ daemon \in Table /\ faults \in 0 .. MaxFaults
    /\ overlap \in BOOLEAN /\ edited \in BOOLEAN

Init ==
    /\ \E s \in [1 .. Cardinality(Seeded) -> Seeded] :
           /\ \A k \in Seeded : \E i \in DOMAIN s : s[i] = k
           /\ rows = [i \in DOMAIN s |-> Version(s[i], SeedValue, 1, TRUE, i)]
    /\ lock = FALSE /\ commits = 0
    /\ upd = [u \in Updaters |-> Idle] /\ pub = [p \in Publishers |-> Idle]
    /\ daemon = Empty /\ faults = 0 /\ overlap = FALSE /\ edited = TRUE
-----------------------------------------------------------------------------
(* Edits.                                                                  *)

Create(k, v) ==
    /\ ~lock /\ Len(rows) < MaxRows
    /\ rows' = Append(rows, Version(k, v, 1, TRUE, Len(rows) + 1))
    /\ commits' = commits + 1 /\ edited' = TRUE
    /\ UNCHANGED <<lock, upd, pubVars>>

\* BEGIN, and SELECT ... WHERE id = ? AND is_live = 1.  A row is found by its id,
\* which is NULL where the column does not number itself: NOT_FOUND.
UpdateRead(u, i, v) ==
    /\ upd[u].pc = "idle" /\ Len(rows) < MaxRows
    /\ i <= Len(rows) /\ rows[i].live /\ AutoId
    /\ upd' = [upd EXCEPT ![u] = Holding("read", i, v, commits)]
    /\ UNCHANGED <<dbVars, pubVars>>

\* Faulty variant: the statements run on the pool, outside a transaction.
UpdateWriteUnguarded(u) ==
    /\ upd[u].pc = "read" /\ ~lock
    /\ lock' = TRUE
    /\ upd' = [upd EXCEPT ![u] = Holding("written", @.id, @.value, @.since)]
    /\ UNCHANGED <<rows, commits, edited, pubVars>>

\* The first write of the transaction takes the lock, or fails at once: the
\* handler panics on unwrap and the transaction is rolled back.
UpdateWrite(u) ==
    /\ upd[u].pc = "read"
    /\ IF lock \/ commits # upd[u].since
       THEN upd' = [upd EXCEPT ![u] = Idle] /\ UNCHANGED lock
       ELSE upd' = [upd EXCEPT ![u] = Holding("written", @.id, @.value, @.since)] /\ lock' = TRUE
    /\ UNCHANGED <<rows, commits, edited, pubVars>>

\* COMMIT of the soft delete and the new version.
UpdateCommit(u) ==
    LET i == upd[u].id
        old == rows[i]
    IN  /\ upd[u].pc = "written"
        /\ rows' = Append([rows EXCEPT ![i] = Version(old.key, old.value, old.version, FALSE, old.root)],
                          Version(old.key, upd[u].value, old.version + 1, TRUE, old.root))
        /\ lock' = FALSE /\ commits' = commits + 1 /\ edited' = TRUE
        /\ upd' = [upd EXCEPT ![u] = Idle]
        /\ UNCHANGED pubVars

\* The insert or the COMMIT fails: the handler panics and the transaction it
\* drops is rolled back, soft delete included.
UpdateFails(u) ==
    /\ upd[u].pc = "written"
    /\ lock' = FALSE
    /\ upd' = [upd EXCEPT ![u] = Idle]
    /\ UNCHANGED <<rows, commits, edited, pubVars>>
-----------------------------------------------------------------------------
(* Publishing.                                                             *)

LiveRows(k) == {i \in 1 .. Len(rows) : rows[i].live /\ rows[i].key = k}

\* Rows arrive in rowid order and HashMap::insert keeps the last of a key.
LiveTable == [k \in Keys |-> IF LiveRows(k) = {} THEN NoValue ELSE rows[Max(LiveRows(k))].value]

\* Faulty variant: ORDER BY id DESC, as in the listing endpoints.
SelectedDescending ==
    [k \in Keys |-> IF LiveRows(k) = {} THEN NoValue ELSE rows[Min(LiveRows(k))].value]

\* What fetch_all yields: a NULL id does not decode into an i32, and
\* unwrap_or_default turns the error into no rows at all.
Selected == IF AutoId THEN LiveTable ELSE Empty

PublishFetch(p) ==
    /\ pub[p] = Idle
    /\ \/ /\ pub' = [pub EXCEPT ![p] = [pc |-> "post", table |-> Selected]]
          /\ edited' = FALSE /\ UNCHANGED faults
       \/ /\ faults < MaxFaults /\ faults' = faults + 1
          /\ pub' = [pub EXCEPT ![p] = [pc |-> "post", table |-> Empty]]
          /\ UNCHANGED edited
    /\ overlap' = (overlap \/ \E q \in Publishers : pub[q] # Idle)
    /\ UNCHANGED <<rows, lock, commits, upd, daemon>>

\* The daemon swaps the posted table in; the request returns OK.
PublishPost(p) ==
    /\ pub[p].pc = "post"
    /\ daemon' = pub[p].table
    /\ pub' = [pub EXCEPT ![p] = Idle]
    /\ UNCHANGED <<dbVars, upd, faults, overlap>>

\* The daemon does not answer: BAD_GATEWAY.
PublishFails(p) ==
    /\ pub[p].pc = "post"
    /\ pub' = [pub EXCEPT ![p] = Idle]
    /\ edited' = TRUE
    /\ UNCHANGED <<rows, lock, commits, upd, daemon, faults, overlap>>
-----------------------------------------------------------------------------
Next ==
    \/ \E k \in Keys, v \in Values : Create(k, v)
    \/ \E u \in Updaters : \/ \E i \in 1 .. MaxRows, v \in Values : UpdateRead(u, i, v)
                           \/ UpdateWrite(u) \/ UpdateCommit(u) \/ UpdateFails(u)
    \/ \E p \in Publishers : PublishFetch(p) \/ PublishPost(p) \/ PublishFails(p)

Spec == Init /\ [][Next]_vars
-----------------------------------------------------------------------------
(* Properties.                                                             *)

\* However updates interleave, a row and its versions have exactly one live
\* member, the one with the highest version, and no version number is given
\* twice (main.rs, update_*: soft delete and insert in one transaction).
OneLiveVersion ==
    \A r \in 1 .. Len(rows) :
        LET line == {i \in 1 .. Len(rows) : rows[i].root = r}
        IN  line # {} =>
              /\ \E i \in line : \A j \in line : /\ rows[j].live <=> j = i
                                                 /\ rows[j].version <= rows[i].version
              /\ \A i, j \in line : rows[i].version = rows[j].version => i = j

\* When publishes have not overlapped and no SELECT failed, then once a publish
\* has returned the daemon serves, for every key, the live row written last,
\* until the next edit (main.rs, publish_*; payment-daemon main.rs, hot_reload_*).
ServesLiveRows ==
    ~overlap /\ ~edited /\ faults = 0 /\ AutoId /\ (\A p \in Publishers : pub[p] = Idle) =>
        daemon = LiveTable
-----------------------------------------------------------------------------
(* The inductive invariants behind them.                                   *)

\* Of two versions of a row the live one is the higher, and one is live.
LineInv ==
    /\ \A i, j \in 1 .. Len(rows) : rows[i].root = rows[j].root /\ i # j =>
          /\ rows[i].version # rows[j].version
          /\ rows[i].live => ~rows[j].live /\ rows[j].version < rows[i].version
    /\ \A i \in 1 .. Len(rows) :
          /\ rows[i].root <= Len(rows)
          /\ \E j \in 1 .. Len(rows) : rows[j].root = rows[i].root /\ rows[j].live

\* A transaction that can still write has read a row that is live; the one that
\* has written holds the lock.
UpdateInv ==
    \A u \in Updaters : upd[u].pc # "idle" =>
        /\ upd[u].value \in Values /\ upd[u].since \in Nat /\ upd[u].since <= commits
        /\ upd[u].since = commits => upd[u].id \in 1 .. Len(rows) /\ rows[upd[u].id].live
        /\ upd[u].pc = "written" => /\ lock /\ upd[u].since = commits
                                   /\ \A w \in Updaters : upd[w].pc = "written" => w = u

DbInv ==
    /\ rows \in Seq(Row) /\ commits \in Nat /\ upd = [u \in Updaters |-> upd[u]]
    /\ LineInv /\ UpdateInv

\* What a lone publish is about to post, or has posted, is what is live.
PublishInv ==
    /\ faults \in Nat /\ pub = [p \in Publishers |-> pub[p]]
    /\ ~overlap =>
          /\ \A p, q \in Publishers : pub[p] # Idle /\ pub[q] # Idle => p = q
          /\ ~edited /\ faults = 0 /\ AutoId =>
                /\ \A p \in Publishers : pub[p] # Idle => pub[p].table = LiveTable
                /\ (\A p \in Publishers : pub[p] = Idle) => daemon = LiveTable
-----------------------------------------------------------------------------
(* What a comment says and the code does not do.                           *)

\* schema.sql 68-70: the seeded routes make an 8-digit prefix override a shorter
\* one for matching cards, so the daemon should get the seeded routes.
SeedRoutesPublished ==
    ~overlap /\ ~edited /\ faults = 0 /\ (\A p \in Publishers : pub[p] = Idle) =>
        \A k \in Seeded : daemon[k] # NoValue
=============================================================================

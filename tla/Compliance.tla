------------------------------ MODULE Compliance ------------------------------
(***************************************************************************)
(* The compliance list (switch-core/src/compliance.rs): a poller thread      *)
(* copies the live 'block' rows of the operations database into a concurrent *)
(* map, which the workers consult while it is being brought up to date.      *)
(***************************************************************************)
EXTENDS Naturals, FiniteSets

CONSTANT Bins   \* issuer prefixes that can be listed

VARIABLES
    rows,      \* rows with is_live = 1 and action = 'block'
    cache,     \* the DashMap
    poller,    \* the poller thread: its place and temp_cache
    steady,    \* rows the query under way returned that have been live ever since
    covered,   \* rows that a finished refresh found, that every query since has
               \* returned and that have been live ever since
    publishes  \* bound: changes of the list that the operators will still make

complianceVars == <<rows, cache, poller, steady, covered, publishes>>

Asleep == [pc |-> "sleep", found |-> {}]

ComplianceInit(n) ==
    /\ rows = {} /\ cache = {} /\ poller = Asleep /\ steady = {} /\ covered = {} /\ publishes = n

\* The control plane lists or unlists a prefix.
Publish ==
    /\ publishes > 0
    /\ publishes' = publishes - 1
    /\ \E b \in Bins : rows' = IF b \in rows THEN rows \ {b} ELSE rows \cup {b}
    /\ steady' = steady \cap rows' /\ covered' = covered \cap rows'
    /\ UNCHANGED <<cache, poller>>

\* The query.  When the database cannot be opened or the statement not prepared,
\* the poller sleeps again and nothing has changed.  An error while the rows are
\* stepped through comes as an item that is passed over: temp_cache then has some
\* of the rows or none, and is used like any other.
PollerQuery ==
    /\ poller.pc = "sleep"
    /\ \E found \in SUBSET rows :
           /\ poller' = [pc |-> "retain", found |-> found]
           /\ steady' = found /\ covered' = covered \cap found
    /\ UNCHANGED <<rows, cache, publishes>>

\* The plausible mistake: the map is emptied before it is filled again.
PollerRetainClears ==
    /\ poller.pc = "retain"
    /\ cache' = {}
    /\ poller' = [poller EXCEPT !.pc = "insert"]
    /\ UNCHANGED <<rows, steady, covered, publishes>>

\* The plausible mistake: rows are only ever added.
PollerRetainKeeps ==
    /\ poller.pc = "retain"
    /\ poller' = [poller EXCEPT !.pc = "insert"]
    /\ UNCHANGED <<rows, cache, steady, covered, publishes>>

\* DashMap::retain goes through the map shard by shard.
PollerRetain ==
    /\ poller.pc = "retain"
    /\ \/ /\ \E b \in cache \ poller.found : cache' = cache \ {b}
          /\ UNCHANGED poller
       \/ /\ cache \subseteq poller.found
          /\ poller' = [poller EXCEPT !.pc = "insert"]
          /\ UNCHANGED cache
    /\ UNCHANGED <<rows, steady, covered, publishes>>

PollerInsert ==
    /\ poller.pc = "insert"
    /\ \/ /\ \E b \in poller.found \ cache : cache' = cache \cup {b}
          /\ UNCHANGED <<poller, steady, covered>>
       \/ /\ poller.found \subseteq cache
          /\ covered' = covered \cup steady
          /\ steady' = {} /\ poller' = Asleep
          /\ UNCHANGED cache
    /\ UNCHANGED <<rows, publishes>>

Poller == PollerQuery \/ PollerRetain \/ PollerInsert

\* The daemon starts with an empty map.
ComplianceRestart ==
    /\ cache' = {} /\ poller' = Asleep /\ steady' = {} /\ covered' = {}
    /\ UNCHANGED <<rows, publishes>>

\* ComplianceGuard::evaluate, for the first six digits of a PAN.
evaluate(bin) == bin \in cache

-----------------------------------------------------------------------------
(* Properties *)

\* A prefix that a refresh has entered, that no query has missed since, and that
\* has been live ever since, is blocked at every moment: also while later refreshes
\* go through the map, and whatever else is listed and unlisted, or missed,
\* meanwhile.
CoveredBlocked == covered \subseteq cache

\* The inductive invariant behind it: what is covered is in the result of the
\* query under way, so the map keeps it.
CoverInv ==
    /\ poller \in [pc : {"sleep", "retain", "insert"}, found : SUBSET Bins]
    /\ rows \subseteq Bins
    /\ steady \subseteq rows \cap poller.found
    /\ covered \subseteq rows \cap cache
    /\ poller.pc # "sleep" => covered \subseteq poller.found

\* When the operators stop changing the list, and from some time on no query
\* misses a row, the switch comes to enforce exactly what is live, whatever
\* partial results it went through before.
QueryComplete == PollerQuery => poller'.found = rows
CacheConverges == <>[][QueryComplete]_complianceVars => <>[](cache = rows)
-----------------------------------------------------------------------------
(* What the poller's comment says and the code does not do.                *)

\* compliance.rs 46, "Sync DashMap": the map follows the list.  A refresh should
\* take out of it only what is no longer listed.
RefreshKeepsListed == [][PollerRetain => rows \cap cache \subseteq cache']_complianceVars
=============================================================================

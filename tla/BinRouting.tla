----------------------------- MODULE BinRouting -----------------------------
(***************************************************************************)
(* The BIN routing table (switch-core/src/routing.rs) and its hot reload    *)
(* (payment-daemon/src/main.rs, hot_reload_routes).  A trie is a function   *)
(* from the paths that have a node, a prefix-closed set of digit sequences, *)
(* to the route stored there.  A reload compiles a new trie row by row and  *)
(* swaps it in; a lookup walks the trie that was current when it began.     *)
(***************************************************************************)
EXTENDS Integers, Sequences

CONSTANTS
    Digits,
    Routes,    \* destination and failover node of a row
    NoRoute,   \* no route in a node; also a row without a usable destination
    Pans,      \* card numbers looked up
    Payloads,  \* tables posted to the daemon
    Handlers,  \* concurrent hot_reload_routes requests
    Workers    \* engine threads

ASSUME RouteAssumption == NoRoute \notin Routes
ASSUME PanAssumption == Pans \subseteq Seq(Digits)

RouteRow == [prefix : Seq(Digits), route : Routes \cup {NoRoute}]
ASSUME PayloadAssumption == \A p \in Payloads : p \in Seq(RouteRow)

VARIABLES
    router,  \* the current trie
    table,   \* the rows it was compiled from
    hpc, todo, done, trie,     \* a reload: phase, rows to insert, rows passed, its trie
    wpc, pan, snap, from, depth, best  \* a lookup: phase, card, trie, its rows, digits walked

reloadVars == <<hpc, todo, done, trie>>
lookupVars == <<wpc, pan, snap, from, depth, best>>
routingVars == <<router, table, reloadVars, lookupVars>>

Prefix(s, n) == SubSeq(s, 1, n)
NewTrie == [p \in {<<>>} |-> NoRoute]

\* BinTrie::insert: missing nodes on the way are created without a route.
Insert(t, bin, route) ==
    [p \in DOMAIN t \cup {Prefix(bin, n) : n \in 0 .. Len(bin)} |->
        IF p = bin THEN route ELSE IF p \in DOMAIN t THEN t[p] ELSE NoRoute]

RoutingInit ==
    /\ router = NewTrie /\ table = <<>>
    /\ hpc = [h \in Handlers |-> "idle"]
    /\ todo = [h \in Handlers |-> <<>>] /\ done = [h \in Handlers |-> <<>>]
    /\ trie = [h \in Handlers |-> NewTrie]
    /\ wpc = [w \in Workers |-> "idle"]
    /\ pan = [w \in Workers |-> <<>>]
    /\ snap = [w \in Workers |-> NewTrie] /\ from = [w \in Workers |-> <<>>]
    /\ depth = [w \in Workers |-> 0] /\ best = [w \in Workers |-> NoRoute]
-----------------------------------------------------------------------------
(* hot_reload_routes.                                                      *)

Reload(h, rows) ==
    /\ hpc[h] = "idle"
    /\ hpc' = [hpc EXCEPT ![h] = "compile"]
    /\ todo' = [todo EXCEPT ![h] = rows] /\ done' = [done EXCEPT ![h] = <<>>]
    /\ trie' = [trie EXCEPT ![h] = NewTrie]
    /\ UNCHANGED <<router, table, lookupVars>>

\* A row that names no destination is skipped.
ReloadRow(h) ==
    LET row == Head(todo[h])
    IN  /\ hpc[h] = "compile" /\ todo[h] # <<>>
        /\ trie' = IF row.route = NoRoute THEN trie
                   ELSE [trie EXCEPT ![h] = Insert(@, row.prefix, row.route)]
        /\ todo' = [todo EXCEPT ![h] = Tail(@)] /\ done' = [done EXCEPT ![h] = Append(@, row)]
        /\ UNCHANGED <<hpc, router, table, lookupVars>>

\* router.store
Swap(h) ==
    /\ hpc[h] = "compile" /\ todo[h] = <<>>
    /\ router' = trie[h] /\ table' = done[h]
    /\ hpc' = [hpc EXCEPT ![h] = "idle"]
    /\ UNCHANGED <<todo, done, trie, lookupVars>>
-----------------------------------------------------------------------------
(* BinTrie::find on router.load().                                         *)

Find(w, p) ==
    /\ wpc[w] # "walk"
    /\ wpc' = [wpc EXCEPT ![w] = "walk"]
    /\ pan' = [pan EXCEPT ![w] = p]
    /\ snap' = [snap EXCEPT ![w] = router] /\ from' = [from EXCEPT ![w] = table]
    /\ depth' = [depth EXCEPT ![w] = 0]
    /\ best' = [best EXCEPT ![w] = router[<<>>]]
    /\ UNCHANGED <<router, table, reloadVars>>

HasChild(w) ==
    depth[w] < Len(pan[w]) /\ Prefix(pan[w], depth[w] + 1) \in DOMAIN snap[w]

\* Faulty variant: a node without a route forgets the match found so far.
FindDigitForgets(w) ==
    LET node == Prefix(pan[w], depth[w] + 1)
    IN  /\ wpc[w] = "walk" /\ HasChild(w)
        /\ depth' = [depth EXCEPT ![w] = @ + 1]
        /\ best' = [best EXCEPT ![w] = snap[w][node]]
        /\ UNCHANGED <<router, table, reloadVars, wpc, pan, snap, from>>

FindDigit(w) ==
    LET node == Prefix(pan[w], depth[w] + 1)
    IN  /\ wpc[w] = "walk" /\ HasChild(w)
        /\ depth' = [depth EXCEPT ![w] = @ + 1]
        /\ best' = IF snap[w][node] = NoRoute THEN best ELSE [best EXCEPT ![w] = snap[w][node]]
        /\ UNCHANGED <<router, table, reloadVars, wpc, pan, snap, from>>

FindEnd(w) ==
    /\ wpc[w] = "walk" /\ ~HasChild(w)
    /\ wpc' = [wpc EXCEPT ![w] = "found"]
    /\ UNCHANGED <<router, table, reloadVars, pan, snap, from, depth, best>>
-----------------------------------------------------------------------------
RoutingNext ==
    \/ \E h \in Handlers : \/ \E rows \in Payloads : Reload(h, rows)
                           \/ ReloadRow(h) \/ Swap(h)
    \/ \E w \in Workers : \/ \E p \in Pans : Find(w, p)
                          \/ FindDigit(w) \/ FindEnd(w)

RoutingSpec == RoutingInit /\ [][RoutingNext]_routingVars
-----------------------------------------------------------------------------
(* Properties.                                                             *)

IsPrefixOf(p, s) == Len(p) <= Len(s) /\ p = Prefix(s, Len(p))

\* Row i decides card s: it matches, and every other usable row that matches is
\* shorter, or as long and earlier in the table.
Decides(rows, i, s) ==
    /\ rows[i].route # NoRoute /\ IsPrefixOf(rows[i].prefix, s)
    /\ \A j \in 1 .. Len(rows) :
          rows[j].route # NoRoute /\ IsPrefixOf(rows[j].prefix, s) =>
              \/ Len(rows[j].prefix) < Len(rows[i].prefix)
              \/ Len(rows[j].prefix) = Len(rows[i].prefix) /\ j <= i

\* A lookup returns the route of the row with the longest matching prefix, the
\* last one of equals, of the one table that was current when it began, however
\* many reloads overlap it (schema.sql, "longest-prefix-match"; routing.rs, find).
LookupExact ==
    \A w \in Workers : wpc[w] = "found" =>
        IF best[w] = NoRoute
        THEN \A i \in 1 .. Len(from[w]) :
                 from[w][i].route = NoRoute \/ ~IsPrefixOf(from[w][i].prefix, pan[w])
        ELSE \E i \in 1 .. Len(from[w]) :
                 Decides(from[w], i, pan[w]) /\ from[w][i].route = best[w]

\* The inductive invariant behind it.  A trie represents a table: it is prefix
\* closed, a routed node holds the last usable row of its path, and every usable
\* row has its node.
Represents(t, rows) ==
    /\ rows \in Seq(RouteRow) /\ DOMAIN t \subseteq Seq(Digits) /\ <<>> \in DOMAIN t
    /\ \A p \in DOMAIN t : t[p] \in Routes \cup {NoRoute}
    /\ \A p \in DOMAIN t : \A n \in 0 .. Len(p) : Prefix(p, n) \in DOMAIN t
    /\ \A p \in DOMAIN t : t[p] # NoRoute =>
           \E i \in 1 .. Len(rows) :
               /\ rows[i].prefix = p /\ rows[i].route = t[p]
               /\ \A j \in 1 .. Len(rows) : j > i /\ rows[j].prefix = p => rows[j].route = NoRoute
    /\ \A i \in 1 .. Len(rows) : rows[i].route # NoRoute =>
           rows[i].prefix \in DOMAIN t /\ t[rows[i].prefix] # NoRoute

\* b is the deepest route on the first k digits of s.
BestSoFar(t, s, k, b) ==
    \/ b = NoRoute /\ \A n \in 0 .. k : t[Prefix(s, n)] = NoRoute
    \/ /\ b # NoRoute
       /\ \E m \in 0 .. k : /\ t[Prefix(s, m)] = b
                           /\ \A n \in 0 .. k : n > m => t[Prefix(s, n)] = NoRoute

RoutingTypeOK ==
    /\ hpc \in [Handlers -> {"idle", "compile"}] /\ todo \in [Handlers -> Seq(RouteRow)]
    /\ DOMAIN done = Handlers /\ DOMAIN trie = Handlers
    /\ wpc \in [Workers -> {"idle", "walk", "found"}] /\ pan \in [Workers -> Seq(Digits)]
    /\ depth \in [Workers -> Nat] /\ best \in [Workers -> Routes \cup {NoRoute}]
    /\ DOMAIN snap = Workers /\ DOMAIN from = Workers
ReloadInv == Represents(router, table) /\ \A h \in Handlers : Represents(trie[h], done[h])
LookupInv ==
    \A w \in Workers :
        /\ Represents(snap[w], from[w])
        /\ depth[w] <= Len(pan[w]) /\ Prefix(pan[w], depth[w]) \in DOMAIN snap[w]
        /\ BestSoFar(snap[w], pan[w], depth[w], best[w])
        /\ wpc[w] = "found" => ~HasChild(w)
IInv == RoutingTypeOK /\ ReloadInv /\ LookupInv
=============================================================================

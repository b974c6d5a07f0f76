------------------------------- MODULE StandIn -------------------------------
(***************************************************************************)
(* The stand-in store: the sled database of card profiles from which workers *)
(* approve when no upstream takes a request (switch-core/src/engine.rs), and *)
(* the loader that fills it while the daemon is down (bin/stip_loader.rs).   *)
(* sled flushes in the background, so a crash can lose the latest inserts.   *)
(***************************************************************************)
EXTENDS Integers, FiniteSets

CONSTANTS
    Cards,       \* PANs that can have a profile
    CardProfiles, \* profiles a CSV row can hold: [balance, is_blocked]
    NoProfile    \* the value of an absent profile

Profile == [balance : Int, is_blocked : BOOLEAN]

ASSUME StandInAssumption == CardProfiles \subseteq Profile

VARIABLES
    up,        \* the daemon runs
    stip,      \* the profiles, as the daemon reads them
    flushed,   \* the profiles that survive a crash
    loaded,    \* loaded[c]: balance the loader gave the card
    spent,     \* spent[c]: sum of the amounts approved from it since
    disturbed, \* cards with overlapping approvals or one lost in a crash
    loads,     \* bound: rows that the loader will still write
    crashes    \* bound: crashes to come

standInVars == <<up, stip, flushed, loaded, spent, disturbed, loads, crashes>>

StandInInit(n, m) ==
    /\ up = FALSE
    /\ stip = [c \in Cards |-> NoProfile] /\ flushed = stip
    /\ loaded = [c \in Cards |-> 0] /\ spent = loaded /\ disturbed = {}
    /\ loads = n /\ crashes = m

\* One row of the CSV file.  A row that does not parse ends the load; the rows
\* before it stay.
Load ==
    /\ ~up /\ loads > 0
    /\ loads' = loads - 1
    /\ \E c \in Cards, p \in CardProfiles :
          /\ stip' = [stip EXCEPT ![c] = p] /\ flushed' = stip'
          /\ loaded' = [loaded EXCEPT ![c] = p.balance]
          /\ spent' = [spent EXCEPT ![c] = 0]
          /\ disturbed' = disturbed \ {c}
    /\ UNCHANGED <<up, crashes>>

Flush ==
    /\ up /\ flushed # stip
    /\ flushed' = stip
    /\ UNCHANGED <<up, stip, loaded, spent, disturbed, loads, crashes>>

StandInCrash ==
    /\ up /\ crashes > 0
    /\ crashes' = crashes - 1
    /\ up' = FALSE
    /\ stip' = flushed
    /\ disturbed' = disturbed \cup {c \in Cards : stip[c] # flushed[c]}
    /\ UNCHANGED <<flushed, loaded, spent, loads>>

StandInStart ==
    /\ ~up
    /\ up' = TRUE
    /\ UNCHANGED <<stip, flushed, loaded, spent, disturbed, loads, crashes>>

\* The plausible mistake: any positive balance will do.
VerdictOverdraws(p, amount) ==
    IF p = NoProfile THEN "05"
    ELSE IF p.is_blocked THEN "41"
    ELSE IF p.balance > 0 THEN "00" ELSE "51"

\* What the worker decides about a profile that it has read.
Verdict(p, amount) ==
    IF p = NoProfile THEN "05"
    ELSE IF p.is_blocked THEN "41"
    ELSE IF p.balance >= amount THEN "00" ELSE "51"

\* The insert of the reduced profile, from the copy that was read earlier; others
\* tells whether another worker has a copy of the same card.
Deduct(c, p, amount, others) ==
    /\ IF Verdict(p, amount) = "00"
       THEN /\ stip' = [stip EXCEPT ![c] = [p EXCEPT !.balance = @ - amount]]
            /\ spent' = [spent EXCEPT ![c] = @ + amount]
            /\ disturbed' = IF others THEN disturbed \cup {c} ELSE disturbed
       ELSE UNCHANGED <<stip, spent, disturbed>>
    /\ UNCHANGED <<up, flushed, loaded, loads, crashes>>

-----------------------------------------------------------------------------
(* Properties *)

\* Workers deduct from copies, concurrently, and a crash can take a deduction
\* back: what is deducted never exceeds what was approved, no balance is overdrawn
\* and, on a card where neither has happened, balance and approvals agree.
DeductionsExact ==
    \A c \in Cards : stip[c] # NoProfile =>
        /\ stip[c].balance >= loaded[c] - spent[c]
        /\ loaded[c] >= 0 => stip[c].balance >= 0
        /\ c \notin disturbed => stip[c].balance = loaded[c] - spent[c]

\* The inductive invariant behind it: its first two parts hold of every copy of
\* a profile, in the store, on disk or in a worker's hands.
Sound(c, balance) ==
    /\ balance >= loaded[c] - spent[c]
    /\ loaded[c] >= 0 => balance >= 0

StoreInv ==
    /\ stip \in [Cards -> Profile \cup {NoProfile}]
    /\ flushed \in [Cards -> Profile \cup {NoProfile}]
    /\ loaded \in [Cards -> Int] /\ spent \in [Cards -> Int]
    /\ \A c \in Cards :
          /\ flushed[c] # NoProfile => Sound(c, flushed[c].balance)
          /\ stip[c] # NoProfile =>
                /\ Sound(c, stip[c].balance)
                /\ c \notin disturbed => stip[c].balance = loaded[c] - spent[c]
=============================================================================

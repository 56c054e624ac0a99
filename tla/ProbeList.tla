------------------------------ MODULE ProbeList ------------------------------
(***************************************************************************)
(* What a probe cycle looks at: ISOProber._build_probe_list of sources.py  *)
(* over WG21Index's numbers, with the effective frontier, the hot numbers  *)
(* of every cycle and the rotating slice of the cold ones.                 *)
(*                                                                         *)
(* The watchlists are read twice while a list is built, in two database    *)
(* transactions; the Bolt thread may edit them in between.  Extensions are *)
(* left out: an entry stands for one URL for each of them.                 *)
(***************************************************************************)
EXTENDS Integers, FiniteSetsExt

CONSTANTS
    MaxNum,         \* bound on P-numbers, for a finite instance
    MaxRev,         \* bound on revisions in the index, for a finite instance
    Watchable,      \* numbers users watch
    Discoverable,   \* numbers of files that get into discovered_urls
    GapThreshold,   \* cfg.frontier_gap_threshold
    Below, Above,   \* cfg.frontier_window_below, cfg.frontier_window_above
    Explicit,       \* the numbers of cfg.frontier_explicit_ranges
    Divisor,        \* cfg.cold_cycle_divisor
    HotDepth, ColdDepth,    \* cfg.hot_revision_depth, cfg.cold_revision_depth
    GapMaxRev,      \* cfg.gap_max_rev
    ProbePrefixes   \* cfg.probe_prefixes

Num == 1 .. MaxNum
Unknown == -1

ASSUME SettingsAssumption ==
    /\ {MaxNum, Divisor} \subseteq Nat \ {0}
    /\ {MaxRev, GapThreshold, Below, Above, HotDepth, ColdDepth, GapMaxRev} \subseteq Nat
    /\ Watchable \cup Discoverable \cup Explicit \subseteq Nat

VARIABLES
    maxRev,     \* index._max_rev: latest revision, Unknown for a number not in it
    active,     \* numbers of the index with a recent date
    discovered, \* numbers in discovered_urls
    watched,    \* watched numbers, all users together
    cycle,      \* _cycle: 0, then 1 .. Divisor, only its remainder is used
    pc,         \* "idle", "hot_read" between the two reads, "built"
    hot,        \* result of _hot_numbers
    list,       \* the probe list
    unprobed    \* cycles since a number was last on a list, or since the last FAILED one

vars == <<maxRev, active, discovered, watched, cycle, pc, hot, list, unprobed>>

-----------------------------------------------------------------------------
(* WG21Index *)

Known == {n \in Num : maxRev[n] # Unknown}

\* sorted(nums): at every position the number with that many smaller ones
Sorted(nums) ==
    [i \in 1 .. Cardinality(nums) |->
        CHOOSE n \in nums : Cardinality({m \in nums : m < n}) = i - 1]

\* Mutant: the loop runs from the bottom up.
FirstCluster(nums) ==
    LET s == Sorted(nums)
        close == {i \in 2 .. Cardinality(nums) : s[i] - s[i - 1] <= GapThreshold}
    IN  IF nums = {} THEN 0 ELSE s[IF close = {} THEN 1 ELSE Min(close)]

\* effective_frontier: from the top of the sorted numbers down to the second, the
\* first that is close to the one before it; else the first of all.
EffectiveFrontier(nums) ==
    LET s == Sorted(nums)
        close == {i \in 2 .. Cardinality(nums) : s[i] - s[i - 1] <= GapThreshold}
    IN  IF nums = {} THEN 0 ELSE s[Max({1} \cup close)]

\* The numbers the frontier is taken from.
Seen == Known \cup discovered

Frontier == EffectiveFrontier(Seen)

\* Mutant: the window is not cut off at 1.
UncutWindow == LET f == Frontier IN (f - Below + 1 .. f + Above) \cup Explicit

\* The frontier window and the explicit ranges.
FrontierRange ==
    LET f == Frontier
    IN  ((IF f - Below + 1 > 1 THEN f - Below + 1 ELSE 1) .. f + Above) \cup Explicit

-----------------------------------------------------------------------------
(* The list *)

Entry(tier, prefix, num, rev) ==
    [tier |-> tier, prefix |-> prefix, num |-> num, rev |-> rev]

\* Mutant: revisions from the latest one.
FromLatest(tier, nums, depth) ==
    {Entry(tier[n], "D", n, maxRev[n] + k) : n \in nums, k \in 0 .. depth - 1}

\* D-revisions after the latest one in the index; tier gives each number its tier.
NextDrafts(tier, nums, depth) ==
    {Entry(tier[n], "D", n, maxRev[n] + k) : n \in nums, k \in 1 .. depth}

\* Every prefix and the first revisions of a number the index does not have.
GapFiles(tier, nums) ==
    {Entry(tier, x, n, r) : x \in ProbePrefixes, n \in nums, r \in 0 .. GapMaxRev}

TierLabel(n, window) ==
    IF n \in watched THEN "watchlist"
    ELSE IF n \in window THEN "frontier"
    ELSE "recent"

\* _build_hot_list, with the second read of the watchlists
HotList ==
    LET window == FrontierRange
    IN  NextDrafts([n \in hot |-> TierLabel(n, window)], hot \cap Known, HotDepth)
            \cup GapFiles("frontier", hot \ Known)

\* Mutant: numbers above the frontier are forgotten.
ColdUpToFrontier ==
    LET slice == {n \in (1 .. Frontier) \ hot : n % Divisor = (cycle - 1) % Divisor}
    IN  NextDrafts([n \in slice |-> "cold"], slice \cap Known, ColdDepth)
            \cup GapFiles("cold", slice \ Known)

\* Mutant: hot numbers are in the slices as well.
ColdIncludesHot ==
    LET slice == {n \in Known \cup (1 .. Frontier) : n % Divisor = (cycle - 1) % Divisor}
    IN  NextDrafts([n \in slice |-> "cold"], slice \cap Known, ColdDepth)
            \cup GapFiles("cold", slice \ Known)

\* _build_cold_slice
ColdSlice ==
    LET slice == {n \in (Known \cup (1 .. Frontier)) \ hot : n % Divisor = (cycle - 1) % Divisor}
    IN  NextDrafts([n \in slice |-> "cold"], slice \cap Known, ColdDepth)
            \cup GapFiles("cold", slice \ Known)

\* run_cycle begins: _cycle += 1, then the first read, _hot_numbers
ReadHotNumbers ==
    /\ pc = "idle"
    /\ cycle' = (cycle % Divisor) + 1
    /\ hot' = watched \cup FrontierRange \cup active
    /\ pc' = "hot_read"
    /\ UNCHANGED <<maxRev, active, discovered, watched, list, unprobed>>

BuildList ==
    /\ pc = "hot_read"
    /\ list' = HotList \cup ColdSlice
    /\ pc' = "built"
    /\ UNCHANGED <<maxRev, active, discovered, watched, cycle, hot, unprobed>>

\* Numbers that are to be probed: those up to the frontier and those in the index.
Covered == Known \cup (1 .. Frontier)

\* The URLs of the list are probed and the cycle ends.
EndCycle ==
    /\ pc = "built"
    /\ LET skipped == Covered \ {e.num : e \in list}
       IN  unprobed' = [n \in Num |-> IF n \notin skipped THEN 0
                                      ELSE IF unprobed[n] <= Divisor THEN unprobed[n] + 1
                                      ELSE unprobed[n]]
    /\ list' = {}
    /\ hot' = {}
    /\ pc' = "idle"
    /\ UNCHANGED <<maxRev, active, discovered, watched, cycle>>

\* An exception while the list is built, or once its URLs are probed and hits are
\* recorded: the cycle is FAILED, its number is used up.
FailCycle ==
    /\ pc # "idle"
    /\ unprobed' = [n \in Num |-> 0]
    /\ list' = {}
    /\ hot' = {}
    /\ pc' = "idle"
    /\ UNCHANGED <<maxRev, active, discovered, watched, cycle>>

\* A new process counts its cycles from 0.
Restart ==
    /\ pc = "idle"
    /\ cycle' = 0
    /\ unprobed' = [n \in Num |-> 0]
    /\ UNCHANGED <<maxRev, active, discovered, watched, pc, hot, list>>

-----------------------------------------------------------------------------
(* The world, between cycles except for the Bolt thread's edits *)

\* Another download: a number has a later revision, whose date makes it recently
\* active, or it has an earlier one or none at all, where entries were left out.
Download(n, rev) ==
    /\ pc = "idle"
    /\ rev # maxRev[n]
    /\ maxRev' = [maxRev EXCEPT ![n] = rev]
    /\ active' = IF rev > maxRev[n] THEN active \cup {n}
                 ELSE IF rev = Unknown THEN active \ {n}
                 ELSE active
    /\ UNCHANGED <<discovered, watched, cycle, pc, hot, list, unprobed>>

\* hot_lookback_months pass.
Quieten(n) ==
    /\ pc = "idle"
    /\ n \in active
    /\ active' = active \ {n}
    /\ UNCHANGED <<maxRev, discovered, watched, cycle, pc, hot, list, unprobed>>

Discover(n) ==
    /\ pc = "idle"
    /\ discovered' = discovered \cup {n}
    /\ UNCHANGED <<maxRev, active, watched, cycle, pc, hot, list, unprobed>>

Watch(n) ==
    /\ watched' = watched \cup {n}
    /\ UNCHANGED <<maxRev, active, discovered, cycle, pc, hot, list, unprobed>>

Unwatch(n) ==
    /\ watched' = watched \ {n}
    /\ UNCHANGED <<maxRev, active, discovered, cycle, pc, hot, list, unprobed>>

-----------------------------------------------------------------------------

Init ==
    /\ maxRev = [n \in Num |-> Unknown]
    /\ active = {}
    /\ discovered = {}
    /\ watched = {}
    /\ cycle = 0
    /\ pc = "idle"
    /\ hot = {}
    /\ list = {}
    /\ unprobed = [n \in Num |-> 0]

CycleStep == ReadHotNumbers \/ BuildList \/ EndCycle \/ FailCycle \/ Restart

Next ==
    \/ CycleStep
    \/ \E n \in Num, rev \in Unknown .. MaxRev : Download(n, rev)
    \/ \E n \in Num : Quieten(n)
    \/ \E n \in Discoverable : Discover(n)
    \/ \E n \in Watchable : Watch(n) \/ Unwatch(n)

Spec == Init /\ [][Next]_vars

-----------------------------------------------------------------------------
(* Properties *)

TypeOK ==
    /\ maxRev \in [Num -> Unknown .. MaxRev]
    /\ active \subseteq Known
    /\ discovered \subseteq Discoverable
    /\ watched \subseteq Watchable
    /\ cycle \in 0 .. Divisor
    /\ pc \in {"idle", "hot_read", "built"}
    /\ hot \subseteq Nat
    /\ list \subseteq [tier : {"watchlist", "frontier", "recent", "cold"},
                       prefix : {"D"} \cup ProbePrefixes, num : Nat, rev : Nat]
    /\ unprobed \in [Num -> 0 .. Divisor + 1]

\* README.md: "Every P-number from 1 to the effective frontier is probed", the
\* cold pool once in Divisor cycles.  However numbers move between the hot set,
\* the cold pool and the index, none waits longer while cycles do not fail; a
\* failed cycle skips its slice, and the next Divisor cycles make up for it.
SweepComplete == \A n \in Num : unprobed[n] < Divisor

\* No URL is on the list twice: known and unknown, hot and cold numbers are
\* told apart by the same two sets throughout.
NoUrlTwice ==
    \A e, f \in list :
        e.prefix = f.prefix /\ e.num = f.num /\ e.rev = f.rev => e = f

\* The list never names a revision the index already has, nor, once the number
\* has one, a published paper (what Scheduler assumes of the list).
NothingPublishedProbed ==
    \A e \in list : e.num \in Known => e.prefix = "D" /\ e.rev > maxRev[e.num]

\* What moves the frontier, once there is a cluster: new numbers only move it up,
\* and only to a number of theirs or one close above theirs.  A stray number far
\* from the others, an outlier of the index or a file someone named, leaves it where
\* it is, and the cold pool with it.
CloseBelow(nums, n) == \E m \in nums : m < n /\ n - m <= GapThreshold

FrontierSteady ==
    [][ Seen \subseteq Seen' /\ Seen # Seen' /\ (\E n \in Seen : CloseBelow(Seen, n))
          => /\ Frontier' >= Frontier
             /\ Frontier' # Frontier =>
                   /\ CloseBelow(Seen', Frontier')
                   /\ Frontier' \notin Seen \/ CloseBelow(Seen' \ Seen, Frontier') ]_vars
==============================================================================

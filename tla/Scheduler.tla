------------------------------ MODULE Scheduler ------------------------------
(***************************************************************************)
(* One poll after another, from the sources to the alert: monitor.py       *)
(* (seed, poll_once), sources.py (WG21Index.refresh, ISOProber.run_cycle)  *)
(* and the rows of storage.py they share.                                  *)
(*                                                                         *)
(* The event loop runs one poll at a time; an action is the code between   *)
(* two points where the poll can stop: an await, a database transaction,   *)
(* a failure.  Between any two actions files appear and age, and the       *)
(* process may die and start again with its database.  What wg21.link      *)
(* serves is any set of papers: it need not have those it had before.      *)
(* Both sources are switched on, enable_bulk_wg21 and enable_iso_probe.    *)
(***************************************************************************)
EXTENDS Integers

CONSTANTS
    Url,            \* files on isocpp.org the probe list can name
    Paper,          \* ids of the wg21.link index
    DraftsOf,       \* the D-URLs of a P-paper, one for each probe extension
    ListFor,        \* the URLs that are probed with a given index
    SliceOf,        \* the cold slice a URL is probed in, or Hot
    Hot,
    Divisor,        \* cfg.cold_cycle_divisor
    NoCache,        \* no row in paper_cache
    NetworkFails,   \* may downloads and HEAD requests fail?
    DatabaseFails,  \* may a transaction raise?
    MaxDrops,       \* bound on the times a download lacks a paper the last one had
    Restarts        \* when the process may stop and start again

ASSUME SourcesAssumption ==
    /\ DraftsOf \in [Paper -> SUBSET Url]
    /\ MaxDrops \in Nat
    /\ Url \cap (Paper \X (0 .. MaxDrops)) = {}
    /\ Divisor \in Nat \ {0}
    /\ SliceOf \in [Url -> {Hot} \cup (0 .. Divisor - 1)]
    /\ \A x \in SUBSET Paper : x # NoCache
    /\ {NetworkFails, DatabaseFails} \subseteq BOOLEAN
    /\ Restarts \in {"never", "between_polls", "any_time"}

\* ISOProber only lists the revisions after the latest one in the index, and no
\* P-URL of a number the index knows (ProbeList has the list itself).
ASSUME ListAssumption ==
    /\ ListFor \in [SUBSET Paper -> SUBSET Url]
    /\ \A index \in SUBSET Paper : \A p \in index : DraftsOf[p] \cap ListFor[index] = {}

VARIABLES
    \* The world
    online,         \* files that can be fetched
    aged,           \* files whose Last-Modified left the alert window
    \* PostgreSQL
    discovered,     \* discovered_urls
    lastPoll,       \* poll_state.last_poll > 0
    cache,          \* paper_cache
    fresh,          \* the cache is within its TTL
    \* The process
    seeded,         \* _seeded
    previous,       \* _previous_papers
    papers,         \* index.papers
    cycle,          \* prober._cycle modulo Divisor
    \* The poll under way
    pc,
    mode,           \* "cold", "restart" (a seed with prior state) or "normal"
    newPapers,      \* diff.new_papers
    recent,         \* hits of the probe cycle that are recent
    unmarked,       \* hits not yet in discovered_urls
    \* Observations
    drops,          \* how often a download lacked a paper that the cache had
    alerts,         \* how often a file or news was handed to notify_callback
    transitions,    \* news reported as D->P transitions
    baseline,       \* news a seed took as known
    forgone,        \* news a poll that raised had found, or kept the process from seeing
    excused         \* files recorded without an alert by design

world == <<online, aged>>
database == <<discovered, lastPoll, cache, fresh>>
memory == <<seeded, previous, papers, cycle>>
poll == <<pc, mode, newPapers, recent, unmarked>>
observed == <<drops, alerts, transitions, baseline, forgone, excused>>
vars == <<world, database, memory, poll, observed>>

\* That a paper is in the index is news again after a download without it.
Now(p) == <<p, drops[p]>>
News(some) == {Now(p) : p \in some}
AllNews == Paper \X (0 .. MaxDrops)

-----------------------------------------------------------------------------
(* Starting a poll *)

StartPoll ==
    /\ pc = "idle"
    /\ seeded
    /\ mode' = "normal"
    /\ pc' = "refresh"
    /\ UNCHANGED <<world, database, memory, newPapers, recent, unmarked, observed>>

\* seed(): had_prior_state is read before anything is fetched
StartSeed ==
    /\ pc = "idle"
    /\ ~ seeded
    /\ mode' = IF lastPoll \/ discovered # {} THEN "restart" ELSE "cold"
    /\ pc' = "refresh"
    /\ UNCHANGED <<world, database, memory, newPapers, recent, unmarked, observed>>

-----------------------------------------------------------------------------
(* WG21Index.refresh, then the diff against the previous snapshot *)

\* The new papers of diff_snapshots; a paper that leaves the index is nobody's news.
DiffSnapshots(before, current) == current \ before

\* Mutant: a seed is diffed like any other poll.
SeedDiffsToo(index) == DiffSnapshots(previous, index)

NewPapers(index) == IF mode = "normal" THEN DiffSnapshots(previous, index) ELSE {}

\* The papers of the cache's row, none if there is no row.
Cached == IF cache = NoCache THEN {} ELSE cache

\* Any JSON object is taken for the index and cached, an empty one or one that
\* lacks entries too; entries that are no objects are not parsed.
Download(index) ==
    /\ ~ fresh
    /\ cache' = index
    /\ fresh' = TRUE
    /\ drops' = [p \in Paper |-> drops[p] + IF p \in Cached \ index THEN 1 ELSE 0]
    /\ \A p \in Cached \ index : drops[p] < MaxDrops

\* The diff against _previous_papers, which moves on; a seed diffs nothing.
Diff(index) ==
    /\ papers' = index
    /\ newPapers' = NewPapers(index)
    /\ previous' = index
    /\ baseline' = IF mode = "normal" THEN baseline ELSE baseline \cup News(index)
    /\ pc' = "probe"
    /\ UNCHANGED <<world, discovered, lastPoll, seeded, cycle, mode, recent, unmarked,
                   alerts, transitions, forgone, excused>>

RefreshFromFreshCache ==
    /\ pc = "refresh"
    /\ fresh
    /\ Diff(cache)
    /\ UNCHANGED <<cache, fresh, drops>>

RefreshByDownload ==
    /\ pc = "refresh"
    /\ \E index \in SUBSET Paper : Download(index) /\ Diff(index)

\* The download failed: the stale cache, or whatever the process has.
RefreshWithoutDownload ==
    /\ pc = "refresh"
    /\ NetworkFails
    /\ ~ fresh
    /\ Diff(IF cache = NoCache THEN papers ELSE cache)
    /\ UNCHANGED <<cache, fresh, drops>>

-----------------------------------------------------------------------------
(* ISOProber.run_cycle *)

\* Mutant: a file that is known is probed again.
ProbesAgain == {u \in ListFor[papers] : SliceOf[u] \in {Hot, cycle}}

\* What the probe list names in this cycle and _probe_one does not skip.
Eligible == {u \in ListFor[papers] \ discovered : SliceOf[u] \in {Hot, cycle}}

\* Mutant: the slice index is not taken modulo the divisor.
CycleRunsAway == cycle + 1

\* Mutant: _cycle is not advanced.
SameCycle == cycle

NextCycle == (cycle + 1) % Divisor

\* _cycle moves on, the URLs are probed; a file that answers is a hit.
Probe ==
    /\ pc = "probe"
    /\ cycle' = NextCycle
    /\ LET found == Eligible \cap online
       IN  unmarked' \in IF NetworkFails THEN SUBSET found ELSE {found}
    /\ recent' = unmarked' \ aged
    /\ pc' = "mark"
    /\ UNCHANGED <<world, database, seeded, previous, papers, mode, newPapers, observed>>

\* mark_discovered: one transaction for each hit
MarkDiscovered(u) ==
    /\ pc = "mark"
    /\ u \in unmarked
    /\ discovered' = discovered \cup {u}
    /\ unmarked' = unmarked \ {u}
    /\ excused' = IF mode = "cold" \/ u \notin recent THEN excused \cup {u} ELSE excused
    /\ UNCHANGED <<world, lastPoll, cache, fresh, memory, pc, mode, newPapers, recent,
                   drops, alerts, transitions, baseline, forgone>>

\* Mutant: a poll that found no new paper ends without a word.
OnlyPapersNotify == mode # "cold" /\ newPapers # {}

\* A cold seed ends the poll without a word.
Notifies == mode # "cold"

\* After the cycle a seed is complete.
EndCycle ==
    /\ seeded' = TRUE
    /\ pc' = IF Notifies THEN "notify" ELSE "idle"
    /\ UNCHANGED <<previous, papers, mode, newPapers>>

\* Mutant: the cycle ends before all of its hits are marked.
MarksUnderWay == TRUE

AllMarked == unmarked = {}

\* touch_poll, and the cycle is a SUCCESS or EMPTY
CompleteCycle ==
    /\ pc = "mark"
    /\ AllMarked
    /\ lastPoll' = TRUE
    /\ EndCycle
    /\ UNCHANGED <<world, discovered, cache, fresh, cycle, recent, unmarked, observed>>

\* touch_poll may raise after its commit went through.
PollTouchedOrNot ==
    lastPoll' \in IF pc = "mark" /\ unmarked = {} THEN {lastPoll, TRUE} ELSE {lastPoll}

\* Mutant: a cycle that is FAILED ends the poll.
FailEndsPoll ==
    /\ pc \in {"probe", "mark"}
    /\ DatabaseFails
    /\ cycle' = IF pc = "probe" THEN NextCycle ELSE cycle
    /\ PollTouchedOrNot
    /\ seeded' = TRUE
    /\ pc' = "idle"
    /\ newPapers' = {}
    /\ recent' = {}
    /\ unmarked' = {}
    /\ UNCHANGED <<world, discovered, cache, fresh, previous, papers, mode, observed>>

\* An exception anywhere in the cycle: FAILED, and its hits are dropped.
FailCycle ==
    /\ pc \in {"probe", "mark"}
    /\ DatabaseFails
    /\ cycle' = IF pc = "probe" THEN NextCycle ELSE cycle
    /\ recent' = {}
    /\ unmarked' = {}
    /\ PollTouchedOrNot
    /\ EndCycle
    /\ UNCHANGED <<world, discovered, cache, fresh, observed>>

-----------------------------------------------------------------------------
(* Transitions, matches and the notification *)

\* Mutant: only the hits of this cycle are looked at.
TransitionsOfThisCycle == News({p \in newPapers : DraftsOf[p] \cap recent # {}})

\* discovered_info of the draft URLs of the new papers
Transitions == News({p \in newPapers : DraftsOf[p] \cap discovered # {}})

EndPoll ==
    /\ pc' = "idle"
    /\ newPapers' = {}
    /\ recent' = {}
    /\ unmarked' = {}
    /\ UNCHANGED mode

Notify ==
    /\ pc = "notify"
    /\ alerts' = [x \in DOMAIN alerts |->
                     IF x \in recent \cup News(newPapers) THEN alerts[x] + 1 ELSE alerts[x]]
    /\ transitions' = transitions \cup Transitions
    /\ EndPoll
    /\ UNCHANGED <<world, database, memory, drops, baseline, forgone, excused>>

\* What a poll that raises had found new is not announced: _previous_papers has it.
ForgoNews ==
    /\ forgone' = forgone \cup News(newPapers)
    /\ UNCHANGED <<drops, alerts, transitions, baseline, excused>>

\* A read of the cache, of the drafts or of the watchlists raises and run_forever
\* logs it.  The memory of the poll stays.
PollLost ==
    /\ pc \in {"refresh", "notify"}
    /\ DatabaseFails
    /\ EndPoll
    /\ ForgoNews
    /\ UNCHANGED <<world, database, memory>>

\* The same after the downloaded index was committed to the cache.  The process does
\* not hear of papers that left it, and may not when they come back.
CacheWriteLost ==
    /\ pc = "refresh"
    /\ DatabaseFails
    /\ \E index \in SUBSET Paper :
          /\ Download(index)
          /\ forgone' = forgone \cup {<<p, drops[p] + 1>> : p \in (previous \cap Cached) \ index}
    /\ EndPoll
    /\ UNCHANGED <<world, discovered, lastPoll, memory, alerts, transitions, baseline, excused>>

\* The exception of a failed cycle has no text: CycleResult rejects an empty error,
\* so run_cycle itself raises, and a seed is not complete.
CycleLost ==
    /\ pc \in {"probe", "mark"}
    /\ DatabaseFails
    /\ cycle' = IF pc = "probe" THEN NextCycle ELSE cycle
    /\ PollTouchedOrNot
    /\ EndPoll
    /\ ForgoNews
    /\ UNCHANGED <<world, discovered, cache, fresh, seeded, previous, papers>>

-----------------------------------------------------------------------------
(* The process, and the world around it *)

\* A deployment between two polls, or a crash at any point.
Restart ==
    /\ Restarts = "any_time" \/ (Restarts = "between_polls" /\ pc = "idle")
    /\ seeded' = FALSE
    /\ previous' = {}
    /\ papers' = {}
    /\ cycle' = 0
    /\ EndPoll
    /\ UNCHANGED <<world, database, observed>>

CacheExpires ==
    /\ fresh
    /\ fresh' = FALSE
    /\ UNCHANGED <<world, discovered, lastPoll, cache, memory, poll, observed>>

Upload(u) ==
    /\ u \notin online
    /\ online' = online \cup {u}
    /\ UNCHANGED <<aged, database, memory, poll, observed>>

Age(u) ==
    /\ u \in online \ aged
    /\ aged' = aged \cup {u}
    /\ UNCHANGED <<online, database, memory, poll, observed>>

-----------------------------------------------------------------------------

Init ==
    /\ online = {}
    /\ aged = {}
    /\ discovered = {}
    /\ lastPoll = FALSE
    /\ cache = NoCache
    /\ fresh = FALSE
    /\ seeded = FALSE
    /\ previous = {}
    /\ papers = {}
    /\ cycle = 0
    /\ pc = "idle"
    /\ mode = "cold"
    /\ newPapers = {}
    /\ recent = {}
    /\ unmarked = {}
    /\ drops = [p \in Paper |-> 0]
    /\ alerts = [x \in Url \cup AllNews |-> 0]
    /\ transitions = {}
    /\ baseline = {}
    /\ forgone = {}
    /\ excused = {}

\* What the event loop does unless something fails, up to the notification.
UpToNotify ==
    \/ StartPoll
    \/ StartSeed
    \/ RefreshFromFreshCache
    \/ RefreshByDownload
    \/ RefreshWithoutDownload
    \/ Probe
    \/ \E u \in Url : MarkDiscovered(u)
    \/ CompleteCycle

PollStep == UpToNotify \/ Notify

Exception == FailCycle \/ PollLost \/ CacheWriteLost \/ CycleLost

Failure == Exception \/ Restart

World ==
    \/ CacheExpires
    \/ \E u \in Url : Upload(u) \/ Age(u)

Next == PollStep \/ Failure \/ World

Spec == Init /\ [][Next]_vars

-----------------------------------------------------------------------------
(* Properties *)

TypeOK ==
    /\ online \in SUBSET Url /\ aged \in SUBSET Url
    /\ discovered \in SUBSET Url
    /\ {lastPoll, fresh, seeded} \subseteq BOOLEAN
    /\ cache \in (SUBSET Paper) \cup {NoCache}
    /\ {previous, papers, newPapers} \subseteq SUBSET Paper
    /\ {transitions, baseline, forgone} \subseteq SUBSET AllNews
    /\ drops \in [Paper -> 0 .. MaxDrops]
    /\ cycle \in 0 .. Divisor - 1
    /\ pc \in {"idle", "refresh", "probe", "mark", "notify"}
    /\ mode \in {"cold", "restart", "normal"}
    /\ {recent, unmarked, excused} \subseteq SUBSET Url
    /\ alerts \in [Url \cup AllNews -> Nat]

\* No file is alerted twice, and no paper unless the index was downloaded without
\* it in between, whatever fails and whenever the process dies: an alert is only
\* sent after its record was committed.
AlertedOnce == \A x \in Url \cup AllNews : alerts[x] <= 1

\* README.md: "A D-paper uploaded today -> alert sent".  A file is recorded as
\* discovered, which ends its probing, only if its alert is sent, or about to
\* be, or the file was old, or found by a cold first deployment.
NoAlertLost ==
    \A u \in discovered : alerts[u] > 0 \/ u \in recent \/ u \in excused

\* _previous_papers moves on before the papers are announced, so one that is in it
\* and was not announced would be lost.  Each is one that a seed started from, or was
\* announced since the index has it, or is about to be, whatever failed: a cycle, a
\* process, a download; unless the poll that found it raised, which the log shows.
NoPaperLost ==
    \A p \in previous :
        alerts[Now(p)] > 0 \/ p \in newPapers \/ Now(p) \in baseline \cup forgone

\* What a seed took as known is not news, to this process or to a later one, as
\* long as no download lacks it: neither a restart nor a stale cache, nor a poll
\* that fails on the way, lets a paper of a seed's index be announced after it.
SeededPapersSilent == [][\A x \in baseline : alerts'[x] = alerts[x]]_vars

\* A paper announced as new whose draft the prober knows is reported as a D->P
\* transition: no draft is recorded too late for the diff that has its paper.
TransitionsComplete ==
    \A p \in Paper :
        alerts[Now(p)] > 0 /\ DraftsOf[p] \cap discovered # {} => Now(p) \in transitions
==============================================================================

------------------------------ MODULE ProbeCycle ------------------------------
(***************************************************************************)
(* The probing of one cycle: ISOProber._probe_one of sources.py for every  *)
(* URL of the list, as coroutines of one event loop that share a semaphore *)
(* and the statistics, gathered by run_cycle.                              *)
(*                                                                         *)
(* An action is a coroutine's code between two awaits.  A HEAD request is  *)
(* made up to three times; whatever isocpp.org and the network answer is   *)
(* chosen freely.                                                          *)
(***************************************************************************)
EXTENDS Integers, FiniteSets

CONSTANTS
    Url,            \* the URLs of the probe list
    Discovered,     \* those in discovered_urls
    Indexed,        \* those whose paper id is in the index snapshot
    Concurrency,    \* cfg.http_concurrency
    CanRaise        \* may something other than an httpx.HTTPError be raised?

ASSUME CycleAssumption ==
    /\ IsFiniteSet(Url)
    /\ Discovered \cup Indexed \subseteq Url
    /\ Concurrency \in Nat \ {0}
    /\ CanRaise \in BOOLEAN

MaxTries == 3

Keys == {"skipped_discovered", "skipped_in_index", "miss",
         "hit_recent", "hit_old", "hit_no_lm", "error"}

VARIABLES
    at,         \* where each coroutine is
    tries,      \* failed HEAD requests of each coroutine
    result,     \* what it returned: "hit", "none" or "exception"
    stats,      \* _stats
    permits,    \* free permits of the semaphore
    gathered,   \* asyncio.gather has returned
    hits        \* the hits run_cycle goes on with

vars == <<at, tries, result, stats, permits, gathered, hits>>

Bump(key) == stats' = [stats EXCEPT ![key] = @ + 1]

\* The coroutine returns, inside the semaphore or before it.
Finish(u, r) ==
    /\ at' = [at EXCEPT ![u] = "done"]
    /\ result' = [result EXCEPT ![u] = r]

\* _probe_one up to the semaphore
SkipDiscovered(u) ==
    /\ at[u] = "new"
    /\ u \in Discovered
    /\ Bump("skipped_discovered")
    /\ Finish(u, "none")
    /\ UNCHANGED <<tries, permits, gathered, hits>>

SkipInIndex(u) ==
    /\ at[u] = "new"
    /\ u \in Indexed \ Discovered
    /\ Bump("skipped_in_index")
    /\ Finish(u, "none")
    /\ UNCHANGED <<tries, permits, gathered, hits>>

\* is_discovered raises a database error; gather keeps the exception
RaiseEarly(u) ==
    /\ at[u] = "new"
    /\ CanRaise
    /\ Finish(u, "exception")
    /\ UNCHANGED <<tries, stats, permits, gathered, hits>>

AwaitPermit(u) ==
    /\ at[u] = "new"
    /\ u \notin Discovered \cup Indexed
    /\ at' = [at EXCEPT ![u] = "waiting"]
    /\ UNCHANGED <<tries, result, stats, permits, gathered, hits>>

Acquire(u) ==
    /\ at[u] = "waiting"
    /\ permits > 0
    /\ permits' = permits - 1
    /\ at' = [at EXCEPT ![u] = "head"]
    /\ UNCHANGED <<tries, result, stats, gathered, hits>>

\* Mutant: a fourth request.
OneTryTooMany(u) ==
    /\ at[u] = "head"
    /\ tries[u] < MaxTries
    /\ tries' = [tries EXCEPT ![u] = @ + 1]
    /\ at' = [at EXCEPT ![u] = "backoff"]
    /\ UNCHANGED <<result, stats, permits, gathered, hits>>

\* Mutant: tries are not counted.
TryForEver(u) ==
    /\ at[u] = "head"
    /\ at' = [at EXCEPT ![u] = "backoff"]
    /\ UNCHANGED <<tries, result, stats, permits, gathered, hits>>

\* httpx.HTTPError with attempts left: back off and try again
RequestFails(u) ==
    /\ at[u] = "head"
    /\ tries[u] < MaxTries - 1
    /\ tries' = [tries EXCEPT ![u] = @ + 1]
    /\ at' = [at EXCEPT ![u] = "backoff"]
    /\ UNCHANGED <<result, stats, permits, gathered, hits>>

RetryRequest(u) ==
    /\ at[u] = "backoff"
    /\ at' = [at EXCEPT ![u] = "head"]
    /\ UNCHANGED <<tries, result, stats, permits, gathered, hits>>

\* Mutant: an error is not counted.
GiveUpUncounted(u) ==
    /\ at[u] = "head"
    /\ tries[u] >= MaxTries - 1
    /\ permits' = permits + 1
    /\ Finish(u, "none")
    /\ UNCHANGED <<tries, stats, gathered, hits>>

GiveUp(u) ==
    /\ at[u] = "head"
    /\ tries[u] >= MaxTries - 1
    /\ Bump("error")
    /\ permits' = permits + 1
    /\ Finish(u, "none")
    /\ UNCHANGED <<tries, gathered, hits>>

\* Mutant: acquire and release without try/finally.
RaiseKeepsPermit(u) ==
    /\ at[u] = "head"
    /\ CanRaise
    /\ Finish(u, "exception")
    /\ UNCHANGED <<tries, stats, permits, gathered, hits>>

\* An exception the retry loop does not catch leaves through the semaphore.
RaiseInRequest(u) ==
    /\ at[u] = "head"
    /\ CanRaise
    /\ permits' = permits + 1
    /\ Finish(u, "exception")
    /\ UNCHANGED <<tries, stats, gathered, hits>>

\* Any status but 200
Miss(u) ==
    /\ at[u] = "head"
    /\ Bump("miss")
    /\ permits' = permits + 1
    /\ Finish(u, "none")
    /\ UNCHANGED <<tries, gathered, hits>>

\* 200, with a Last-Modified outside the alert window
HitOld(u) ==
    /\ at[u] = "head"
    /\ Bump("hit_old")
    /\ permits' = permits + 1
    /\ Finish(u, "hit")
    /\ UNCHANGED <<tries, gathered, hits>>

\* 200 and recent, or without a usable Last-Modified: the front text is fetched
HitRecent(u) ==
    /\ at[u] = "head"
    /\ \E key \in {"hit_recent", "hit_no_lm"} : Bump(key)
    /\ at' = [at EXCEPT ![u] = "front_text"]
    /\ UNCHANGED <<tries, result, permits, gathered, hits>>

\* _fetch_front_text returns, with an empty text if anything failed.
FrontText(u) ==
    /\ at[u] = "front_text"
    /\ permits' = permits + 1
    /\ Finish(u, "hit")
    /\ UNCHANGED <<tries, stats, gathered, hits>>

\* gather(return_exceptions=True): exceptions are logged and passed over.
Gather ==
    /\ ~ gathered
    /\ \A u \in Url : at[u] = "done"
    /\ gathered' = TRUE
    /\ hits' = {u \in Url : result[u] = "hit"}
    /\ UNCHANGED <<at, tries, result, stats, permits>>

\* _reset_stats, and one coroutine for each URL
Init ==
    /\ at = [u \in Url |-> "new"]
    /\ tries = [u \in Url |-> 0]
    /\ result = [u \in Url |-> "none"]
    /\ stats = [k \in Keys |-> 0]
    /\ permits = Concurrency
    /\ gathered = FALSE
    /\ hits = {}

ProbeOne(u) ==
    \/ SkipDiscovered(u) \/ SkipInIndex(u) \/ RaiseEarly(u) \/ AwaitPermit(u)
    \/ Acquire(u)
    \/ RequestFails(u) \/ RetryRequest(u) \/ GiveUp(u) \/ RaiseInRequest(u)
    \/ Miss(u) \/ HitOld(u) \/ HitRecent(u)
    \/ FrontText(u)

Next == Gather \/ \E u \in Url : ProbeOne(u)

Spec == Init /\ [][Next]_vars

(* The event loop runs every coroutine that can run, requests time out, and *)
(* asyncio.Semaphore wakes its waiters in the order they came.              *)
FairSpec == Spec /\ WF_vars(Gather) /\ \A u \in Url : WF_vars(ProbeOne(u)) /\ SF_vars(Acquire(u))

-----------------------------------------------------------------------------
(* Properties *)

TypeOK ==
    /\ at \in [Url -> {"new", "waiting", "head", "backoff", "front_text", "done"}]
    /\ tries \in [Url -> 0 .. MaxTries - 1]
    /\ result \in [Url -> {"hit", "none", "exception"}]
    /\ stats \in [Keys -> Nat]
    /\ permits \in 0 .. Concurrency
    /\ gathered \in BOOLEAN
    /\ hits \subseteq Url

HitsCounted == stats["hit_recent"] + stats["hit_old"] + stats["hit_no_lm"]

Counted ==
    HitsCounted + stats["miss"] + stats["error"]
        + stats["skipped_discovered"] + stats["skipped_in_index"]

\* Every way out of the semaphore gives its permit back exactly once.
PermitsConserved ==
    permits + Cardinality({u \in Url : at[u] \in {"head", "backoff", "front_text"}}) = Concurrency

\* The counters of PROBE-DONE add up: every URL of the cycle was counted under
\* one key, except those whose coroutine raised, which no counter shows.
StatsAddUp ==
    gathered =>
        /\ Counted + Cardinality({u \in Url : result[u] = "exception"}) = Cardinality(Url)
        /\ HitsCounted = Cardinality(hits)

\* However requests fail, gather returns: retries end and no coroutine waits for
\* a permit for ever.
CycleEnds == <>gathered
===============================================================================

--------------------------- MODULE ProbeCycleProofs ---------------------------
(***************************************************************************)
(* Proofs about ProbeCycle, for any finite probe list, any number of       *)
(* permits and whatever the requests answer or raise.                      *)
(***************************************************************************)
EXTENDS ProbeCycle, FiniteSetTheorems, TLAPS

\* Where a coroutine holds a permit.
Inside == {"head", "backoff", "front_text"}

Holders == {u \in Url : at[u] \in Inside}

\* The strengthening: PermitsConserved with the types it needs.  The statistics
\* are of no account for it.
PermitsInv ==
    /\ at \in [Url -> {"new", "waiting", "done"} \cup Inside]
    /\ result \in [Url -> {"hit", "none", "exception"}]
    /\ permits \in 0 .. Concurrency
    /\ permits + Cardinality(Holders) = Concurrency

\* Any set of holders is finite.
LEMMA HoldersFinite == IsFiniteSet(Holders) /\ Cardinality(Holders) \in Nat
<1>1. Holders \subseteq Url
  BY DEF Holders
<1>2. IsFiniteSet(Holders)
  BY <1>1, CycleAssumption, FS_Subset
<1> QED
  BY <1>2, FS_CardinalityType

\* A coroutine that enters the semaphore takes one permit.
LEMMA Enters ==
    ASSUME PermitsInv, NEW u \in Url, Acquire(u)
    PROVE  PermitsInv'
<1>1. at[u] = "waiting" /\ permits > 0 /\ permits' = permits - 1
      /\ at' = [at EXCEPT ![u] = "head"] /\ result' = result
  BY DEF Acquire
<1>2. u \notin Holders /\ Holders' = Holders \cup {u}
  BY <1>1 DEF Holders, PermitsInv, Inside
<1>3. Cardinality(Holders') = Cardinality(Holders) + 1
  BY <1>2, HoldersFinite, FS_AddElement
<1>4. at' \in [Url -> {"new", "waiting", "done"} \cup Inside]
  BY <1>1 DEF PermitsInv, Inside
<1> QED
  BY <1>1, <1>3, <1>4, HoldersFinite, CycleAssumption DEF PermitsInv

\* A coroutine that leaves it gives one back, whatever it returns.
LEMMA Leaves ==
    ASSUME PermitsInv, NEW u \in Url, at[u] \in Inside, permits' = permits + 1,
           NEW r \in {"hit", "none", "exception"}, Finish(u, r)
    PROVE  PermitsInv'
<1>1. at' = [at EXCEPT ![u] = "done"] /\ result' = [result EXCEPT ![u] = r]
  BY DEF Finish
<1>2. u \in Holders /\ Holders' = Holders \ {u}
  BY <1>1 DEF Holders, PermitsInv, Inside
<1>3. Cardinality(Holders') = Cardinality(Holders) - 1
  BY <1>2, HoldersFinite, FS_RemoveElement
<1>4. Cardinality(Holders) > 0
  BY <1>2, HoldersFinite, FS_EmptySet
<1>5. /\ at' \in [Url -> {"new", "waiting", "done"} \cup Inside]
      /\ result' \in [Url -> {"hit", "none", "exception"}]
  BY <1>1 DEF PermitsInv, Inside
<1> QED
  BY <1>3, <1>4, <1>5, HoldersFinite, CycleAssumption DEF PermitsInv

\* The steps that neither enter nor leave it keep the permits and the holders.
LEMMA Stays ==
    ASSUME PermitsInv, NEW u \in Url, permits' = permits,
           NEW to \in {"new", "waiting", "done"} \cup Inside,
           at[u] \in Inside <=> to \in Inside,
           at' = [at EXCEPT ![u] = to],
           result' \in [Url -> {"hit", "none", "exception"}]
    PROVE  PermitsInv'
<1>1. Holders' = Holders
  BY DEF Holders, PermitsInv, Inside
<1>2. at' \in [Url -> {"new", "waiting", "done"} \cup Inside]
  BY DEF PermitsInv, Inside
<1> QED
  BY <1>1, <1>2 DEF PermitsInv

\* Every step keeps the invariant.
LEMMA PermitsStep == PermitsInv /\ [Next]_vars => PermitsInv'
<1> SUFFICES ASSUME PermitsInv, [Next]_vars
             PROVE  PermitsInv'
  OBVIOUS
<1>1. ASSUME NEW u \in Url, ProbeOne(u)
      PROVE  PermitsInv'
  <2>1. CASE SkipDiscovered(u) \/ SkipInIndex(u) \/ RaiseEarly(u)
    <3>1. /\ at[u] = "new" /\ permits' = permits /\ at' = [at EXCEPT ![u] = "done"]
          /\ \E r \in {"none", "exception"} : result' = [result EXCEPT ![u] = r]
      BY <2>1 DEF SkipDiscovered, SkipInIndex, RaiseEarly, Finish
    <3>2. result' \in [Url -> {"hit", "none", "exception"}]
      BY <3>1 DEF PermitsInv
    <3> QED
      BY <3>1, <3>2, Stays DEF Inside
  <2>2. CASE AwaitPermit(u)
    BY <2>2, Stays DEF AwaitPermit, Inside, PermitsInv
  <2>3. CASE RequestFails(u)
    BY <2>3, Stays DEF RequestFails, Inside, PermitsInv
  <2>4. CASE RetryRequest(u)
    BY <2>4, Stays DEF RetryRequest, Inside, PermitsInv
  <2>5. CASE HitRecent(u)
    BY <2>5, Stays DEF HitRecent, Inside, PermitsInv
  <2>6. CASE GiveUp(u) \/ Miss(u)
    BY <2>6, Leaves DEF GiveUp, Miss, Inside
  <2>7. CASE RaiseInRequest(u)
    BY <2>7, Leaves DEF RaiseInRequest, Inside
  <2>8. CASE HitOld(u)
    BY <2>8, Leaves DEF HitOld, Inside
  <2>9. CASE FrontText(u)
    BY <2>9, Leaves DEF FrontText, Inside
  <2> QED
    BY <1>1, <2>1, <2>2, <2>3, <2>4, <2>5, <2>6, <2>7, <2>8, <2>9, Enters DEF ProbeOne
<1>2. CASE Gather \/ UNCHANGED vars
  <2>1. UNCHANGED <<at, result, permits>>
    BY <1>2 DEF Gather, vars
  <2> QED
    BY <2>1 DEF PermitsInv, Holders
<1> QED
  BY <1>1, <1>2 DEF Next

\* In the beginning nobody is inside.
LEMMA PermitsInit == Init => PermitsInv
<1> SUFFICES ASSUME Init PROVE PermitsInv
  OBVIOUS
<1>1. Holders = {}
  BY DEF Init, Holders, Inside
<1>2. Cardinality(Holders) = 0
  BY <1>1, FS_EmptySet
<1> QED
  BY <1>2, CycleAssumption DEF Init, PermitsInv

\* Every path through the semaphore, with its retries, its front-text download
\* and whatever is raised, gives back the permit it took, and only that.
THEOREM PermitsBalance == Spec => []PermitsConserved
<1>1. PermitsInv => PermitsConserved
  BY DEF PermitsInv, PermitsConserved, Holders, Inside
<1> QED
  BY <1>1, PermitsInit, PermitsStep, PTL DEF Spec

-----------------------------------------------------------------------------
(* Types *)

\* The variables have their types; PermitsInv has those of at, result and permits.
RestTypes ==
    /\ tries \in [Url -> 0 .. MaxTries - 1]
    /\ stats \in [Keys -> Nat]
    /\ gathered \in BOOLEAN
    /\ hits \subseteq Url

\* A counter more keeps the statistics numbers.
LEMMA BumpTypes ==
    ASSUME stats \in [Keys -> Nat], NEW key \in Keys, Bump(key)
    PROVE  stats' \in [Keys -> Nat]
BY DEF Bump

\* Every step keeps the types.
LEMMA RestStep ==
    ASSUME RestTypes, [Next]_vars
    PROVE  RestTypes'
<1> USE DEF RestTypes
<1>1. ASSUME NEW u \in Url, ProbeOne(u)
      PROVE  RestTypes'
  <2>1. gathered' = gathered /\ hits' = hits
    BY <1>1 DEF ProbeOne, SkipDiscovered, SkipInIndex, RaiseEarly, AwaitPermit, Acquire,
                RequestFails, RetryRequest, GiveUp, RaiseInRequest, Miss, HitOld, HitRecent,
                FrontText
  <2>2. tries' \in [Url -> 0 .. MaxTries - 1]
    <3>1. tries' = tries \/ RequestFails(u)
      BY <1>1 DEF ProbeOne, SkipDiscovered, SkipInIndex, RaiseEarly, AwaitPermit, Acquire,
                  RetryRequest, GiveUp, RaiseInRequest, Miss, HitOld, HitRecent, FrontText
    <3> QED
      BY <3>1 DEF RequestFails, MaxTries
  <2>3. stats' \in [Keys -> Nat]
    <3>1. stats' = stats \/ \E key \in Keys : Bump(key)
      BY <1>1 DEF ProbeOne, SkipDiscovered, SkipInIndex, RaiseEarly, AwaitPermit, Acquire,
                  RequestFails, RetryRequest, GiveUp, RaiseInRequest, Miss, HitOld, HitRecent,
                  FrontText, Keys
    <3> QED
      BY <3>1, BumpTypes
  <2> QED
    BY <2>1, <2>2, <2>3
<1>2. CASE Gather \/ UNCHANGED vars
  BY <1>2 DEF Gather, vars
<1> QED
  BY <1>1, <1>2 DEF Next

LEMMA RestHolds == Spec => []RestTypes
<1>1. Init => RestTypes
  <2> SUFFICES ASSUME Init PROVE RestTypes
    OBVIOUS
  <2>1. stats \in [Keys -> Nat]
    BY DEF Init
  <2>2. tries \in [Url -> 0 .. MaxTries - 1]
    BY DEF Init, MaxTries
  <2> QED
    BY <2>1, <2>2 DEF Init, RestTypes
<1> QED
  BY <1>1, RestStep, PTL DEF Spec

\* The variables have their types.  In particular no URL gets a fourth request.
THEOREM TypeCorrect == Spec => []TypeOK
<1>1. PermitsInv /\ RestTypes => TypeOK
  BY DEF PermitsInv, RestTypes, TypeOK, Inside
<1> QED
  BY <1>1, PermitsInit, PermitsStep, RestHolds, PTL DEF Spec

-----------------------------------------------------------------------------
(* Statistics *)

\* The coroutines that were counted, or raised.
Finished == {u \in Url : at[u] \in {"done", "front_text"}}

Raised == {u \in Url : result[u] = "exception"}

\* Those that were counted as hits.
Found == {u \in Url : result[u] = "hit" \/ at[u] = "front_text"}

\* The strengthening of StatsAddUp: it holds all the time, of the coroutines so far.
CountInv ==
    /\ Counted + Cardinality(Raised) = Cardinality(Finished)
    /\ HitsCounted = Cardinality(Found)
    /\ \A u \in Url : result[u] # "none" => at[u] = "done"
    /\ gathered => hits = Found /\ \A u \in Url : at[u] = "done"

\* The three sets are finite.
LEMMA CountedFinite ==
    /\ IsFiniteSet(Finished) /\ Cardinality(Finished) \in Nat
    /\ IsFiniteSet(Raised) /\ Cardinality(Raised) \in Nat
    /\ IsFiniteSet(Found) /\ Cardinality(Found) \in Nat
<1>1. Finished \subseteq Url /\ Raised \subseteq Url /\ Found \subseteq Url
  BY DEF Finished, Raised, Found
<1>2. IsFiniteSet(Finished)
  BY <1>1, CycleAssumption, FS_Subset
<1>3. IsFiniteSet(Raised)
  BY <1>1, CycleAssumption, FS_Subset
<1>4. IsFiniteSet(Found)
  BY <1>1, CycleAssumption, FS_Subset
<1> QED
  BY <1>2, <1>3, <1>4, FS_CardinalityType

\* What the sums become with one more under a key.
LEMMA BumpCounts ==
    ASSUME stats \in [Keys -> Nat], NEW key \in Keys, Bump(key)
    PROVE  /\ Counted' = Counted + 1
           /\ HitsCounted' = IF key \in {"hit_recent", "hit_old", "hit_no_lm"}
                             THEN HitsCounted + 1 ELSE HitsCounted
           /\ Counted \in Nat /\ HitsCounted \in Nat
BY DEF Bump, Keys, Counted, HitsCounted

\* A step that counts nothing.
LEMMA NotCounted ==
    ASSUME PermitsInv, CountInv, ~ gathered, gathered' = gathered, stats' = stats, NEW u \in Url,
           NEW to, at' = [at EXCEPT ![u] = to],
           \/ at[u] # "front_text" /\ at[u] # "done" /\ to \notin {"done", "front_text"}
              /\ result' = result
           \/ at[u] = "front_text" /\ to = "done" /\ result' = [result EXCEPT ![u] = "hit"]
    PROVE  CountInv'
<1>1. Finished' = Finished
  BY DEF Finished, PermitsInv
<1>2. Raised' = Raised /\ Found' = Found
  BY DEF Raised, Found, PermitsInv, CountInv
<1>3. \A v \in Url : result'[v] # "none" => at'[v] = "done"
  BY DEF CountInv, PermitsInv
<1>4. Counted' = Counted /\ HitsCounted' = HitsCounted
  BY DEF Counted, HitsCounted
<1> QED
  BY <1>1, <1>2, <1>3, <1>4 DEF CountInv

\* A coroutine that is counted under a key, and as a hit under a hit's.
LEMMA IsCounted ==
    ASSUME PermitsInv, RestTypes, CountInv, ~ gathered, gathered' = gathered, NEW u \in Url,
           at[u] \notin {"done", "front_text"}, NEW key \in Keys, Bump(key),
           NEW to \in {"done", "front_text"}, at' = [at EXCEPT ![u] = to],
           IF key \in {"hit_recent", "hit_old", "hit_no_lm"}
           THEN \/ to = "done" /\ result' = [result EXCEPT ![u] = "hit"]
                \/ to = "front_text" /\ result' = result
           ELSE to = "done" /\ result' = [result EXCEPT ![u] = "none"]
    PROVE  CountInv'
<1> DEFINE isHit == key \in {"hit_recent", "hit_old", "hit_no_lm"}
<1>1. result[u] = "none"
  BY DEF CountInv
<1>2. u \notin Finished /\ Finished' = Finished \cup {u}
  BY DEF Finished, PermitsInv
<1>3. Cardinality(Finished') = Cardinality(Finished) + 1
  BY <1>2, CountedFinite, FS_AddElement
<1>4. Raised' = Raised
  BY <1>1 DEF Raised, PermitsInv
<1>5. \A v \in Url : result'[v] # "none" => at'[v] = "done"
  BY <1>1 DEF CountInv, PermitsInv
<1>6. /\ Counted' = Counted + 1 /\ Counted \in Nat /\ HitsCounted \in Nat
      /\ HitsCounted' = IF isHit THEN HitsCounted + 1 ELSE HitsCounted
  BY BumpCounts DEF RestTypes
<1>7. Cardinality(Found') = IF isHit THEN Cardinality(Found) + 1 ELSE Cardinality(Found)
  <2>1. CASE isHit
    <3>1. u \notin Found /\ Found' = Found \cup {u}
      BY <1>1, <2>1 DEF Found, PermitsInv
    <3> QED
      BY <2>1, <3>1, CountedFinite, FS_AddElement
  <2>2. CASE ~ isHit
    <3>1. Found' = Found
      BY <1>1, <2>2 DEF Found, PermitsInv
    <3> QED
      BY <2>2, <3>1
  <2> QED
    BY <2>1, <2>2
<1>8. Counted' + Cardinality(Raised') = Cardinality(Finished')
  BY <1>3, <1>4, <1>6, CountedFinite DEF CountInv
<1>9. HitsCounted' = Cardinality(Found')
  BY <1>6, <1>7 DEF CountInv
<1> QED
  BY <1>5, <1>8, <1>9 DEF CountInv

\* A coroutine that raises.
LEMMA IsRaised ==
    ASSUME PermitsInv, RestTypes, CountInv, ~ gathered, gathered' = gathered, stats' = stats,
           NEW u \in Url, at[u] \notin {"done", "front_text"}, Finish(u, "exception")
    PROVE  CountInv'
<1>1. /\ at' = [at EXCEPT ![u] = "done"] /\ result' = [result EXCEPT ![u] = "exception"]
      /\ result[u] = "none"
  BY DEF Finish, CountInv
<1>2. u \notin Finished /\ Finished' = Finished \cup {u}
  BY <1>1 DEF Finished, PermitsInv
<1>3. u \notin Raised /\ Raised' = Raised \cup {u}
  BY <1>1 DEF Raised, PermitsInv
<1>4. Found' = Found
  BY <1>1 DEF Found, PermitsInv
<1>5. \A v \in Url : result'[v] # "none" => at'[v] = "done"
  BY <1>1 DEF CountInv, PermitsInv
<1>6. Cardinality(Finished') = Cardinality(Finished) + 1
  BY <1>2, CountedFinite, FS_AddElement
<1>7. Cardinality(Raised') = Cardinality(Raised) + 1
  BY <1>3, CountedFinite, FS_AddElement
<1>8. Counted' = Counted /\ HitsCounted' = HitsCounted /\ Counted \in Nat
  BY DEF Counted, HitsCounted, RestTypes, Keys
<1> QED
  BY <1>4, <1>5, <1>6, <1>7, <1>8, CountedFinite DEF CountInv

\* Every step keeps the sums.
LEMMA CountStep ==
    ASSUME PermitsInv, RestTypes, CountInv, [Next]_vars
    PROVE  CountInv'
<1>1. ASSUME NEW u \in Url, ProbeOne(u)
      PROVE  CountInv'
  <2>1. at[u] # "done"
    BY <1>1 DEF ProbeOne, SkipDiscovered, SkipInIndex, RaiseEarly, AwaitPermit, Acquire,
                RequestFails, RetryRequest, GiveUp, RaiseInRequest, Miss, HitOld, HitRecent,
                FrontText
  <2>2. ~ gathered
    BY <2>1 DEF CountInv
  <2>3. gathered' = gathered
    BY <1>1 DEF ProbeOne, SkipDiscovered, SkipInIndex, RaiseEarly, AwaitPermit, Acquire,
                RequestFails, RetryRequest, GiveUp, RaiseInRequest, Miss, HitOld, HitRecent,
                FrontText
  <2>4. CASE AwaitPermit(u)
    BY <2>2, <2>3, <2>4, NotCounted DEF AwaitPermit
  <2>5. CASE Acquire(u)
    BY <2>2, <2>3, <2>5, NotCounted DEF Acquire
  <2>6. CASE RequestFails(u)
    BY <2>2, <2>3, <2>6, NotCounted DEF RequestFails
  <2>7. CASE RetryRequest(u)
    BY <2>2, <2>3, <2>7, NotCounted DEF RetryRequest
  <2>8. CASE FrontText(u)
    BY <2>2, <2>3, <2>8, NotCounted DEF FrontText, Finish
  <2>9. CASE SkipDiscovered(u)
    BY <2>2, <2>3, <2>9, IsCounted DEF SkipDiscovered, Finish, Keys
  <2>10. CASE SkipInIndex(u)
    BY <2>2, <2>3, <2>10, IsCounted DEF SkipInIndex, Finish, Keys
  <2>11. CASE GiveUp(u)
    BY <2>2, <2>3, <2>11, IsCounted DEF GiveUp, Finish, Keys
  <2>12. CASE Miss(u)
    BY <2>2, <2>3, <2>12, IsCounted DEF Miss, Finish, Keys
  <2>13. CASE HitOld(u)
    BY <2>2, <2>3, <2>13, IsCounted DEF HitOld, Finish, Keys
  <2>14. CASE HitRecent(u)
    <3>1. PICK key \in {"hit_recent", "hit_no_lm"} : Bump(key)
      BY <2>14 DEF HitRecent
    <3>2. key \in Keys
      BY <3>1 DEF Keys
    <3> QED
      BY <2>2, <2>3, <2>14, <3>1, <3>2, IsCounted DEF HitRecent
  <2>15. CASE RaiseEarly(u) \/ RaiseInRequest(u)
    BY <2>2, <2>3, <2>15, IsRaised DEF RaiseEarly, RaiseInRequest
  <2> QED
    BY <1>1, <2>4, <2>5, <2>6, <2>7, <2>8, <2>9, <2>10, <2>11, <2>12, <2>13, <2>14, <2>15
       DEF ProbeOne
<1>2. CASE Gather
  <2>1. /\ UNCHANGED <<at, result, stats>> /\ \A u \in Url : at[u] = "done"
        /\ hits' = {u \in Url : result[u] = "hit"}
    BY <1>2 DEF Gather
  <2>2. Finished' = Finished /\ Raised' = Raised /\ Found' = Found
    BY <2>1 DEF Finished, Raised, Found
  <2>3. hits' = Found' /\ \A u \in Url : at'[u] = "done"
    BY <2>1 DEF Found
  <2>4. Counted' = Counted /\ HitsCounted' = HitsCounted
    BY <2>1 DEF Counted, HitsCounted
  <2> QED
    BY <2>1, <2>2, <2>3, <2>4 DEF CountInv
<1>3. CASE UNCHANGED vars
  BY <1>3 DEF vars, CountInv, Counted, HitsCounted, Finished, Raised, Found
<1> QED
  BY <1>1, <1>2, <1>3 DEF Next

\* The counters of PROBE-DONE add up: to the URLs of the cycle but those whose
\* coroutine raised, and of the hits to the hits.
THEOREM CountersAddUp == Spec => []StatsAddUp
<1>1. Init => CountInv
  <2> SUFFICES ASSUME Init PROVE CountInv
    OBVIOUS
  <2>1. Finished = {} /\ Raised = {} /\ Found = {}
    BY DEF Init, Finished, Raised, Found
  <2>2. Cardinality(Finished) = 0 /\ Cardinality(Raised) = 0 /\ Cardinality(Found) = 0
    BY <2>1, FS_EmptySet
  <2>3. Counted = 0 /\ HitsCounted = 0
    BY DEF Init, Counted, HitsCounted, Keys
  <2> QED
    BY <2>2, <2>3 DEF Init, CountInv
<1>2. CountInv => StatsAddUp
  <2> SUFFICES ASSUME CountInv, gathered
               PROVE  /\ Counted + Cardinality(Raised) = Cardinality(Url)
                      /\ HitsCounted = Cardinality(hits)
    BY DEF StatsAddUp, Raised
  <2>1. Finished = Url
    BY DEF CountInv, Finished
  <2> QED
    BY <2>1 DEF CountInv
<1> QED
  BY <1>1, <1>2, CountStep, PermitsInit, PermitsStep, RestHolds, PTL DEF Spec
=============================================================================

--------------------------- MODULE SchedulerProofs ---------------------------
(***************************************************************************)
(* Proofs about Scheduler, for every set of files and papers, every way    *)
(* the index decides what is probed, and every combination of faults.      *)
(***************************************************************************)
EXTENDS Scheduler, TLAPS

USE DEF world, database, memory, poll, observed

\* In a poll, after the refresh.
PastRefresh == pc \in {"probe", "mark", "notify"}

\* The news that was announced or taken as known.
Heard == {x \in AllNews : alerts[x] > 0} \cup baseline

-----------------------------------------------------------------------------
(* Refreshes *)

\* A cache that is fresh has a row.
FreshHasRow == fresh => cache # NoCache

Refresh == RefreshFromFreshCache \/ RefreshByDownload \/ RefreshWithoutDownload

\* A paper stays in the cache's row, or its next time there is news again.
RowMoves ==
    /\ drops' \in [Paper -> 0 .. MaxDrops]
    /\ \A p \in Paper : \/ drops'[p] = drops[p] /\ (p \in Cached => p \in Cached')
                        \/ drops'[p] = drops[p] + 1 /\ p \notin Cached'

\* The row after a download.
LEMMA DownloadedRow ==
    ASSUME TypeOK, NEW index \in SUBSET Paper, Download(index)
    PROVE  /\ cache' = index /\ cache' # NoCache /\ Cached' = index
           /\ fresh' = TRUE
           /\ RowMoves
<1>1. cache' = index /\ cache' # NoCache /\ fresh' = TRUE
  BY SourcesAssumption DEF Download
<1>2. Cached' = index
  BY <1>1 DEF Cached
<1>3. \A p \in Paper :
        /\ drops[p] \in 0 .. MaxDrops
        /\ p \in Cached \ index => drops'[p] = drops[p] + 1 /\ drops[p] < MaxDrops
        /\ p \notin Cached \ index => drops'[p] = drops[p] + 0
  BY DEF Download, TypeOK
<1>4. \A p \in Paper : drops'[p] \in 0 .. MaxDrops
  BY <1>3, SourcesAssumption
<1>5. drops' \in [Paper -> 0 .. MaxDrops]
  <2>1. drops' = [p \in Paper |-> drops[p] + IF p \in Cached \ index THEN 1 ELSE 0]
    BY DEF Download
  <2> QED
    BY <1>4, <2>1
<1>6. \A p \in Paper : \/ drops'[p] = drops[p] /\ (p \in Cached => p \in index)
                       \/ drops'[p] = drops[p] + 1 /\ p \notin index
  BY <1>3, SourcesAssumption
<1> QED
  BY <1>1, <1>2, <1>5, <1>6 DEF RowMoves

\* A refresh ends with the papers of the cache's row, or, while there is none,
\* with what the process has.
LEMMA RefreshIndex ==
    ASSUME TypeOK, FreshHasRow, Refresh
    PROVE  \E index \in SUBSET Paper :
              /\ pc = "refresh"
              /\ Diff(index)
              /\ index = IF cache' = NoCache THEN papers ELSE cache'
              /\ cache' \in (SUBSET Paper) \cup {NoCache}
              /\ cache' = NoCache => cache = NoCache
              /\ fresh' \in BOOLEAN
              /\ FreshHasRow'
              /\ RowMoves
<1> USE SourcesAssumption DEF TypeOK, FreshHasRow
<1>1. UNCHANGED <<cache, drops>> => RowMoves
  BY DEF RowMoves, Cached
<1>2. CASE RefreshFromFreshCache
  BY <1>1, <1>2 DEF RefreshFromFreshCache
<1>3. CASE RefreshByDownload
  <2>1. PICK index \in SUBSET Paper : Download(index) /\ Diff(index)
    BY <1>3 DEF RefreshByDownload
  <2>2. cache' = index /\ cache' # NoCache /\ fresh' = TRUE /\ RowMoves
    BY <2>1, DownloadedRow
  <2>3. pc = "refresh"
    BY <1>3 DEF RefreshByDownload
  <2> QED
    BY <2>1, <2>2, <2>3
<1>4. CASE RefreshWithoutDownload
  <2> DEFINE index == IF cache = NoCache THEN papers ELSE cache
  <2>1. index \in SUBSET Paper
    OBVIOUS
  <2>2. Diff(index) /\ UNCHANGED <<cache, fresh, drops>> /\ pc = "refresh"
    BY <1>4 DEF RefreshWithoutDownload
  <2> QED
    BY <1>1, <2>1, <2>2
<1> QED
  BY <1>2, <1>3, <1>4 DEF Refresh

-----------------------------------------------------------------------------
(* Type correctness *)

\* The slice counter stays below the divisor.
LEMMA CycleInRange ==
    ASSUME cycle \in 0 .. Divisor - 1
    PROVE  NextCycle \in 0 .. Divisor - 1
BY SourcesAssumption DEF NextCycle

\* The news of papers of the index.
LEMMA NewsTyped ==
    ASSUME TypeOK
    PROVE  /\ \A p \in Paper : Now(p) \in AllNews
           /\ \A some \in SUBSET Paper : News(some) \subseteq AllNews
BY DEF TypeOK, Now, News, AllNews

\* What exceptions forgo is news.
LEMMA ForgoneTyped ==
    ASSUME TypeOK
    PROVE  /\ PollLost \/ CycleLost => forgone' \subseteq AllNews
           /\ CacheWriteLost => forgone' \subseteq AllNews
<1>1. PollLost \/ CycleLost => forgone' \subseteq AllNews
  BY NewsTyped DEF PollLost, CycleLost, ForgoNews, TypeOK
<1>2. ASSUME CacheWriteLost
      PROVE  forgone' \subseteq AllNews
  <2>1. PICK index \in SUBSET Paper :
            /\ Download(index)
            /\ forgone' = forgone \cup {<<p, drops[p] + 1>> : p \in (previous \cap Cached) \ index}
    BY <1>2 DEF CacheWriteLost
  <2>2. \A p \in (previous \cap Cached) \ index : p \in Paper /\ drops[p] + 1 \in 0 .. MaxDrops
    BY <2>1, SourcesAssumption DEF Download, TypeOK
  <2> QED
    BY <2>1, <2>2 DEF TypeOK, AllNews
<1> QED
  BY <1>1, <1>2

\* Every step keeps the types.
LEMMA TypesStep == TypeOK /\ FreshHasRow /\ [Next]_vars => (TypeOK /\ FreshHasRow)'
<1> SUFFICES ASSUME TypeOK, FreshHasRow, [Next]_vars
             PROVE  (TypeOK /\ FreshHasRow)'
  OBVIOUS
<1>1. CASE StartPoll \/ StartSeed
  BY <1>1 DEF StartPoll, StartSeed, TypeOK, FreshHasRow
<1>2. CASE Refresh
  <2>1. PICK index \in SUBSET Paper :
              /\ Diff(index)
              /\ cache' \in (SUBSET Paper) \cup {NoCache}
              /\ fresh' \in BOOLEAN
              /\ FreshHasRow'
              /\ RowMoves
    BY <1>2, RefreshIndex
  <2>2. baseline' \subseteq AllNews
    BY <2>1, NewsTyped DEF Diff, TypeOK
  <2>3. newPapers' \subseteq Paper
    BY <2>1 DEF Diff, NewPapers, DiffSnapshots, TypeOK
  <2> QED
    BY <2>1, <2>2, <2>3 DEF Diff, RowMoves, TypeOK
<1>3. CASE Probe
  BY <1>3, CycleInRange DEF Probe, Eligible, TypeOK, FreshHasRow
<1>4. CASE \E u \in Url : MarkDiscovered(u)
  BY <1>4 DEF MarkDiscovered, TypeOK, FreshHasRow
<1>5. CASE CompleteCycle
  BY <1>5 DEF CompleteCycle, EndCycle, TypeOK, FreshHasRow
<1>6. CASE Notify
  <2>1. transitions' \subseteq AllNews
    BY <1>6, NewsTyped DEF Notify, Transitions, TypeOK
  <2>2. alerts' \in [Url \cup AllNews -> Nat]
    BY <1>6 DEF Notify, TypeOK
  <2> QED
    BY <1>6, <2>1, <2>2 DEF Notify, EndPoll, TypeOK, FreshHasRow
<1>7. CASE FailCycle \/ CycleLost
  <2>1. cycle' \in 0 .. Divisor - 1
    BY <1>7, CycleInRange DEF FailCycle, CycleLost, TypeOK
  <2>2. CASE FailCycle
    BY <2>1, <2>2 DEF FailCycle, PollTouchedOrNot, EndCycle, Notifies, TypeOK, FreshHasRow
  <2>3. CASE CycleLost
    BY <2>1, <2>3, ForgoneTyped DEF CycleLost, ForgoNews, PollTouchedOrNot, EndPoll, TypeOK, FreshHasRow
  <2> QED
    BY <1>7, <2>2, <2>3
<1>8. CASE PollLost \/ CacheWriteLost
  <2>1. CASE PollLost
    BY <2>1, ForgoneTyped DEF PollLost, ForgoNews, EndPoll, TypeOK, FreshHasRow
  <2>2. CASE CacheWriteLost
    <3>1. /\ cache' \in SUBSET Paper /\ cache' # NoCache /\ fresh' = TRUE
          /\ drops' \in [Paper -> 0 .. MaxDrops]
      BY <2>2, DownloadedRow DEF CacheWriteLost, RowMoves
    <3> QED
      BY <2>2, <3>1, ForgoneTyped DEF CacheWriteLost, EndPoll, TypeOK, FreshHasRow
  <2> QED
    BY <1>8, <2>1, <2>2
<1>9. CASE Restart
  <2>1. cycle' \in 0 .. Divisor - 1
    BY <1>9, SourcesAssumption DEF Restart
  <2> QED
    BY <1>9, <2>1 DEF Restart, EndPoll, TypeOK, FreshHasRow
<1>10. CASE World
  <2>1. CASE CacheExpires
    BY <2>1 DEF CacheExpires, TypeOK, FreshHasRow
  <2>2. ASSUME NEW u \in Url, Upload(u) \/ Age(u)
        PROVE  (TypeOK /\ FreshHasRow)'
    BY <2>2 DEF Upload, Age, TypeOK, FreshHasRow
  <2> QED
    BY <1>10, <2>1, <2>2 DEF World
<1>11. CASE UNCHANGED vars
  BY <1>11 DEF vars, TypeOK, FreshHasRow
<1> QED
  BY <1>1, <1>2, <1>3, <1>4, <1>5, <1>6, <1>7, <1>8, <1>9, <1>10, <1>11
     DEF Next, PollStep, UpToNotify, Failure, Exception, Refresh

\* Every variable keeps to the values TypeOK lists.
THEOREM TypeCorrect == Spec => [](TypeOK /\ FreshHasRow)
<1>1. Init => TypeOK /\ FreshHasRow
  <2> SUFFICES ASSUME Init PROVE TypeOK /\ FreshHasRow
    OBVIOUS
  <2>1. cycle \in 0 .. Divisor - 1
    BY SourcesAssumption DEF Init
  <2>2. alerts \in [Url \cup AllNews -> Nat]
    BY DEF Init
  <2>3. drops \in [Paper -> 0 .. MaxDrops]
    BY SourcesAssumption DEF Init
  <2> QED
    BY <2>1, <2>2, <2>3 DEF Init, TypeOK, FreshHasRow
<1> QED
  BY <1>1, TypesStep, PTL DEF Spec

-----------------------------------------------------------------------------
(* Papers: what was announced, or taken as known, is never news again *)

\* News that was heard of is of a paper the cache's row has had ever since, so it is
\* in the snapshot of a process that has one; new papers are in it too, unheard of.
PapersInv ==
    /\ cache = NoCache => papers = {}
    /\ \A p \in Paper, k \in 0 .. MaxDrops : <<p, k>> \in Heard => k <= drops[p]
    /\ \A p \in Paper : Now(p) \in Heard => p \in Cached
    /\ seeded \/ PastRefresh =>
          previous = papers /\ \A p \in Paper : Now(p) \in Heard => p \in previous
    /\ PastRefresh => previous = Cached
    /\ pc = "refresh" /\ mode = "normal" => seeded
    /\ newPapers \subseteq previous
    /\ \A p \in newPapers : Now(p) \notin Heard
    /\ ~ PastRefresh \/ mode # "normal" => newPapers = {}

\* When the row moves, what is heard of a paper still in time was heard before.
LEMMA HeardStill ==
    ASSUME TypeOK, PapersInv, RowMoves
    PROVE  /\ \A p \in Paper, k \in 0 .. MaxDrops : <<p, k>> \in Heard => k <= drops'[p]
           /\ \A p \in Paper : Now(p)' \in Heard =>
                 drops'[p] = drops[p] /\ Now(p) \in Heard /\ p \in Cached'
<1>1. \A p \in Paper : drops[p] \in 0 .. MaxDrops /\ drops'[p] \in 0 .. MaxDrops
  BY DEF TypeOK, RowMoves
<1>2. \A p \in Paper, k \in 0 .. MaxDrops : <<p, k>> \in Heard => k <= drops'[p]
  BY <1>1, SourcesAssumption DEF PapersInv, RowMoves
<1>3. ASSUME NEW p \in Paper, <<p, drops'[p]>> \in Heard
      PROVE  drops'[p] = drops[p] /\ <<p, drops[p]>> \in Heard /\ p \in Cached'
  <2>1. drops'[p] <= drops[p]
    BY <1>1, <1>3 DEF PapersInv
  <2>2. drops'[p] = drops[p] /\ (p \in Cached => p \in Cached')
    BY <1>1, <2>1, SourcesAssumption DEF RowMoves
  <2> QED
    BY <1>3, <2>2 DEF PapersInv, Now
<1> QED
  BY <1>2, <1>3 DEF Now

\* The diff of a refresh: the papers it finds new were not heard of.
LEMMA PapersRefresh ==
    ASSUME TypeOK, FreshHasRow, PapersInv, Refresh
    PROVE  PapersInv'
<1>1. PICK index \in SUBSET Paper :
            /\ pc = "refresh"
            /\ Diff(index)
            /\ index = IF cache' = NoCache THEN papers ELSE cache'
            /\ cache' = NoCache => cache = NoCache
            /\ RowMoves
  BY RefreshIndex
<1>2. index = Cached' /\ (cache' = NoCache => index = {})
  BY <1>1 DEF Cached, PapersInv
<1>3. /\ papers' = index /\ previous' = index /\ pc' = "probe" /\ mode' = mode
      /\ newPapers' = NewPapers(index) /\ alerts' = alerts
      /\ baseline' = IF mode = "normal" THEN baseline ELSE baseline \cup News(index)
  BY <1>1 DEF Diff
<1>4. /\ \A p \in Paper, k \in 0 .. MaxDrops : <<p, k>> \in Heard => k <= drops'[p]
      /\ \A p \in Paper : Now(p)' \in Heard => Now(p) \in Heard /\ p \in index
  BY <1>1, <1>2, HeardStill
<1>5. \A p \in index : drops'[p] = drops[p]
  BY <1>1, <1>2 DEF RowMoves
<1>6. /\ \A p \in Paper, k \in 0 .. MaxDrops : <<p, k>> \in Heard' => k <= drops'[p]
      /\ \A p \in Paper : Now(p)' \in Heard' => p \in index
      /\ newPapers' \subseteq index
      /\ \A p \in newPapers' : Now(p)' \notin Heard'
      /\ mode # "normal" => newPapers' = {}
  <2>1. CASE mode = "normal"
    <3>1. \A p \in Paper : Now(p) \in Heard => p \in previous
      BY <1>1, <2>1 DEF PapersInv
    <3>2. newPapers' = index \ previous /\ Heard' = Heard
      BY <1>3, <2>1 DEF NewPapers, DiffSnapshots, Heard
    <3>3. \A p \in newPapers' : Now(p)' \notin Heard
      BY <1>4, <3>1, <3>2
    <3> QED
      BY <1>4, <2>1, <3>2, <3>3
  <2>2. CASE mode # "normal"
    <3>1. newPapers' = {} /\ Heard' = Heard \cup News(index)
      BY <1>3, <2>2 DEF NewPapers, Heard
    <3>2. \A p \in Paper, k \in 0 .. MaxDrops :
              <<p, k>> \in News(index) => p \in index /\ k = drops[p]
      BY DEF News, Now
    <3>3. \A p \in Paper, k \in 0 .. MaxDrops : <<p, k>> \in Heard' => k <= drops'[p]
      <4>1. \A p \in Paper : drops[p] \in 0 .. MaxDrops
        BY DEF TypeOK
      <4> QED
        BY <1>4, <1>5, <3>1, <3>2, <4>1, SourcesAssumption
    <3>4. \A p \in Paper : Now(p)' \in Heard' => p \in index
      BY <1>4, <3>1 DEF News, Now
    <3> QED
      BY <3>1, <3>3, <3>4
  <2> QED
    BY <2>1, <2>2
<1>7. \A p \in Paper : Now(p)' \in Heard' => p \in Cached'
  BY <1>2, <1>6
<1> QED
  BY <1>2, <1>3, <1>6, <1>7 DEF PapersInv, PastRefresh

\* The new papers of a poll become papers heard of when it is over.
LEMMA PapersNotify ==
    ASSUME TypeOK, PapersInv, Notify
    PROVE  PapersInv'
<1>1. Heard' \subseteq Heard \cup News(newPapers)
  <2>1. \A x \in AllNews : x \notin recent
    BY SourcesAssumption DEF TypeOK, AllNews
  <2> QED
    BY <2>1 DEF Notify, Heard, TypeOK
<1>2. newPapers' = {} /\ ~ PastRefresh' /\ pc' = "idle"
  BY DEF Notify, EndPoll, PastRefresh
<1>3. UNCHANGED <<Cached, cache, papers, seeded, previous, drops>>
  BY DEF Notify, Cached
<1>4. /\ previous = papers /\ previous = Cached /\ newPapers \subseteq previous
      /\ \A p \in Paper : Now(p) \in Heard => p \in previous
  BY DEF PapersInv, Notify, PastRefresh
<1>5. \A p \in Paper, k \in 0 .. MaxDrops :
          <<p, k>> \in Heard' => <<p, k>> \in Heard \/ (p \in newPapers /\ k = drops[p])
  BY <1>1 DEF News, Now
<1>6. \A p \in Paper, k \in 0 .. MaxDrops : <<p, k>> \in Heard' => k <= drops[p]
  BY <1>5, SourcesAssumption DEF PapersInv
<1>7. \A p \in Paper : <<p, drops[p]>> \in Heard' => p \in previous
  <2>1. \A p \in Paper : drops[p] \in 0 .. MaxDrops
    BY DEF TypeOK
  <2> QED
    BY <1>4, <1>5, <2>1 DEF Now
<1> QED
  BY <1>2, <1>3, <1>4, <1>6, <1>7 DEF PapersInv, Now

\* A download that is lost with its poll moves the row, and nothing else.
LEMMA PapersRowLost ==
    ASSUME TypeOK, PapersInv, CacheWriteLost
    PROVE  PapersInv'
<1>1. PICK index \in SUBSET Paper : Download(index)
  BY DEF CacheWriteLost
<1>2. cache' # NoCache /\ RowMoves
  BY <1>1, DownloadedRow
<1>3. /\ pc = "refresh" /\ newPapers' = {} /\ pc' = "idle" /\ ~ PastRefresh'
      /\ UNCHANGED <<papers, previous, seeded, Heard>>
  BY DEF CacheWriteLost, EndPoll, PastRefresh, Heard
<1> QED
  BY <1>2, <1>3, HeardStill DEF PapersInv

\* Every step keeps the invariant.
LEMMA PapersStep == TypeOK /\ FreshHasRow /\ PapersInv /\ [Next]_vars => PapersInv'
<1> SUFFICES ASSUME TypeOK, FreshHasRow, PapersInv, [Next]_vars
             PROVE  PapersInv'
  OBVIOUS
<1> USE DEF Heard, Cached, PastRefresh, Now
<1>1. CASE StartPoll \/ StartSeed
  BY <1>1 DEF StartPoll, StartSeed, PapersInv
<1>2. CASE Probe
  BY <1>2 DEF Probe, PapersInv
<1>3. CASE \E u \in Url : MarkDiscovered(u)
  BY <1>3 DEF MarkDiscovered, PapersInv
<1>4. CASE CompleteCycle
  BY <1>4 DEF CompleteCycle, EndCycle, Notifies, PapersInv, TypeOK
<1>5. CASE FailCycle
  BY <1>5 DEF FailCycle, EndCycle, Notifies, PapersInv, TypeOK
<1>6. CASE PollLost \/ CycleLost
  BY <1>6 DEF PollLost, CycleLost, ForgoNews, EndPoll, PapersInv
<1>7. CASE Restart
  BY <1>7 DEF Restart, EndPoll, PapersInv
<1>8. CASE World
  BY <1>8 DEF World, CacheExpires, Upload, Age, PapersInv
<1>9. CASE UNCHANGED vars
  BY <1>9 DEF vars, PapersInv
<1> QED
  BY <1>1, <1>2, <1>3, <1>4, <1>5, <1>6, <1>7, <1>8, <1>9, PapersRefresh, PapersNotify, PapersRowLost
     DEF Next, PollStep, UpToNotify, Failure, Exception, Refresh

\* The invariant holds, with the types it needs.
LEMMA PapersHold == Spec => [](TypeOK /\ FreshHasRow /\ PapersInv)
<1>1. Init => PapersInv
  <2> SUFFICES ASSUME Init PROVE PapersInv
    OBVIOUS
  <2>1. \A x \in AllNews : ~ alerts[x] > 0
    BY DEF Init
  <2>2. Heard = {}
    BY <2>1 DEF Heard, Init
  <2> QED
    BY <2>2 DEF Init, PapersInv, PastRefresh
<1> QED
  BY <1>1, PapersStep, TypeCorrect, PTL DEF Spec

\* What a seed took as known is not announced while downloads have it, by no process.
THEOREM SeededSilent == Spec => SeededPapersSilent
<1> DEFINE Silent == \A x \in baseline : alerts'[x] = alerts[x]
<1>1. TypeOK /\ PapersInv /\ [Next]_vars => [Silent]_vars
  <2> SUFFICES ASSUME TypeOK, PapersInv, Next PROVE Silent
    OBVIOUS
  <2>1. CASE Notify
    <3>1. baseline \cap News(newPapers) = {}
      BY DEF PapersInv, Heard, News
    <3>2. \A x \in baseline : x \in AllNews /\ x \notin recent
      BY SourcesAssumption DEF TypeOK, AllNews
    <3> QED
      BY <2>1, <3>1, <3>2 DEF Notify, TypeOK
  <2>2. CASE Refresh
    BY <2>2 DEF Refresh, RefreshFromFreshCache, RefreshByDownload, RefreshWithoutDownload, Diff
  <2>3. ASSUME ~ Notify, ~ Refresh
        PROVE  alerts' = alerts
    BY <2>3 DEF Next, PollStep, UpToNotify, Failure, Exception, World, Refresh, StartPoll, StartSeed, Probe,
                MarkDiscovered, CompleteCycle, FailCycle, PollLost, CacheWriteLost, CycleLost, ForgoNews, Restart,
                CacheExpires, Upload, Age
  <2> QED
    BY <2>1, <2>2, <2>3
<1> QED
  BY <1>1, PapersHold, PTL DEF Spec, SeededPapersSilent

-----------------------------------------------------------------------------
(* Files: a hit is recorded before it is announced, and never probed again *)

\* A file that was announced is recorded; the hits of a cycle were not announced,
\* and those not yet marked are not recorded.
FilesInv ==
    /\ \A u \in Url : alerts[u] > 0 => u \in discovered
    /\ \A u \in recent : alerts[u] = 0 /\ u \in discovered \cup unmarked
    /\ unmarked \cap discovered = {}
    /\ pc # "mark" => unmarked = {}

\* The strengthening of AlertedOnce and TransitionsComplete: the prober has no
\* hit in hand that is a draft of a paper the snapshot has.
AlertsInv ==
    /\ FilesInv
    /\ \A p \in papers : DraftsOf[p] \cap unmarked = {}
    /\ AlertedOnce
    /\ TransitionsComplete

\* A cycle probes no recorded file and no draft of a paper in the index.
LEMMA ProbeHits ==
    ASSUME TypeOK, Probe
    PROVE  /\ unmarked' \subseteq Url \ discovered
           /\ recent' \subseteq unmarked'
           /\ \A p \in papers : DraftsOf[p] \cap unmarked' = {}
<1>1. unmarked' \subseteq Eligible /\ recent' \subseteq unmarked'
  BY DEF Probe
<1>2. Eligible \subseteq ListFor[papers] \ discovered
  BY DEF Eligible
<1>3. /\ ListFor[papers] \subseteq Url
      /\ \A p \in papers : DraftsOf[p] \cap ListFor[papers] = {}
  BY ListAssumption DEF TypeOK
<1> QED
  BY <1>1, <1>2, <1>3

\* When only the row moves, what was announced in time was reported in time.
LEMMA TransitionsStill ==
    ASSUME TypeOK, PapersInv, AlertsInv, RowMoves, UNCHANGED <<alerts, transitions, discovered>>
    PROVE  TransitionsComplete'
<1> SUFFICES ASSUME NEW p \in Paper, alerts[<<p, drops'[p]>>] > 0, DraftsOf[p] \cap discovered # {}
             PROVE  <<p, drops'[p]>> \in transitions
  BY DEF TransitionsComplete, Now
<1>1. <<p, drops'[p]>> \in Heard
  BY DEF Heard, RowMoves, AllNews
<1>2. drops'[p] = drops[p]
  BY <1>1, HeardStill DEF Now
<1> QED
  BY <1>2 DEF AlertsInv, TransitionsComplete, Now

\* Every step keeps the invariant.
LEMMA AlertsStep == TypeOK /\ FreshHasRow /\ PapersInv /\ AlertsInv /\ [Next]_vars => AlertsInv'
<1> SUFFICES ASSUME TypeOK, FreshHasRow, PapersInv, AlertsInv, [Next]_vars
             PROVE  AlertsInv'
  OBVIOUS
<1> USE DEF AlertsInv, FilesInv, AlertedOnce, TransitionsComplete, Now
<1>1. CASE StartPoll \/ StartSeed
  BY <1>1 DEF StartPoll, StartSeed
<1>2. CASE Refresh
  <2>1. PICK index : pc = "refresh" /\ Diff(index) /\ RowMoves
    BY <1>2, RefreshIndex
  <2>2. TransitionsComplete'
    BY <2>1, TransitionsStill DEF Diff
  <2> QED
    BY <2>1, <2>2 DEF Diff
<1>3. CASE Probe
  <2>1. UNCHANGED <<discovered, papers, drops, alerts, transitions>> /\ pc' = "mark"
    BY <1>3 DEF Probe
  <2>2. \A u \in recent' : alerts[u] = 0
    BY <1>3, ProbeHits DEF TypeOK
  <2> QED
    BY <1>3, <2>1, <2>2, ProbeHits
<1>4. ASSUME NEW u \in Url, MarkDiscovered(u)
      PROVE  AlertsInv'
  <2>1. \A p \in Paper : alerts[Now(p)] > 0 => u \notin DraftsOf[p]
    <3>1. \A p \in Paper : Now(p) \in Heard => p \in papers
      BY <1>4 DEF MarkDiscovered, PapersInv, PastRefresh
    <3>2. \A p \in Paper : alerts[Now(p)] > 0 => Now(p) \in Heard
      BY NewsTyped DEF Heard
    <3> QED
      BY <1>4, <3>1, <3>2 DEF MarkDiscovered
  <2>2. UNCHANGED <<papers, recent, drops, alerts, transitions, pc>>
    BY <1>4 DEF MarkDiscovered
  <2>3. discovered' = discovered \cup {u} /\ unmarked' = unmarked \ {u} /\ pc = "mark"
    BY <1>4 DEF MarkDiscovered
  <2>4. FilesInv'
    BY <2>2, <2>3
  <2>5. TransitionsComplete'
    BY <2>1, <2>2, <2>3
  <2> QED
    BY <2>2, <2>3, <2>4, <2>5
<1>5. CASE CompleteCycle
  BY <1>5 DEF CompleteCycle, EndCycle, AllMarked
<1>6. CASE Notify
  <2>1. /\ alerts' = [x \in Url \cup AllNews |->
                         IF x \in recent \cup News(newPapers) THEN alerts[x] + 1 ELSE alerts[x]]
        /\ transitions' = transitions \cup Transitions
        /\ UNCHANGED <<discovered, papers, drops>>
        /\ recent' = {} /\ unmarked' = {} /\ unmarked = {}
    BY <1>6 DEF Notify, EndPoll, TypeOK
  <2>2. \A x \in recent \cup News(newPapers) : x \in Url \cup AllNews => alerts[x] = 0
    <3>1. \A p \in newPapers : ~ alerts[Now(p)] > 0
      BY NewsTyped DEF PapersInv, Heard, TypeOK
    <3>2. \A x \in News(newPapers) : ~ alerts[x] > 0
      BY <3>1 DEF News
    <3> QED
      BY <3>2 DEF TypeOK
  <2>3. AlertedOnce'
    BY <2>1, <2>2 DEF TypeOK
  <2>4. FilesInv'
    <3>1. \A u \in Url : u \notin News(newPapers)
      <4>1. News(newPapers) \subseteq AllNews
        BY NewsTyped DEF TypeOK
      <4> QED
        BY <4>1, SourcesAssumption DEF AllNews
    <3> QED
      BY <2>1, <3>1 DEF TypeOK
  <2>5. TransitionsComplete'
    <3> SUFFICES ASSUME NEW p \in Paper, alerts'[Now(p)] > 0, DraftsOf[p] \cap discovered # {}
                 PROVE  Now(p) \in transitions \cup Transitions
      BY <2>1
    <3>1. Now(p) \in AllNews /\ Now(p) \notin recent
      BY NewsTyped, SourcesAssumption DEF TypeOK, AllNews
    <3>2. CASE p \in newPapers
      BY <3>2 DEF Transitions, News
    <3>3. CASE p \notin newPapers
      <4>1. Now(p) \notin News(newPapers)
        BY <3>3 DEF News
      <4> QED
        BY <2>1, <3>1, <4>1
    <3> QED
      BY <3>2, <3>3
  <2> QED
    BY <2>1, <2>3, <2>4, <2>5
<1>7. CASE FailCycle \/ CycleLost
  BY <1>7 DEF FailCycle, CycleLost, ForgoNews, EndCycle, EndPoll
<1>8. CASE PollLost \/ CacheWriteLost
  <2>1. CASE PollLost
    BY <2>1 DEF PollLost, ForgoNews, EndPoll
  <2>2. CASE CacheWriteLost
    <3>1. RowMoves
      BY <2>2, DownloadedRow DEF CacheWriteLost
    <3>2. UNCHANGED <<papers, discovered, alerts, transitions>> /\ recent' = {} /\ unmarked' = {}
      BY <2>2 DEF CacheWriteLost, EndPoll
    <3>3. TransitionsComplete'
      BY <3>1, <3>2, TransitionsStill
    <3> QED
      BY <3>2, <3>3
  <2> QED
    BY <1>8, <2>1, <2>2
<1>9. CASE Restart
  BY <1>9 DEF Restart, EndPoll
<1>10. CASE World
  BY <1>10 DEF World, CacheExpires, Upload, Age
<1>11. CASE UNCHANGED vars
  BY <1>11 DEF vars
<1> QED
  BY <1>1, <1>2, <1>3, <1>4, <1>5, <1>6, <1>7, <1>8, <1>9, <1>10, <1>11
     DEF Next, PollStep, UpToNotify, Failure, Exception, Refresh

\* The invariant holds, with those it needs.
LEMMA AlertsHold == Spec => [](TypeOK /\ FreshHasRow /\ PapersInv /\ AlertsInv)
<1>1. Init => AlertsInv
  <2> SUFFICES ASSUME Init PROVE AlertsInv
    OBVIOUS
  <2>1. \A x \in Url \cup AllNews : alerts[x] = 0
    BY DEF Init
  <2>2. \A p \in Paper : Now(p) \in AllNews
    BY SourcesAssumption DEF Init, Now, AllNews
  <2> QED
    BY <2>1, <2>2 DEF Init, AlertsInv, FilesInv, AlertedOnce, TransitionsComplete
<1> QED
  BY <1>1, AlertsStep, PapersHold, PTL DEF Spec

\* No file is announced twice, and no paper unless a download lacked it in between,
\* whatever fails and whenever the process dies.
THEOREM AlertsSound == Spec => []AlertedOnce
<1>1. AlertsInv => AlertedOnce
  BY DEF AlertsInv
<1> QED
  BY <1>1, AlertsHold, PTL

\* A paper whose draft is recorded is announced as its transition: the same faults
\* let no hit be recorded between the diff that has the paper and its announcement.
THEOREM TransitionsReported == Spec => []TransitionsComplete
<1>1. AlertsInv => TransitionsComplete
  BY DEF AlertsInv
<1> QED
  BY <1>1, AlertsHold, PTL

-----------------------------------------------------------------------------
(* What is found is not lost *)

\* A refresh keeps the news of the papers it finds in the snapshot.
LEMMA PapersKeptRefresh ==
    ASSUME TypeOK, FreshHasRow, PapersInv, NoPaperLost, Refresh
    PROVE  NoPaperLost'
<1>1. PICK index \in SUBSET Paper :
            /\ pc = "refresh"
            /\ Diff(index)
            /\ index = IF cache' = NoCache THEN papers ELSE cache'
            /\ RowMoves
  BY RefreshIndex
<1>2. newPapers = {}
  BY <1>1 DEF PapersInv, PastRefresh
<1>3. \A p \in index : drops'[p] = drops[p]
  <2>1. CASE cache' = NoCache
    <3>1. cache = NoCache => index = {}
      BY <1>1, <2>1 DEF PapersInv
    <3>2. cache = NoCache
      BY <2>1, RefreshIndex
    <3> QED
      BY <3>1, <3>2
  <2>2. CASE cache' # NoCache
    BY <1>1, <2>2 DEF RowMoves, Cached
  <2> QED
    BY <2>1, <2>2
<1>4. \A p \in index : <<p, drops'[p]>> = Now(p)
  BY <1>3 DEF Now
<1>5. /\ previous' = index /\ alerts' = alerts /\ forgone' = forgone
      /\ newPapers' = IF mode = "normal" THEN index \ previous ELSE {}
      /\ baseline' = IF mode = "normal" THEN baseline ELSE baseline \cup News(index)
  BY <1>1 DEF Diff, NewPapers, DiffSnapshots
<1> SUFFICES ASSUME NEW p \in index
             PROVE  alerts[Now(p)] > 0 \/ p \in newPapers' \/ Now(p) \in baseline' \cup forgone'
  BY <1>4, <1>5 DEF NoPaperLost, Now
<1>6. CASE mode = "normal"
  BY <1>2, <1>5, <1>6 DEF NoPaperLost
<1>7. CASE mode # "normal"
  BY <1>5, <1>7 DEF News
<1> QED
  BY <1>6, <1>7

\* A download that is lost with its poll: the papers it lacks are forgone.
LEMMA PapersKeptRowLost ==
    ASSUME TypeOK, PapersInv, NoPaperLost, CacheWriteLost
    PROVE  NoPaperLost'
<1>1. PICK index \in SUBSET Paper :
          /\ Download(index)
          /\ forgone' = forgone \cup {<<p, drops[p] + 1>> : p \in (previous \cap Cached) \ index}
  BY DEF CacheWriteLost
<1>2. /\ previous' = previous /\ previous \subseteq Paper /\ UNCHANGED <<alerts, baseline>>
      /\ newPapers = {}
  BY DEF CacheWriteLost, TypeOK, PapersInv, PastRefresh
<1>3. \A p \in previous \ (Cached \ index) : drops'[p] = drops[p]
  BY <1>1, <1>2 DEF Download, TypeOK
<1>4. \A p \in previous \cap (Cached \ index) : <<p, drops'[p]>> \in forgone'
  <2>1. \A p \in previous \cap (Cached \ index) : drops'[p] = drops[p] + 1
    BY <1>1, <1>2 DEF Download
  <2> QED
    BY <1>1, <2>1
<1> QED
  BY <1>1, <1>2, <1>3, <1>4 DEF NoPaperLost, Now

\* Every step keeps NoPaperLost: a process that dies loses its snapshot with its news.
LEMMA PapersKeptStep ==
    TypeOK /\ FreshHasRow /\ PapersInv /\ NoPaperLost /\ [Next]_vars => NoPaperLost'
<1> SUFFICES ASSUME TypeOK, FreshHasRow, PapersInv, NoPaperLost, [Next]_vars
             PROVE  NoPaperLost'
  OBVIOUS
<1> USE DEF NoPaperLost, Now
<1>1. CASE StartPoll \/ StartSeed
  BY <1>1 DEF StartPoll, StartSeed
<1>2. CASE Refresh
  BY <1>2, PapersKeptRefresh
<1>3. CASE Probe \/ \E u \in Url : MarkDiscovered(u)
  BY <1>3 DEF Probe, MarkDiscovered
<1>4. CASE CompleteCycle
  BY <1>4 DEF CompleteCycle, EndCycle
<1>5. CASE Notify
  <2>1. \A x \in AllNews :
            /\ alerts[x] \in Nat /\ alerts'[x] \in Nat /\ alerts'[x] >= alerts[x]
            /\ x \in News(newPapers) => alerts'[x] > 0
    BY <1>5 DEF Notify, TypeOK
  <2>2. previous \subseteq Paper /\ UNCHANGED <<previous, baseline, forgone, drops>>
    BY <1>5 DEF Notify, TypeOK
  <2>3. \A p \in previous : Now(p) \in AllNews /\ (p \in newPapers => Now(p) \in News(newPapers))
    BY <2>2, NewsTyped DEF News
  <2>4. \A p \in previous : alerts'[Now(p)] > 0 \/ Now(p) \in baseline \cup forgone
    BY <2>1, <2>3
  <2> QED
    BY <2>2, <2>4
<1>6. CASE Exception
  <2>1. CASE FailCycle
    BY <2>1 DEF FailCycle, EndCycle
  <2>2. CASE PollLost \/ CycleLost
    <3>1. /\ UNCHANGED <<previous, drops, alerts, baseline>>
          /\ forgone' = forgone \cup News(newPapers)
      BY <2>2 DEF PollLost, CycleLost, ForgoNews
    <3> QED
      BY <3>1 DEF News
  <2> QED
    BY <1>6, <2>1, <2>2, PapersKeptRowLost DEF Exception
<1>7. CASE Restart
  BY <1>7 DEF Restart
<1>8. CASE World
  BY <1>8 DEF World, CacheExpires, Upload, Age
<1>9. CASE UNCHANGED vars
  BY <1>9 DEF vars
<1> QED
  BY <1>1, <1>2, <1>3, <1>4, <1>5, <1>6, <1>7, <1>8, <1>9
     DEF Next, PollStep, UpToNotify, Failure, Exception, Refresh

\* No paper is in the snapshot of a process without its announcement, whatever fails,
\* unless the poll that found it raised.
THEOREM NoPaperForgotten == Spec => []NoPaperLost
<1>1. Init => NoPaperLost
  BY DEF Init, NoPaperLost
<1> QED
  BY <1>1, PapersKeptStep, PapersHold, PTL DEF Spec

\* No transaction fails, and the process only stops between two polls.
Calm == ~ DatabaseFails /\ Restarts # "any_time"

\* The strengthening of NoAlertLost: a recorded file waits for its alert only
\* between its hit and the notification of a poll that notifies.
LossInv ==
    \A u \in discovered :
        \/ alerts[u] > 0
        \/ u \in excused
        \/ u \in recent /\ mode # "cold" /\ pc \in {"mark", "notify"}

\* Every step keeps the invariant.
LEMMA LossStep ==
    ASSUME Calm
    PROVE  TypeOK /\ FreshHasRow /\ LossInv /\ [Next]_vars => LossInv'
<1> SUFFICES ASSUME TypeOK, FreshHasRow, LossInv, [Next]_vars
             PROVE  LossInv'
  OBVIOUS
<1> USE DEF LossInv
<1>1. CASE StartPoll \/ StartSeed
  BY <1>1 DEF StartPoll, StartSeed
<1>2. CASE Refresh
  <2>1. PICK index \in SUBSET Paper : pc = "refresh" /\ Diff(index)
    BY <1>2, RefreshIndex
  <2> QED
    BY <2>1 DEF Diff
<1>3. CASE Probe
  BY <1>3 DEF Probe
<1>4. CASE \E u \in Url : MarkDiscovered(u)
  BY <1>4 DEF MarkDiscovered
<1>5. CASE CompleteCycle
  BY <1>5 DEF CompleteCycle, EndCycle, AllMarked, Notifies
<1>6. CASE Notify
  <2>1. \A u \in Url :
            /\ alerts[u] \in Nat /\ alerts'[u] \in Nat /\ alerts'[u] >= alerts[u]
            /\ u \in recent => alerts'[u] > 0
    BY <1>6 DEF Notify, TypeOK
  <2>2. discovered \subseteq Url /\ UNCHANGED <<discovered, excused>>
    BY <1>6 DEF Notify, TypeOK
  <2>3. \A u \in discovered : alerts'[u] > 0 \/ u \in excused
    BY <2>1, <2>2
  <2> QED
    BY <2>2, <2>3
<1>7. CASE Exception
  BY <1>7 DEF Exception, FailCycle, PollLost, CacheWriteLost, CycleLost, Calm
<1>8. CASE Restart
  BY <1>8 DEF Restart, EndPoll, Calm
<1>9. CASE World
  BY <1>9 DEF World, CacheExpires, Upload, Age
<1>10. CASE UNCHANGED vars
  BY <1>10 DEF vars
<1> QED
  BY <1>1, <1>2, <1>3, <1>4, <1>5, <1>6, <1>7, <1>8, <1>9, <1>10
     DEF Next, PollStep, UpToNotify, Failure, Exception, Refresh

\* No file is recorded without its alert, unless a transaction fails or the process
\* dies in a poll.
THEOREM NothingLost ==
    ASSUME Calm
    PROVE  Spec => []NoAlertLost
<1>1. Init => LossInv
  BY DEF Init, LossInv
<1>2. LossInv => NoAlertLost
  BY DEF LossInv, NoAlertLost
<1>3. TypeOK /\ FreshHasRow /\ LossInv /\ [Next]_vars => LossInv'
  BY LossStep
<1> QED
  BY <1>1, <1>2, <1>3, TypeCorrect, PTL DEF Spec
=============================================================================

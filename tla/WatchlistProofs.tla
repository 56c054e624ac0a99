---------------------------- MODULE WatchlistProofs ----------------------------
(***************************************************************************)
(* Proofs about Watchlist, for any users, entries, items and threads.      *)
(***************************************************************************)
EXTENDS Watchlist, FiniteSetTheorems, TLAPS

-----------------------------------------------------------------------------
(* What a reader may have seen *)

Types ==
    /\ rows \in SUBSET Row
    /\ steady \in [Reader -> SUBSET Row]
    /\ ever \in [Reader -> SUBSET Row]
    /\ DOMAIN job = Handler
    /\ \A h \in Handler : job[h].cmd \in {"add", "remove", "list"} => job[h].row \in Row

\* Between them steady and ever enclose the table, for each reader under way.
Encloses(r) == steady[r] \subseteq rows /\ (Busy(r) => rows \subseteq ever[r])

\* What a step can mean for a reader: nothing new, or rows that come and go; the
\* beginning; the end.
GoesOn(r) ==
    /\ steady'[r] = steady[r] \cap rows'
    /\ Busy(r)' => Busy(r) /\ ever'[r] = ever[r] \cup rows'

Begins(r) == ~ Busy(r) /\ rows' = rows /\ steady'[r] = rows /\ ever'[r] = rows

Ends(r) == steady'[r] = {} /\ ~ Busy(r)'

\* A thread with a command or an answer is busy, one that has neither is not.
LEMMA BusyHandler ==
    ASSUME NEW h \in Handler
    PROVE  /\ Busy(h) <=> job[h] # NoJob
           /\ Busy(h)' <=> job'[h] # NoJob
           /\ job[h].cmd \in {"reply", "add", "remove", "list"} => Busy(h)
BY HandlerAssumption DEF Busy, NoJob

\* The poll is busy from its probes to its DMs.
LEMMA BusyPoll == (Busy(Poll) <=> pc # "idle") /\ (Busy(Poll)' <=> pc' # "idle")
BY DEF Busy

\* A step of thread h leaves the other threads and the poll where they are.
LEMMA OthersStay ==
    ASSUME NEW h \in Handler, NEW r \in Reader, r # h, pc' = pc,
           \A g \in Handler : g # h => job'[g] = job[g]
    PROVE  Busy(r)' <=> Busy(r)
<1>1. CASE r = Poll
  BY <1>1, BusyPoll
<1>2. CASE r \in Handler
  BY <1>2, BusyHandler
<1> QED
  BY <1>1, <1>2 DEF Reader

\* Every step is one of these to each reader.
LEMMA ReaderStep ==
    ASSUME Types, \A r \in Reader : Encloses(r), Next, NEW r \in Reader
    PROVE  GoesOn(r) \/ Begins(r) \/ Ends(r)
<1> USE DEF Types
<1> DEFINE Alike == \A q \in Reader : steady'[q] = steady[q] /\ ever'[q] = ever[q]
<1>1. ASSUME rows' = rows, steady'[r] = steady[r], ever'[r] = ever[r], Busy(r)' => Busy(r)
      PROVE  GoesOn(r)
  BY <1>1 DEF GoesOn, Encloses
<1>2. ASSUME NEW h \in Handler, Command(h)
      PROVE  GoesOn(r) \/ Begins(r) \/ Ends(r)
  <2>1. h \in Reader /\ pc' = pc /\ \A g \in Handler : g # h => job'[g] = job[g]
    BY <1>2 DEF Reader, Command, Request, Borrow, BorrowRaises, CommandRaises, Add, Remove,
                ListEntries, Reply, Answer
  <2>2. r # h => (Busy(r)' <=> Busy(r))
    BY <2>1, OthersStay
  <2>3. ASSUME NEW cmd \in {"add", "remove", "list"}, NEW row \in Row, Request(h, cmd, row)
        PROVE  GoesOn(r) \/ Begins(r)
    <3>1. CASE r = h
      BY <2>3, <3>1, BusyHandler DEF Request, Begin, Begins
    <3>2. CASE r # h
      BY <1>1, <2>2, <2>3, <3>2 DEF Request, Begin
    <3> QED
      BY <3>1, <3>2
  <2>4. CASE Borrow(h)
    BY <1>1, <2>1, <2>2, <2>4, BusyHandler DEF Borrow
  <2>5. CASE BorrowRaises(h) \/ Reply(h)
    <3>1. CASE r = h
      BY <2>5, <3>1, BusyHandler DEF BorrowRaises, Reply, End, Ends
    <3>2. CASE r # h
      BY <1>1, <2>2, <2>5, <3>2 DEF BorrowRaises, Reply, End
    <3> QED
      BY <3>1, <3>2
  <2>6. CASE CommandRaises(h)
    <3>1. CASE r = h
      BY <2>6, <3>1, BusyHandler DEF CommandRaises, Ends
    <3>2. CASE r # h
      BY <2>2, <2>6, <3>2 DEF CommandRaises, GoesOn
    <3> QED
      BY <3>1, <3>2
  <2>7. CASE Add(h) \/ Remove(h)
    <3>1. Busy(h)
      BY <2>7, BusyHandler DEF Add, Remove, Commits
    <3>2. Busy(r)' => Busy(r)
      BY <3>1, <2>2
    <3>3. steady'[r] = steady[r] \cap rows' /\ (Busy(r) => ever'[r] = ever[r] \cup rows')
      BY <2>7 DEF Add, Remove, Change
    <3> QED
      BY <3>2, <3>3 DEF GoesOn
  <2>8. CASE ListEntries(h)
    <3>1. Busy(h)
      BY <2>8, BusyHandler DEF ListEntries, Commits
    <3> QED
      BY <1>1, <2>2, <2>8, <3>1 DEF ListEntries
  <2> QED
    BY <1>2, <2>3, <2>4, <2>5, <2>6, <2>7, <2>8 DEF Command
<1>3. CASE PollStep
  <2>1. rows' = rows /\ job' = job
    BY <1>3 DEF PollStep, EndProbing, BorrowForPoll, PollRaises, MatchUsers, NotifyUsers
  <2>2. CASE r # Poll
    <3>1. Busy(r)' <=> Busy(r)
      BY <2>1, <2>2, BusyHandler DEF Reader
    <3>2. steady'[r] = steady[r] /\ ever'[r] = ever[r]
      BY <1>3, <2>2 DEF PollStep, EndProbing, BorrowForPoll, PollRaises, MatchUsers, NotifyUsers,
                        Begin, End
    <3> QED
      BY <1>1, <2>1, <3>1, <3>2
  <2>3. CASE r = Poll
    <3>1. CASE \E found \in SUBSET Item : EndProbing(found)
      BY <2>3, <3>1, BusyPoll DEF EndProbing, Begin, Begins
    <3>2. CASE BorrowForPoll \/ MatchUsers
      BY <1>1, <2>3, <3>2, BusyPoll DEF BorrowForPoll, MatchUsers
    <3>3. CASE PollRaises \/ NotifyUsers
      BY <2>3, <3>3, BusyPoll DEF PollRaises, NotifyUsers, End, Ends
    <3> QED
      BY <1>3, <3>1, <3>2, <3>3 DEF PollStep
  <2> QED
    BY <2>2, <2>3
<1>4. CASE Restarted
  BY <1>1, <1>4 DEF Restarted, Busy
<1> QED
  BY <1>2, <1>3, <1>4 DEF Next

-----------------------------------------------------------------------------
(* What was read is enclosed, and stays so *)

\* The reply of a list command and the matches of a poll lie between steady and ever.
Matched ==
    /\ pc \in {"idle", "probed", "matched"}
    /\ pc # "matched" => matches = Nothing
    /\ pc = "matched" => \A u \in User : \E entries \in SUBSET Row :
          /\ matches[u] = MatchesFor(entries, u)
          /\ steady[Poll] \subseteq entries
          /\ entries \subseteq ever[Poll]

Listed(h) ==
    job[h].cmd = "reply" /\ job[h].answer = "entries" =>
        /\ Own(steady[h], h) \subseteq job[h].entries
        /\ job[h].entries \subseteq Own(ever[h], h)

ReadInv ==
    /\ Types
    /\ \A r \in Reader : Encloses(r)
    /\ Matched
    /\ \A h \in Handler : Listed(h)

\* Every step keeps the types.
LEMMA TypesStep == Types /\ [Next]_vars => Types'
<1> SUFFICES ASSUME Types, [Next]_vars PROVE Types'
  OBVIOUS
<1> USE DEF Types
<1>1. ASSUME NEW h \in Handler, Command(h)
      PROVE  Types'
  <2>1. ASSUME NEW cmd \in {"add", "remove", "list"}, NEW row \in Row, Request(h, cmd, row)
        PROVE  Types'
    BY <2>1 DEF Request, Begin
  <2>2. CASE Borrow(h)
    BY <2>2 DEF Borrow
  <2>3. CASE BorrowRaises(h) \/ Reply(h)
    BY <2>3 DEF BorrowRaises, Reply, End, NoJob
  <2>4. CASE CommandRaises(h)
    <3>1. PICK new \in {rows} \cup IF conn[h] = "live" THEN {Changed(h)} ELSE {} :
              /\ rows' = new
              /\ steady' = [r \in Reader |-> IF r = h THEN {} ELSE steady[r] \cap new]
              /\ ever' = [r \in Reader |-> IF Busy(r) /\ r # h THEN ever[r] \cup new ELSE {}]
      BY <2>4 DEF CommandRaises
    <3>2. new \in SUBSET Row
      BY <3>1 DEF Changed
    <3>3. job' = [job EXCEPT ![h] = NoJob]
      BY <2>4 DEF CommandRaises
    <3> QED
      BY <3>1, <3>2, <3>3 DEF NoJob
  <2>5. CASE Add(h) \/ Remove(h)
    <3>1. rows' \in SUBSET Row
      BY <2>5 DEF Add, Remove, Commits, Change
    <3>2. steady' \in [Reader -> SUBSET Row] /\ ever' \in [Reader -> SUBSET Row]
      BY <2>5, <3>1 DEF Add, Remove, Change
    <3>3. DOMAIN job' = Handler /\ job'[h].cmd = "reply" /\ \A g \in Handler \ {h} : job'[g] = job[g]
      BY <2>5 DEF Add, Remove, Answer
    <3> QED
      BY <3>1, <3>2, <3>3
  <2>6. CASE ListEntries(h)
    BY <2>6 DEF ListEntries
  <2> QED
    BY <1>1, <2>1, <2>2, <2>3, <2>4, <2>5, <2>6 DEF Command
<1>2. CASE PollStep
  BY <1>2 DEF PollStep, EndProbing, BorrowForPoll, PollRaises, MatchUsers, NotifyUsers, Begin, End
<1>3. CASE Restarted \/ UNCHANGED vars
  BY <1>3 DEF Restarted, vars
<1> QED
  BY <1>1, <1>2, <1>3 DEF Next

\* Every step keeps what the poll matched enclosed.
LEMMA MatchedStep == ReadInv /\ Next => Matched'
<1> SUFFICES ASSUME ReadInv, Next PROVE Matched'
  OBVIOUS
<1>1. Types /\ Types' /\ Encloses(Poll)
  BY TypesStep DEF ReadInv, Reader
<1>2. CASE PollStep
  <2>1. CASE MatchUsers
    <3>1. /\ pc' = "matched" /\ UNCHANGED <<rows, items, steady, ever>>
          /\ \A u \in User : matches'[u] = MatchesFor(rows, u)
          /\ Busy(Poll)
      BY <2>1, BusyPoll DEF MatchUsers
    <3>2. steady[Poll] \subseteq rows /\ rows \subseteq ever[Poll] /\ rows \in SUBSET Row
      BY <1>1, <3>1 DEF Encloses, Types
    <3> QED
      BY <3>1, <3>2 DEF Matched, MatchesFor
  <2>2. CASE ~ MatchUsers
    BY <1>2, <2>2 DEF ReadInv, Matched, PollStep, EndProbing, BorrowForPoll, PollRaises, NotifyUsers
  <2> QED
    BY <2>1, <2>2
<1>3. CASE (\E h \in Handler : Command(h)) \/ Restarted
  <2>1. UNCHANGED <<pc, items, matches>>
    BY <1>3 DEF Command, Request, Borrow, BorrowRaises, CommandRaises, Add, Remove, ListEntries,
                Reply, Restarted
  <2>2. CASE pc = "matched"
    <3>1. GoesOn(Poll) /\ Busy(Poll)'
      <4>1. Busy(Poll) /\ Busy(Poll)'
        BY <2>1, <2>2, BusyPoll
      <4> QED
        BY <4>1, ReaderStep DEF ReadInv, Reader, Begins, Ends
    <3>2. steady'[Poll] \subseteq steady[Poll] /\ ever[Poll] \subseteq ever'[Poll]
      BY <3>1 DEF GoesOn
    <3>3. ASSUME NEW u \in User
          PROVE  \E entries \in SUBSET Row :
                    /\ matches'[u] = MatchesFor(entries, u)'
                    /\ steady'[Poll] \subseteq entries
                    /\ entries \subseteq ever'[Poll]
      <4>1. PICK entries \in SUBSET Row :
                    /\ matches[u] = MatchesFor(entries, u)
                    /\ steady[Poll] \subseteq entries
                    /\ entries \subseteq ever[Poll]
        BY <2>2 DEF ReadInv, Matched
      <4> QED
        BY <2>1, <3>2, <4>1 DEF MatchesFor
    <3> QED
      BY <2>1, <2>2, <3>3 DEF Matched, MatchesFor
  <2>3. CASE pc # "matched"
    BY <2>1, <2>3 DEF ReadInv, Matched
  <2> QED
    BY <2>2, <2>3
<1> QED
  BY <1>2, <1>3 DEF Next

\* Every step keeps what a list command read enclosed.
LEMMA ListedStep ==
    ASSUME ReadInv, Next, NEW h \in Handler
    PROVE  Listed(h)'
<1> SUFFICES ASSUME job'[h].cmd = "reply", job'[h].answer = "entries"
             PROVE  /\ Own(steady[h], h)' \subseteq job'[h].entries
                    /\ job'[h].entries \subseteq Own(ever[h], h)'
  BY DEF Listed, Own
<1>1. Types /\ Encloses(h) /\ h \in Reader
  BY DEF ReadInv, Reader
<1>2. Busy(h)'
  BY BusyHandler DEF NoJob
<1>3. CASE ListEntries(h)
  <2>1. /\ job'[h].entries = Own(rows, h)
        /\ job'[h].row = job[h].row
        /\ UNCHANGED <<rows, steady, ever>>
        /\ Busy(h)
    BY <1>1, <1>3, BusyHandler DEF ListEntries, Commits, Types
  <2> QED
    BY <1>1, <2>1 DEF Encloses, Own
<1>4. CASE job'[h] = job[h]
  <2>1. GoesOn(h)
    <3>1. Busy(h)
      BY <1>2, <1>4, BusyHandler
    <3> QED
      BY <1>1, <1>2, <3>1, ReaderStep DEF ReadInv, Begins, Ends
  <2>2. steady'[h] \subseteq steady[h] /\ ever[h] \subseteq ever'[h]
    BY <1>2, <2>1 DEF GoesOn
  <2> QED
    BY <1>4, <2>2 DEF ReadInv, Listed, Own
<1>5. job'[h] = job[h] \/ ListEntries(h)
  <2>1. ASSUME NEW g \in Handler, Command(g), g # h
        PROVE  job'[h] = job[h]
    BY <2>1, <1>1 DEF Types, Command, Request, Borrow, BorrowRaises, CommandRaises, Add, Remove,
                ListEntries, Reply, Answer
  <2>2. CASE Command(h)
    <3>1. CASE \E cmd \in {"add", "remove", "list"}, row \in Row : Request(h, cmd, row)
      BY <1>1, <3>1 DEF Types, Request
    <3>2. CASE BorrowRaises(h) \/ CommandRaises(h) \/ Reply(h)
      <4>1. job'[h] = NoJob
        BY <1>1, <3>2 DEF Types, BorrowRaises, CommandRaises, Reply
      <4> QED
        BY <4>1 DEF NoJob
    <3>3. CASE Add(h) \/ Remove(h)
      BY <1>1, <3>3 DEF Types, Add, Remove, Answer
    <3>4. CASE Borrow(h)
      BY <3>4 DEF Borrow
    <3> QED
      BY <2>2, <3>1, <3>2, <3>3, <3>4 DEF Command
  <2>3. CASE PollStep \/ Restarted
    BY <2>3 DEF PollStep, EndProbing, BorrowForPoll, PollRaises, MatchUsers, NotifyUsers, Restarted
  <2> QED
    BY <2>1, <2>2, <2>3 DEF Next
<1> QED
  BY <1>3, <1>4, <1>5

\* Everything together is an invariant.
LEMMA ReadHolds == Spec => []ReadInv
<1>1. Init => ReadInv
  <2> SUFFICES ASSUME Init PROVE ReadInv
    OBVIOUS
  <2>1. \A r \in Reader : Encloses(r)
    BY DEF Init, Encloses, Busy, Reader
  <2>2. \A h \in Handler : Listed(h)
    BY DEF Init, Listed, NoJob
  <2>3. Types /\ Matched
    BY DEF Init, Types, Matched, NoJob
  <2> QED
    BY <2>1, <2>2, <2>3 DEF ReadInv
<1>2. ReadInv /\ [Next]_vars => ReadInv'
  <2> SUFFICES ASSUME ReadInv, [Next]_vars PROVE ReadInv'
    OBVIOUS
  <2>1. CASE Next
    <3>1. Types'
      BY <2>1, TypesStep DEF ReadInv
    <3>2. ASSUME NEW r \in Reader PROVE Encloses(r)'
      <4>1. GoesOn(r) \/ Begins(r) \/ Ends(r)
        BY <2>1, ReaderStep DEF ReadInv
      <4>2. Encloses(r)
        BY DEF ReadInv
      <4> QED
        BY <4>1, <4>2 DEF Encloses, GoesOn, Begins, Ends
    <3> QED
      BY <2>1, <3>1, <3>2, MatchedStep, ListedStep DEF ReadInv
  <2>2. CASE UNCHANGED vars
    BY <2>2 DEF vars, ReadInv, Types, Encloses, Busy, Matched, MatchesFor, Listed, Own
  <2> QED
    BY <2>1, <2>2
<1> QED
  BY <1>1, <1>2, PTL DEF Spec

\* matches_for_users in the worker thread against commands in Bolt's threads: who
\* watched an item's author or number throughout has it in the DM.
THEOREM WatchersAreTold == Spec => []WatchersTold
<1>1. ReadInv => WatchersTold
  <2> SUFFICES ASSUME ReadInv, pc = "matched", NEW u \in User, NEW i \in items,
                      NEW e \in AuthorsIn[i] \cup {NumberOf[i]}, <<u, e>> \in steady[Poll]
               PROVE  \E why \in {"author", "paper"} : <<i, why>> \in matches[u]
    BY DEF WatchersTold
  <2>1. PICK entries \in SUBSET Row : matches[u] = MatchesFor(entries, u) /\ <<u, e>> \in entries
    BY DEF ReadInv, Matched
  <2>2. \E why \in {"author", "paper"} : <<i, why>> \in MatchReason(entries, u, i)
    BY <2>1 DEF MatchReason
  <2> QED
    BY <2>1, <2>2 DEF MatchesFor
<1> QED
  BY <1>1, ReadHolds, PTL

\* A match has one reason, which is an entry of the user.
LEMMA OneReason ==
    ASSUME NEW entries, NEW u, NEW i, NEW m \in MatchReason(entries, u, i)
    PROVE  /\ \/ m = <<i, "author">> /\ \E a \in AuthorsIn[i] : <<u, a>> \in entries
              \/ m = <<i, "paper">> /\ <<u, NumberOf[i]>> \in entries
           /\ \A n \in MatchReason(entries, u, i) : n = m
BY DEF MatchReason

\* The same for the reasons: a DM names an item once, for a row that was there.
THEOREM DMsAreJustified == Spec => []DMsJustified
<1>1. ReadInv => DMsJustified
  <2> SUFFICES ASSUME ReadInv, NEW u \in User, NEW m \in matches[u]
               PROVE  /\ \A other \in matches[u] : other[1] = m[1] => other = m
                      /\ IF m[2] = "author" THEN \E a \in AuthorsIn[m[1]] : <<u, a>> \in ever[Poll]
                         ELSE <<u, NumberOf[m[1]]>> \in ever[Poll]
    BY DEF DMsJustified
  <2>1. pc = "matched"
    BY DEF ReadInv, Matched, Nothing
  <2>2. PICK entries \in SUBSET Row : matches[u] = MatchesFor(entries, u) /\ entries \subseteq ever[Poll]
    BY <2>1 DEF ReadInv, Matched
  <2>3. ASSUME NEW n \in matches[u]
        PROVE  \E i \in items : n \in MatchReason(entries, u, i) /\ n[1] = i
    <3>1. PICK i \in items : n \in MatchReason(entries, u, i)
      BY <2>2 DEF MatchesFor
    <3>2. n = <<i, "author">> \/ n = <<i, "paper">>
      BY <3>1, OneReason
    <3> QED
      BY <3>1, <3>2
  <2>4. \A other \in matches[u] : other[1] = m[1] => other = m
    BY <2>3, OneReason
  <2>5. IF m[2] = "author" THEN \E a \in AuthorsIn[m[1]] : <<u, a>> \in entries
        ELSE <<u, NumberOf[m[1]]>> \in entries
    <3>1. PICK i \in items : m \in MatchReason(entries, u, i) /\ m[1] = i
      BY <2>3
    <3> QED
      BY <3>1, OneReason
  <2> QED
    BY <2>2, <2>4, <2>5
<1> QED
  BY <1>1, ReadHolds, PTL

\* list_entries against other commands of the same user: the answer shows what was
\* there throughout and nothing that never was.
THEOREM ListsAreTruthful == Spec => []ListsTruthful
<1>1. ReadInv => ListsTruthful
  BY DEF ReadInv, Listed, ListsTruthful
<1> QED
  BY <1>1, ReadHolds, PTL

-----------------------------------------------------------------------------
(* Connections *)

\* Connections that are out are with threads in the middle of a transaction, and the
\* one that waits in the pool counts as one of its MaxConn.
PoolInv ==
    /\ conn \in [Reader -> {"none", "live", "dead"}]
    /\ idle \in {"none", "live", "dead"}
    /\ \A h \in Handler : conn[h] # "none" => job[h].cmd \in {"add", "remove", "list"}
    /\ conn[Poll] # "none" => pc = "probed"
    /\ Cardinality(InUse) <= MaxConn
    /\ idle # "none" => Cardinality(InUse) < MaxConn

\* The threads with a connection are finitely many.
LEMMA InUseFinite == IsFiniteSet(InUse) /\ Cardinality(InUse) \in Nat
<1>1. IsFiniteSet(Reader)
  BY HandlerAssumption, FS_AddElement DEF Reader
<1>2. InUse \subseteq Reader
  BY DEF InUse
<1> QED
  BY <1>1, <1>2, FS_Subset, FS_CardinalityType

\* Whoever borrows is one more, within the limit.
LEMMA Borrowed ==
    ASSUME PoolInv, NEW t \in Reader, GetConn(t)
    PROVE  /\ conn' \in [Reader -> {"none", "live", "dead"}]
           /\ idle' \in {"none", "live", "dead"}
           /\ \A r \in Reader : r # t => conn'[r] = conn[r]
           /\ Cardinality(InUse') <= MaxConn
           /\ idle' = "none"
<1> USE DEF PoolInv
<1>1. /\ conn' \in [Reader -> {"none", "live", "dead"}] /\ conn'[t] # "none" /\ conn[t] = "none"
      /\ idle' = "none"
      /\ \A r \in Reader : r # t => conn'[r] = conn[r]
  BY DEF GetConn
<1>2. InUse' = InUse \cup {t} /\ t \notin InUse
  BY <1>1 DEF InUse
<1>3. Cardinality(InUse') = Cardinality(InUse) + 1
  BY <1>2, InUseFinite, FS_AddElement
<1>4. Cardinality(InUse) < MaxConn
  BY DEF GetConn
<1> QED
  BY <1>1, <1>3, <1>4, InUseFinite, ItemAssumption

\* Whoever gives back is one less, and leaves the pool at most one to keep.
LEMMA GivenBack ==
    ASSUME PoolInv, NEW t \in Reader, NEW raised \in BOOLEAN, conn[t] # "none", PutConn(t, raised)
    PROVE  /\ conn' \in [Reader -> {"none", "live", "dead"}]
           /\ idle' \in {"none", "live", "dead"}
           /\ conn'[t] = "none"
           /\ \A r \in Reader : r # t => conn'[r] = conn[r]
           /\ Cardinality(InUse') <= MaxConn /\ Cardinality(InUse') < MaxConn
<1> USE DEF PoolInv
<1>1. /\ conn' \in [Reader -> {"none", "live", "dead"}] /\ conn'[t] = "none"
      /\ idle' \in {"none", "live", "dead"}
      /\ \A r \in Reader : r # t => conn'[r] = conn[r]
  BY DEF PutConn
<1>2. InUse' = InUse \ {t} /\ t \in InUse
  BY <1>1 DEF InUse
<1>3. Cardinality(InUse') = Cardinality(InUse) - 1
  BY <1>2, InUseFinite, FS_RemoveElement
<1> QED
  BY <1>1, <1>3, InUseFinite, ItemAssumption

\* Every step keeps the connections accounted for.
LEMMA PoolStep == Types /\ PoolInv /\ [Next]_vars => PoolInv'
<1> SUFFICES ASSUME Types, PoolInv, [Next]_vars PROVE PoolInv'
  OBVIOUS
<1> DEFINE Jobs == \A h \in Handler : conn'[h] # "none" => job'[h].cmd \in {"add", "remove", "list"}
<1>1. ASSUME UNCHANGED <<idle, conn>>, Jobs, conn'[Poll] # "none" => pc' = "probed"
      PROVE  PoolInv'
  BY <1>1 DEF PoolInv, InUse
<1>2. ASSUME NEW h \in Handler, Command(h)
      PROVE  PoolInv'
  <2>1. h \in Reader /\ h # Poll /\ Poll \in Reader /\ Handler \subseteq Reader
    BY HandlerAssumption DEF Reader
  <2>2. pc' = pc /\ \A g \in Handler : g # h => job'[g] = job[g]
    BY <1>2 DEF Command, Request, Borrow, BorrowRaises, CommandRaises, Add, Remove,
                ListEntries, Reply, Answer, Types
  <2>3. CASE \E cmd \in {"add", "remove", "list"}, row \in Row : Request(h, cmd, row)
    BY <1>1, <2>1, <2>2, <2>3 DEF Request, PoolInv, Types
  <2>4. CASE Borrow(h)
    <3>1. Jobs /\ (conn'[Poll] # "none" => pc' = "probed")
      BY <2>1, <2>2, <2>4, Borrowed DEF Borrow, PoolInv
    <3> QED
      BY <2>1, <2>4, <3>1, Borrowed DEF Borrow, PoolInv
  <2>5. CASE BorrowRaises(h) \/ Reply(h)
    <3>1. conn[h] = "none" /\ UNCHANGED <<idle, conn>>
      BY <2>5 DEF BorrowRaises, Reply, GetConnRaises, PoolInv
    <3> QED
      BY <1>1, <2>1, <2>2, <3>1 DEF PoolInv
  <2>6. CASE CommandRaises(h) \/ Add(h) \/ Remove(h) \/ ListEntries(h)
    <3>1. \E raised \in BOOLEAN : conn[h] # "none" /\ PutConn(h, raised)
      BY <2>6 DEF CommandRaises, Add, Remove, ListEntries, Commits
    <3>2. Jobs /\ (conn'[Poll] # "none" => pc' = "probed")
      BY <2>1, <2>2, <3>1, GivenBack DEF PoolInv
    <3> QED
      BY <2>1, <3>1, <3>2, GivenBack DEF PoolInv
  <2> QED
    BY <1>2, <2>3, <2>4, <2>5, <2>6 DEF Command
<1>3. CASE PollStep
  <2>1. Poll \in Reader /\ Handler \subseteq Reader /\ Poll \notin Handler
    BY HandlerAssumption DEF Reader
  <2>2. job' = job
    BY <1>3 DEF PollStep, EndProbing, BorrowForPoll, PollRaises, MatchUsers, NotifyUsers
  <2>3. CASE (\E found \in SUBSET Item : EndProbing(found)) \/ NotifyUsers
    BY <1>1, <2>2, <2>3 DEF EndProbing, NotifyUsers, PoolInv
  <2>4. CASE BorrowForPoll
    <3>1. Jobs /\ pc' = "probed"
      BY <2>1, <2>2, <2>4, Borrowed DEF BorrowForPoll, PoolInv
    <3> QED
      BY <2>1, <2>4, <3>1, Borrowed DEF BorrowForPoll, PoolInv
  <2>5. CASE PollRaises /\ GetConnRaises(Poll)
    BY <1>1, <2>2, <2>5 DEF PollRaises, GetConnRaises, PoolInv
  <2>6. CASE MatchUsers \/ (PollRaises /\ ~ GetConnRaises(Poll))
    <3>1. \E raised \in BOOLEAN : conn[Poll] # "none" /\ PutConn(Poll, raised)
      BY <2>6 DEF MatchUsers, PollRaises
    <3>2. Jobs /\ conn'[Poll] = "none"
      BY <2>1, <2>2, <3>1, GivenBack DEF PoolInv
    <3> QED
      BY <2>1, <3>1, <3>2, GivenBack DEF PoolInv
  <2> QED
    BY <1>3, <2>3, <2>4, <2>5, <2>6 DEF PollStep
<1>4. CASE Restarted
  <2>1. /\ conn' \in [Reader -> {"none", "live", "dead"}]
        /\ idle' \in {"none", "live", "dead"} /\ (idle' # "none" => idle # "none")
        /\ \A r \in Reader : conn'[r] # "none" <=> conn[r] # "none"
        /\ UNCHANGED <<job, pc>>
    BY <1>4 DEF Restarted, ServerRestarts, PoolInv
  <2>2. InUse' = InUse
    BY <2>1 DEF InUse
  <2> QED
    BY <2>1, <2>2 DEF PoolInv, Reader
<1>5. CASE UNCHANGED vars
  BY <1>1, <1>5 DEF vars, PoolInv
<1> QED
  BY <1>2, <1>3, <1>4, <1>5 DEF Next

\* It is an invariant.
LEMMA PoolHolds == Spec => [](Types /\ PoolInv)
<1>1. Init => Types /\ PoolInv
  <2> SUFFICES ASSUME Init PROVE Types /\ PoolInv
    OBVIOUS
  <2>1. InUse = {}
    BY DEF Init, PoolInit, InUse
  <2>2. Cardinality(InUse) = 0
    BY <2>1, FS_EmptySet
  <2> QED
    BY <2>2, ItemAssumption DEF Init, PoolInit, Types, PoolInv, NoJob, Reader
<1>2. Types /\ PoolInv /\ [Next]_vars => (Types /\ PoolInv)'
  BY TypesStep, PoolStep
<1> QED
  BY <1>1, <1>2, PTL DEF Spec

\* _conn's finally: no thread keeps a connection beyond its transaction, whatever is
\* raised and whenever PostgreSQL restarts, and no more are out than the pool has.
THEOREM ConnectionsReturn == Spec => []ConnectionsComeBack
<1>1. PoolInv => ConnectionsComeBack
  BY DEF PoolInv, ConnectionsComeBack
<1> QED
  BY <1>1, PoolHolds, PTL

-----------------------------------------------------------------------------
(* Answers *)

\* The threads about to give an answer about a row.
Due(row, answer) ==
    {h \in Handler : job[h].cmd = "reply" /\ job[h].row = row /\ job[h].answer = answer}

There(row) == IF row \in rows THEN 1 ELSE 0

\* The books of a row, as numbers.
Adds(n, a, r, t) == n + a - r = t

Balanced(row) ==
    Adds(net[row], Cardinality(Due(row, "added")), Cardinality(Due(row, "removed")), There(row))

SumInv == net \in [Row -> Int] /\ \A row \in Row : Balanced(row)

\* Threads are finitely many, and so are those with an answer.
LEMMA DueFinite ==
    ASSUME NEW row, NEW answer
    PROVE  IsFiniteSet(Due(row, answer)) /\ Cardinality(Due(row, answer)) \in Nat
<1>1. Due(row, answer) \subseteq Handler
  BY DEF Due
<1> QED
  BY <1>1, HandlerAssumption, FS_Subset, FS_CardinalityType

\* The ways the books of a row are kept.
LEMMA Books ==
    ASSUME NEW n \in Int, NEW a \in Int, NEW r \in Int, NEW t \in Int, Adds(n, a, r, t)
    PROVE  /\ Adds(n, a + 1, r, t + 1)
           /\ Adds(n, a, r + 1, t - 1)
           /\ Adds(n + 1, a - 1, r, t)
           /\ Adds(n - 1, a, r - 1, t)
           /\ Adds(n + 1, a, r, t + 1)
           /\ Adds(n - 1, a, r, t - 1)
BY DEF Adds

\* A step of thread h that is no step to answers of this kind about this row.
LEMMA DueSame ==
    ASSUME NEW h \in Handler, NEW row, NEW answer,
           \A g \in Handler : g # h => job'[g] = job[g],
           h \notin Due(row, answer), h \notin Due(row, answer)'
    PROVE  Due(row, answer)' = Due(row, answer)
BY DEF Due

\* One that comes up with such an answer.
LEMMA DueMore ==
    ASSUME NEW h \in Handler, NEW row, NEW answer,
           \A g \in Handler : g # h => job'[g] = job[g],
           h \notin Due(row, answer), h \in Due(row, answer)'
    PROVE  Cardinality(Due(row, answer)') = Cardinality(Due(row, answer)) + 1
<1>1. Due(row, answer)' = Due(row, answer) \cup {h}
  BY DEF Due
<1> QED
  BY <1>1, DueFinite, FS_AddElement

\* One that gives such an answer.
LEMMA DueLess ==
    ASSUME NEW h \in Handler, NEW row, NEW answer,
           \A g \in Handler : g # h => job'[g] = job[g],
           h \in Due(row, answer), h \notin Due(row, answer)'
    PROVE  Cardinality(Due(row, answer)') = Cardinality(Due(row, answer)) - 1
<1>1. Due(row, answer)' = Due(row, answer) \ {h}
  BY DEF Due
<1> QED
  BY <1>1, DueFinite, FS_RemoveElement

\* A step of a thread that neither comes up with an answer about the row nor gives one.
LEMMA BalancedQuietly ==
    ASSUME SumInv, NEW h \in Handler, NEW row \in Row,
           net'[row] = net[row], There(row)' = There(row),
           \A g \in Handler : g # h => job'[g] = job[g],
           \A answer \in {"added", "removed"} : h \notin Due(row, answer) /\ h \notin Due(row, answer)'
    PROVE  Balanced(row)'
<1>1. Due(row, "added")' = Due(row, "added") /\ Due(row, "removed")' = Due(row, "removed")
  BY DueSame
<1> QED
  BY <1>1 DEF Balanced, SumInv

\* Only "added" and "removed" answers count; they are about the row of their command.
LEMMA NotDue ==
    ASSUME NEW h \in Handler, NEW row, NEW answer
    PROVE  /\ job[h].cmd # "reply" \/ job[h].row # row \/ job[h].answer # answer
                => h \notin Due(row, answer)
           /\ job'[h].cmd # "reply" \/ job'[h].row # row \/ job'[h].answer # answer
                => h \notin Due(row, answer)'
           /\ job'[h].cmd = "reply" /\ job'[h].row = row /\ job'[h].answer = answer
                => h \in Due(row, answer)'
           /\ job[h].cmd = "reply" /\ job[h].row = row /\ job[h].answer = answer
                => h \in Due(row, answer)
BY DEF Due

\* The answer to an "add", with the row.
LEMMA SumAdd ==
    ASSUME Types, SumInv, NEW h \in Handler, Add(h), NEW row \in Row,
           \A g \in Handler : g # h => job'[g] = job[g]
    PROVE  Balanced(row)'
<1>1. /\ job[h].cmd = "add" /\ job'[h].cmd = "reply" /\ job'[h].row = job[h].row
      /\ job'[h].answer = IF job[h].row \in rows THEN "already" ELSE "added"
      /\ rows' = rows \cup {job[h].row}
      /\ net' = net
  BY DEF Add, Commits, Change, Answer, Types
<1>2. CASE job[h].row = row /\ row \notin rows
  <2>1. There(row) = 0 /\ There(row)' = 0 + 1
    BY <1>1, <1>2 DEF There
  <2>2. Cardinality(Due(row, "added")') = Cardinality(Due(row, "added")) + 1
    BY <1>1, <1>2, NotDue, DueMore
  <2>3. Due(row, "removed")' = Due(row, "removed")
    BY <1>1, <1>2, NotDue, DueSame
  <2>4. /\ net[row] \in Int /\ 0 \in Int
        /\ Adds(net[row], Cardinality(Due(row, "added")), Cardinality(Due(row, "removed")), 0)
    BY <2>1 DEF SumInv, Balanced
  <2>5. Adds(net[row], Cardinality(Due(row, "added")) + 1, Cardinality(Due(row, "removed")), 0 + 1)
    BY <2>4, DueFinite, Books
  <2> QED
    BY <1>1, <2>1, <2>2, <2>3, <2>5 DEF Balanced
<1>3. CASE job[h].row # row \/ row \in rows
  <2>1. There(row)' = There(row)
    BY <1>1, <1>3 DEF There
  <2> QED
    BY <1>1, <1>3, <2>1, NotDue, BalancedQuietly
<1> QED
  BY <1>2, <1>3

\* The answer to a "remove", without it.
LEMMA SumRemove ==
    ASSUME Types, SumInv, NEW h \in Handler, Remove(h), NEW row \in Row,
           \A g \in Handler : g # h => job'[g] = job[g]
    PROVE  Balanced(row)'
<1>1. /\ job[h].cmd = "remove" /\ job'[h].cmd = "reply" /\ job'[h].row = job[h].row
      /\ job'[h].answer = IF job[h].row \in rows THEN "removed" ELSE "absent"
      /\ rows' = rows \ {job[h].row}
      /\ net' = net
  BY DEF Remove, Commits, Change, Answer, Types
<1>2. CASE job[h].row = row /\ row \in rows
  <2>1. There(row) = 1 /\ There(row)' = 1 - 1
    BY <1>1, <1>2 DEF There
  <2>2. Cardinality(Due(row, "removed")') = Cardinality(Due(row, "removed")) + 1
    BY <1>1, <1>2, NotDue, DueMore
  <2>3. Due(row, "added")' = Due(row, "added")
    BY <1>1, <1>2, NotDue, DueSame
  <2>4. /\ net[row] \in Int /\ 1 \in Int
        /\ Adds(net[row], Cardinality(Due(row, "added")), Cardinality(Due(row, "removed")), 1)
    BY <2>1 DEF SumInv, Balanced
  <2>5. Adds(net[row], Cardinality(Due(row, "added")), Cardinality(Due(row, "removed")) + 1, 1 - 1)
    BY <2>4, DueFinite, Books
  <2> QED
    BY <1>1, <2>1, <2>2, <2>3, <2>5 DEF Balanced
<1>3. CASE job[h].row # row \/ row \notin rows
  <2>1. There(row)' = There(row)
    BY <1>1, <1>3 DEF There
  <2> QED
    BY <1>1, <1>3, <2>1, NotDue, BalancedQuietly
<1> QED
  BY <1>2, <1>3

\* An answer that is given moves from what is due to what was told.
LEMMA SumReply ==
    ASSUME Types, SumInv, NEW h \in Handler, Reply(h), NEW row \in Row,
           \A g \in Handler : g # h => job'[g] = job[g]
    PROVE  Balanced(row)'
<1>1. /\ job[h].cmd = "reply" /\ job'[h] = NoJob /\ rows' = rows
      /\ row = job[h].row => net'[row] = net[row] + Effect(job[h].answer)
      /\ row # job[h].row => net'[row] = net[row]
  BY DEF Reply, Types, SumInv
<1>2. job'[h].cmd # "reply" /\ There(row)' = There(row) /\ There(row) \in Int
  BY <1>1 DEF NoJob, There
<1>3. /\ net[row] \in Int
      /\ Adds(net[row], Cardinality(Due(row, "added")), Cardinality(Due(row, "removed")), There(row))
  BY DEF SumInv, Balanced
<1>4. CASE job[h].row = row /\ job[h].answer = "added"
  <2>1. net'[row] = net[row] + 1
    BY <1>1, <1>4 DEF Effect
  <2>2. Cardinality(Due(row, "added")') = Cardinality(Due(row, "added")) - 1
    BY <1>1, <1>2, <1>4, NotDue, DueLess
  <2>3. Due(row, "removed")' = Due(row, "removed")
    BY <1>1, <1>2, <1>4, NotDue, DueSame
  <2>4. Adds(net[row] + 1, Cardinality(Due(row, "added")) - 1, Cardinality(Due(row, "removed")), There(row))
    BY <1>2, <1>3, DueFinite, Books
  <2> QED
    BY <1>2, <2>1, <2>2, <2>3, <2>4 DEF Balanced
<1>5. CASE job[h].row = row /\ job[h].answer = "removed"
  <2>1. net'[row] = net[row] - 1
    BY <1>1, <1>3, <1>5 DEF Effect
  <2>2. Cardinality(Due(row, "removed")') = Cardinality(Due(row, "removed")) - 1
    BY <1>1, <1>2, <1>5, NotDue, DueLess
  <2>3. Due(row, "added")' = Due(row, "added")
    BY <1>1, <1>2, <1>5, NotDue, DueSame
  <2>4. Adds(net[row] - 1, Cardinality(Due(row, "added")), Cardinality(Due(row, "removed")) - 1, There(row))
    BY <1>2, <1>3, DueFinite, Books
  <2> QED
    BY <1>2, <2>1, <2>2, <2>3, <2>4 DEF Balanced
<1>6. CASE job[h].row # row \/ job[h].answer \notin {"added", "removed"}
  <2>1. net'[row] = net[row]
    BY <1>1, <1>3, <1>6 DEF Effect
  <2> QED
    BY <1>1, <1>2, <1>6, <2>1, NotDue, BalancedQuietly
<1> QED
  BY <1>4, <1>5, <1>6

\* What a command that raises did to the table.
LEMMA Raised ==
    ASSUME NEW h \in Handler, CommandRaises(h)
    PROVE  \E new \in {rows, Changed(h)} :
              /\ rows' = new
              /\ net' = [net EXCEPT ![job[h].row] =
                            @ + Cardinality(new \ rows) - Cardinality(rows \ new)]
<1>1. CASE conn[h] = "live"
  BY <1>1 DEF CommandRaises
<1>2. CASE conn[h] # "live"
  BY <1>2 DEF CommandRaises
<1> QED
  BY <1>1, <1>2

\* A command that raises is told by the table, if PostgreSQL committed it.
LEMMA SumRaises ==
    ASSUME Types, PoolInv, SumInv, NEW h \in Handler, CommandRaises(h), NEW row \in Row,
           \A g \in Handler : g # h => job'[g] = job[g]
    PROVE  Balanced(row)'
<1>1. /\ job[h].cmd \in {"add", "remove", "list"} /\ job[h].row \in Row
      /\ job'[h] = NoJob
  BY DEF CommandRaises, PoolInv, Types
<1>2. job'[h].cmd # "reply" /\ job[h].cmd # "reply"
  BY <1>1 DEF NoJob
<1>3. PICK new \in {rows, Changed(h)} :
          /\ rows' = new
          /\ net' = [net EXCEPT ![job[h].row] =
                        @ + Cardinality(new \ rows) - Cardinality(rows \ new)]
  BY Raised
<1>4. Due(row, "added")' = Due(row, "added") /\ Due(row, "removed")' = Due(row, "removed")
  BY <1>2, NotDue, DueSame
<1>5. /\ net[row] \in Int /\ 0 \in Int /\ 1 \in Int
      /\ Adds(net[row], Cardinality(Due(row, "added")), Cardinality(Due(row, "removed")), There(row))
  BY DEF SumInv, Balanced
<1>6. Cardinality({}) = 0 /\ Cardinality({row}) = 1
  BY FS_EmptySet, FS_Singleton
<1>7. CASE job[h].row # row
  <2>1. net'[row] = net[row]
    BY <1>3, <1>7 DEF SumInv
  <2>2. There(row)' = There(row)
    BY <1>3, <1>7 DEF Changed, There
  <2> QED
    BY <1>2, <1>7, <2>1, <2>2, NotDue, BalancedQuietly
<1>8. CASE job[h].row = row /\ new = rows
  <2>1. new \ rows = {} /\ rows \ new = {}
    BY <1>8
  <2>2. net'[row] = net[row]
    <3>1. net'[row] = net[row] + Cardinality(new \ rows) - Cardinality(rows \ new)
      BY <1>3, <1>8 DEF SumInv
    <3>2. Cardinality(new \ rows) = 0 /\ Cardinality(rows \ new) = 0
      BY <1>6, <2>1
    <3>3. net[row] + 0 - 0 = net[row]
      BY <1>5
    <3> QED
      BY <3>1, <3>2, <3>3
  <2> QED
    BY <1>2, <1>3, <1>8, <2>2, NotDue, BalancedQuietly DEF There
<1>9. CASE job[h].row = row /\ new # rows /\ job[h].cmd = "add"
  <2>1. new \ rows = {row} /\ rows \ new = {} /\ row \notin rows /\ row \in new
    BY <1>3, <1>9 DEF Changed
  <2>2. net'[row] = net[row] + 1
    <3>1. net'[row] = net[row] + Cardinality(new \ rows) - Cardinality(rows \ new)
      BY <1>3, <1>9 DEF SumInv
    <3>2. Cardinality(new \ rows) = 1 /\ Cardinality(rows \ new) = 0
      BY <1>6, <2>1
    <3>3. net[row] + 1 - 0 = net[row] + 1
      BY <1>5
    <3> QED
      BY <3>1, <3>2, <3>3
  <2>3. There(row) = 0 /\ There(row)' = 0 + 1
    BY <1>3, <2>1 DEF There
  <2>4. Adds(net[row] + 1, Cardinality(Due(row, "added")), Cardinality(Due(row, "removed")), 0 + 1)
    BY <1>5, <2>3, DueFinite, Books
  <2> QED
    BY <1>4, <2>2, <2>3, <2>4 DEF Balanced
<1>10. CASE job[h].row = row /\ new # rows /\ job[h].cmd # "add"
  <2>1. new \ rows = {} /\ rows \ new = {row} /\ row \in rows /\ row \notin new
    BY <1>3, <1>10 DEF Changed
  <2>2. net'[row] = net[row] - 1
    <3>1. net'[row] = net[row] + Cardinality(new \ rows) - Cardinality(rows \ new)
      BY <1>3, <1>10 DEF SumInv
    <3>2. Cardinality(new \ rows) = 0 /\ Cardinality(rows \ new) = 1
      BY <1>6, <2>1
    <3>3. net[row] + 0 - 1 = net[row] - 1
      BY <1>5
    <3> QED
      BY <3>1, <3>2, <3>3
  <2>3. There(row) = 1 /\ There(row)' = 1 - 1
    BY <1>3, <2>1 DEF There
  <2>4. Adds(net[row] - 1, Cardinality(Due(row, "added")), Cardinality(Due(row, "removed")), 1 - 1)
    BY <1>5, <2>3, DueFinite, Books
  <2> QED
    BY <1>4, <2>2, <2>3, <2>4 DEF Balanced
<1> QED
  BY <1>1, <1>7, <1>8, <1>9, <1>10

\* Every step keeps the books.
LEMMA SumStep == Types /\ PoolInv /\ SumInv /\ [Next]_vars => SumInv'
<1> SUFFICES ASSUME Types, PoolInv, SumInv, [Next]_vars PROVE SumInv'
  OBVIOUS
<1>1. ASSUME UNCHANGED <<rows, job, net>>
      PROVE  SumInv'
  BY <1>1 DEF SumInv, Balanced, Due, There
<1>2. ASSUME NEW h \in Handler, Command(h)
      PROVE  SumInv'
  <2>1. \A g \in Handler : g # h => job'[g] = job[g]
    BY <1>2 DEF Command, Request, Borrow, BorrowRaises, CommandRaises, Add, Remove,
                ListEntries, Reply, Answer, Types
  <2>2. CASE Borrow(h)
    BY <1>1, <2>2 DEF Borrow
  <2>3. CASE \/ \E cmd \in {"add", "remove", "list"}, row \in Row : Request(h, cmd, row)
             \/ BorrowRaises(h)
             \/ ListEntries(h)
    <3>1. rows' = rows /\ net' = net /\ job[h].cmd # "reply"
      <4>1. NoJob.cmd # "reply"
        BY DEF NoJob
      <4> QED
        BY <2>3, <4>1 DEF Request, BorrowRaises, ListEntries, Commits
    <3>2. job'[h].cmd # "reply" \/ job'[h].answer \notin {"added", "removed"}
      BY <2>3 DEF Request, BorrowRaises, ListEntries, Types, NoJob
    <3> QED
      BY <2>1, <3>1, <3>2, NotDue, BalancedQuietly DEF SumInv, There
  <2>4. CASE Add(h) \/ Remove(h)
    BY <2>1, <2>4, SumAdd, SumRemove DEF SumInv, Add, Remove
  <2>5. CASE Reply(h)
    <3>1. net' \in [Row -> Int]
      <4>1. Effect(job[h].answer) \in Int
        BY DEF Effect
      <4>2. \A n \in Int : n + Effect(job[h].answer) \in Int
        BY <4>1
      <4> QED
        BY <2>5, <4>2 DEF Reply, SumInv
    <3> QED
      BY <2>1, <2>5, <3>1, SumReply DEF SumInv
  <2>6. CASE CommandRaises(h)
    <3>1. net' \in [Row -> Int]
      <4>1. PICK new \in {rows, Changed(h)} :
                net' = [net EXCEPT ![job[h].row] =
                          @ + Cardinality(new \ rows) - Cardinality(rows \ new)]
        BY <2>6, Raised
      <4>2. new \ rows \in SUBSET {job[h].row} /\ rows \ new \in SUBSET {job[h].row}
        BY DEF Changed
      <4>3. Cardinality(new \ rows) \in Int /\ Cardinality(rows \ new) \in Int
        <5>1. IsFiniteSet({job[h].row})
          BY FS_Singleton
        <5>2. IsFiniteSet(new \ rows) /\ IsFiniteSet(rows \ new)
          BY <4>2, <5>1, FS_Subset
        <5> QED
          BY <5>2, FS_CardinalityType
      <4>4. \A n \in Int : n + Cardinality(new \ rows) - Cardinality(rows \ new) \in Int
        BY <4>3
      <4> QED
        BY <4>1, <4>4 DEF SumInv
    <3> QED
      BY <2>1, <2>6, <3>1, SumRaises DEF SumInv
  <2> QED
    BY <1>2, <2>2, <2>3, <2>4, <2>5, <2>6 DEF Command
<1>3. CASE PollStep \/ Restarted \/ UNCHANGED vars
  BY <1>1, <1>3 DEF PollStep, EndProbing, BorrowForPoll, PollRaises, MatchUsers, NotifyUsers,
                    Restarted, vars
<1> QED
  BY <1>2, <1>3 DEF Next

\* They are kept.
LEMMA SumHolds == Spec => []SumInv
<1>1. Init => SumInv
  <2> SUFFICES ASSUME Init PROVE SumInv
    OBVIOUS
  <2>1. \A row \in Row : Due(row, "added") = {} /\ Due(row, "removed") = {}
    BY DEF Init, Due, NoJob
  <2>2. Cardinality({}) = 0
    BY FS_EmptySet
  <2>3. \A row \in Row : net[row] = 0 /\ There(row) = 0
    BY DEF Init, There
  <2>4. Adds(0, 0, 0, 0)
    BY DEF Adds
  <2> QED
    BY <2>1, <2>2, <2>3, <2>4 DEF Init, SumInv, Balanced
<1>2. Types /\ PoolInv /\ SumInv /\ [Next]_vars => SumInv'
  BY SumStep
<1> QED
  BY <1>1, <1>2, PoolHolds, PTL DEF Spec

\* The replies of concurrent add and remove commands add up to the table, also when
\* a commit raises after it went through.
THEOREM AnswersBalance == Spec => []AnswersAddUp
<1>1. SumInv => AnswersAddUp
  BY DEF SumInv, Balanced, Adds, Due, There, AnswersAddUp
<1> QED
  BY <1>1, SumHolds, PTL

-----------------------------------------------------------------------------
(* Types of the rest *)

Commands == [cmd : {"add", "remove", "list"}, row : Row]

Answers == [cmd : {"reply"}, row : Row, answer : {"added", "already", "removed", "absent"}]

Lists == [cmd : {"reply"}, row : Row, answer : {"entries"}, entries : SUBSET Row]

JobTypes == \A h \in Handler : job[h] \in {NoJob} \cup Commands \cup Answers \cup Lists

MatchTypes == items \subseteq Item /\ matches \in [User -> SUBSET Reasons]

\* A step of one thread that leaves it with a job of the right type.
LEMMA JobsStill ==
    ASSUME Types, JobTypes, NEW h \in Handler,
           NEW j \in {NoJob} \cup Commands \cup Answers \cup Lists,
           job' = [job EXCEPT ![h] = j]
    PROVE  JobTypes'
BY DEF JobTypes, Types

\* Every step keeps the types of the jobs.
LEMMA JobsStep ==
    ASSUME Types, JobTypes, [Next]_vars
    PROVE  JobTypes'
<1>1. ASSUME NEW h \in Handler, Command(h)
      PROVE  JobTypes'
  <2>1. ASSUME NEW cmd \in {"add", "remove", "list"}, NEW row \in Row, Request(h, cmd, row)
        PROVE  JobTypes'
    <3>1. [cmd |-> cmd, row |-> row] \in Commands
      BY DEF Commands
    <3> QED
      BY <2>1, <3>1, JobsStill DEF Request
  <2>2. CASE BorrowRaises(h) \/ CommandRaises(h) \/ Reply(h)
    BY <2>2, JobsStill DEF BorrowRaises, CommandRaises, Reply
  <2>3. CASE Add(h) \/ Remove(h)
    <3>1. job[h].row \in Row
      BY <2>3 DEF Add, Remove, Commits, Types
    <3>2. PICK answer \in {"added", "already", "removed", "absent"} : Answer(h, answer)
      BY <2>3 DEF Add, Remove
    <3>3. [cmd |-> "reply", row |-> job[h].row, answer |-> answer] \in Answers
      BY <3>1, <3>2 DEF Answers
    <3>4. job' = [job EXCEPT ![h] = [cmd |-> "reply", row |-> job[h].row, answer |-> answer]]
      BY <3>2 DEF Answer
    <3> QED
      BY <3>3, <3>4, JobsStill
  <2>4. CASE ListEntries(h)
    <3>1. job[h].row \in Row
      BY <2>4 DEF ListEntries, Commits, Types
    <3>2. Own(rows, h) \in SUBSET Row
      BY DEF Own, Types
    <3>3. [cmd |-> "reply", row |-> job[h].row, answer |-> "entries", entries |-> Own(rows, h)]
              \in Lists
      BY <3>1, <3>2 DEF Lists
    <3>4. job' = [job EXCEPT ![h] = [cmd |-> "reply", row |-> job[h].row,
                                     answer |-> "entries", entries |-> Own(rows, h)]]
      BY <2>4 DEF ListEntries
    <3> QED
      BY <3>3, <3>4, JobsStill
  <2>5. CASE Borrow(h)
    BY <2>5 DEF Borrow, JobTypes
  <2> QED
    BY <1>1, <2>1, <2>2, <2>3, <2>4, <2>5 DEF Command
<1>2. CASE PollStep \/ Restarted \/ UNCHANGED vars
  <2>1. job' = job
    BY <1>2 DEF PollStep, EndProbing, BorrowForPoll, PollRaises, MatchUsers, NotifyUsers,
                Restarted, vars
  <2> QED
    BY <2>1 DEF JobTypes
<1> QED
  BY <1>1, <1>2 DEF Next

\* Every step keeps those of the poll.
LEMMA MatchTypesStep ==
    ASSUME MatchTypes, [Next]_vars
    PROVE  MatchTypes'
<1>1. CASE MatchUsers
  <2>1. ASSUME NEW u \in User
        PROVE  MatchesFor(rows, u) \in SUBSET Reasons
    <3> SUFFICES ASSUME NEW i \in items, NEW m \in MatchReason(rows, u, i)
                 PROVE  m \in Reasons
      BY DEF MatchesFor
    <3>1. m = <<i, "author">> \/ m = <<i, "paper">>
      BY OneReason
    <3> QED
      BY <3>1 DEF MatchTypes, Reasons
  <2>2. matches' = [u \in User |-> MatchesFor(rows, u)] /\ items' = items
    BY <1>1 DEF MatchUsers
  <2> QED
    BY <2>1, <2>2 DEF MatchTypes
<1>2. CASE PollStep /\ ~ MatchUsers
  BY <1>2 DEF PollStep, EndProbing, BorrowForPoll, PollRaises, NotifyUsers, Nothing, MatchTypes
<1>3. CASE (\E h \in Handler : Command(h)) \/ Restarted \/ UNCHANGED vars
  <2>1. UNCHANGED <<items, matches>>
    BY <1>3 DEF Command, Request, Borrow, BorrowRaises, CommandRaises, Add, Remove,
                ListEntries, Reply, Restarted, vars
  <2> QED
    BY <2>1 DEF MatchTypes
<1> QED
  BY <1>1, <1>2, <1>3 DEF Next

\* The variables have their types.
THEOREM TypeCorrect == Spec => []TypeOK
<1>1. Init => JobTypes /\ MatchTypes
  BY DEF Init, JobTypes, MatchTypes, Nothing
<1>2. Types /\ JobTypes /\ [Next]_vars => JobTypes'
  BY JobsStep
<1>3. MatchTypes /\ [Next]_vars => MatchTypes'
  BY MatchTypesStep
<1>4. ReadInv /\ PoolInv /\ SumInv /\ JobTypes /\ MatchTypes => TypeOK
  <2> SUFFICES ASSUME ReadInv, PoolInv, SumInv, JobTypes, MatchTypes
               PROVE  TypeOK
    OBVIOUS
  <2>1. \A h \in Handler : job[h] = NoJob \/ job[h] \in Commands \/ job[h] \in Answers \/ job[h] \in Lists
    BY DEF JobTypes
  <2>2. \A h \in Handler :
          \/ job[h] = NoJob
          \/ job[h] \in [cmd : {"add", "remove", "list"}, row : Row]
          \/ job[h] \in [cmd : {"reply"}, row : Row,
                         answer : {"added", "already", "removed", "absent"}]
          \/ job[h] \in [cmd : {"reply"}, row : Row, answer : {"entries"},
                         entries : SUBSET Row]
    BY <2>1 DEF Commands, Answers, Lists
  <2> QED
    BY <2>2 DEF TypeOK, ReadInv, Types, Matched, PoolInv, SumInv, MatchTypes
<1>5. Spec => []SumInv
  BY SumHolds
<1> QED
  BY <1>1, <1>2, <1>3, <1>4, <1>5, ReadHolds, PoolHolds, PTL DEF Spec
===============================================================================

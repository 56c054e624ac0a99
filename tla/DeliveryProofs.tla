---------------------------- MODULE DeliveryProofs ----------------------------
(***************************************************************************)
(* Proofs about Delivery, for every set of files and papers and every      *)
(* combination of faults: what holds of Scheduler holds of the             *)
(* composition, and every line has exactly one fate.                       *)
(***************************************************************************)
EXTENDS Delivery, SchedulerProofs, SequenceTheorems

USE DEF outbox, delivery, world, database, memory, poll, observed

-----------------------------------------------------------------------------
(* The composition is a Scheduler that hears nothing of the outbox *)

\* A step of the composition is a step of Scheduler, or none.
LEMMA DeliveryStep == [DeliveryNext]_allVars => [Next]_vars
BY DEF DeliveryNext, NotifyChannel, FailedPoll, StopAndStart, Sender, allVars, vars,
       Next, PollStep, Failure

\* Delivery implements Scheduler: its theorems hold of the composition.
THEOREM DeliveryIsScheduler == DeliverySpec => Spec
<1>1. DeliveryInit => Init
  BY DEF DeliveryInit
<1> QED
  BY <1>1, DeliveryStep, PTL DEF DeliverySpec, Spec

\* No file and no paper is handed to the queue twice, whatever fails.
THEOREM HandedOverOnce == DeliverySpec => [](AlertedOnce /\ TransitionsComplete)
BY DeliveryIsScheduler, AlertsSound, TransitionsReported, PTL

\* Files are no news.
LEMMA LinesOfTwoKinds ==
    ASSUME TypeOK
    PROVE  /\ Transitions \subseteq News(newPapers) /\ News(newPapers) \subseteq AllNews
           /\ transitions \subseteq AllNews
           /\ (recent \cup discovered) \cap AllNews = {}
           /\ recent \cup discovered \subseteq Url
<1>1. Transitions \subseteq News(newPapers)
  BY DEF Transitions, News
<1>2. News(newPapers) \subseteq AllNews
  BY NewsTyped DEF TypeOK
<1> QED
  BY <1>1, <1>2, SourcesAssumption DEF TypeOK, AllNews

-----------------------------------------------------------------------------
(* Lines of sequences of messages that share none *)

Scattered(s) == \A i, j \in 1 .. Len(s) : i # j => s[i] \cap s[j] = {}

\* A sequence without its element number i.
Without(r, s, i) ==
    /\ Len(r) = Len(s) - 1
    /\ \A j \in 1 .. Len(s) - 1 : r[j] = IF j < i THEN s[j] ELSE s[j + 1]

\* Taking out a message takes out its lines and no others.
LEMMA LinesWithout ==
    ASSUME NEW S, NEW s \in Seq(S), NEW r \in Seq(S), NEW i \in 1 .. Len(s),
           Scattered(s), Without(r, s, i)
    PROVE  LinesOf(r) = LinesOf(s) \ s[i] /\ Scattered(r) /\ s[i] \subseteq LinesOf(s)
<1>1. Len(s) \in Nat /\ DOMAIN s = 1 .. Len(s) /\ DOMAIN r = 1 .. Len(s) - 1
  BY DEF Without
<1> DEFINE from(j) == IF j < i THEN j ELSE j + 1
<1>2. \A j \in 1 .. Len(s) - 1 : r[j] = s[from(j)] /\ from(j) \in 1 .. Len(s) /\ from(j) # i
  BY <1>1 DEF Without
<1>3. \A j, k \in 1 .. Len(s) - 1 : j # k => from(j) # from(k)
  BY <1>1
<1>4. \A k \in 1 .. Len(s) : k # i => \E j \in 1 .. Len(s) - 1 : from(j) = k
  <2> SUFFICES ASSUME NEW k \in 1 .. Len(s), k # i
               PROVE  \E j \in 1 .. Len(s) - 1 : from(j) = k
    OBVIOUS
  <2>1. CASE k < i
    <3>1. k \in 1 .. Len(s) - 1 /\ from(k) = k
      BY <1>1, <2>1
    <3> QED
      BY <3>1
  <2>2. CASE k > i
    <3>1. k - 1 \in 1 .. Len(s) - 1 /\ from(k - 1) = k
      BY <1>1, <2>2
    <3> QED
      BY <3>1
  <2> QED
    BY <1>1, <2>1, <2>2
<1> HIDE DEF from
<1>5. \A x : x \in LinesOf(s) <=> \E k \in 1 .. Len(s) : x \in s[k]
  BY <1>1 DEF LinesOf
<1>6. \A x : x \in LinesOf(r) <=> \E j \in 1 .. Len(s) - 1 : x \in s[from(j)]
  BY <1>1, <1>2 DEF LinesOf
<1>7. \A x : x \in LinesOf(r) <=> x \in LinesOf(s) /\ x \notin s[i]
  BY <1>2, <1>4, <1>5, <1>6 DEF Scattered
<1>8. Scattered(r)
  <2> SUFFICES ASSUME NEW j \in 1 .. Len(s) - 1, NEW k \in 1 .. Len(s) - 1, j # k
               PROVE  r[j] \cap r[k] = {}
    BY <1>1 DEF Scattered, Without
  <2> QED
    BY <1>2, <1>3 DEF Scattered
<1> QED
  BY <1>5, <1>7, <1>8

\* A message that is accepted adds its lines.
LEMMA LinesAppend ==
    ASSUME NEW S, NEW s \in Seq(S), NEW m \in S
    PROVE  /\ LinesOf(Append(s, m)) = LinesOf(s) \cup m
           /\ Scattered(s) /\ m \cap LinesOf(s) = {} => Scattered(Append(s, m))
<1> DEFINE r == Append(s, m)
<1>1. /\ Len(r) = Len(s) + 1 /\ r \in Seq(S)
      /\ \A i \in 1 .. Len(s) : r[i] = s[i]
      /\ r[Len(s) + 1] = m
  BY AppendProperties
<1>2. Len(s) \in Nat /\ DOMAIN s = 1 .. Len(s) /\ DOMAIN r = 1 .. Len(s) + 1
  BY <1>1
<1> HIDE DEF r
<1>3. \A k \in 1 .. Len(s) + 1 : k \in 1 .. Len(s) \/ k = Len(s) + 1
  BY <1>2
<1>4. 1 .. Len(s) \subseteq 1 .. Len(s) + 1 /\ Len(s) + 1 \in 1 .. Len(s) + 1
  BY <1>2
<1>5. \A x : x \in LinesOf(s) <=> \E k \in 1 .. Len(s) : x \in s[k]
  BY <1>2 DEF LinesOf
<1>6. \A x : x \in LinesOf(r) <=> \E k \in 1 .. Len(s) + 1 : x \in r[k]
  BY <1>2 DEF LinesOf
<1>7. \A x : x \in LinesOf(r) <=> x \in LinesOf(s) \/ x \in m
  BY <1>1, <1>3, <1>4, <1>5, <1>6
<1>8. ASSUME Scattered(s), m \cap LinesOf(s) = {}
      PROVE  Scattered(r)
  <2> SUFFICES ASSUME NEW j \in 1 .. Len(s) + 1, NEW k \in 1 .. Len(s) + 1, j # k
               PROVE  r[j] \cap r[k] = {}
    BY <1>1 DEF Scattered
  <2>1. CASE j \in 1 .. Len(s) /\ k \in 1 .. Len(s)
    BY <1>1, <1>8, <2>1 DEF Scattered
  <2>2. CASE j \in 1 .. Len(s) /\ k = Len(s) + 1
    BY <1>1, <1>5, <1>8, <2>2
  <2>3. CASE j = Len(s) + 1 /\ k \in 1 .. Len(s)
    BY <1>1, <1>5, <1>8, <2>3
  <2> QED
    BY <1>3, <2>1, <2>2, <2>3
<1> QED
  BY <1>7, <1>8 DEF r

\* The tail of a sequence lacks its first element.
LEMMA TailWithout ==
    ASSUME NEW S, NEW s \in Seq(S), s # <<>>
    PROVE  /\ 1 \in 1 .. Len(s) /\ Head(s) = s[1] /\ Tail(s) \in Seq(S)
           /\ Without(Tail(s), s, 1)
<1>1. /\ Tail(s) \in Seq(S) /\ Len(Tail(s)) = Len(s) - 1
      /\ \A j \in 1 .. Len(Tail(s)) : Tail(s)[j] = s[j + 1]
  BY HeadTailProperties
<1>2. Len(s) \in Nat \ {0} /\ Head(s) = s[1]
  OBVIOUS
<1> QED
  BY <1>1, <1>2 DEF Without

\* RemoveAt, in the same terms.
LEMMA RemoveWithout ==
    ASSUME NEW S, NEW s \in Seq(S), NEW i \in 1 .. Len(s)
    PROVE  Outbox!RemoveAt(s, i) \in Seq(S) /\ Without(Outbox!RemoveAt(s, i), s, i)
<1> DEFINE before == SubSeq(s, 1, i - 1)
           after == SubSeq(s, i + 1, Len(s))
<1>1. /\ Len(s) \in Nat /\ i \in Nat /\ 1 <= i /\ i <= Len(s)
      /\ \A j \in 1 .. Len(s) : s[j] \in S
  OBVIOUS
<1>2. before \in Seq(S) /\ Len(before) = i - 1 /\ \A j \in 1 .. i - 1 : before[j] = s[j]
  <2>1. i - 1 \in Int /\ 1 \in Int /\ \A j \in 1 .. i - 1 : s[j] \in S
    BY <1>1
  <2>2. /\ before \in Seq(S)
        /\ Len(before) = IF 1 <= i - 1 THEN (i - 1) - 1 + 1 ELSE 0
        /\ \A j \in 1 .. (i - 1) - 1 + 1 : before[j] = s[1 + j - 1]
    BY <2>1, SubSeqProperties
  <2>3. \A j \in 1 .. i - 1 : j \in 1 .. (i - 1) - 1 + 1 /\ 1 + j - 1 = j
    BY <1>1
  <2> HIDE DEF before
  <2> QED
    BY <1>1, <2>2, <2>3
<1>3. /\ after \in Seq(S) /\ Len(after) = Len(s) - i
      /\ \A j \in 1 .. Len(s) - i : after[j] = s[i + j]
  <2>1. i + 1 \in Int /\ Len(s) \in Int /\ \A j \in i + 1 .. Len(s) : s[j] \in S
    BY <1>1
  <2>2. /\ after \in Seq(S)
        /\ Len(after) = IF i + 1 <= Len(s) THEN Len(s) - (i + 1) + 1 ELSE 0
        /\ \A j \in 1 .. Len(s) - (i + 1) + 1 : after[j] = s[i + 1 + j - 1]
    BY <2>1, SubSeqProperties
  <2>3. \A j \in 1 .. Len(s) - i : j \in 1 .. Len(s) - (i + 1) + 1 /\ i + 1 + j - 1 = i + j
    BY <1>1
  <2> HIDE DEF after
  <2> QED
    BY <1>1, <2>2, <2>3
<1>4. Outbox!RemoveAt(s, i) = before \o after
  BY Zenon DEF Outbox!RemoveAt
<1> HIDE DEF before, after
<1>5. /\ before \o after \in Seq(S) /\ Len(before \o after) = Len(before) + Len(after)
      /\ \A j \in 1 .. Len(before) + Len(after) :
            (before \o after)[j] = IF j <= Len(before) THEN before[j] ELSE after[j - Len(before)]
  BY <1>2, <1>3, ConcatProperties
<1> DEFINE r == before \o after
<1>6. Len(r) = Len(s) - 1
  BY <1>1, <1>2, <1>3, <1>5
<1>7. ASSUME NEW j \in 1 .. Len(s) - 1
      PROVE  r[j] = IF j < i THEN s[j] ELSE s[j + 1]
  <2>1. j \in 1 .. Len(before) + Len(after)
    BY <1>1, <1>2, <1>3
  <2>2. CASE j < i
    <3>1. j <= Len(before) /\ j \in 1 .. i - 1
      BY <1>1, <1>2, <2>2
    <3> QED
      BY <1>2, <1>5, <2>1, <2>2, <3>1
  <2>3. CASE ~ (j < i)
    <3>1. ~ (j <= Len(before)) /\ j - Len(before) \in 1 .. Len(s) - i
          /\ i + (j - Len(before)) = j + 1
      BY <1>1, <1>2, <2>3
    <3>2. r[j] = after[j - Len(before)]
      BY <1>5, <2>1, <3>1
    <3>3. after[j - Len(before)] = s[i + (j - Len(before))]
      BY <1>3, <3>1
    <3> QED
      BY <2>3, <3>1, <3>2, <3>3
  <2> QED
    BY <2>2, <2>3
<1> QED
  BY <1>4, <1>5, <1>6, <1>7 DEF Without

-----------------------------------------------------------------------------
(* The outbox: what waits in it goes to the channel or to the log *)

Waiting == LinesOf(transit)

OutboxInv ==
    /\ transit \in Seq(Message)
    /\ posted \in Seq(Message)
    /\ Scattered(transit)

\* What is delivered or named in the log was lost before or after.
LEMMA LostMembers ==
    /\ \A x : x \in Lost <=> x \notin Delivered /\ \E m \in logged : x \in m
    /\ \A x : x \in Lost' <=> x \notin Delivered' /\ \E m \in logged' : x \in m
<1>1. \A S, x : x \in UNION S <=> \E m \in S : x \in m
  OBVIOUS
<1>2. Lost = (UNION logged) \ Delivered /\ Lost' = (UNION logged') \ Delivered'
  BY DEF Lost
<1>3. \A x : x \in Lost <=> x \in UNION logged /\ x \notin Delivered
  BY <1>2
<1>4. \A x : x \in Lost' <=> x \in UNION logged' /\ x \notin Delivered'
  BY <1>2
<1> QED
  BY <1>1, <1>3, <1>4, Zenon

\* The delivery of lines that are not lost loses none.
LEMMA LostPosted ==
    ASSUME NEW lines, Delivered' = Delivered \cup lines, logged' = logged, lines \cap Lost = {}
    PROVE  Lost' = Lost
<1>1. \A x : x \in Lost' <=> x \in Lost
  BY LostMembers
<1> QED
  BY <1>1

\* A message in the log is lost, or delivered all the same.
LEMMA LostLogged ==
    ASSUME NEW lines, Delivered' = Delivered, logged' = logged \cup {lines}
    PROVE  /\ lines \cap Delivered = {} => Lost' = Lost \cup lines
           /\ lines \subseteq Delivered => Lost' = Lost
<1>1. \A x : (\E m \in logged' : x \in m) <=> (\E m \in logged : x \in m) \/ x \in lines
  OBVIOUS
<1>2. \A x : x \in Lost' <=> x \in Lost \/ (x \in lines /\ x \notin Delivered)
  BY <1>1, LostMembers
<1> QED
  BY <1>2

\* The sender moves lines that wait to those delivered or to those lost, if any.
LEMMA SenderMoves ==
    ASSUME OutboxInv, Sender, Waiting \cap (Delivered \cup Lost) = {}
    PROVE  /\ OutboxInv'
           /\ \E moved \in SUBSET Waiting :
                 /\ Waiting' = Waiting \ moved
                 /\ \/ Delivered' = Delivered \cup moved /\ Lost' = Lost
                    \/ Delivered' = Delivered /\ Lost' = Lost \cup moved
<1> USE DEF OutboxInv, Waiting
<1>1. CASE Outbox!Post
  <2>1. /\ transit # <<>> /\ transit' = Tail(transit)
        /\ posted' = Append(posted, Head(transit)) /\ logged' = logged
    BY <1>1 DEF Outbox!Post
  <2>2. /\ 1 \in 1 .. Len(transit) /\ Head(transit) = transit[1] /\ transit' \in Seq(Message)
        /\ Without(transit', transit, 1)
    BY <2>1, TailWithout
  <2>3. /\ LinesOf(transit') = LinesOf(transit) \ transit[1] /\ Scattered(transit')
        /\ transit[1] \subseteq LinesOf(transit)
    BY <2>2, LinesWithout
  <2>4. transit[1] \in Message
    BY <2>2
  <2>5. posted' \in Seq(Message) /\ LinesOf(posted') = LinesOf(posted) \cup transit[1]
    BY <2>1, <2>2, <2>4, LinesAppend, AppendProperties
  <2>7. /\ Waiting' = Waiting \ transit[1] /\ transit[1] \subseteq Waiting
        /\ Delivered' = Delivered \cup transit[1]
    BY <2>3, <2>5 DEF Delivered
  <2>8. Lost' = Lost
    BY <2>1, <2>7, LostPosted
  <2> QED
    BY <2>2, <2>3, <2>5, <2>7, <2>8
<1>2. CASE Outbox!Lose
  <2>1. PICK i \in 1 .. Len(transit) :
            /\ transit' = Outbox!RemoveAt(transit, i)
            /\ logged' = logged \cup {transit[i]}
    BY <1>2 DEF Outbox!Lose
  <2>2. posted' = posted
    BY <1>2 DEF Outbox!Lose
  <2>3. transit' \in Seq(Message) /\ Without(transit', transit, i)
    BY <2>1, RemoveWithout
  <2>4. /\ LinesOf(transit') = LinesOf(transit) \ transit[i] /\ Scattered(transit')
        /\ transit[i] \subseteq LinesOf(transit)
    BY <2>3, LinesWithout
  <2>5. /\ Waiting' = Waiting \ transit[i] /\ transit[i] \subseteq Waiting
        /\ Delivered' = Delivered
    BY <2>2, <2>4 DEF Delivered
  <2>6. Lost' = Lost \cup transit[i]
    BY <2>1, <2>5, LostLogged
  <2> QED
    BY <2>2, <2>3, <2>4, <2>5, <2>6
<1>3. CASE Outbox!Doubt
  <2>1. PICK m \in Outbox!ToSet(posted) : logged' = logged \cup {m}
    BY <1>3 DEF Outbox!Doubt
  <2>2. posted' = posted /\ transit' = transit
    BY <1>3 DEF Outbox!Doubt
  <2>3. m \subseteq Delivered /\ Delivered' = Delivered /\ Waiting' = Waiting
    BY <2>1, <2>2 DEF Outbox!ToSet, LinesOf, Delivered
  <2>5. Lost' = Lost
    BY <2>1, <2>3, LostLogged
  <2>4. {} \subseteq Waiting /\ Waiting \ {} = Waiting /\ Delivered \cup {} = Delivered
    OBVIOUS
  <2> QED
    BY <2>2, <2>3, <2>4, <2>5
<1> QED
  BY <1>1, <1>2, <1>3 DEF Sender

\* The queue takes some of the lines it is offered, the others are reported.
LEMMA ChannelOffers ==
    ASSUME TypeOK, OutboxInv, NotifyChannel, (recent \cup Transitions) \cap Waiting = {}
    PROVE  /\ OutboxInv'
           /\ UNCHANGED <<Delivered, Lost, buried>>
           /\ \E queued \in SUBSET (recent \cup Transitions) :
                 /\ Waiting' = Waiting \cup queued
                 /\ reported' = reported \cup ((recent \cup Transitions) \ queued)
<1> USE DEF OutboxInv, Waiting, Delivered, Lost
<1>1. PICK queued \in SUBSET (recent \cup Transitions) :
          /\ IF queued = {} THEN UNCHANGED outbox ELSE Outbox!Put(queued)
          /\ reported' = reported \cup ((recent \cup Transitions) \ queued)
  BY DEF NotifyChannel
<1>2. buried' = buried
  BY DEF NotifyChannel
<1>3. CASE queued = {}
  BY <1>1, <1>2, <1>3
<1>4. CASE queued # {}
  <2>1. transit' = Append(transit, queued) /\ UNCHANGED <<posted, logged>>
    BY <1>1, <1>4 DEF Outbox!Put
  <2>2. queued \in Message
    BY <1>4, LinesOfTwoKinds DEF Message
  <2>3. /\ LinesOf(transit') = LinesOf(transit) \cup queued
        /\ Scattered(transit') /\ transit' \in Seq(Message)
    BY <2>1, <2>2, LinesAppend, AppendProperties
  <2> QED
    BY <1>1, <1>2, <2>1, <2>3
<1> QED
  BY <1>3, <1>4

-----------------------------------------------------------------------------
(* Accounted *)

\* No line has two fates.
Apart ==
    /\ InHand \cap (excused \cup Waiting \cup Delivered \cup Lost \cup reported \cup buried) = {}
    /\ excused \cap (Waiting \cup Delivered \cup Lost \cup reported \cup buried) = {}
    /\ Waiting \cap (Delivered \cup Lost \cup reported \cup buried) = {}
    /\ Delivered \cap (Lost \cup reported \cup buried) = {}
    /\ Lost \cap (reported \cup buried) = {}
    /\ reported \cap buried = {}

\* The lines with a fate are the files on record and the reported transitions.
Told ==
    InHand \cup excused \cup Waiting \cup Delivered \cup Lost \cup reported \cup buried
        = discovered \cup transitions

\* The strengthening of Accounted: a transition is reported with its paper, and a
\* cold seed has nothing to notify.
BooksInv ==
    /\ OutboxInv
    /\ Apart
    /\ Told
    /\ \A x \in transitions : alerts[x] > 0
    /\ pc = "notify" => mode # "cold"

\* What the proof takes from Scheduler.
SchedulerInv == TypeOK /\ FreshHasRow /\ PapersInv /\ AlertsInv

\* A step that gives no line another fate.
LEMMA BooksQuietly ==
    ASSUME BooksInv,
           UNCHANGED <<InHand, excused, transit, posted, logged, reported, buried>>,
           UNCHANGED <<discovered, transitions, alerts>>,
           pc' = "notify" => mode' # "cold"
    PROVE  BooksInv'
BY DEF BooksInv, OutboxInv, Apart, Told, Waiting, Delivered, Lost

\* A hit that is marked is in hand from then on, or excused.
LEMMA BooksMark ==
    ASSUME SchedulerInv, BooksInv, NEW u \in Url, MarkDiscovered(u), UNCHANGED delivery
    PROVE  BooksInv'
<1>1. /\ u \in unmarked /\ pc = "mark" /\ pc' = "mark"
      /\ discovered' = discovered \cup {u} /\ unmarked' = unmarked \ {u}
      /\ excused' = IF mode = "cold" \/ u \notin recent THEN excused \cup {u} ELSE excused
      /\ UNCHANGED <<recent, mode, transitions, alerts>>
  BY DEF MarkDiscovered
<1>2. UNCHANGED <<Waiting, Delivered, Lost, reported, buried, OutboxInv>>
  BY DEF Waiting, Delivered, Lost, OutboxInv
<1>3. u \notin discovered \cup transitions
  <2>1. u \notin discovered
    BY <1>1 DEF SchedulerInv, AlertsInv, FilesInv
  <2>2. u \notin transitions
    BY LinesOfTwoKinds, SourcesAssumption DEF SchedulerInv, AllNews
  <2> QED
    BY <2>1, <2>2
<1>4. CASE mode = "cold" \/ u \notin recent
  <2>1. InHand' = InHand
    BY <1>1, <1>4 DEF InHand, Notifies
  <2>2. excused' = excused \cup {u}
    BY <1>1, <1>4
  <2>3. Apart'
    BY <1>2, <1>3, <2>1, <2>2 DEF BooksInv, Apart, Told
  <2>4. Told'
    BY <1>1, <1>2, <2>1, <2>2 DEF BooksInv, Told
  <2> QED
    BY <1>1, <1>2, <2>3, <2>4 DEF BooksInv
<1>5. CASE mode # "cold" /\ u \in recent
  <2>1. InHand' = InHand \cup {u}
    BY <1>1, <1>5 DEF InHand, Notifies
  <2>2. excused' = excused
    BY <1>1, <1>5
  <2>3. Apart'
    BY <1>2, <1>3, <2>1, <2>2 DEF BooksInv, Apart, Told
  <2>4. Told'
    BY <1>1, <1>2, <2>1, <2>2 DEF BooksInv, Told
  <2> QED
    BY <1>1, <1>2, <2>3, <2>4 DEF BooksInv
<1> QED
  BY <1>4, <1>5

\* What is in hand is handed to the queue with the transitions, or reported.
LEMMA BooksNotify ==
    ASSUME SchedulerInv, BooksInv, NotifyChannel
    PROVE  BooksInv'
<1>1. /\ pc = "notify" /\ pc' = "idle"
      /\ transitions' = transitions \cup Transitions
      /\ alerts' = [x \in DOMAIN alerts |->
                       IF x \in recent \cup News(newPapers) THEN alerts[x] + 1 ELSE alerts[x]]
      /\ UNCHANGED <<discovered, excused>>
  BY DEF NotifyChannel, Notify, EndPoll
<1>2. InHand = recent /\ InHand' = {}
  BY <1>1 DEF InHand, Notifies, BooksInv, SchedulerInv, AlertsInv, FilesInv
<1>3. Transitions \cap (discovered \cup transitions) = {} /\ Transitions \subseteq News(newPapers)
  <2>1. Transitions \subseteq News(newPapers) /\ Transitions \cap discovered = {}
    BY LinesOfTwoKinds DEF SchedulerInv
  <2>2. \A x \in News(newPapers) : ~ alerts[x] > 0
    <3>1. \A p \in newPapers : Now(p) \in AllNews /\ Now(p) \notin Heard
      BY NewsTyped DEF SchedulerInv, PapersInv, TypeOK
    <3>2. \A p \in newPapers : ~ alerts[Now(p)] > 0
      BY <3>1 DEF Heard
    <3> QED
      BY <3>2 DEF News
  <2>3. Transitions \cap transitions = {}
    BY <2>1, <2>2 DEF BooksInv
  <2> QED
    BY <2>1, <2>3
<1>4. (recent \cup Transitions) \cap Waiting = {}
  BY <1>2, <1>3 DEF BooksInv, Apart, Told
<1>5. /\ OutboxInv' /\ UNCHANGED <<Delivered, Lost, buried>>
      /\ \E queued \in SUBSET (recent \cup Transitions) :
            /\ Waiting' = Waiting \cup queued
            /\ reported' = reported \cup ((recent \cup Transitions) \ queued)
  BY <1>4, ChannelOffers DEF SchedulerInv, BooksInv
<1>6. PICK queued \in SUBSET (recent \cup Transitions) :
          /\ Waiting' = Waiting \cup queued
          /\ reported' = reported \cup ((recent \cup Transitions) \ queued)
  BY <1>5
<1>7. Apart'
  BY <1>1, <1>2, <1>3, <1>5, <1>6 DEF BooksInv, Apart, Told
<1>8. Told'
  BY <1>1, <1>2, <1>5, <1>6 DEF BooksInv, Told
<1>9. \A x \in transitions' : alerts'[x] > 0
  <2>1. \A x \in transitions \cup Transitions : x \in AllNews /\ alerts[x] \in Nat
    BY LinesOfTwoKinds DEF SchedulerInv, TypeOK
  <2>2. \A x \in transitions \cup Transitions :
            alerts'[x] = IF x \in recent \cup News(newPapers) THEN alerts[x] + 1 ELSE alerts[x]
    BY <1>1, <2>1 DEF SchedulerInv, TypeOK
  <2> QED
    BY <1>1, <1>3, <2>1, <2>2 DEF BooksInv
<1> QED
  BY <1>1, <1>5, <1>7, <1>8, <1>9 DEF BooksInv

\* A poll that fails reports what it has in hand.
LEMMA BooksFail ==
    ASSUME SchedulerInv, BooksInv, FailedPoll
    PROVE  BooksInv'
<1>1. /\ reported' = reported \cup InHand
      /\ UNCHANGED <<Waiting, Delivered, Lost, buried, OutboxInv>>
  BY DEF FailedPoll, Waiting, Delivered, Lost, OutboxInv
<1>2. UNCHANGED <<discovered, transitions, excused, alerts, mode>> /\ InHand' = {}
  BY DEF FailedPoll, Exception, FailCycle, PollLost, CacheWriteLost, CycleLost, ForgoNews,
         EndCycle, EndPoll, InHand
<1>3. pc' = "notify" => mode' # "cold"
  BY DEF FailedPoll, Exception, FailCycle, PollLost, CacheWriteLost, CycleLost, EndCycle,
         EndPoll, Notifies
<1>4. Apart'
  BY <1>1, <1>2 DEF BooksInv, Apart
<1>5. Told'
  BY <1>1, <1>2 DEF BooksInv, Told
<1> QED
  BY <1>1, <1>2, <1>3, <1>4, <1>5 DEF BooksInv

\* A process that stops buries what it has in hand and in the queue.
LEMMA BooksStop ==
    ASSUME BooksInv, StopAndStart
    PROVE  BooksInv'
<1>1. /\ buried' = buried \cup InHand \cup Waiting
      /\ transit' = <<>>
      /\ UNCHANGED <<Delivered, Lost, reported, posted>>
  BY DEF StopAndStart, Waiting, Delivered, Lost
<1>2. UNCHANGED <<discovered, transitions, excused, alerts>> /\ InHand' = {} /\ pc' = "idle"
  BY DEF StopAndStart, Restart, EndPoll, InHand
<1>3. Waiting' = {} /\ OutboxInv'
  BY <1>1 DEF Waiting, LinesOf, OutboxInv, BooksInv, Scattered
<1>4. Apart'
  BY <1>1, <1>2, <1>3 DEF BooksInv, Apart
<1>5. Told'
  BY <1>1, <1>2, <1>3 DEF BooksInv, Told
<1> QED
  BY <1>2, <1>3, <1>4, <1>5 DEF BooksInv

\* The sender posts or loses what waits.
LEMMA BooksSender ==
    ASSUME BooksInv, Sender
    PROVE  BooksInv'
<1>1. UNCHANGED <<InHand, excused, reported, buried, discovered, transitions, alerts, pc, mode>>
  BY DEF Sender, vars, InHand, Notifies
<1>2. Waiting \cap (Delivered \cup Lost) = {}
  BY DEF BooksInv, Apart
<1>3. /\ OutboxInv'
      /\ \E moved \in SUBSET Waiting :
            /\ Waiting' = Waiting \ moved
            /\ \/ Delivered' = Delivered \cup moved /\ Lost' = Lost
               \/ Delivered' = Delivered /\ Lost' = Lost \cup moved
  BY <1>2, SenderMoves DEF BooksInv
<1>4. PICK moved \in SUBSET Waiting :
          /\ Waiting' = Waiting \ moved
          /\ \/ Delivered' = Delivered \cup moved /\ Lost' = Lost
             \/ Delivered' = Delivered /\ Lost' = Lost \cup moved
  BY <1>3
<1>5. Apart'
  BY <1>1, <1>4 DEF BooksInv, Apart
<1>6. Told'
  BY <1>1, <1>4 DEF BooksInv, Told
<1> QED
  BY <1>1, <1>3, <1>5, <1>6 DEF BooksInv

\* Every step keeps the books.
LEMMA BooksStep == SchedulerInv /\ BooksInv /\ [DeliveryNext]_allVars => BooksInv'
<1> SUFFICES ASSUME SchedulerInv, BooksInv, [DeliveryNext]_allVars
             PROVE  BooksInv'
  OBVIOUS
<1>1. CASE UpToNotify /\ UNCHANGED delivery
  <2>1. CASE \E u \in Url : MarkDiscovered(u)
    BY <1>1, <2>1, BooksMark
  <2>2. CASE StartPoll \/ StartSeed
    <3>1. /\ UNCHANGED <<InHand, excused, discovered, transitions, alerts>>
          /\ pc' = "refresh"
      BY <2>2 DEF StartPoll, StartSeed, InHand
    <3> QED
      BY <1>1, <3>1, BooksQuietly
  <2>3. CASE Refresh
    <3>1. PICK index : pc = "refresh" /\ Diff(index)
      BY <2>3, RefreshIndex DEF SchedulerInv
    <3>2. /\ UNCHANGED <<InHand, excused, discovered, transitions, alerts>>
          /\ pc' = "probe"
      BY <3>1 DEF Diff, InHand
    <3> QED
      BY <1>1, <3>2, BooksQuietly
  <2>4. CASE Probe
    <3>1. /\ UNCHANGED <<InHand, excused, discovered, transitions, alerts>>
          /\ pc' = "mark"
      BY <2>4 DEF Probe, InHand
    <3> QED
      BY <1>1, <3>1, BooksQuietly
  <2>5. CASE CompleteCycle
    <3>1. /\ UNCHANGED <<InHand, excused, discovered, transitions, alerts>>
          /\ pc' = "notify" => mode' # "cold"
      BY <2>5 DEF CompleteCycle, EndCycle, Notifies, InHand
    <3> QED
      BY <1>1, <3>1, BooksQuietly
  <2> QED
    BY <1>1, <2>1, <2>2, <2>3, <2>4, <2>5 DEF UpToNotify, Refresh
<1>2. CASE World /\ UNCHANGED delivery
  <2>1. UNCHANGED <<InHand, excused, discovered, transitions, alerts, pc, mode>>
    BY <1>2 DEF World, CacheExpires, Upload, Age, InHand, Notifies
  <2>2. pc' = "notify" => mode' # "cold"
    BY <2>1 DEF BooksInv
  <2> QED
    BY <1>2, <2>1, <2>2, BooksQuietly
<1>3. CASE UNCHANGED allVars
  <2>1. UNCHANGED <<InHand, excused, discovered, transitions, alerts, pc, mode>>
    BY <1>3 DEF allVars, vars, InHand, Notifies
  <2>2. pc' = "notify" => mode' # "cold"
    BY <2>1 DEF BooksInv
  <2> QED
    BY <1>3, <2>1, <2>2, BooksQuietly DEF allVars
<1> QED
  BY <1>1, <1>2, <1>3, BooksNotify, BooksFail, BooksStop, BooksSender DEF DeliveryNext

\* Fates by number.
LEMMA ApartAndTold == Apart /\ Told => Accounted
<1> SUFFICES ASSUME Apart, Told PROVE Accounted
  OBVIOUS
<1>1. DOMAIN Fates = 1 .. 7
  BY DEF Fates
<1>2. /\ Fates[1] = InHand /\ Fates[2] = excused /\ Fates[3] = Waiting /\ Fates[4] = Delivered
      /\ Fates[5] = Lost /\ Fates[6] = reported /\ Fates[7] = buried
  BY DEF Fates, Waiting
<1>3. ASSUME NEW x \in discovered \cup transitions
      PROVE  \E i \in DOMAIN Fates : x \in Fates[i]
  <2>1. x \in Fates[1] \/ x \in Fates[2] \/ x \in Fates[3] \/ x \in Fates[4]
            \/ x \in Fates[5] \/ x \in Fates[6] \/ x \in Fates[7]
    BY <1>2, <1>3 DEF Told
  <2>2. {1, 2, 3, 4, 5, 6, 7} \subseteq DOMAIN Fates
    BY <1>1
  <2> HIDE DEF Fates
  <2> QED
    BY <2>1, <2>2
<1>4. ASSUME NEW i \in 1 .. 7, NEW j \in 1 .. 7, i < j
      PROVE  Fates[i] \cap Fates[j] = {}
  <2>1. \/ i = 1 /\ j \in 2 .. 7
        \/ i = 2 /\ j \in 3 .. 7
        \/ i = 3 /\ j \in 4 .. 7
        \/ i = 4 /\ j \in 5 .. 7
        \/ i = 5 /\ j \in 6 .. 7
        \/ i = 6 /\ j = 7
    BY <1>4
  <2>2. j = 2 \/ j = 3 \/ j = 4 \/ j = 5 \/ j = 6 \/ j = 7
    BY <1>4
  <2> QED
    BY <1>2, <2>1, <2>2 DEF Apart
<1>5. ASSUME NEW i \in 1 .. 7, NEW j \in 1 .. 7, i # j
      PROVE  Fates[i] \cap Fates[j] = {}
  <2>1. i < j \/ j < i
    BY <1>5
  <2> QED
    BY <1>4, <2>1
<1> QED
  BY <1>1, <1>3, <1>5 DEF Accounted

\* The books are kept.
LEMMA BooksHold == DeliverySpec => []BooksInv
<1>1. DeliveryInit => BooksInv
  <2> SUFFICES ASSUME DeliveryInit PROVE BooksInv
    OBVIOUS
  <2>1. transit = <<>> /\ posted = <<>> /\ logged = {} /\ reported = {} /\ buried = {}
    BY DEF DeliveryInit, Outbox!Init
  <2>2. pc = "idle" /\ excused = {} /\ discovered = {} /\ transitions = {}
    BY DEF DeliveryInit, Init
  <2>3. InHand = {} /\ Waiting = {} /\ Delivered = {} /\ Lost = {} /\ OutboxInv
    BY <2>1, <2>2 DEF InHand, Waiting, Delivered, Lost, LinesOf, OutboxInv, Scattered
  <2> QED
    BY <2>1, <2>2, <2>3 DEF BooksInv, Apart, Told
<1>2. Spec => []SchedulerInv
  BY AlertsHold, PTL DEF SchedulerInv
<1> QED
  BY <1>1, <1>2, BooksStep, DeliveryIsScheduler, PTL DEF DeliverySpec

\* Every file on record and every reported transition has exactly one fate, whatever
\* fails, whenever the process stops.
THEOREM EveryLineAccounted == DeliverySpec => []Accounted
<1>1. BooksInv => Accounted
  BY ApartAndTold DEF BooksInv
<1> QED
  BY <1>1, BooksHold, PTL

-----------------------------------------------------------------------------
(* The channel *)

\* No recent hit of a cycle is a draft of a paper in the snapshot.
DraftsKnown ==
    pc \in {"mark", "notify"} => \A p \in papers : DraftsOf[p] \cap recent = {}

\* Every step of the scheduler keeps it.
LEMMA DraftsStep ==
    ASSUME SchedulerInv, DraftsKnown, [Next]_vars
    PROVE  DraftsKnown'
<1> USE DEF DraftsKnown
<1>1. CASE Probe
  <2>1. recent' \subseteq unmarked' /\ papers' = papers
        /\ \A p \in papers : DraftsOf[p] \cap unmarked' = {}
    BY <1>1, ProbeHits DEF SchedulerInv, Probe
  <2> QED
    BY <2>1
<1>2. CASE Refresh
  <2>1. PICK index : pc = "refresh" /\ Diff(index)
    BY <1>2, RefreshIndex DEF SchedulerInv
  <2> QED
    BY <2>1 DEF Diff
<1>3. CASE StartPoll \/ StartSeed \/ Notify \/ Restart
  BY <1>3 DEF StartPoll, StartSeed, Notify, Restart, EndPoll
<1>4. CASE (\E u \in Url : MarkDiscovered(u)) \/ CompleteCycle
  BY <1>4 DEF MarkDiscovered, CompleteCycle, EndCycle
<1>5. CASE Exception
  BY <1>5 DEF Exception, FailCycle, PollLost, CacheWriteLost, CycleLost, EndCycle, EndPoll
<1>6. CASE World \/ UNCHANGED vars
  BY <1>6 DEF World, CacheExpires, Upload, Age, vars
<1> QED
  BY <1>1, <1>2, <1>3, <1>4, <1>5, <1>6 DEF Next, PollStep, UpToNotify, Failure, Refresh

\* One message has the transition of a draft that is in the other, as news the index
\* has dropped d[p] times.
Follows(d, m, n) == \E p \in Paper : <<p, d[p]>> \in m /\ DraftsOf[p] \cap n # {}

\* In a sequence of messages a transition only follows a draft that went before.
InOrder(d, s) == \A i, j \in 1 .. Len(s) : Follows(d, s[j], s[i]) => i < j

\* No transition in the one sequence follows a draft in the other.
Ahead(d, s, t) == \A i \in 1 .. Len(s), j \in 1 .. Len(t) : ~ Follows(d, s[i], t[j])

\* The order survives the loss of a message.
LEMMA OrderWithout ==
    ASSUME NEW S, NEW d, NEW s \in Seq(S), NEW r \in Seq(S), NEW i \in 1 .. Len(s), Without(r, s, i),
           InOrder(d, s)
    PROVE  /\ InOrder(d, r)
           /\ \A t : Ahead(d, t, s) => Ahead(d, t, r)
<1>1. Len(s) \in Nat /\ Len(r) = Len(s) - 1 /\ i \in Nat
  BY DEF Without
<1> DEFINE from(j) == IF j < i THEN j ELSE j + 1
<1>2. \A j \in 1 .. Len(r) : r[j] = s[from(j)] /\ from(j) \in 1 .. Len(s)
  BY <1>1 DEF Without
<1>3. \A j, k \in 1 .. Len(r) : from(j) < from(k) => j < k
  BY <1>1
<1> HIDE DEF from
<1> QED
  BY <1>2, <1>3 DEF InOrder, Ahead

\* It survives a message more that nothing before it, nor itself, should have waited for.
LEMMA OrderAppend ==
    ASSUME NEW S, NEW d, NEW s \in Seq(S), NEW m \in S, InOrder(d, s), ~ Follows(d, m, m),
           \A i \in 1 .. Len(s) : ~ Follows(d, s[i], m)
    PROVE  InOrder(d, Append(s, m))
<1> DEFINE r == Append(s, m)
<1>1. /\ Len(r) = Len(s) + 1 /\ Len(s) \in Nat
      /\ \A i \in 1 .. Len(s) : r[i] = s[i]
      /\ r[Len(s) + 1] = m
  BY AppendProperties
<1> HIDE DEF r
<1>2. \A i \in 1 .. Len(r) : i \in 1 .. Len(s) \/ i = Len(s) + 1
  BY <1>1
<1> SUFFICES ASSUME NEW i \in 1 .. Len(r), NEW j \in 1 .. Len(r), Follows(d, r[j], r[i])
             PROVE  i < j
  BY DEF InOrder, r
<1>3. CASE i \in 1 .. Len(s) /\ j \in 1 .. Len(s)
  BY <1>1, <1>3 DEF InOrder
<1>4. CASE i = Len(s) + 1
  BY <1>1, <1>2, <1>4
<1>5. CASE i \in 1 .. Len(s) /\ j = Len(s) + 1
  BY <1>1, <1>5
<1> QED
  BY <1>2, <1>3, <1>4, <1>5

\* What a message more does to two sequences.
LEMMA AheadAppend ==
    ASSUME NEW S, NEW d, NEW s \in Seq(S), NEW t \in Seq(S), NEW m \in S, Ahead(d, s, t)
    PROVE  /\ (\A i \in 1 .. Len(s) : ~ Follows(d, s[i], m)) => Ahead(d, s, Append(t, m))
           /\ (\A j \in 1 .. Len(t) : ~ Follows(d, m, t[j])) => Ahead(d, Append(s, m), t)
<1>1. ASSUME NEW r \in Seq(S)
      PROVE  /\ Len(Append(r, m)) = Len(r) + 1 /\ Len(r) \in Nat
             /\ \A i \in 1 .. Len(r) : Append(r, m)[i] = r[i]
             /\ Append(r, m)[Len(r) + 1] = m
             /\ \A i \in 1 .. Len(Append(r, m)) : i \in 1 .. Len(r) \/ i = Len(r) + 1
  BY AppendProperties
<1>2. ASSUME \A i \in 1 .. Len(s) : ~ Follows(d, s[i], m)
      PROVE  Ahead(d, s, Append(t, m))
  BY <1>1, <1>2 DEF Ahead
<1>3. ASSUME \A j \in 1 .. Len(t) : ~ Follows(d, m, t[j])
      PROVE  Ahead(d, Append(s, m), t)
  BY <1>1, <1>3 DEF Ahead
<1> QED
  BY <1>2, <1>3

\* The strengthening of DraftsFirst and PostedOnce: what waits is in order too, and
\* no transition in the channel follows a draft that waits.
ChannelInv ==
    /\ Scattered(posted)
    /\ InOrder(drops, posted)
    /\ InOrder(drops, transit)
    /\ Ahead(drops, posted, transit)

\* News in the queue or in the channel was announced.
LEMMA LinesAreHeard ==
    ASSUME TypeOK, BooksInv, NEW x \in AllNews, x \in Waiting \cup Delivered
    PROVE  x \in Heard
<1>1. x \in transitions
  BY LinesOfTwoKinds DEF BooksInv, Told
<1> QED
  BY <1>1 DEF BooksInv, Heard

\* When the row moves no news in the queue or in the channel becomes news again.
LEMMA ChannelRow ==
    ASSUME TypeOK, PapersInv, BooksInv, ChannelInv, RowMoves, UNCHANGED outbox
    PROVE  ChannelInv'
<1>1. ASSUME NEW m, NEW n, m \subseteq Waiting \cup Delivered, Follows(drops', m, n)
      PROVE  Follows(drops, m, n)
  <2>1. PICK p \in Paper : <<p, drops'[p]>> \in m /\ DraftsOf[p] \cap n # {}
    BY <1>1 DEF Follows
  <2>2. <<p, drops'[p]>> \in AllNews
    BY DEF RowMoves, AllNews
  <2>3. Now(p)' \in Heard
    BY <1>1, <2>1, <2>2, LinesAreHeard DEF Now
  <2>4. drops'[p] = drops[p]
    BY <2>3, HeardStill
  <2> QED
    BY <2>1, <2>4 DEF Follows
<1>2. /\ \A i \in 1 .. Len(transit) : transit[i] \subseteq Waiting
      /\ \A i \in 1 .. Len(posted) : posted[i] \subseteq Delivered
  BY DEF BooksInv, OutboxInv, Waiting, Delivered, LinesOf
<1>3. InOrder(drops', transit) /\ InOrder(drops', posted) /\ Ahead(drops', posted, transit)
  BY <1>1, <1>2 DEF ChannelInv, InOrder, Ahead
<1> QED
  BY <1>3 DEF ChannelInv

\* What a notification adds follows nothing that was told before: a paper with a
\* transition was in the snapshot, so its drafts were not probed.
LEMMA NewLinesLast ==
    ASSUME SchedulerInv, BooksInv, DraftsKnown, pc = "notify",
           NEW lines \in SUBSET (recent \cup Transitions),
           NEW m, m \subseteq Waiting \cup Delivered \cup lines
    PROVE  ~ Follows(drops, m, lines)
<1> SUFFICES ASSUME NEW p \in Paper, Now(p) \in m, NEW u \in DraftsOf[p] \cap lines
             PROVE  FALSE
  BY DEF Follows, Now
<1>1. Now(p) \in AllNews /\ u \in Url
  BY NewsTyped, SourcesAssumption DEF SchedulerInv
<1>2. /\ Transitions \subseteq News(newPapers) /\ News(newPapers) \subseteq AllNews
      /\ recent \cap AllNews = {} /\ discovered \cap AllNews = {} /\ Url \cap AllNews = {}
  BY LinesOfTwoKinds, SourcesAssumption DEF SchedulerInv, AllNews
<1>3. u \in recent
  BY <1>1, <1>2
<1>4. /\ previous = papers /\ newPapers \subseteq previous
      /\ \A q \in Paper : Now(q) \in Heard => q \in previous
  BY DEF SchedulerInv, PapersInv, PastRefresh
<1>5. p \in papers
  <2>1. CASE Now(p) \in lines
    <3>1. Now(p) \in News(newPapers)
      BY <1>1, <1>2, <2>1
    <3> QED
      BY <1>4, <3>1 DEF News, Now
  <2>2. CASE Now(p) \in Waiting \cup Delivered
    BY <1>1, <1>4, <2>2, LinesAreHeard DEF SchedulerInv
  <2> QED
    BY <2>1, <2>2
<1> QED
  BY <1>3, <1>5 DEF DraftsKnown

\* The queue takes the lines of a poll that notifies.
LEMMA ChannelNotify ==
    ASSUME SchedulerInv, BooksInv, DraftsKnown, ChannelInv, NotifyChannel
    PROVE  ChannelInv'
<1>1. PICK queued \in SUBSET (recent \cup Transitions) :
          IF queued = {} THEN UNCHANGED outbox ELSE Outbox!Put(queued)
  BY DEF NotifyChannel
<1>2. /\ pc = "notify" /\ transit \in Seq(Message) /\ posted \in Seq(Message)
      /\ drops' = drops
  BY DEF NotifyChannel, Notify, BooksInv, OutboxInv
<1>3. CASE queued = {}
  BY <1>1, <1>2, <1>3 DEF ChannelInv
<1>4. CASE queued # {}
  <2>1. transit' = Append(transit, queued) /\ posted' = posted
    BY <1>1, <1>4 DEF Outbox!Put
  <2>2. queued \in Message
    BY <1>4, LinesOfTwoKinds DEF Message, SchedulerInv
  <2>3. ~ Follows(drops, queued, queued)
    BY <1>2, NewLinesLast
  <2>4. ASSUME NEW i \in 1 .. Len(transit)
        PROVE  ~ Follows(drops, transit[i], queued)
    <3>1. transit[i] \subseteq Waiting
      BY <1>2 DEF Waiting, LinesOf
    <3> QED
      BY <1>2, <3>1, NewLinesLast
  <2>5. ASSUME NEW i \in 1 .. Len(posted)
        PROVE  ~ Follows(drops, posted[i], queued)
    <3>1. posted[i] \subseteq Delivered
      BY <1>2 DEF Delivered, LinesOf
    <3> QED
      BY <1>2, <3>1, NewLinesLast
  <2>6. InOrder(drops, transit')
    BY <1>2, <2>1, <2>2, <2>3, <2>4, OrderAppend DEF ChannelInv
  <2>7. Ahead(drops, posted', transit')
    BY <1>2, <2>1, <2>2, <2>5, AheadAppend DEF ChannelInv
  <2> QED
    BY <1>2, <2>1, <2>6, <2>7 DEF ChannelInv
<1> QED
  BY <1>3, <1>4

\* The sender posts the first message of those that wait, or loses one.
LEMMA ChannelSender ==
    ASSUME BooksInv, ChannelInv, Sender
    PROVE  ChannelInv'
<1> USE DEF ChannelInv
<1>1. transit \in Seq(Message) /\ posted \in Seq(Message) /\ drops' = drops
  BY DEF BooksInv, OutboxInv, Sender, vars
<1>2. CASE Outbox!Post
  <2>1. transit # <<>> /\ transit' = Tail(transit) /\ posted' = Append(posted, Head(transit))
    BY <1>2 DEF Outbox!Post
  <2>2. /\ 1 \in 1 .. Len(transit) /\ Head(transit) = transit[1] /\ transit' \in Seq(Message)
        /\ Without(transit', transit, 1)
    BY <1>1, <2>1, TailWithout
  <2>3. PICK m \in Message : m = transit[1]
    BY <1>1, <2>2
  <2>4. posted' = Append(posted, m)
    BY <2>1, <2>2, <2>3
  <2>5. ~ Follows(drops, m, m) /\ \A i \in 1 .. Len(posted) : ~ Follows(drops, posted[i], m)
    BY <2>2, <2>3 DEF InOrder, Ahead
  <2>6. ASSUME NEW j \in 1 .. Len(transit')
        PROVE  ~ Follows(drops, m, transit'[j])
    <3>1. transit'[j] = transit[j + 1] /\ j + 1 \in 1 .. Len(transit) /\ ~ (j + 1 < 1)
      BY <1>1, <2>2 DEF Without
    <3> QED
      BY <2>2, <2>3, <3>1 DEF InOrder
  <2>7. InOrder(drops, posted')
    BY <1>1, <2>4, <2>5, OrderAppend
  <2>8. InOrder(drops, transit') /\ Ahead(drops, posted, transit')
    BY <1>1, <2>2, OrderWithout
  <2>9. Ahead(drops, posted', transit')
    BY <1>1, <2>2, <2>4, <2>6, <2>8, AheadAppend
  <2>10. Scattered(posted')
    <3>1. m \subseteq Waiting
      BY <1>1, <2>2, <2>3 DEF Waiting, LinesOf
    <3>2. m \cap LinesOf(posted) = {}
      BY <3>1 DEF BooksInv, Apart, Delivered
    <3> QED
      BY <1>1, <2>4, <3>2, LinesAppend
  <2> QED
    BY <1>1, <2>7, <2>8, <2>9, <2>10
<1>3. CASE Outbox!Lose
  <2>1. PICK i \in 1 .. Len(transit) : transit' = Outbox!RemoveAt(transit, i)
    BY <1>1, <1>3 DEF Outbox!Lose
  <2>2. posted' = posted
    BY <1>3 DEF Outbox!Lose
  <2>3. transit' \in Seq(Message) /\ Without(transit', transit, i)
    BY <1>1, <2>1, RemoveWithout
  <2>4. InOrder(drops, transit') /\ Ahead(drops, posted, transit')
    BY <1>1, <2>3, OrderWithout
  <2> QED
    BY <1>1, <2>2, <2>4
<1>4. CASE Outbox!Doubt
  BY <1>1, <1>4 DEF Outbox!Doubt
<1> QED
  BY <1>2, <1>3, <1>4 DEF Sender

\* Every step keeps the channel in order.
LEMMA ChannelStep ==
    ASSUME SchedulerInv, BooksInv, DraftsKnown, ChannelInv, [DeliveryNext]_allVars
    PROVE  ChannelInv'
<1>1. CASE StopAndStart
  <2>1. transit' = <<>> /\ posted' = posted /\ drops' = drops
    BY <1>1 DEF StopAndStart, Restart
  <2> QED
    BY <2>1 DEF ChannelInv, InOrder, Ahead
<1>2. CASE UNCHANGED outbox /\ UNCHANGED drops
  BY <1>2 DEF ChannelInv
<1>3. CASE UNCHANGED outbox /\ RowMoves
  BY <1>3, ChannelRow DEF SchedulerInv
<1>4. CASE UpToNotify /\ UNCHANGED delivery
  <2>1. CASE Refresh
    <3>1. RowMoves
      BY <2>1, RefreshIndex DEF SchedulerInv
    <3> QED
      BY <1>3, <1>4, <3>1
  <2>2. CASE ~ Refresh
    <3>1. drops' = drops
      BY <1>4, <2>2 DEF UpToNotify, Refresh, StartPoll, StartSeed, Probe, MarkDiscovered, CompleteCycle
    <3> QED
      BY <1>2, <1>4, <3>1
  <2> QED
    BY <2>1, <2>2
<1>5. CASE World /\ UNCHANGED delivery
  <2>1. drops' = drops
    BY <1>5 DEF World, CacheExpires, Upload, Age
  <2> QED
    BY <1>2, <1>5, <2>1
<1>6. CASE FailedPoll
  <2>1. CASE CacheWriteLost
    <3>1. RowMoves
      BY <2>1, DownloadedRow DEF CacheWriteLost, SchedulerInv
    <3> QED
      BY <1>3, <1>6, <3>1 DEF FailedPoll
  <2>2. CASE FailCycle \/ PollLost \/ CycleLost
    <3>1. drops' = drops
      BY <2>2 DEF FailCycle, PollLost, CycleLost, ForgoNews
    <3> QED
      BY <1>2, <1>6, <3>1 DEF FailedPoll
  <2> QED
    BY <1>6, <2>1, <2>2 DEF FailedPoll, Exception
<1>7. CASE NotifyChannel
  BY <1>7, ChannelNotify
<1>8. CASE Sender
  BY <1>8, ChannelSender
<1>9. CASE UNCHANGED allVars
  BY <1>2, <1>9 DEF allVars, vars
<1> QED
  BY <1>1, <1>4, <1>5, <1>6, <1>7, <1>8, <1>9 DEF DeliveryNext

\* It is in order.
LEMMA ChannelHolds == DeliverySpec => []ChannelInv
<1>1. DeliveryInit => ChannelInv
  BY DEF DeliveryInit, Outbox!Init, ChannelInv, Scattered, InOrder, Ahead
<1>2. Init => DraftsKnown
  BY DEF Init, DraftsKnown
<1>3. Spec => []SchedulerInv
  BY AlertsHold, PTL DEF SchedulerInv
<1>4. SchedulerInv /\ DraftsKnown /\ [Next]_vars => DraftsKnown'
  BY DraftsStep
<1>5. Spec => []DraftsKnown
  BY <1>2, <1>3, <1>4, PTL DEF Spec
<1>6. SchedulerInv /\ BooksInv /\ DraftsKnown /\ ChannelInv /\ [DeliveryNext]_allVars => ChannelInv'
  BY ChannelStep
<1> QED
  BY <1>1, <1>3, <1>5, <1>6, BooksHold, DeliveryIsScheduler, PTL DEF DeliverySpec

\* No line is in the channel twice, whatever fails and however often the process
\* starts again.
THEOREM ChannelReadsOnce == DeliverySpec => []PostedOnce
<1>1. ChannelInv /\ BooksInv => PostedOnce
  BY DEF ChannelInv, Scattered, PostedOnce, BooksInv, OutboxInv
<1> QED
  BY <1>1, ChannelHolds, BooksHold, PTL

\* The channel reads of a draft before it reads of the paper it became.
THEOREM ChannelReadsInOrder == DeliverySpec => []DraftsFirst
<1>1. ChannelInv /\ BooksInv => DraftsFirst
  <2> SUFFICES ASSUME ChannelInv, BooksInv,
                      NEW i \in DOMAIN posted, NEW j \in DOMAIN posted, NEW p \in Paper,
                      Now(p) \in posted[j], DraftsOf[p] \cap posted[i] # {}
               PROVE  i < j
    BY DEF DraftsFirst
  <2>1. i \in 1 .. Len(posted) /\ j \in 1 .. Len(posted)
    BY DEF BooksInv, OutboxInv
  <2>2. Follows(drops, posted[j], posted[i])
    BY DEF Follows, Now
  <2> QED
    BY <2>1, <2>2 DEF ChannelInv, InOrder
<1> QED
  BY <1>1, ChannelHolds, BooksHold, PTL
===============================================================================

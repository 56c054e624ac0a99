------------------------- MODULE MessageQueueProofs -------------------------
(***************************************************************************)
(* Proofs about MessageQueue, for every value of its constants: any number *)
(* of producers, messages and channels, any settings config.py accepts.    *)
(***************************************************************************)
EXTENDS MessageQueue, SequenceTheorems, TLAPS

USE DEF breaker, producers, sender, slack, outcome

-----------------------------------------------------------------------------
(* Type correctness *)

\* A busy sender and a busy producer have a message, only a call can have been
\* answered, and a backoff leaves an attempt to make.
Coherent ==
    /\ at # "idle" => hand \in Message
    /\ answered => at = "calling"
    /\ at = "backoff" => attempt < MaxRetries
    /\ \A p \in Producer : pc[p] # "idle" => item[p] \in Message

\* The breaker's methods keep the types of its fields.
LEMMA BreakerTypes ==
    ASSUME TypeOK, AllowSend \/ RecordSuccess \/ RecordFailure
    PROVE  /\ state' \in {Closed, Open, HalfOpen}
           /\ failures' \in Nat
           /\ openedAge' \in (0 .. Cooldown) \cup {Never}
           /\ tripAge' \in 0 .. Cooldown
BY SettingsAssumption DEF TypeOK, AllowSend, RecordSuccess, RecordFailure, Never

\* What is made of a Retry-After is a positive number of seconds, and no fewer than
\* the header asks for.
LEMMA RetryAfterPositive ==
    ASSUME NEW h \in Header \cup {NoSeconds}
    PROVE  /\ RetryAfter(h) \in Nat \ {0}
           /\ Asked(h) \in Nat
           /\ RetryAfter(h) >= Asked(h)
BY HeaderAssumption DEF RetryAfter, Asked

\* Resetting the age of one channel's last post keeps the type.
LEMMA AgeReset ==
    ASSUME NEW ages \in [Channel -> 0 .. 1], NEW c \in Channel
    PROVE  [ages EXCEPT ![c] = 0] \in [Channel -> 0 .. 1]
OBVIOUS

\* Every step keeps the types, and whoever is busy has a message.
LEMMA TypesStep == TypeOK /\ Coherent /\ [Next]_vars => (TypeOK /\ Coherent)'
<1> SUFFICES ASSUME TypeOK, Coherent, [Next]_vars
             PROVE  (TypeOK /\ Coherent)'
  OBVIOUS
<1> USE MessageAssumption, SettingsAssumption
<1>1. ASSUME NEW p \in Producer, NEW m \in Message, EnqueueRejected(p, m)
      PROVE  (TypeOK /\ Coherent)'
  BY <1>1 DEF EnqueueRejected, TypeOK, Coherent
<1>2. ASSUME NEW p \in Producer, NEW m \in Message, EnqueueAllowed(p, m)
      PROVE  (TypeOK /\ Coherent)'
  BY <1>2, BreakerTypes DEF EnqueueAllowed, TypeOK, Coherent
<1>3. ASSUME NEW p \in Producer, EnqueueStep(p)
      PROVE  (TypeOK /\ Coherent)'
  <2>1. CASE AcquireQueueLock(p)
    BY <2>1 DEF AcquireQueueLock, TypeOK, Coherent
  <2>2. CASE Put(p)
    BY <2>2 DEF Put, TypeOK, Coherent
  <2>3. CASE PutFull(p)
    BY <2>3 DEF PutFull, TypeOK, Coherent
  <2>4. CASE DropOldest(p)
    BY <2>4 DEF DropOldest, TypeOK, Coherent
  <2>5. CASE NothingToDrop(p)
    BY <2>5 DEF NothingToDrop, TypeOK, Coherent
  <2>6. CASE FinishEnqueue(p)
    <3>1. warned' \in BOOLEAN
      BY <2>6 DEF FinishEnqueue
    <3>2. pc' \in [Producer -> {"idle", "lock", "put", "full", "again", "put_done"}]
      BY <2>6 DEF FinishEnqueue, TypeOK
    <3>3. item' \in [Producer -> Message \cup {NoMessage}]
      BY <2>6 DEF FinishEnqueue, TypeOK
    <3>4. Coherent'
      BY <2>6 DEF FinishEnqueue, TypeOK, Coherent
    <3> QED
      BY <2>6, <3>1, <3>2, <3>3, <3>4 DEF FinishEnqueue, TypeOK
  <2> QED
    BY <1>3, <2>1, <2>2, <2>3, <2>4, <2>5, <2>6 DEF EnqueueStep
<1>4. CASE SenderStep
  <2>1. CASE TakeAndThrottle
    <3>1. q \in Seq(Message) /\ q # <<>>
      BY <2>1 DEF TakeAndThrottle, TypeOK
    <3>2. Head(q) \in Message /\ Tail(q) \in Seq(Message)
      BY <3>1, HeadTailProperties
    <3>3. sendAge[ChannelOf[Head(q)]] \in 0 .. 1
      BY <3>2 DEF TypeOK
    <3>4. sleep' \in Nat
      BY <2>1, <3>3 DEF TakeAndThrottle
    <3> QED
      BY <2>1, <3>2, <3>4 DEF TakeAndThrottle, TypeOK, Coherent
  <2>2. CASE DeadLetterOpen
    BY <2>2 DEF DeadLetterOpen, Release, TypeOK, Coherent
  <2>3. CASE PassGate
    BY <2>3, BreakerTypes DEF PassGate, TypeOK, Coherent
  <2>4. CASE Call
    BY <2>4 DEF Call, TypeOK, Coherent
  <2>5. CASE ReturnOk
    <3>1. sendAge' \in [Channel -> 0 .. 1]
      BY <2>5, AgeReset DEF ReturnOk, ChannelInHand, Coherent, TypeOK
    <3>2. hand' \in Message \cup {NoMessage} /\ attempt' \in 0 .. MaxRetries /\ sleep' \in Nat
      BY <2>5 DEF ReturnOk, Release
    <3>3. Coherent'
      BY <2>5 DEF ReturnOk, Release, Coherent
    <3> QED
      BY <2>5, <3>1, <3>2, <3>3, BreakerTypes DEF ReturnOk, Release, TypeOK
  <2>6. ASSUME NEW h \in Header \cup {NoSeconds}, Return429(h)
        PROVE  (TypeOK /\ Coherent)'
    BY <2>6, RetryAfterPositive DEF Return429, TypeOK, Coherent
  <2>7. ASSUME NEW h \in Header \cup {NoSeconds}, Exhausted429(h)
        PROVE  (TypeOK /\ Coherent)'
    BY <2>7, RetryAfterPositive, BreakerTypes DEF Exhausted429, Release, TypeOK, Coherent
  <2>8. CASE Retry
    <3>1. sendAge' \in [Channel -> 0 .. 1]
      BY <2>8, AgeReset DEF Retry, ChannelInHand, Coherent, TypeOK
    <3>2. attempt' \in 0 .. MaxRetries
      BY <2>8 DEF Retry, Coherent, TypeOK
    <3> QED
      BY <2>8, <3>1, <3>2 DEF Retry, TypeOK, Coherent
  <2>9. CASE ReturnError
    <3>1. hand' \in Message \cup {NoMessage} /\ attempt' \in 0 .. MaxRetries /\ sleep' \in Nat
      BY <2>9 DEF ReturnError, Release
    <3>2. logged' \in SUBSET Message /\ Coherent'
      BY <2>9 DEF ReturnError, Release, Coherent, TypeOK
    <3> QED
      BY <2>9, <3>1, <3>2, BreakerTypes DEF ReturnError, Release, TypeOK
  <2> QED
    BY <1>4, <2>1, <2>2, <2>3, <2>4, <2>5, <2>6, <2>7, <2>8, <2>9 DEF SenderStep
<1>5. CASE SlackPosts
  BY <1>5 DEF SlackPosts, ChannelInHand, TypeOK, Coherent
<1>6. CASE Tick
  BY <1>6 DEF Tick, Older, Sooner, Never, TypeOK, Coherent
<1>7. CASE UNCHANGED vars
  BY <1>7 DEF vars, TypeOK, Coherent
<1> QED
  BY <1>1, <1>2, <1>3, <1>4, <1>5, <1>6, <1>7 DEF Next, Enqueue

\* Every variable keeps to the values TypeOK lists.
THEOREM TypeCorrect == Spec => [](TypeOK /\ Coherent)
<1>1. Init => TypeOK /\ Coherent
  <2> SUFFICES ASSUME Init PROVE TypeOK /\ Coherent
    OBVIOUS
  <2>1. q \in Seq(Message) /\ posted \in Seq(Message)
    BY DEF Init
  <2>2. sendAge \in [Channel -> 0 .. 1] /\ postAge \in [Channel -> 0 .. 1]
    BY DEF Init
  <2>3. attempt \in 0 .. MaxRetries /\ tripAge \in 0 .. Cooldown
    BY SettingsAssumption DEF Init
  <2> QED
    BY <2>1, <2>2, <2>3 DEF Init, TypeOK, Coherent
<1> QED
  BY <1>1, TypesStep, PTL DEF Spec

-----------------------------------------------------------------------------
(* The circuit breaker *)

\* The strengthening: while OPEN, the code's opening time is the latest trip.
BreakerInv ==
    /\ BreakerConsistent
    /\ NoPostWhileOpen
    /\ state = Open => openedAge = tripAge

\* The steps that use the breaker keep the invariant, and OPEN is left properly.
LEMMA BreakerStep ==
    ASSUME TypeOK, Coherent, BreakerInv, [Next]_vars
    PROVE  /\ BreakerInv'
           /\ state = Open /\ state' # Open => state' = HalfOpen /\ tripAge = Cooldown
<1> USE SettingsAssumption DEF BreakerInv, BreakerConsistent, NoPostWhileOpen,
                              Open, Closed, HalfOpen, Never
<1> DEFINE Goal == /\ BreakerInv'
                   /\ state = Open /\ state' # Open => state' = HalfOpen /\ tripAge = Cooldown
<1>1. ASSUME NEW p \in Producer, NEW m \in Message, EnqueueRejected(p, m)
      PROVE  Goal
  BY <1>1 DEF EnqueueRejected
<1>2. ASSUME NEW p \in Producer, NEW m \in Message, EnqueueAllowed(p, m)
      PROVE  Goal
  BY <1>2 DEF EnqueueAllowed, AllowSend, TypeOK
<1>3. ASSUME NEW p \in Producer, EnqueueStep(p)
      PROVE  Goal
  BY <1>3 DEF EnqueueStep, AcquireQueueLock, Put, PutFull, DropOldest, NothingToDrop,
              FinishEnqueue
<1>4. CASE SenderStep
  <2>1. CASE TakeAndThrottle
    BY <2>1 DEF TakeAndThrottle
  <2>2. CASE DeadLetterOpen
    BY <2>2 DEF DeadLetterOpen, Release
  <2>3. CASE PassGate
    BY <2>3 DEF PassGate, MaySend, AllowSend, TypeOK
  <2>4. CASE Call
    BY <2>4 DEF Call
  <2>5. CASE ReturnOk
    BY <2>5 DEF ReturnOk, RecordSuccess, Release
  <2>6. ASSUME NEW h \in Header \cup {NoSeconds}, Return429(h)
        PROVE  Goal
    BY <2>6 DEF Return429
  <2>7. ASSUME NEW h \in Header \cup {NoSeconds}, Exhausted429(h)
        PROVE  Goal
    BY <2>7 DEF Exhausted429, RecordFailure, Trips, Release, TypeOK
  <2>8. CASE Retry
    BY <2>8 DEF Retry
  <2>9. CASE ReturnError
    BY <2>9 DEF ReturnError, RecordFailure, Trips, Release, TypeOK
  <2> QED
    BY <1>4, <2>1, <2>2, <2>3, <2>4, <2>5, <2>6, <2>7, <2>8, <2>9 DEF SenderStep
<1>5. CASE SlackPosts
  BY <1>5 DEF SlackPosts
<1>6. CASE Tick
  BY <1>6 DEF Tick, Older, TypeOK
<1>7. CASE UNCHANGED vars
  BY <1>7 DEF vars
<1> QED
  BY <1>1, <1>2, <1>3, <1>4, <1>5, <1>6, <1>7 DEF Next, Enqueue

\* The breaker's fields agree, and no call to Slack is under way while it is
\* OPEN, however the producers and the sender interleave.
THEOREM BreakerSafe == Spec => [](BreakerConsistent /\ NoPostWhileOpen)
<1>1. Init => BreakerInv
  BY SettingsAssumption DEF Init, BreakerInv, BreakerConsistent, NoPostWhileOpen,
                            Closed, Open, Never
<1>2. TypeOK /\ Coherent /\ BreakerInv /\ [Next]_vars => BreakerInv'
  BY BreakerStep
<1>3. BreakerInv => BreakerConsistent /\ NoPostWhileOpen
  BY DEF BreakerInv
<1> QED
  BY <1>1, <1>2, <1>3, TypeCorrect, PTL DEF Spec

\* OPEN is left for HALF_OPEN only, and only a cooldown after the latest trip.
THEOREM CooldownRespected == Spec => CooldownKept
<1> DEFINE Leaves == state = Open /\ state' # Open => state' = HalfOpen /\ tripAge = Cooldown
<1>1. Init => BreakerInv
  BY SettingsAssumption DEF Init, BreakerInv, BreakerConsistent, NoPostWhileOpen,
                            Closed, Open, Never
<1>2. TypeOK /\ Coherent /\ BreakerInv /\ [Next]_vars => BreakerInv' /\ [Leaves]_vars
  BY BreakerStep
<1> QED
  BY <1>1, <1>2, TypeCorrect, PTL DEF Spec, CooldownKept

-----------------------------------------------------------------------------
(* Waiting: Retry-After, and a second between two posts *)

\* What the sender has waited for, or still has to: in a backoff at least the
\* Retry-After, and a tick since anything was posted; before a first attempt the
\* second after _last_send.
WaitInv ==
    /\ at \in {"idle", "throttled"} => attempt = 0
    /\ at = "throttled" => sendAge[ChannelInHand] = 1 \/ sleep > 0
    /\ at \in {"try", "calling"} /\ attempt = 0 => sendAge[ChannelInHand] = 1
    /\ at = "backoff" => sleep >= embargo /\ (sleep = 0 => postAge[ChannelInHand] = 1)
    /\ at \in {"try", "calling"} /\ attempt > 0 =>
          embargo = 0 /\ (~ answered => postAge[ChannelInHand] = 1)

\* A step of a producer changes nothing of the sender and of Slack.
LEMMA ProducersApart ==
    ASSUME NEW p \in Producer, Enqueue(p) \/ EnqueueStep(p)
    PROVE  UNCHANGED <<sender, slack>> /\ logged \subseteq logged'
BY DEF Enqueue, EnqueueRejected, EnqueueAllowed, EnqueueStep, AcquireQueueLock, Put, PutFull,
       DropOldest, NothingToDrop, FinishEnqueue

\* Every step keeps the invariant.
LEMMA WaitStep == TypeOK /\ Coherent /\ WaitInv /\ [Next]_vars => WaitInv'
<1> SUFFICES ASSUME TypeOK, Coherent, WaitInv, [Next]_vars
             PROVE  WaitInv'
  OBVIOUS
<1> USE DEF WaitInv, ChannelInHand
<1>0. at # "idle" => ChannelOf[hand] \in Channel
  BY MessageAssumption DEF Coherent
<1>1. ASSUME NEW p \in Producer, Enqueue(p) \/ EnqueueStep(p)
      PROVE  WaitInv'
  BY <1>1, ProducersApart
<1>2. CASE SenderStep
  <2>1. CASE TakeAndThrottle
    <3>1. hand' = Head(q) /\ sleep' = 1 - sendAge[ChannelOf[Head(q)]] /\ at' = "throttled"
          /\ at = "idle" /\ attempt' = attempt /\ sendAge' = sendAge
      BY <2>1 DEF TakeAndThrottle
    <3>2. ChannelOf[Head(q)] \in Channel
      BY <2>1, MessageAssumption, HeadTailProperties DEF TakeAndThrottle, TypeOK
    <3>3. sendAge[ChannelOf[Head(q)]] \in 0 .. 1
      BY <3>2 DEF TypeOK
    <3> QED
      BY <3>1, <3>3
  <2>2. CASE DeadLetterOpen \/ ReturnOk \/ ReturnError
             \/ \E h \in Header \cup {NoSeconds} : Exhausted429(h)
    <3>1. at' = "idle" /\ attempt' = 0
      BY <2>2 DEF DeadLetterOpen, ReturnOk, ReturnError, Exhausted429, Release
    <3> QED
      BY <3>1
  <2>3. CASE PassGate \/ Call
    BY <2>3 DEF PassGate, Call, Coherent
  <2>4. ASSUME NEW h \in Header \cup {NoSeconds}, Return429(h)
        PROVE  WaitInv'
    <3>1. at' = "backoff" /\ sleep' = RetryAfter(h) /\ embargo' = Asked(h)
      BY <2>4 DEF Return429
    <3> QED
      BY <3>1, RetryAfterPositive
  <2>5. CASE Retry
    BY <2>5 DEF Retry, TypeOK
  <2> QED
    BY <1>2, <2>1, <2>2, <2>3, <2>4, <2>5 DEF SenderStep
<1>3. CASE SlackPosts
  BY <1>3 DEF SlackPosts
<1>4. CASE Tick
  <2>1. UNCHANGED <<at, hand, attempt, answered>> /\ sleep' = Sooner(sleep) /\ embargo' = Sooner(embargo)
    BY <1>4 DEF Tick
  <2>2. at # "idle" => sendAge'[ChannelOf[hand]] = 1 /\ postAge'[ChannelOf[hand]] = 1
    BY <1>0, <1>4 DEF Tick, Older, TypeOK
  <2>3. sleep \in Nat /\ embargo \in Nat
    BY DEF TypeOK
  <2>4. (embargo = 0 => embargo' = 0) /\ (sleep >= embargo => sleep' >= embargo')
    BY <2>1, <2>3 DEF Sooner
  <2> QED
    BY <2>1, <2>2, <2>4
<1>5. CASE UNCHANGED vars
  BY <1>5 DEF vars
<1> QED
  BY <1>1, <1>2, <1>3, <1>4, <1>5 DEF Next

\* The invariant holds, with the types it needs.
LEMMA WaitHolds == Spec => [](TypeOK /\ Coherent /\ WaitInv)
<1>1. Init => WaitInv
  BY DEF Init, WaitInv
<1> QED
  BY <1>1, WaitStep, TypeCorrect, PTL DEF Spec

\* A message is only tried again when the Retry-After of its last 429 has passed.
THEOREM RetriesWait == Spec => []RetriesWaitRetryAfter
<1>1. WaitInv => RetriesWaitRetryAfter
  BY DEF WaitInv, RetriesWaitRetryAfter
<1> QED
  BY <1>1, WaitHolds, PTL

\* The last post of a channel is the one just appended, or the one it was.
LEMMA LastPostAppended ==
    ASSUME NEW c \in Channel, posted \in Seq(Message), NEW m \in Message,
           posted' = Append(posted, m)
    PROVE  /\ ChannelOf[m] = c => LastPostOf(c)' = Len(posted')
           /\ ChannelOf[m] # c => LastPostOf(c)' = LastPostOf(c)
<1>1. /\ Len(posted') = Len(posted) + 1 /\ Len(posted) \in Nat
      /\ \A i \in 1 .. Len(posted) : posted'[i] = posted[i]
      /\ posted'[Len(posted) + 1] = m
  BY AppendProperties
<1> DEFINE I == {i \in 1 .. Len(posted) : ChannelOf[posted[i]] = c}
           J == {i \in 1 .. Len(posted') : ChannelOf[posted'[i]] = c}
<1>2. LastPostOf(c) = IF I # {} THEN Max(I) ELSE 0
  BY DEF LastPostOf, SelectLastInSeq
<1>3. LastPostOf(c)' = IF J # {} THEN Max(J) ELSE 0
  BY DEF LastPostOf, SelectLastInSeq
<1>4. CASE ChannelOf[m] = c
  <2>1. Len(posted') \in J /\ \A i \in J : Len(posted') >= i /\ i \in Nat
    BY <1>1, <1>4
  <2> HIDE DEF J
  <2>2. Max(J) \in J /\ \A i \in J : Max(J) >= i
    BY <2>1 DEF Max
  <2>3. Max(J) = Len(posted')
    BY <1>1, <2>1, <2>2
  <2> QED
    BY <1>3, <1>4, <2>1, <2>3
<1>5. CASE ChannelOf[m] # c
  <2>1. I = J
    BY <1>1, <1>5
  <2> QED
    BY <1>2, <1>3, <1>5, <2>1
<1> QED
  BY <1>4, <1>5

\* With nothing posted, every channel's last post is the one it was.
LEMMA LastPostKept ==
    ASSUME NEW c \in Channel, posted' = posted
    PROVE  LastPostOf(c)' = LastPostOf(c)
<1> DEFINE I == {i \in 1 .. Len(posted) : ChannelOf[posted[i]] = c}
           J == {i \in 1 .. Len(posted') : ChannelOf[posted'[i]] = c}
<1>1. LastPostOf(c) = IF I # {} THEN Max(I) ELSE 0
  BY DEF LastPostOf, SelectLastInSeq
<1>2. LastPostOf(c)' = IF J # {} THEN Max(J) ELSE 0
  BY DEF LastPostOf, SelectLastInSeq
<1>3. I = J
  OBVIOUS
<1> QED
  BY <1>1, <1>2, <1>3

\* Why a channel's last post was less than a second ago: the code knows of it, or
\* has given its message up, or has yet to hear of it.
PostInv ==
    \A c \in Channel : postAge[c] = 0 =>
        /\ LastPostOf(c) \in 1 .. Len(posted)
        /\ \/ sendAge[c] = 0
           \/ posted[LastPostOf(c)] \in logged
           \/ answered /\ c = ChannelInHand /\ posted[LastPostOf(c)] = hand

\* A step that posts nothing and hears of nothing.
LEMMA PostsQuietly ==
    ASSUME TypeOK, PostInv,
           UNCHANGED <<posted, postAge, answered>>, logged \subseteq logged',
           answered => hand' = hand,
           \A c \in Channel : sendAge[c] = 0 => sendAge'[c] = 0
    PROVE  PostInv'
<1>1. \A c \in Channel : LastPostOf(c)' = LastPostOf(c)
  BY LastPostKept
<1> QED
  BY <1>1 DEF PostInv, ChannelInHand

\* Every step keeps the invariant.
LEMMA PostStep == TypeOK /\ Coherent /\ PostInv /\ [Next]_vars => PostInv'
<1> SUFFICES ASSUME TypeOK, Coherent, PostInv, [Next]_vars
             PROVE  PostInv'
  OBVIOUS
<1>1. ASSUME NEW p \in Producer, Enqueue(p) \/ EnqueueStep(p)
      PROVE  PostInv'
  BY <1>1, ProducersApart, PostsQuietly
<1>2. CASE SenderStep
  <2>1. CASE TakeAndThrottle \/ DeadLetterOpen
    <3>1. ~ answered
      BY <2>1 DEF TakeAndThrottle, DeadLetterOpen, Coherent
    <3>2. UNCHANGED <<posted, postAge, answered, sendAge>> /\ logged \subseteq logged'
      BY <2>1 DEF TakeAndThrottle, DeadLetterOpen
    <3> QED
      BY <3>1, <3>2, PostsQuietly
  <2>2. CASE PassGate \/ Call
    BY <2>2, PostsQuietly DEF PassGate, Call
  <2>3. CASE Retry
    <3>1. UNCHANGED <<posted, postAge, answered, hand, logged>>
      BY <2>3 DEF Retry
    <3>2. \A c \in Channel : sendAge[c] = 0 => sendAge'[c] = 0
      BY <2>3 DEF Retry, TypeOK
    <3> QED
      BY <3>1, <3>2, PostsQuietly
  <2>4. ASSUME NEW h \in Header \cup {NoSeconds}, Return429(h) \/ Exhausted429(h)
        PROVE  PostInv'
    <3>1. /\ ~ answered /\ UNCHANGED <<posted, postAge, answered, sendAge>>
          /\ logged \subseteq logged'
      BY <2>4 DEF Return429, Exhausted429
    <3> QED
      BY <3>1, PostsQuietly
  <2>5. CASE ReturnOk
    <3>1. /\ UNCHANGED <<posted, postAge, logged>>
          /\ sendAge' = [sendAge EXCEPT ![ChannelInHand] = 0]
      BY <2>5 DEF ReturnOk
    <3>2. \A c \in Channel : LastPostOf(c)' = LastPostOf(c)
      BY <3>1, LastPostKept
    <3>3. \A c \in Channel : sendAge[c] = 0 \/ c = ChannelInHand => sendAge'[c] = 0
      BY <3>1 DEF TypeOK
    <3> QED
      BY <3>1, <3>2, <3>3 DEF PostInv
  <2>6. CASE ReturnError
    <3>1. UNCHANGED <<posted, postAge, sendAge>> /\ logged' = logged \cup {hand}
      BY <2>6 DEF ReturnError
    <3>2. \A c \in Channel : LastPostOf(c)' = LastPostOf(c)
      BY <3>1, LastPostKept
    <3> QED
      BY <3>1, <3>2 DEF PostInv
  <2> QED
    BY <1>2, <2>1, <2>2, <2>3, <2>4, <2>5, <2>6 DEF SenderStep
<1>3. CASE SlackPosts
  <2>1. /\ posted' = Append(posted, hand) /\ hand \in Message /\ posted \in Seq(Message)
        /\ postAge' = [postAge EXCEPT ![ChannelInHand] = 0]
        /\ answered' = TRUE /\ UNCHANGED <<hand, sendAge, logged>> /\ ~ answered
    BY <1>3 DEF SlackPosts, Coherent, TypeOK
  <2>2. /\ Len(posted') = Len(posted) + 1 /\ Len(posted) \in Nat
        /\ \A i \in 1 .. Len(posted) : posted'[i] = posted[i]
        /\ posted'[Len(posted) + 1] = hand
    BY <2>1, AppendProperties
  <2> SUFFICES ASSUME NEW c \in Channel, postAge'[c] = 0
               PROVE  /\ LastPostOf(c)' \in 1 .. Len(posted')
                      /\ \/ sendAge[c] = 0
                         \/ posted'[LastPostOf(c)'] \in logged
                         \/ c = ChannelInHand /\ posted'[LastPostOf(c)'] = hand
    BY <2>1 DEF PostInv, ChannelInHand
  <2>3. CASE ChannelOf[hand] = c
    <3>1. LastPostOf(c)' = Len(posted')
      BY <2>1, <2>3, LastPostAppended
    <3> QED
      BY <2>2, <2>3, <3>1 DEF ChannelInHand
  <2>4. CASE ChannelOf[hand] # c
    <3>1. LastPostOf(c)' = LastPostOf(c)
      BY <2>1, <2>4, LastPostAppended
    <3>2. postAge[c] = 0
      BY <2>1, <2>4 DEF ChannelInHand, TypeOK
    <3>3. /\ LastPostOf(c) \in 1 .. Len(posted)
          /\ sendAge[c] = 0 \/ posted[LastPostOf(c)] \in logged
      BY <2>1, <3>2 DEF PostInv
    <3>4. 1 .. Len(posted) \subseteq 1 .. Len(posted')
      BY <2>2
    <3> QED
      BY <2>2, <3>1, <3>3, <3>4
  <2> QED
    BY <2>3, <2>4
<1>4. CASE Tick
  <2>1. \A c \in Channel : postAge'[c] # 0
    BY <1>4 DEF Tick, Older, TypeOK
  <2> QED
    BY <2>1 DEF PostInv
<1>5. CASE UNCHANGED vars
  BY <1>5, PostsQuietly DEF vars
<1> QED
  BY <1>1, <1>2, <1>3, <1>4, <1>5 DEF Next

\* Slack sees at most one message a second on a channel, unless the call for the
\* last one raised after Slack had posted it.
THEOREM PostsAreSpaced == Spec => []PostsSpaced
<1>1. Init => PostInv
  BY DEF Init, PostInv
<1>2. TypeOK /\ Coherent /\ WaitInv /\ PostInv => PostsSpaced
  <2> SUFFICES ASSUME TypeOK, Coherent, WaitInv, PostInv, at \in {"try", "calling"},
                      ~ answered, postAge[ChannelInHand] = 0
               PROVE  posted[LastPostOf(ChannelInHand)] \in logged
    BY DEF PostsSpaced
  <2>1. ChannelInHand \in Channel
    BY MessageAssumption DEF Coherent, ChannelInHand
  <2>2. attempt = 0
    <3>1. attempt \in Nat
      BY DEF TypeOK
    <3> QED
      BY <3>1 DEF WaitInv
  <2>3. sendAge[ChannelInHand] = 1
    BY <2>2 DEF WaitInv
  <2> QED
    BY <2>1, <2>3 DEF PostInv
<1> QED
  BY <1>1, <1>2, PostStep, WaitHolds, PTL DEF Spec

-----------------------------------------------------------------------------
(* Sequences without repetitions *)

Distinct(s) == \A i, j \in 1 .. Len(s) : s[i] = s[j] => i = j

\* The members of a longer sequence.
LEMMA AppendMembers ==
    ASSUME NEW S, NEW s \in Seq(S), NEW e \in S
    PROVE  /\ ToSet(Append(s, e)) = ToSet(s) \cup {e}
           /\ Distinct(s) /\ e \notin ToSet(s) => Distinct(Append(s, e))
<1>1. /\ Len(Append(s, e)) = Len(s) + 1
      /\ \A i \in 1 .. Len(s) : Append(s, e)[i] = s[i]
      /\ Append(s, e)[Len(s) + 1] = e
      /\ Append(s, e) \in Seq(S)
  BY AppendProperties
<1>2. Len(s) \in Nat /\ DOMAIN s = 1 .. Len(s) /\ DOMAIN Append(s, e) = 1 .. Len(s) + 1
  BY <1>1
<1>3. ToSet(Append(s, e)) = ToSet(s) \cup {e}
  BY <1>1, <1>2 DEF ToSet
<1>4. ASSUME Distinct(s), e \notin ToSet(s), NEW i \in 1 .. Len(s) + 1,
             NEW j \in 1 .. Len(s) + 1, Append(s, e)[i] = Append(s, e)[j]
      PROVE  i = j
  BY <1>1, <1>2, <1>4 DEF Distinct, ToSet
<1> QED
  BY <1>1, <1>3, <1>4 DEF Distinct

\* The members of a sequence are its head and those of its tail.
LEMMA TailMembers ==
    ASSUME NEW S, NEW s \in Seq(S), s # <<>>
    PROVE  /\ Head(s) \in S /\ Tail(s) \in Seq(S)
           /\ ToSet(s) = {Head(s)} \cup ToSet(Tail(s))
           /\ Distinct(s) => Distinct(Tail(s)) /\ Head(s) \notin ToSet(Tail(s))
<1>1. /\ Head(s) \in S /\ Tail(s) \in Seq(S)
      /\ Len(Tail(s)) = Len(s) - 1
      /\ \A i \in 1 .. Len(Tail(s)) : Tail(s)[i] = s[i + 1]
  BY HeadTailProperties
<1>2. Head(s) = s[1] /\ Len(s) \in Nat \ {0}
  OBVIOUS
<1>3. DOMAIN s = 1 .. Len(s) /\ DOMAIN Tail(s) = 1 .. Len(s) - 1
  BY <1>1
<1>4. ASSUME NEW i \in 1 .. Len(s)
      PROVE  s[i] \in {Head(s)} \cup ToSet(Tail(s))
  <2>1. CASE i = 1
    BY <1>2, <2>1
  <2>2. CASE i # 1
    <3>1. i - 1 \in 1 .. Len(s) - 1
      BY <1>2, <2>2
    <3>2. Tail(s)[i - 1] = s[i]
      BY <1>1, <3>1
    <3> QED
      BY <1>3, <3>1, <3>2 DEF ToSet
  <2> QED
    BY <2>1, <2>2
<1>5. {Head(s)} \cup ToSet(Tail(s)) \subseteq ToSet(s)
  BY <1>1, <1>2, <1>3 DEF ToSet
<1>6. Distinct(s) => Distinct(Tail(s)) /\ Head(s) \notin ToSet(Tail(s))
  BY <1>1, <1>2, <1>3 DEF Distinct, ToSet
<1>7. ToSet(s) \subseteq {Head(s)} \cup ToSet(Tail(s))
  BY <1>3, <1>4 DEF ToSet
<1> QED
  BY <1>1, <1>5, <1>6, <1>7

-----------------------------------------------------------------------------
(* The lock, and the size of the queue *)

Critical == {"put", "full", "again", "put_done"}

\* The strengthening of EvictionMakesRoom: whoever is between acquiring and
\* releasing _queue_lock is its only owner, and only an owner makes q longer.
SizeInv ==
    /\ \A p \in Producer : pc[p] \in Critical => lockOwner = {p}
    /\ Len(q) <= MaxSize
    /\ EvictionMakesRoom

\* A producer's step keeps the invariant.
LEMMA SizeEnqueue ==
    ASSUME TypeOK, SizeInv, NEW p \in Producer, EnqueueStep(p)
    PROVE  SizeInv'
<1> USE SettingsAssumption DEF SizeInv, EvictionMakesRoom, Critical, TypeOK
<1>1. CASE AcquireQueueLock(p)
  BY <1>1 DEF AcquireQueueLock
<1>2. CASE Put(p)
  <2>1. Len(q') = Len(q) + 1 /\ Len(q) < MaxSize
    BY <1>2, AppendProperties DEF Put
  <2>2. \A r \in Producer : r # p => pc[r] \notin Critical
    BY <1>2 DEF Put
  <2> QED
    BY <1>2, <2>1, <2>2 DEF Put
<1>3. CASE PutFull(p)
  BY <1>3 DEF PutFull
<1>4. CASE DropOldest(p)
  <2>1. Len(q') = Len(q) - 1
    BY <1>4, HeadTailProperties DEF DropOldest
  <2> QED
    BY <1>4, <2>1 DEF DropOldest
<1>5. CASE NothingToDrop(p)
  BY <1>5 DEF NothingToDrop
<1>6. CASE FinishEnqueue(p)
  <2>1. \A r \in Producer : r # p => pc[r] \notin Critical
    BY <1>6 DEF FinishEnqueue
  <2> QED
    BY <1>6, <2>1 DEF FinishEnqueue
<1> QED
  BY <1>1, <1>2, <1>3, <1>4, <1>5, <1>6 DEF EnqueueStep

\* Every step keeps the invariant.
LEMMA SizeStep == TypeOK /\ SizeInv /\ [Next]_vars => SizeInv'
<1> SUFFICES ASSUME TypeOK, SizeInv, [Next]_vars
             PROVE  SizeInv'
  OBVIOUS
<1> USE DEF SizeInv, EvictionMakesRoom, Critical
<1>1. ASSUME NEW p \in Producer, Enqueue(p)
      PROVE  SizeInv'
  BY <1>1 DEF Enqueue, EnqueueRejected, EnqueueAllowed, TypeOK
<1>2. CASE TakeAndThrottle
  <2>1. Len(q') = Len(q) - 1 /\ Len(q) \in Nat
    BY <1>2, HeadTailProperties DEF TakeAndThrottle, TypeOK
  <2> QED
    BY <1>2, <2>1, SettingsAssumption DEF TakeAndThrottle
<1>3. ASSUME UNCHANGED <<q, lockOwner, pc>>
      PROVE  SizeInv'
  BY <1>3
<1>4. SenderStep => TakeAndThrottle \/ UNCHANGED <<q, lockOwner, pc>>
  BY DEF SenderStep, DeadLetterOpen, PassGate, Call, ReturnOk, Return429, Exhausted429,
         Retry, ReturnError
<1>5. SlackPosts \/ Tick \/ UNCHANGED vars => UNCHANGED <<q, lockOwner, pc>>
  BY DEF SlackPosts, Tick, vars
<1> QED
  BY <1>1, <1>2, <1>3, <1>4, <1>5, SizeEnqueue DEF Next

\* Dropping the oldest message makes room for good.
THEOREM EvictionSuffices == Spec => []EvictionMakesRoom
<1>1. Init => SizeInv
  BY SettingsAssumption DEF Init, SizeInv, EvictionMakesRoom, Critical
<1>2. SizeInv => EvictionMakesRoom
  BY DEF SizeInv
<1> QED
  BY <1>1, <1>2, SizeStep, TypeCorrect, PTL DEF Spec

-----------------------------------------------------------------------------
(* Every accepted message is somewhere *)

\* A producer has a message it has not put on the queue yet.
Pending == {p \in Producer : pc[p] \in {"lock", "put", "full", "again"}}

\* The strengthening of NoSilentLoss: a message is in one place only, and one
\* Slack has answered for is among those it posted.
LossInv ==
    /\ NoSilentLoss
    /\ Distinct(q) /\ InHand \cap ToSet(q) = {}
    /\ answered => hand \in ToSet(posted)
    /\ accepted \subseteq offered
    /\ \A p \in Pending : item[p] \in offered \ accepted
    /\ \A p, r \in Pending : item[p] = item[r] => p = r

\* A producer's steps keep the invariant.
LEMMA LossEnqueue ==
    ASSUME TypeOK, Coherent, LossInv, NEW p \in Producer, Enqueue(p) \/ EnqueueStep(p)
    PROVE  LossInv'
<1> USE DEF LossInv, NoSilentLoss, InHand, Pending
<1>1. ASSUME NEW m \in Message, EnqueueRejected(p, m)
      PROVE  LossInv'
  BY <1>1 DEF EnqueueRejected
<1>2. ASSUME NEW m \in Message, EnqueueAllowed(p, m)
      PROVE  LossInv'
  BY <1>2 DEF EnqueueAllowed, TypeOK
<1>3. CASE AcquireQueueLock(p)
  BY <1>3 DEF AcquireQueueLock, TypeOK
<1>4. CASE Put(p)
  <2>1. p \in Pending /\ item[p] \in Message /\ item[p] \in offered \ accepted
    BY <1>4 DEF Put, Coherent
  <2>2. q' = Append(q, item[p]) /\ accepted' = accepted \cup {item[p]}
    BY <1>4 DEF Put
  <2>3. ToSet(q') = ToSet(q) \cup {item[p]} /\ Distinct(q')
    BY <2>1, <2>2, AppendMembers DEF TypeOK
  <2>4. /\ UNCHANGED <<offered, at, hand, item, answered, posted, logged>>
        /\ Pending' = Pending \ {p}
    BY <1>4 DEF Put, TypeOK
  <2>5. NoSilentLoss' /\ InHand' \cap ToSet(q') = {}
    BY <2>1, <2>2, <2>3, <2>4
  <2> HIDE DEF Pending
  <2> QED
    BY <2>1, <2>2, <2>3, <2>4, <2>5
<1>5. CASE PutFull(p)
  BY <1>5 DEF PutFull, TypeOK
<1>6. CASE DropOldest(p)
  <2>1. ToSet(q) = {Head(q)} \cup ToSet(q') /\ Distinct(q') /\ Head(q) \notin ToSet(q')
    BY <1>6, TailMembers DEF DropOldest, TypeOK
  <2>2. /\ UNCHANGED <<offered, accepted, at, hand, item, answered, posted>>
        /\ logged' = logged \cup {Head(q)}
        /\ Pending' = Pending
    BY <1>6 DEF DropOldest, TypeOK
  <2>3. NoSilentLoss' /\ InHand' \cap ToSet(q') = {}
    BY <2>1, <2>2
  <2> HIDE DEF Pending
  <2> QED
    BY <2>1, <2>2, <2>3
<1>7. CASE NothingToDrop(p)
  BY <1>7 DEF NothingToDrop, TypeOK
<1>8. CASE FinishEnqueue(p)
  <2>1. /\ UNCHANGED <<q, offered, outcome, at, hand, answered, posted>>
        /\ Pending' = Pending /\ p \notin Pending
        /\ \A r \in Pending : item'[r] = item[r]
    BY <1>8 DEF FinishEnqueue, TypeOK
  <2> HIDE DEF Pending
  <2> QED
    BY <2>1
<1> QED
  BY <1>1, <1>2, <1>3, <1>4, <1>5, <1>6, <1>7, <1>8 DEF Enqueue, EnqueueStep

\* The sender lets go of a message that is posted, or in the log now.
LEMMA LossRelease ==
    ASSUME Coherent, LossInv, at # "idle", Release,
           UNCHANGED <<q, producers, posted, accepted>>, answered' = FALSE,
           \/ hand \in ToSet(posted) /\ logged' = logged
           \/ logged' = logged \cup {hand}
    PROVE  LossInv'
<1>1. InHand = {hand} /\ InHand' = {} /\ Pending' = Pending
  BY DEF InHand, Release, Pending
<1> QED
  BY <1>1 DEF LossInv, NoSilentLoss, Distinct, ToSet

\* The sender's steps keep the invariant.
LEMMA LossSender ==
    ASSUME TypeOK, Coherent, LossInv, SenderStep \/ SlackPosts
    PROVE  LossInv'
<1>1. CASE TakeAndThrottle
  <2>1. ToSet(q) = {Head(q)} \cup ToSet(q') /\ Distinct(q') /\ Head(q) \notin ToSet(q')
    BY <1>1, TailMembers DEF TakeAndThrottle, TypeOK, LossInv
  <2>2. /\ UNCHANGED <<producers, slack, outcome>>
        /\ Pending' = Pending /\ InHand = {} /\ InHand' = {Head(q)}
        /\ ~ answered
    BY <1>1 DEF TakeAndThrottle, Pending, InHand, Coherent
  <2> QED
    BY <2>1, <2>2 DEF LossInv, NoSilentLoss
<1>2. CASE DeadLetterOpen
  <2>1. answered' = FALSE /\ at # "idle"
    BY <1>2 DEF DeadLetterOpen, Coherent, TypeOK
  <2> QED
    BY <1>2, <2>1, LossRelease DEF DeadLetterOpen
<1>3. CASE PassGate \/ Call \/ Retry \/ \E h \in Header \cup {NoSeconds} : Return429(h)
  <2>1. /\ UNCHANGED <<q, producers, outcome, answered, posted, hand>>
        /\ at # "idle" /\ at' # "idle"
    BY <1>3 DEF PassGate, Call, Retry, Return429
  <2>2. Pending' = Pending /\ InHand' = InHand
    BY <2>1 DEF Pending, InHand
  <2> QED
    BY <2>1, <2>2 DEF LossInv, NoSilentLoss
<1>4. CASE ReturnOk
  BY <1>4, LossRelease DEF ReturnOk, LossInv
<1>5. ASSUME NEW h \in Header \cup {NoSeconds}, Exhausted429(h)
      PROVE  LossInv'
  <2>1. answered' = FALSE /\ at # "idle"
    BY <1>5 DEF Exhausted429, TypeOK
  <2> QED
    BY <1>5, <2>1, LossRelease DEF Exhausted429
<1>6. CASE ReturnError
  BY <1>6, LossRelease DEF ReturnError
<1>7. CASE SlackPosts
  <2>1. ToSet(posted') = ToSet(posted) \cup {hand}
    BY <1>7, AppendMembers DEF SlackPosts, Coherent, TypeOK
  <2>2. /\ UNCHANGED <<q, producers, outcome, at, hand>> /\ at # "idle"
        /\ Pending' = Pending /\ InHand = {hand} /\ InHand' = {hand}
    BY <1>7 DEF SlackPosts, Pending, InHand
  <2> QED
    BY <2>1, <2>2 DEF LossInv, NoSilentLoss
<1> QED
  BY <1>1, <1>2, <1>3, <1>4, <1>5, <1>6, <1>7 DEF SenderStep

\* Every step keeps the invariant.
LEMMA LossStep == TypeOK /\ Coherent /\ LossInv /\ [Next]_vars => LossInv'
<1> SUFFICES ASSUME TypeOK, Coherent, LossInv, [Next]_vars
             PROVE  LossInv'
  OBVIOUS
<1>1. CASE Tick \/ UNCHANGED vars
  <2>1. UNCHANGED <<q, producers, outcome, at, hand, answered, posted>>
    BY <1>1 DEF Tick, vars
  <2>2. Pending' = Pending /\ InHand' = InHand
    BY <2>1 DEF Pending, InHand
  <2> QED
    BY <2>1, <2>2 DEF LossInv, NoSilentLoss
<1> QED
  BY <1>1, LossEnqueue, LossSender DEF Next

\* The invariant holds, with the types it needs.
LEMMA LossHolds == Spec => [](TypeOK /\ Coherent /\ LossInv)
<1>1. Init => LossInv
  <2> SUFFICES ASSUME Init PROVE LossInv
    OBVIOUS
  <2>1. ToSet(q) = {} /\ ToSet(posted) = {} /\ InHand = {} /\ Pending = {} /\ Distinct(q)
    BY DEF Init, ToSet, InHand, Pending, Distinct
  <2> QED
    BY <2>1 DEF Init, LossInv, NoSilentLoss
<1> QED
  BY <1>1, LossStep, TypeCorrect, PTL DEF Spec

\* No accepted message vanishes: it waits, is with the sender, was posted, or
\* the log says that it was lost.
THEOREM NothingVanishes == Spec => []NoSilentLoss
<1>1. LossInv => NoSilentLoss
  BY DEF LossInv
<1> QED
  BY <1>1, LossHolds, PTL

-----------------------------------------------------------------------------
(* MessageQueue implements LossyFifo *)

\* What LossyFifo calls transit: the queue, after the message in hand while
\* Slack has not posted it.
Transit == IF at = "idle" \/ answered THEN q ELSE <<hand>> \o q

\* A message in front of a sequence: what the operators of LossyFifo make of it.
LEMMA Prefixed ==
    ASSUME NEW S, NEW x \in S, NEW s \in Seq(S)
    PROVE  /\ <<x>> \o s \in Seq(S) /\ <<x>> \o s # <<>>
           /\ 1 \in DOMAIN (<<x>> \o s)
           /\ Head(<<x>> \o s) = x
           /\ Tail(<<x>> \o s) = s
           /\ \A e \in S : Append(<<x>> \o s, e) = <<x>> \o Append(s, e)
<1>1. <<x>> \in Seq(S) /\ Len(<<x>>) = 1 /\ <<x>>[1] = x
  OBVIOUS
<1>2. /\ <<x>> \o s \in Seq(S)
      /\ Len(<<x>> \o s) = 1 + Len(s)
      /\ \A i \in 1 .. 1 + Len(s) : (<<x>> \o s)[i] = IF i <= 1 THEN <<x>>[i] ELSE s[i - 1]
  BY <1>1, ConcatProperties
<1>3. <<x>> \o s # <<>> /\ 1 \in DOMAIN (<<x>> \o s) /\ Head(<<x>> \o s) = x
  BY <1>1, <1>2
<1>4. Tail(<<x>> \o s) = s
  <2>1. /\ Tail(<<x>> \o s) \in Seq(S) /\ Len(Tail(<<x>> \o s)) = Len(s)
        /\ \A i \in 1 .. Len(s) : Tail(<<x>> \o s)[i] = (<<x>> \o s)[i + 1]
    BY <1>2, <1>3, HeadTailProperties
  <2>2. \A i \in 1 .. Len(s) : Tail(<<x>> \o s)[i] = s[i]
    BY <1>2, <2>1
  <2> QED
    BY <2>1, <2>2, SeqEqual
<1>5. ASSUME NEW e \in S
      PROVE  Append(<<x>> \o s, e) = <<x>> \o Append(s, e)
  <2>1. /\ Append(s, e) \in Seq(S) /\ Len(Append(s, e)) = Len(s) + 1
        /\ \A i \in 1 .. Len(s) : Append(s, e)[i] = s[i]
        /\ Append(s, e)[Len(s) + 1] = e
    BY AppendProperties
  <2>2. /\ <<x>> \o Append(s, e) \in Seq(S)
        /\ Len(<<x>> \o Append(s, e)) = Len(s) + 2
        /\ \A i \in 1 .. Len(s) + 2 :
               (<<x>> \o Append(s, e))[i] = IF i <= 1 THEN <<x>>[i] ELSE Append(s, e)[i - 1]
    BY <1>1, <2>1, ConcatProperties
  <2>3. /\ Append(<<x>> \o s, e) \in Seq(S)
        /\ Len(Append(<<x>> \o s, e)) = Len(s) + 2
        /\ \A i \in 1 .. Len(s) + 1 : Append(<<x>> \o s, e)[i] = (<<x>> \o s)[i]
        /\ Append(<<x>> \o s, e)[Len(s) + 2] = e
    BY <1>2, AppendProperties
  <2>4. \A i \in 1 .. Len(s) + 2 : Append(<<x>> \o s, e)[i] = (<<x>> \o Append(s, e))[i]
    BY <1>1, <1>2, <2>1, <2>2, <2>3
  <2> QED
    BY <2>2, <2>3, <2>4, SeqEqual
<1> QED
  BY <1>2, <1>3, <1>4, <1>5

\* Losing the first message of a sequence leaves its tail.
LEMMA LoseFirst ==
    ASSUME NEW S, NEW s \in Seq(S), s # <<>>
    PROVE  1 \in DOMAIN s /\ RemoveAt(s, 1) = Tail(s) /\ s[1] = Head(s)
<1>1. SubSeq(s, 1, 0) = <<>> /\ Tail(s) = SubSeq(s, 2, Len(s)) /\ Tail(s) \in Seq(S)
  BY SubSeqEmpty, TailIsSubSeq, HeadTailProperties
<1>2. RemoveAt(s, 1) = <<>> \o Tail(s)
  BY <1>1 DEF RemoveAt
<1>3. <<>> \o Tail(s) = Tail(s)
  BY <1>1, ConcatEmptySeq
<1>4. 1 \in DOMAIN s /\ s[1] = Head(s)
  OBVIOUS
<1> QED
  BY <1>2, <1>3, <1>4

\* Losing the second one keeps the first.
LEMMA LoseSecond ==
    ASSUME NEW S, NEW x \in S, NEW s \in Seq(S), s # <<>>
    PROVE  /\ 2 \in DOMAIN (<<x>> \o s) /\ RemoveAt(<<x>> \o s, 2) = <<x>> \o Tail(s)
           /\ (<<x>> \o s)[2] = Head(s)
<1> DEFINE t == <<x>> \o s
<1>1. <<x>> \in Seq(S) /\ Len(<<x>>) = 1 /\ <<x>>[1] = x /\ Len(s) \in Nat \ {0}
  OBVIOUS
<1>2. /\ t \in Seq(S) /\ Len(t) = 1 + Len(s) /\ 2 \in DOMAIN t
      /\ \A i \in 1 .. 1 + Len(s) : t[i] = IF i <= 1 THEN <<x>>[i] ELSE s[i - 1]
  BY <1>1, ConcatProperties
<1>6. t[2] = Head(s)
  BY <1>1, <1>2
<1> HIDE DEF t
<1>3. SubSeq(t, 1, 1) = <<x>>
  <2>1. \A i \in 1 .. 1 : t[i] \in S
    BY <1>1, <1>2
  <2>2. /\ SubSeq(t, 1, 1) \in Seq(S) /\ Len(SubSeq(t, 1, 1)) = 1
        /\ \A i \in 1 .. 1 : SubSeq(t, 1, 1)[i] = t[i]
    BY <2>1, SubSeqProperties
  <2>3. SubSeq(t, 1, 1)[1] = x
    BY <1>1, <1>2, <2>2
  <2>4. \A i \in 1 .. 1 : SubSeq(t, 1, 1)[i] = <<x>>[i]
    BY <1>1, <2>3
  <2> QED
    BY <1>1, <2>2, <2>4, SeqEqual
<1>4. SubSeq(t, 3, Len(t)) = Tail(s)
  <2>1. \A i \in 3 .. Len(t) : t[i] \in S
    BY <1>2
  <2>2. /\ SubSeq(t, 3, Len(t)) \in Seq(S)
        /\ Len(SubSeq(t, 3, Len(t))) = Len(s) - 1
        /\ \A i \in 1 .. Len(s) - 1 : SubSeq(t, 3, Len(t))[i] = t[i + 2]
    BY <1>1, <1>2, <2>1, SubSeqProperties
  <2>3. /\ Tail(s) \in Seq(S) /\ Len(Tail(s)) = Len(s) - 1
        /\ \A i \in 1 .. Len(s) - 1 : Tail(s)[i] = s[i + 1]
    BY HeadTailProperties
  <2>4. \A i \in 1 .. Len(s) - 1 : SubSeq(t, 3, Len(t))[i] = Tail(s)[i]
    BY <1>1, <1>2, <2>2, <2>3
  <2> QED
    BY <2>2, <2>3, <2>4, SeqEqual
<1>5. RemoveAt(t, 2) = <<x>> \o Tail(s)
  <2>1. RemoveAt(t, 2) = SubSeq(t, 1, 2 - 1) \o SubSeq(t, 2 + 1, Len(t))
    BY Zenon DEF RemoveAt
  <2>2. 2 - 1 = 1 /\ 2 + 1 = 3
    OBVIOUS
  <2> QED
    BY <1>3, <1>4, <2>1, <2>2, Zenon
<1> QED
  BY <1>2, <1>5, <1>6 DEF t

\* A step of LossyFifo, or none, seen from MessageQueue.
Accepts(m) ==
    m \notin accepted /\ accepted' = accepted \cup {m} /\ Transit' = Append(Transit, m)
        /\ posted' = posted /\ logged' = logged
Posts ==
    Transit # <<>> /\ posted' = Append(posted, Head(Transit)) /\ Transit' = Tail(Transit)
        /\ accepted' = accepted /\ logged' = logged
Loses ==
    (\E i \in DOMAIN Transit :
        Transit' = RemoveAt(Transit, i) /\ logged' = logged \cup {Transit[i]})
        /\ accepted' = accepted /\ posted' = posted
Doubts ==
    (\E m \in ToSet(posted) : logged' = logged \cup {m})
        /\ Transit' = Transit /\ accepted' = accepted /\ posted' = posted
Idles ==
    Transit' = Transit /\ accepted' = accepted /\ posted' = posted /\ logged' = logged

\* What a producer does to the outbox.
LEMMA OutboxEnqueue ==
    ASSUME TypeOK, Coherent, LossInv, NEW p \in Producer, Enqueue(p) \/ EnqueueStep(p)
    PROVE  (\E m \in Message : Accepts(m)) \/ Loses \/ Idles
<1>1. CASE Put(p)
  <2>1. item[p] \in Message \ accepted
    BY <1>1 DEF Put, Coherent, LossInv, Pending
  <2>2. accepted' = accepted \cup {item[p]} /\ UNCHANGED <<posted, logged, at, hand, answered>>
    BY <1>1 DEF Put
  <2>3. q' = Append(q, item[p]) /\ q \in Seq(Message)
    BY <1>1 DEF Put, TypeOK
  <2>4. Transit' = Append(Transit, item[p])
    <3>1. CASE at = "idle" \/ answered
      BY <2>2, <2>3, <3>1 DEF Transit
    <3>2. CASE ~ (at = "idle" \/ answered)
      <4>1. hand \in Message
        BY <3>2 DEF Coherent
      <4>2. Append(<<hand>> \o q, item[p]) = <<hand>> \o Append(q, item[p])
        BY <2>1, <2>3, <4>1, Prefixed
      <4> QED
        BY <2>2, <2>3, <3>2, <4>2 DEF Transit
    <3> QED
      BY <3>1, <3>2
  <2> QED
    BY <2>1, <2>2, <2>4 DEF Accepts
<1>2. CASE DropOldest(p)
  <2>1. q' = Tail(q) /\ q # <<>> /\ q \in Seq(Message)
    BY <1>2 DEF DropOldest, TypeOK
  <2>2. UNCHANGED <<accepted, posted, at, hand, answered>> /\ logged' = logged \cup {Head(q)}
    BY <1>2 DEF DropOldest
  <2>3. CASE at = "idle" \/ answered
    <3>1. 1 \in DOMAIN q /\ RemoveAt(q, 1) = Tail(q) /\ q[1] = Head(q)
      BY <2>1, LoseFirst
    <3>2. Transit = q /\ Transit' = Tail(q)
      BY <2>1, <2>2, <2>3 DEF Transit
    <3> QED
      BY <2>2, <3>1, <3>2 DEF Loses
  <2>4. CASE ~ (at = "idle" \/ answered)
    <3>1. hand \in Message
      BY <2>4 DEF Coherent
    <3>2. /\ 2 \in DOMAIN (<<hand>> \o q) /\ RemoveAt(<<hand>> \o q, 2) = <<hand>> \o Tail(q)
          /\ (<<hand>> \o q)[2] = Head(q)
      BY <2>1, <3>1, LoseSecond
    <3>3. Transit = <<hand>> \o q /\ Transit' = <<hand>> \o Tail(q)
      BY <2>1, <2>2, <2>4 DEF Transit
    <3> QED
      BY <2>2, <3>2, <3>3 DEF Loses
  <2> QED
    BY <2>3, <2>4
<1>3. ASSUME ~ Put(p), ~ DropOldest(p)
      PROVE  Idles
  <2>1. UNCHANGED <<q, accepted, posted, logged, at, hand, answered>>
    BY <1>3 DEF Enqueue, EnqueueRejected, EnqueueAllowed, EnqueueStep, AcquireQueueLock,
                PutFull, NothingToDrop, FinishEnqueue
  <2> QED
    BY <2>1 DEF Transit, Idles
<1> QED
  BY <1>1, <1>2, <1>3

\* What the sender and Slack do to it.
LEMMA OutboxSender ==
    ASSUME TypeOK, Coherent, LossInv, SenderStep \/ SlackPosts
    PROVE  Posts \/ Loses \/ Doubts \/ Idles
<1>0. q \in Seq(Message) /\ posted \in Seq(Message)
  BY DEF TypeOK
<1>1. CASE TakeAndThrottle
  <2>1. /\ at = "idle" /\ q # <<>> /\ at' = "throttled" /\ hand' = Head(q) /\ q' = Tail(q)
        /\ UNCHANGED <<answered, accepted, posted, logged>>
    BY <1>1 DEF TakeAndThrottle
  <2>2. ~ answered
    BY <2>1 DEF Coherent
  <2>3. Transit = q /\ Transit' = <<Head(q)>> \o Tail(q)
    BY <2>1, <2>2 DEF Transit
  <2>4. <<Head(q)>> \o Tail(q) = q
    <3>1. /\ Head(q) \in Message /\ Tail(q) \in Seq(Message) /\ Len(Tail(q)) = Len(q) - 1
          /\ \A i \in 1 .. Len(q) - 1 : Tail(q)[i] = q[i + 1]
      BY <1>0, <2>1, HeadTailProperties
    <3>2. <<Head(q)>> \in Seq(Message) /\ Len(<<Head(q)>>) = 1 /\ <<Head(q)>>[1] = q[1]
          /\ Len(q) \in Nat
      BY <1>0, <2>1, <3>1
    <3>3. /\ <<Head(q)>> \o Tail(q) \in Seq(Message)
          /\ Len(<<Head(q)>> \o Tail(q)) = Len(q)
          /\ \A i \in 1 .. Len(q) : (<<Head(q)>> \o Tail(q))[i] =
                   IF i <= 1 THEN <<Head(q)>>[i] ELSE Tail(q)[i - 1]
      BY <3>1, <3>2, ConcatProperties
    <3>4. \A i \in 1 .. Len(q) : (<<Head(q)>> \o Tail(q))[i] = q[i]
      BY <3>1, <3>2, <3>3
    <3> QED
      BY <1>0, <3>3, <3>4, SeqEqual
  <2> QED
    BY <2>1, <2>3, <2>4 DEF Idles
<1>2. ASSUME at # "idle", ~ answered, Release, UNCHANGED <<q, accepted, posted>>,
             logged' = logged \cup {hand}
      PROVE  Loses
  <2>1. hand \in Message /\ Transit = <<hand>> \o q /\ Transit' = q
    BY <1>2 DEF Coherent, Transit, Release
  <2>2. /\ <<hand>> \o q \in Seq(Message) /\ <<hand>> \o q # <<>>
        /\ Tail(<<hand>> \o q) = q /\ Head(<<hand>> \o q) = hand
    BY <1>0, <2>1, Prefixed
  <2>3. 1 \in DOMAIN Transit /\ RemoveAt(Transit, 1) = q /\ Transit[1] = hand
    BY <2>1, <2>2, LoseFirst
  <2> HIDE DEF Transit
  <2> QED
    BY <1>2, <2>1, <2>3 DEF Loses
<1>3. ASSUME answered, Release, UNCHANGED <<q, accepted, posted>>,
             logged' = logged \/ logged' = logged \cup {hand}
      PROVE  Doubts \/ Idles
  BY <1>3 DEF LossInv, Release, Transit, Doubts, Idles
<1>4. CASE DeadLetterOpen
  <2>1. at # "idle" /\ ~ answered
    BY <1>4 DEF DeadLetterOpen, Coherent
  <2> QED
    BY <1>2, <1>4, <2>1 DEF DeadLetterOpen
<1>5. CASE PassGate \/ Call \/ Retry \/ \E h \in Header \cup {NoSeconds} : Return429(h)
  BY <1>5 DEF PassGate, Call, Retry, Return429, Transit, Idles
<1>6. CASE ReturnOk
  BY <1>3, <1>6 DEF ReturnOk
<1>7. CASE \E h \in Header \cup {NoSeconds} : Exhausted429(h)
  BY <1>2, <1>7 DEF Exhausted429
<1>8. CASE ReturnError
  BY <1>2, <1>3, <1>8 DEF ReturnError
<1>9. CASE SlackPosts
  <2>1. /\ at = "calling" /\ ~ answered /\ answered' = TRUE
        /\ posted' = Append(posted, hand) /\ UNCHANGED <<q, accepted, logged>>
    BY <1>9 DEF SlackPosts
  <2>2. hand \in Message /\ Transit = <<hand>> \o q /\ Transit' = q
    BY <2>1 DEF Coherent, Transit
  <2> QED
    BY <1>0, <2>1, <2>2, Prefixed DEF Posts
<1> QED
  BY <1>1, <1>4, <1>5, <1>6, <1>7, <1>8, <1>9 DEF SenderStep

\* The queue is an outbox that posts each accepted message at most once, in order,
\* and reports the loss of every other.
THEOREM QueueIsOutbox == Spec => ImplementsLossyFifo
<1>1. Init => Outbox!Init
  BY DEF Init, Outbox!Init
<1>2. TypeOK /\ Coherent /\ LossInv /\ [Next]_vars => [Outbox!Next]_(Outbox!vars)
  <2> SUFFICES ASSUME TypeOK, Coherent, LossInv, [Next]_vars
               PROVE  Outbox!Next \/ UNCHANGED Outbox!vars
    OBVIOUS
  <2>1. (\E m \in Message : Accepts(m)) => Outbox!Next
    BY DEF Accepts, Transit, Outbox!Next, Outbox!Accept, Outbox!Put
  <2>2. Posts => Outbox!Next
    BY DEF Posts, Transit, Outbox!Next, Outbox!Post
  <2>3. Loses => Outbox!Next
    BY DEF Loses, Transit, RemoveAt, Outbox!Next, Outbox!Lose, Outbox!RemoveAt
  <2>4. Doubts => Outbox!Next
    BY DEF Doubts, Transit, ToSet, Outbox!Next, Outbox!Doubt, Outbox!ToSet
  <2>5. Idles => UNCHANGED Outbox!vars
    BY DEF Idles, Transit, Outbox!vars
  <2>6. CASE Tick \/ UNCHANGED vars
    <3>1. Idles
      BY <2>6 DEF Tick, vars, Transit, Idles
    <3> QED
      BY <2>5, <3>1
  <2> QED
    BY <2>1, <2>2, <2>3, <2>4, <2>5, <2>6, OutboxEnqueue, OutboxSender DEF Next
<1> QED
  BY <1>1, <1>2, LossHolds, PTL DEF Spec, ImplementsLossyFifo, Outbox!Spec
=============================================================================

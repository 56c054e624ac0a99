---------------------------- MODULE MessageQueue ----------------------------
(***************************************************************************)
(* The outbound Slack queue of scout.py: CircuitBreaker and MessageQueue.  *)
(*                                                                         *)
(* Producers call enqueue(); one daemon thread (_run) takes messages,      *)
(* throttles them per channel and posts them with capped 429 retries.      *)
(* Slack is external: a call posts the message or not, and then returns,   *)
(* answers 429, or raises (possibly after Slack did post the message).     *)
(*                                                                         *)
(* Time is counted in seconds.  A monotonic timestamp t is represented by  *)
(* its age, now - t, saturated where the code stops telling ages apart;    *)
(* a time.sleep by the seconds it still has to run.                        *)
(***************************************************************************)
EXTENDS Integers, SequencesExt

CONSTANTS
    Message,        \* enqueue() calls: each one is a message of its own
    Channel,
    ChannelOf,      \* the channel a message is for
    Producer,       \* threads that call enqueue()
    MaxSize,        \* settings.mq_max_size
    MaxRetries,     \* settings.mq_max_retries
    Threshold,      \* settings.mq_circuit_breaker_threshold
    Cooldown,       \* settings.mq_circuit_breaker_cooldown_seconds
    Header,         \* integers Slack may send as Retry-After
    NoSeconds,      \* a Retry-After that is missing or not an integer
    NoMessage

ASSUME MessageAssumption ==
    /\ ChannelOf \in [Message -> Channel]
    /\ NoMessage \notin Message

\* The bounds config.py puts on the settings (ge=1).
ASSUME SettingsAssumption ==
    /\ MaxSize \in Nat \ {0}
    /\ MaxRetries \in Nat \ {0}
    /\ Threshold \in Nat \ {0}
    /\ Cooldown \in Nat \ {0}

ASSUME HeaderAssumption == Header \subseteq Int /\ NoSeconds \notin Int

VARIABLES
    \* CircuitBreaker
    state,          \* CLOSED, OPEN or HALF_OPEN
    failures,       \* _consecutive_failures
    openedAge,      \* age of _opened_at, up to Cooldown; Never for None
    \* MessageQueue, the producers' side
    q,              \* the queue.Queue
    lockOwner,      \* holders of _queue_lock (at most one)
    pc,             \* where each producer is in enqueue()
    item,           \* the message it is enqueueing
    warned,         \* _warned_high_water
    \* MessageQueue, the sender thread
    at,             \* where the sender is
    hand,           \* the message it took from q
    attempt,        \* the attempt counter of _send_with_retry
    sleep,          \* seconds its time.sleep still has to run
    sendAge,        \* age of _last_send[channel], up to 1
    \* Slack
    answered,       \* Slack has posted the message of the call under way
    posted,         \* messages posted, in order
    \* Observations the properties are about; the code does not keep them
    offered,        \* messages enqueue() was called with
    accepted,       \* messages put on q
    logged,         \* messages whose loss the log reports
    tripAge,        \* age of the breaker's last trip, up to Cooldown
    postAge,        \* age of the channel's last post at Slack, up to 1
    embargo         \* seconds left of those Slack last asked to wait for

breaker == <<state, failures, openedAge, tripAge>>
producers == <<lockOwner, pc, item, warned, offered>>
sender == <<at, hand, attempt, sleep, sendAge>>
slack == <<answered, posted, postAge, embargo>>
outcome == <<accepted, logged>>
vars == <<breaker, q, producers, sender, slack, outcome>>

Closed == "closed"
Open == "open"
HalfOpen == "half_open"
Never == -1

-----------------------------------------------------------------------------
(* CircuitBreaker.  Each method runs under the breaker's own lock. *)

\* allow_send() answers True, or False.
MaySend ==
    \/ state # Open
    \/ openedAge = Never
    \/ openedAge >= Cooldown

\* The effect of allow_send() on the breaker.
AllowSend ==
    /\ state' = IF state = Open /\ openedAge >= Cooldown THEN HalfOpen ELSE state
    /\ UNCHANGED <<failures, openedAge, tripAge>>

\* Mutant: a success closes the breaker but does not reset the count.
SuccessKeepsCount ==
    /\ state' = Closed
    /\ openedAge' = Never
    /\ UNCHANGED <<failures, tripAge>>

RecordSuccess ==
    /\ state' = Closed
    /\ failures' = 0
    /\ openedAge' = Never
    /\ UNCHANGED tripAge

Trips == state = HalfOpen \/ failures + 1 >= Threshold

\* Mutant: the failed probe of HALF_OPEN does not start a new cooldown.
TripKeepsOpenedAt ==
    /\ failures' = failures + 1
    /\ state' = IF Trips THEN Open ELSE state
    /\ openedAge' = IF Trips /\ openedAge = Never THEN 0 ELSE openedAge
    /\ tripAge' = IF Trips THEN 0 ELSE tripAge

RecordFailure ==
    /\ failures' = failures + 1
    /\ state' = IF Trips THEN Open ELSE state
    /\ openedAge' = IF Trips THEN 0 ELSE openedAge
    /\ tripAge' = IF Trips THEN 0 ELSE tripAge

-----------------------------------------------------------------------------
(* enqueue() *)

EnqueueRejected(p, m) ==
    /\ pc[p] = "idle"
    /\ m \notin offered
    /\ ~ MaySend
    /\ offered' = offered \cup {m}
    /\ UNCHANGED <<breaker, q, lockOwner, pc, item, warned, sender, slack, outcome>>

EnqueueAllowed(p, m) ==
    /\ pc[p] = "idle"
    /\ m \notin offered
    /\ MaySend
    /\ AllowSend
    /\ offered' = offered \cup {m}
    /\ pc' = [pc EXCEPT ![p] = "lock"]
    /\ item' = [item EXCEPT ![p] = m]
    /\ UNCHANGED <<q, lockOwner, warned, sender, slack, outcome>>

\* Mutant: enqueue() without _queue_lock.
NoQueueLock(p) ==
    /\ pc[p] = "lock"
    /\ lockOwner' = lockOwner \cup {p}
    /\ pc' = [pc EXCEPT ![p] = "put"]
    /\ UNCHANGED <<breaker, q, item, warned, offered, sender, slack, outcome>>

AcquireQueueLock(p) ==
    /\ pc[p] = "lock"
    /\ lockOwner = {}
    /\ lockOwner' = {p}
    /\ pc' = [pc EXCEPT ![p] = "put"]
    /\ UNCHANGED <<breaker, q, item, warned, offered, sender, slack, outcome>>

\* put_nowait; "again" is its second round, after an eviction.
Put(p) ==
    /\ pc[p] \in {"put", "again"}
    /\ Len(q) < MaxSize
    /\ q' = Append(q, item[p])
    /\ accepted' = accepted \cup {item[p]}
    /\ pc' = [pc EXCEPT ![p] = "put_done"]
    /\ UNCHANGED <<breaker, lockOwner, item, warned, offered, sender, slack, logged>>

\* put_nowait raises queue.Full
PutFull(p) ==
    /\ pc[p] \in {"put", "again"}
    /\ Len(q) >= MaxSize
    /\ pc' = [pc EXCEPT ![p] = "full"]
    /\ UNCHANGED <<breaker, q, lockOwner, item, warned, offered, sender, slack, outcome>>

\* get_nowait: the oldest message is dropped with a log line
DropOldest(p) ==
    /\ pc[p] = "full"
    /\ q # <<>>
    /\ logged' = logged \cup {Head(q)}
    /\ q' = Tail(q)
    /\ pc' = [pc EXCEPT ![p] = "again"]
    /\ UNCHANGED <<breaker, lockOwner, item, warned, offered, sender, slack, accepted>>

\* Mutant: queue.Empty leaves the loop as if the message had been put.
EmptyEndsLoop(p) ==
    /\ pc[p] = "full"
    /\ q = <<>>
    /\ accepted' = accepted \cup {item[p]}
    /\ pc' = [pc EXCEPT ![p] = "put_done"]
    /\ UNCHANGED <<breaker, q, lockOwner, item, warned, offered, sender, slack, logged>>

\* get_nowait raises queue.Empty: the sender has drained the queue meanwhile
NothingToDrop(p) ==
    /\ pc[p] = "full"
    /\ q = <<>>
    /\ pc' = [pc EXCEPT ![p] = "again"]
    /\ UNCHANGED <<breaker, q, lockOwner, item, warned, offered, sender, slack, outcome>>

\* The high-water warning (0.8 and 0.7 of the size) and the end of the lock's scope.
FinishEnqueue(p) ==
    /\ pc[p] = "put_done"
    /\ warned' = \/ 10 * Len(q) >= 8 * MaxSize
                 \/ warned /\ 10 * Len(q) >= 7 * MaxSize
    /\ lockOwner' = {}
    /\ pc' = [pc EXCEPT ![p] = "idle"]
    /\ item' = [item EXCEPT ![p] = NoMessage]
    /\ UNCHANGED <<breaker, q, offered, sender, slack, outcome>>

Enqueue(p) == \E m \in Message : EnqueueRejected(p, m) \/ EnqueueAllowed(p, m)

EnqueueStep(p) ==
    \/ AcquireQueueLock(p)
    \/ Put(p)
    \/ PutFull(p)
    \/ DropOldest(p)
    \/ NothingToDrop(p)
    \/ FinishEnqueue(p)

-----------------------------------------------------------------------------
(* The sender thread *)

ChannelInHand == ChannelOf[hand]

\* The sender is done with the message in hand.
Release ==
    /\ at' = "idle"
    /\ hand' = NoMessage
    /\ attempt' = 0
    /\ sleep' = 0

\* q.get() (without _queue_lock), then _throttle: sleep until 1s after _last_send
TakeAndThrottle ==
    /\ at = "idle"
    /\ q # <<>>
    /\ hand' = Head(q)
    /\ q' = Tail(q)
    /\ sleep' = 1 - sendAge[ChannelOf[Head(q)]]
    /\ at' = "throttled"
    /\ UNCHANGED <<breaker, producers, attempt, sendAge, slack, outcome>>

\* The gate of _send_with_retry closes: dead letter, reason=circuit_open
DeadLetterOpen ==
    /\ at = "throttled"
    /\ sleep = 0
    /\ ~ MaySend
    /\ logged' = logged \cup {hand}
    /\ Release
    /\ UNCHANGED <<breaker, q, producers, sendAge, slack, accepted>>

PassGate ==
    /\ at = "throttled"
    /\ sleep = 0
    /\ MaySend
    /\ AllowSend
    /\ at' = "try"
    /\ UNCHANGED <<q, producers, hand, attempt, sleep, sendAge, slack, outcome>>

\* chat_postMessage is called
Call ==
    /\ at = "try"
    /\ at' = "calling"
    /\ UNCHANGED <<breaker, q, producers, hand, attempt, sleep, sendAge, slack, outcome>>

\* Mutant: a success does not set _last_send.
OkForgetsSend ==
    /\ at = "calling"
    /\ answered
    /\ answered' = FALSE
    /\ RecordSuccess
    /\ Release
    /\ UNCHANGED <<q, producers, sendAge, posted, postAge, embargo, outcome>>

ReturnOk ==
    /\ at = "calling"
    /\ answered
    /\ answered' = FALSE
    /\ sendAge' = [sendAge EXCEPT ![ChannelInHand] = 0]
    /\ RecordSuccess
    /\ Release
    /\ UNCHANGED <<q, producers, posted, postAge, embargo, outcome>>

\* The seconds a Retry-After asks for: what it says, read as Slack means it.
Asked(h) == IF h \in Nat THEN h ELSE 0

\* Mutant: the number of the header is not used, only the least wait.
AlwaysOneSecond(h) == IF h = NoSeconds THEN 5 ELSE 1

\* _parse_retry_after
RetryAfter(h) == IF h = NoSeconds THEN 5 ELSE IF h < 1 THEN 1 ELSE h

\* Mutant: one retry too many.
OneRetryTooMany(h) ==
    /\ at = "calling"
    /\ ~ answered
    /\ attempt <= MaxRetries
    /\ sleep' = RetryAfter(h)
    /\ embargo' = Asked(h)
    /\ at' = "backoff"
    /\ UNCHANGED <<breaker, q, producers, hand, attempt, sendAge, answered, posted, postAge, outcome>>

\* 429 with attempts left: sleep(retry_after)
Return429(h) ==
    /\ at = "calling"
    /\ ~ answered
    /\ attempt < MaxRetries
    /\ sleep' = RetryAfter(h)
    /\ embargo' = Asked(h)
    /\ at' = "backoff"
    /\ UNCHANGED <<breaker, q, producers, hand, attempt, sendAge, answered, posted, postAge, outcome>>

\* 429 on the last attempt: dead letter, reason=retry_exhausted; no sleep
Exhausted429(h) ==
    /\ at = "calling"
    /\ ~ answered
    /\ attempt >= MaxRetries
    /\ logged' = logged \cup {hand}
    /\ embargo' = Asked(h)
    /\ RecordFailure
    /\ Release
    /\ UNCHANGED <<q, producers, sendAge, answered, posted, postAge, accepted>>

\* Mutant: attempts are not counted (a while True).
RetryForEver ==
    /\ at = "backoff"
    /\ sleep = 0
    /\ sendAge' = [sendAge EXCEPT ![ChannelInHand] = 0]
    /\ at' = "try"
    /\ UNCHANGED <<breaker, q, producers, hand, attempt, sleep, slack, outcome>>

\* The sleep after a 429 is over: _last_send is set and the loop goes round.
Retry ==
    /\ at = "backoff"
    /\ sleep = 0
    /\ sendAge' = [sendAge EXCEPT ![ChannelInHand] = 0]
    /\ attempt' = attempt + 1
    /\ at' = "try"
    /\ UNCHANGED <<breaker, q, producers, hand, sleep, slack, outcome>>

\* Mutant: an exception is retried like a 429.
ErrorIsRetried ==
    /\ at = "calling"
    /\ attempt < MaxRetries
    /\ answered' = FALSE
    /\ RecordFailure
    /\ at' = "backoff"
    /\ UNCHANGED <<q, producers, hand, attempt, sleep, sendAge, posted, postAge, embargo, outcome>>

\* Any other exception, whether or not Slack posted the message: log, no retry
ReturnError ==
    /\ at = "calling"
    /\ answered' = FALSE
    /\ logged' = logged \cup {hand}
    /\ RecordFailure
    /\ Release
    /\ UNCHANGED <<q, producers, sendAge, posted, postAge, embargo, accepted>>

SenderStep ==
    \/ TakeAndThrottle
    \/ DeadLetterOpen
    \/ PassGate
    \/ Call
    \/ ReturnOk
    \/ \E h \in Header \cup {NoSeconds} : Return429(h) \/ Exhausted429(h)
    \/ Retry
    \/ ReturnError

-----------------------------------------------------------------------------
(* Slack and the clock *)

\* Slack posts while the call is under way.  A post that appears only after the client
\* has given the call up, at its timeout, is left out.
SlackPosts ==
    /\ at = "calling"
    /\ ~ answered
    /\ answered' = TRUE
    /\ posted' = Append(posted, hand)
    /\ postAge' = [postAge EXCEPT ![ChannelInHand] = 0]
    /\ UNCHANGED <<breaker, q, producers, sender, embargo, outcome>>

Older(age, limit) == IF age < limit THEN age + 1 ELSE age
Sooner(seconds) == IF seconds > 0 THEN seconds - 1 ELSE 0

Tick ==
    /\ openedAge' = IF openedAge = Never THEN Never ELSE Older(openedAge, Cooldown)
    /\ tripAge' = Older(tripAge, Cooldown)
    /\ sleep' = Sooner(sleep)
    /\ sendAge' = [c \in Channel |-> Older(sendAge[c], 1)]
    /\ postAge' = [c \in Channel |-> Older(postAge[c], 1)]
    /\ embargo' = Sooner(embargo)
    /\ UNCHANGED <<state, failures, q, producers, at, hand, attempt, answered, posted, outcome>>

-----------------------------------------------------------------------------

Init ==
    /\ state = Closed
    /\ failures = 0
    /\ openedAge = Never
    /\ q = <<>>
    /\ lockOwner = {}
    /\ pc = [p \in Producer |-> "idle"]
    /\ item = [p \in Producer |-> NoMessage]
    /\ warned = FALSE
    /\ at = "idle"
    /\ hand = NoMessage
    /\ attempt = 0
    /\ sleep = 0
    /\ sendAge = [c \in Channel |-> 1]
    /\ answered = FALSE
    /\ posted = <<>>
    /\ offered = {}
    /\ accepted = {}
    /\ logged = {}
    /\ tripAge = Cooldown
    /\ postAge = [c \in Channel |-> 1]
    /\ embargo = 0

Next ==
    \/ \E p \in Producer : Enqueue(p) \/ EnqueueStep(p)
    \/ SenderStep
    \/ SlackPosts
    \/ Tick

Spec == Init /\ [][Next]_vars

(* Threads are scheduled, HTTP calls end (the Slack client has a timeout)   *)
(* and time passes.  Nothing makes a caller call enqueue().                 *)
Fairness ==
    /\ \A p \in Producer : WF_vars(EnqueueStep(p))
    /\ WF_vars(SenderStep)
    /\ WF_vars(Tick)

FairSpec == Spec /\ Fairness

-----------------------------------------------------------------------------
(* Properties *)

\* Every variable keeps to the values the code can give it.
TypeOK ==
    /\ state \in {Closed, Open, HalfOpen}
    /\ failures \in Nat
    /\ openedAge \in (0 .. Cooldown) \cup {Never}
    /\ q \in Seq(Message)
    /\ lockOwner \in SUBSET Producer
    /\ pc \in [Producer -> {"idle", "lock", "put", "full", "again", "put_done"}]
    /\ item \in [Producer -> Message \cup {NoMessage}]
    /\ warned \in BOOLEAN
    /\ at \in {"idle", "throttled", "try", "calling", "backoff"}
    /\ hand \in Message \cup {NoMessage}
    /\ attempt \in 0 .. MaxRetries
    /\ sleep \in Nat
    /\ sendAge \in [Channel -> 0 .. 1]
    /\ answered \in BOOLEAN
    /\ posted \in Seq(Message)
    /\ offered \in SUBSET Message
    /\ accepted \in SUBSET Message
    /\ logged \in SUBSET Message
    /\ tripAge \in 0 .. Cooldown
    /\ postAge \in [Channel -> 0 .. 1]
    /\ embargo \in Nat

\* No call to Slack, first attempt or retry, is made or under way while the
\* breaker is OPEN, although the gate is only read once, before the attempts.
NoPostWhileOpen == at \in {"try", "calling", "backoff"} => state # Open

\* The breaker's three fields agree whatever the threads interleave: CLOSED
\* means fewer than Threshold failures since the last success, the other two
\* states that the threshold was reached, and OPEN has an opening time; and
\* nothing is sent while it is OPEN.
BreakerConsistent ==
    /\ state = Closed <=> failures < Threshold
    /\ state = Open => openedAge # Never
    /\ NoPostWhileOpen

\* OPEN is only ever left for HALF_OPEN and a whole cooldown after the latest
\* trip: a failed probe starts the cooldown again, and no success that was
\* under way when the breaker tripped closes it early.
CooldownKept ==
    [][state = Open /\ state' # Open =>
        state' = HalfOpen /\ tripAge = Cooldown]_vars

\* Dropping the oldest message makes room for good: the put that follows
\* cannot find the queue full again, so one enqueue() drops at most one message.
EvictionMakesRoom == \A p \in Producer : pc[p] = "again" => Len(q) < MaxSize

InHand == IF at = "idle" THEN {} ELSE {hand}

\* An accepted message is waiting, with the sender, posted, or its loss was
\* logged; and a message that is still to be sent was never reported lost.
NoSilentLoss ==
    /\ accepted = ToSet(q) \cup InHand \cup ToSet(posted) \cup logged
    /\ (ToSet(q) \cup InHand) \cap logged = {}

\* A message is only tried again when the seconds Slack asked for in its last 429
\* have passed, whatever the header held: the sleep is what the parser made of it.
RetriesWaitRetryAfter == at \in {"try", "calling"} /\ attempt > 0 => embargo = 0

LastPostOf(c) == SelectLastInSeq(posted, LAMBDA m : ChannelOf[m] = c)

\* Slack sees at most one message a second on a channel, except after a call
\* that raised although Slack had posted its message.
PostsSpaced ==
    at \in {"try", "calling"} /\ ~ answered /\ postAge[ChannelInHand] = 0 =>
        posted[LastPostOf(ChannelInHand)] \in logged

\* The queue is an outbox that posts at most once and in order, and logs what it loses.
Outbox == INSTANCE LossyFifo WITH
    transit <- IF at = "idle" \/ answered THEN q ELSE <<hand>> \o q

ImplementsLossyFifo == Outbox!Spec

\* Every accepted message is posted or reported lost in the end: no sequence
\* of 429s, failures and trips keeps the sender on a message for ever.
EveryMessageSettles ==
    \A m \in Message : m \in accepted ~> m \in ToSet(posted) \cup logged

\* README.md: the queue "respects HTTP 429 Retry-After": no call is made
\* before the Retry-After Slack last sent has passed.
RetryAfterRespected == at = "try" => embargo = 0
=============================================================================

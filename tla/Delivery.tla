------------------------------- MODULE Delivery -------------------------------
(***************************************************************************)
(* From the file on isocpp.org to the message in the channel: the polls of *)
(* Scheduler hand their files and transitions to notify_channel of         *)
(* scout.py, which puts them on the Slack queue, and the sender thread     *)
(* posts them while the event loop polls on.                               *)
(*                                                                         *)
(* The queue is the outbox LossyFifo describes, which MessageQueue         *)
(* implements: an accepted message may be lost, with a line in the log.    *)
(* It lives in memory and dies with the process.  All notifications are    *)
(* switched on and the channel is set.                                     *)
(***************************************************************************)
EXTENDS Scheduler, Sequences

CONSTANT MaxRestarts    \* bound on the times the process stops

ASSUME RestartsAssumption == MaxRestarts \in Nat

VARIABLES
    accepted, transit, posted, logged,  \* the outbox, see LossyFifo
    \* Observations
    reported,   \* lines the log of the event loop accounts for: refused, or of a failed poll
    buried,     \* lines that were in memory only when the process stopped
    restarts

outbox == <<accepted, transit, posted, logged>>
delivery == <<outbox, reported, buried, restarts>>
allVars == <<vars, delivery>>

\* A message is the set of its lines.
Message == (SUBSET (Url \cup AllNews)) \ {{}}

Outbox == INSTANCE LossyFifo

LinesOf(messages) == UNION {messages[i] : i \in DOMAIN messages}

-----------------------------------------------------------------------------

\* Files on record whose alert the poll under way has yet to hand over.
InHand == IF pc \in {"mark", "notify"} /\ Notifies THEN recent \ unmarked ELSE {}

\* notify_channel: the breaker may open, or close, before any of the batches; those
\* that are accepted are one message here.  It is put on the queue even if the same
\* lines are in it already, or were.
NotifyChannel ==
    /\ Notify
    /\ LET lines == recent \cup Transitions
       IN  \E queued \in SUBSET lines :
              /\ IF queued = {} THEN UNCHANGED outbox ELSE Outbox!Put(queued)
              /\ reported' = reported \cup (lines \ queued)
    /\ UNCHANGED <<buried, restarts>>

\* A poll or a cycle that fails drops what it has in hand, with an error in the log.
FailedPoll ==
    /\ Exception
    /\ reported' = reported \cup InHand
    /\ UNCHANGED <<outbox, buried, restarts>>

\* The sender is a daemon thread: what it has not posted dies with the process.
StopAndStart ==
    /\ restarts < MaxRestarts
    /\ Restart
    /\ restarts' = restarts + 1
    /\ buried' = buried \cup InHand \cup LinesOf(transit)
    /\ transit' = <<>>
    /\ UNCHANGED <<accepted, posted, logged, reported>>

\* Mutant: a call that raised is retried, also one Slack has answered.
RetriesDoubtful ==
    /\ \/ Outbox!Post \/ Outbox!Lose \/ Outbox!Doubt
       \/ /\ transit # <<>>
          /\ posted' = Append(posted, Head(transit))
          /\ UNCHANGED <<accepted, transit, logged>>
    /\ UNCHANGED <<vars, reported, buried, restarts>>

\* Mutant: a message Slack turned down goes to the end of the queue.
RequeuesAtTheEnd ==
    /\ \/ Outbox!Post \/ Outbox!Lose \/ Outbox!Doubt
       \/ /\ transit # <<>>
          /\ transit' = Append(Tail(transit), Head(transit))
          /\ UNCHANGED <<accepted, posted, logged>>
    /\ UNCHANGED <<vars, reported, buried, restarts>>

Sender ==
    /\ Outbox!Post \/ Outbox!Lose \/ Outbox!Doubt
    /\ UNCHANGED <<vars, reported, buried, restarts>>

DeliveryInit ==
    /\ Init
    /\ Outbox!Init
    /\ reported = {}
    /\ buried = {}
    /\ restarts = 0

DeliveryNext ==
    \/ (UpToNotify \/ World) /\ UNCHANGED delivery
    \/ NotifyChannel
    \/ FailedPoll
    \/ StopAndStart
    \/ Sender

DeliverySpec == DeliveryInit /\ [][DeliveryNext]_allVars

(* run_forever polls for ever, a file that is asked for again and again     *)
(* answers at last, and the queue settles a message (EveryMessageSettles).  *)
FairDelivery ==
    /\ DeliverySpec
    /\ WF_allVars((UpToNotify /\ UNCHANGED delivery) \/ NotifyChannel)
    /\ \A u \in Url : SF_allVars(Probe /\ u \in unmarked' /\ UNCHANGED delivery)
    /\ WF_allVars((Outbox!Post \/ Outbox!Lose) /\ UNCHANGED <<vars, reported, buried, restarts>>)

-----------------------------------------------------------------------------
(* Properties *)

\* What can have become of a file or a transition.
Delivered == LinesOf(posted)
Lost == (UNION logged) \ Delivered
Fates == <<InHand, excused, LinesOf(transit), Delivered, Lost, reported, buried>>

\* Every file on record and every reported transition has met exactly one fate: it
\* waits, it reached the channel, it was old or there before the first deployment,
\* the log accounts for it, or the process stopped before it was posted.
Accounted ==
    LET fates == Fates
    IN  /\ \A x \in discovered \cup transitions : \E i \in DOMAIN fates : x \in fates[i]
        /\ \A i, j \in DOMAIN fates : i # j => fates[i] \cap fates[j] = {}

\* No line is in the channel twice, whatever fails between a file and its line and
\* whenever the process starts again with the same database.
PostedOnce == \A i, j \in DOMAIN posted : i # j => posted[i] \cap posted[j] = {}

\* The channel reads of a draft before it reads that the draft became a paper: the
\* draft is recorded before the paper is in the snapshot, never after, and no message
\* overtakes another one in the queue.  (After a download without the paper its other
\* drafts are probed again, and it may be reported again.)
DraftsFirst ==
    \A i, j \in DOMAIN posted : \A p \in Paper :
        Now(p) \in posted[j] /\ DraftsOf[p] \cap posted[i] # {} => i < j

\* Every file that goes online meets its fate in the end, also one in a cold slice,
\* unless the index takes it off the list first.
EveryFileSettles ==
    \A u \in Url : u \in online ~>
        \/ u \in excused \cup Delivered \cup Lost \cup reported \cup buried
        \/ u \notin ListFor[papers]
===============================================================================

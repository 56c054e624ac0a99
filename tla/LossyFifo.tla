------------------------------ MODULE LossyFifo ------------------------------
(***************************************************************************)
(* What a Slack outbox promises: an accepted message is posted at most     *)
(* once and in the order of acceptance, nothing else is posted, and a      *)
(* message that is lost is reported in the log.  It promises no delivery:  *)
(* any message in transit may be lost; nor that all that is reported lost  *)
(* was.  MessageQueue implements this specification, Delivery builds on it.*)
(***************************************************************************)
EXTENDS Naturals, SequencesExt

CONSTANT Message

VARIABLES
    accepted,   \* every message ever accepted
    transit,    \* accepted messages neither posted nor lost, in order
    posted,     \* what Slack has posted, in order
    logged      \* messages the log reports as lost

vars == <<accepted, transit, posted, logged>>

Init ==
    /\ accepted = {}
    /\ transit = <<>>
    /\ posted = <<>>
    /\ logged = {}

Put(m) ==
    /\ accepted' = accepted \cup {m}
    /\ transit' = Append(transit, m)
    /\ UNCHANGED <<posted, logged>>

\* Every call hands over a message of its own.
Accept(m) == m \notin accepted /\ Put(m)

Post ==
    /\ transit # <<>>
    /\ posted' = Append(posted, Head(transit))
    /\ transit' = Tail(transit)
    /\ UNCHANGED <<accepted, logged>>

Lose ==
    /\ \E i \in DOMAIN transit :
          /\ transit' = RemoveAt(transit, i)
          /\ logged' = logged \cup {transit[i]}
    /\ UNCHANGED <<accepted, posted>>

\* A message is reported lost although Slack posted it: its call raised after that.
Doubt ==
    /\ \E m \in ToSet(posted) : logged' = logged \cup {m}
    /\ UNCHANGED <<accepted, transit, posted>>

Next == (\E m \in Message : Accept(m)) \/ Post \/ Lose \/ Doubt

Spec == Init /\ [][Next]_vars
==============================================================================

----------------------------- MODULE Notification -----------------------------
(***************************************************************************)
(* One recipient's notification: the lines notify_channel or notify_users  *)
(* of scout.py writes for it, cut into messages by _batch_lines and        *)
(* offered to the queue one by one.                                        *)
(*                                                                         *)
(* Of a line only its length matters, and of that only where the line ends *)
(* when all are written one after another.  A batch is the interval of     *)
(* lines it is joined from.                                                *)
(***************************************************************************)
EXTENDS Integers, SequencesExt

CONSTANTS
    MaxText,    \* SLACK_MAX_TEXT
    Lengths,    \* lengths of lines
    MaxLines    \* bound on the lines of a notification

ASSUME LengthsAssumption ==
    {MaxText, MaxLines} \subseteq Nat \ {0} /\ Lengths \subseteq Nat \ {0}

VARIABLES
    ends,       \* where each line so far ends
    first,      \* the first line of the current batch; no such line yet: it is empty
    size,       \* current_len
    batches,    \* the batches that are full
    pc,         \* "lines", "enqueue", "done"
    queued,     \* batches the queue accepted
    refused     \* batches it did not, while the breaker was open

vars == <<ends, first, size, batches, pc, queued, refused>>

\* Where the first n lines end.
EndOf(n) == IF n = 0 THEN 0 ELSE ends[n]

Current == IF first > Len(ends) THEN <<>> ELSE <<[from |-> first, to |-> Len(ends)]>>

\* Mutant: the line that starts a batch is not counted.
FirstLineUncounted(length) ==
    LET full == Current # <<>> /\ size + length + 1 > MaxText
    IN  /\ pc = "lines"
        /\ Len(ends) < MaxLines
        /\ batches' = IF full THEN batches \o Current ELSE batches
        /\ first' = IF full THEN Len(ends) + 1 ELSE first
        /\ size' = IF full THEN 0 ELSE size + length + 1
        /\ ends' = Append(ends, EndOf(Len(ends)) + length)
        /\ UNCHANGED <<pc, queued, refused>>

\* One round of the loop: a line that does not fit ends the current batch.
AddLine(length) ==
    LET full == Current # <<>> /\ size + length + 1 > MaxText
    IN  /\ pc = "lines"
        /\ Len(ends) < MaxLines
        /\ batches' = IF full THEN batches \o Current ELSE batches
        /\ first' = IF full THEN Len(ends) + 1 ELSE first
        /\ size' = IF full THEN length + 1 ELSE size + length + 1
        /\ ends' = Append(ends, EndOf(Len(ends)) + length)
        /\ UNCHANGED <<pc, queued, refused>>

\* Mutant: the last batch is forgotten.
LastBatchForgotten ==
    /\ pc = "lines"
    /\ first' = Len(ends) + 1
    /\ pc' = "enqueue"
    /\ UNCHANGED <<ends, size, batches, queued, refused>>

\* No lines, no message.  The last batch need not be full.
EndLines ==
    /\ pc = "lines"
    /\ batches' = batches \o Current
    /\ first' = Len(ends) + 1
    /\ pc' = "enqueue"
    /\ UNCHANGED <<ends, size, queued, refused>>

NextBatch == batches[Len(queued) + Len(refused) + 1]

\* enqueue(): a refused batch is logged, and the loop goes on.
Enqueue(accepted) ==
    /\ pc = "enqueue"
    /\ Len(queued) + Len(refused) < Len(batches)
    /\ queued' = IF accepted THEN Append(queued, NextBatch) ELSE queued
    /\ refused' = IF accepted THEN refused ELSE Append(refused, NextBatch)
    /\ UNCHANGED <<ends, first, size, batches, pc>>

Finish ==
    /\ pc = "enqueue"
    /\ Len(queued) + Len(refused) >= Len(batches)
    /\ pc' = "done"
    /\ UNCHANGED <<ends, first, size, batches, queued, refused>>

Init ==
    /\ ends = <<>>
    /\ first = 1
    /\ size = 0
    /\ batches = <<>>
    /\ pc = "lines"
    /\ queued = <<>>
    /\ refused = <<>>

Next ==
    \/ \E length \in Lengths : AddLine(length)
    \/ EndLines
    \/ \E accepted \in BOOLEAN : Enqueue(accepted)
    \/ Finish

Spec == Init /\ [][Next]_vars

-----------------------------------------------------------------------------
(* Properties *)

\* The length of a batch's text: its lines joined by newlines.
TextLength(batch) == EndOf(batch.to) - EndOf(batch.from - 1) + (batch.to - batch.from)

\* No message is longer than Slack takes, except one that is a single long line.
MessagesFit ==
    \A batch \in ToSet(batches) : TextLength(batch) <= MaxText \/ batch.from = batch.to

\* In the end every line is in exactly one message, queued or refused, and the
\* queued messages keep the order of the lines.
LinesOnce ==
    pc = "done" =>
        /\ \A n \in 1 .. Len(ends) :
              Cardinality({b \in ToSet(queued) \cup ToSet(refused) : n \in b.from .. b.to}) = 1
        /\ \A n \in 1 .. Len(queued) - 1 : queued[n].to < queued[n + 1].from
==============================================================================

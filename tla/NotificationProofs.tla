-------------------------- MODULE NotificationProofs --------------------------
(***************************************************************************)
(* Proofs about Notification, for any limit of Slack's, any number of      *)
(* lines and any lengths, and whatever the queue refuses.                  *)
(***************************************************************************)
EXTENDS Notification, FiniteSetTheorems, SequenceTheorems, TLAPS

Batch == [from : Nat, to : Nat]

Types ==
    /\ ends \in Seq(Nat)
    /\ first \in 1 .. Len(ends) + 1
    /\ size \in Nat
    /\ batches \in Seq(Batch)
    /\ pc \in {"lines", "enqueue", "done"}
    /\ queued \in Seq(Batch)
    /\ refused \in Seq(Batch)

-----------------------------------------------------------------------------
(* Batches *)

\* The lines from the first of a batch up to another one, with a newline each.
Written(from, to) == EndOf(to) - EndOf(from - 1) + (to - from) + 1

Fits(batch) == TextLength(batch) <= MaxText \/ batch.from = batch.to

\* The full batches are intervals one after another, together the lines before the
\* current batch.
Cut ==
    /\ \A i \in 1 .. Len(batches) :
          1 <= batches[i].from /\ batches[i].from <= batches[i].to /\ batches[i].to < first
    /\ \A i, j \in 1 .. Len(batches) : i < j => batches[i].to < batches[j].from
    /\ \A n \in 1 .. first - 1 :
          \E i \in 1 .. Len(batches) : n \in batches[i].from .. batches[i].to

AllFit == \A i \in 1 .. Len(batches) : Fits(batches[i])

\* The current batch is what current_len counts, and fits so far.
CurrentCounted ==
    /\ pc = "lines" /\ first <= Len(ends) =>
          /\ size = Written(first, Len(ends))
          /\ size <= MaxText \/ first = Len(ends)
    /\ pc = "lines" /\ first > Len(ends) => size = 0
    /\ pc # "lines" => first = Len(ends) + 1

CutInv == Types /\ Cut /\ AllFit /\ CurrentCounted

\* The ends of a batch are numbers.
LEMMA BatchNumbers == \A b \in Batch : b.from \in Nat /\ b.to \in Nat
BY DEF Batch

\* The full batches are batches.
LEMMA FullBatches ==
    ASSUME CutInv
    PROVE  /\ Len(batches) \in Nat
           /\ \A i \in 1 .. Len(batches) :
                 batches[i] \in Batch /\ batches[i].from \in Nat /\ batches[i].to \in Nat
<1>1. batches \in Seq(Batch)
  BY DEF CutInv, Types
<1>2. Len(batches) \in Nat /\ \A i \in 1 .. Len(batches) : batches[i] \in Batch
  BY <1>1, ElementOfSeq, LenProperties
<1> QED
  BY <1>2, BatchNumbers

\* A batch of lines that stay is as long as it was.
LEMMA FitsStill ==
    ASSUME ends \in Seq(Nat), \A n \in 1 .. Len(ends) : ends'[n] = ends[n],
           NEW b \in Batch, 1 <= b.from, b.from <= b.to, b.to <= Len(ends), Fits(b)
    PROVE  Fits(b)'
<1>1. b.from \in Nat /\ b.to \in Nat /\ Len(ends) \in Nat
  BY BatchNumbers, LenProperties
<1>2. ASSUME NEW n \in 0 .. Len(ends)
      PROVE  EndOf(n)' = EndOf(n)
  BY <1>1, <1>2 DEF EndOf
<1>3. b.to \in 0 .. Len(ends) /\ b.from - 1 \in 0 .. Len(ends)
  BY <1>1
<1>4. EndOf(b.to)' = EndOf(b.to) /\ EndOf(b.from - 1)' = EndOf(b.from - 1)
  BY <1>2, <1>3
<1> QED
  BY <1>4 DEF Fits, TextLength

\* A batch more, if there is a current one.
LEMMA Flush ==
    ASSUME CutInv, pc = "lines", batches' = batches \o Current, first' = Len(ends) + 1,
           \A n \in 1 .. Len(ends) : ends'[n] = ends[n]
    PROVE  Cut' /\ AllFit' /\ batches' \in Seq(Batch)
<1>0. Types /\ Cut /\ AllFit /\ CurrentCounted
  BY DEF CutInv
<1>1. /\ Len(ends) \in Nat /\ first \in Nat /\ first >= 1 /\ first <= Len(ends) + 1
      /\ ends \in Seq(Nat) /\ size \in Nat /\ batches \in Seq(Batch)
      /\ \A i \in 1 .. Len(batches) :
            batches[i] \in Batch /\ batches[i].from \in Nat /\ batches[i].to \in Nat
  BY <1>0, FullBatches, LenProperties DEF Types
<1>2. CASE first > Len(ends)
  <2>1. batches' = batches /\ first' = first
    BY <1>1, <1>2, ConcatEmptySeq DEF Current
  <2>2. ASSUME NEW i \in 1 .. Len(batches)
        PROVE  Fits(batches[i])'
    <3>1. PICK b \in Batch : b = batches[i]
      BY <1>1
    <3>2. Fits(b) /\ 1 <= b.from /\ b.from <= b.to /\ b.to <= Len(ends)
      BY <1>0, <1>1, <3>1 DEF AllFit, Cut
    <3>3. Fits(b)'
      BY <1>1, <3>2, FitsStill
    <3> QED
      BY <2>1, <3>1, <3>3
  <2>3. Cut'
    BY <1>0, <2>1 DEF Cut
  <2>4. AllFit'
    BY <2>1, <2>2 DEF AllFit
  <2> QED
    BY <1>1, <2>1, <2>3, <2>4
<1>3. CASE first <= Len(ends)
  <2>1. batches' = batches \o <<[from |-> first, to |-> Len(ends)]>>
    <3>1. ~ (first > Len(ends))
      BY <1>1, <1>3
    <3>2. Current = <<[from |-> first, to |-> Len(ends)]>>
      BY <3>1 DEF Current
    <3> QED
      BY <3>2
  <2>2. [from |-> first, to |-> Len(ends)] \in Batch
    BY <1>1 DEF Batch
  <2>3. /\ batches' \in Seq(Batch) /\ Len(batches') = Len(batches) + 1 /\ Len(batches) \in Nat
        /\ \A i \in 1 .. Len(batches) : batches'[i] = batches[i]
        /\ batches'[Len(batches) + 1] = [from |-> first, to |-> Len(ends)]
    BY <1>1, <2>1, <2>2
  <2>4. batches'[Len(batches) + 1].from = first /\ batches'[Len(batches) + 1].to = Len(ends)
    BY <2>3
  <2>5. \A i \in 1 .. Len(batches') : i \in 1 .. Len(batches) \/ i = Len(batches) + 1
    BY <2>3
  <2>6. ASSUME NEW i \in 1 .. Len(batches')
        PROVE  /\ 1 <= batches'[i].from /\ batches'[i].from <= batches'[i].to
               /\ batches'[i].to < first'
    <3>1. CASE i \in 1 .. Len(batches)
      <4>1. 1 <= batches[i].from /\ batches[i].from <= batches[i].to /\ batches[i].to < first
        BY <1>0, <3>1 DEF Cut
      <4>2. batches'[i] = batches[i]
        BY <2>3, <3>1
      <4>3. batches[i].to < Len(ends) + 1
        BY <1>1, <1>3, <3>1, <4>1
      <4> QED
        BY <4>1, <4>2, <4>3
    <3>2. CASE i = Len(batches) + 1
      BY <1>1, <1>3, <2>4, <3>2
    <3> QED
      BY <2>5, <3>1, <3>2
  <2>7. ASSUME NEW i \in 1 .. Len(batches'), NEW j \in 1 .. Len(batches'), i < j
        PROVE  batches'[i].to < batches'[j].from
    <3>1. i \in 1 .. Len(batches)
      BY <2>3, <2>7
    <3> QED
      BY <1>0, <1>1, <2>3, <2>4, <2>5, <2>7, <3>1 DEF Cut
  <2>8. ASSUME NEW n \in 1 .. first' - 1
        PROVE  \E i \in 1 .. Len(batches') : n \in batches'[i].from .. batches'[i].to
    <3>1. CASE n < first
      <4>1. PICK i \in 1 .. Len(batches) : n \in batches[i].from .. batches[i].to
        BY <1>0, <1>1, <3>1 DEF Cut
      <4>2. i \in 1 .. Len(batches') /\ batches'[i] = batches[i]
        BY <2>3
      <4> QED
        BY <4>1, <4>2
    <3>2. CASE n >= first
      <4>1. n \in batches'[Len(batches) + 1].from .. batches'[Len(batches) + 1].to
        BY <1>1, <2>4, <3>2
      <4>2. Len(batches) + 1 \in 1 .. Len(batches')
        BY <2>3
      <4> QED
        BY <4>1, <4>2
    <3>3. n < first \/ n >= first
      BY <1>1
    <3> QED
      BY <3>1, <3>2, <3>3
  <2>9. ASSUME NEW i \in 1 .. Len(batches')
        PROVE  Fits(batches[i])'
    <3>1. CASE i \in 1 .. Len(batches)
      <4>1. PICK b \in Batch : b = batches[i]
        BY <1>1, <3>1
      <4>2. Fits(b) /\ 1 <= b.from /\ b.from <= b.to /\ b.to <= Len(ends)
        <5>1. Fits(b)
          BY <1>0, <3>1, <4>1 DEF AllFit
        <5>2. 1 <= b.from /\ b.from <= b.to /\ b.to < first
          BY <1>0, <3>1, <4>1 DEF Cut
        <5> QED
          BY <1>1, <1>3, <3>1, <4>1, <5>1, <5>2
      <4>3. Fits(b)'
        BY <1>1, <4>2, FitsStill
      <4> QED
        BY <2>3, <3>1, <4>1, <4>3
    <3>2. CASE i = Len(batches) + 1
      <4>1. batches'[i].from = first /\ batches'[i].to = Len(ends)
        BY <2>4, <3>2
      <4>2. TextLength(batches[i])' = EndOf(Len(ends)) - EndOf(first - 1) + (Len(ends) - first)
        <5>0. first - 1 \in Nat
          BY <1>1
        <5>1. PICK f \in Nat, t \in Nat : f = first - 1 /\ t = Len(ends)
          BY <1>1, <5>0
        <5>2. EndOf(f)' = EndOf(f) /\ EndOf(t)' = EndOf(t)
          <6>1. f \in 0 .. Len(ends) /\ t \in 0 .. Len(ends)
            BY <1>1, <1>3, <5>1
          <6> QED
            BY <1>1, <6>1 DEF EndOf
        <5>3. TextLength(batches[i])' = EndOf(t)' - EndOf(f)' + (t - first)
          BY <4>1, <5>1 DEF TextLength
        <5>4. TextLength(batches[i])' = EndOf(t) - EndOf(f) + (t - first)
          BY <5>2, <5>3
        <5> QED
          BY <5>1, <5>4
      <4>3. EndOf(Len(ends)) \in Int /\ EndOf(first - 1) \in Int
        BY <1>1, <1>3 DEF EndOf
      <4>4. size = EndOf(Len(ends)) - EndOf(first - 1) + (Len(ends) - first) + 1
            /\ (size <= MaxText \/ first = Len(ends))
        BY <1>0, <1>3 DEF CurrentCounted, Written
      <4> QED
        <5>1. TextLength(batches[i])' = size - 1 /\ size \in Nat /\ MaxText \in Nat
          <6>1. size \in Nat
            BY <1>1
          <6>2. MaxText \in Nat
            BY LengthsAssumption
          <6>3. TextLength(batches[i])' + 1 = size
            BY <4>2, <4>4
          <6>4. TextLength(batches[i])' \in Int
            BY <1>1, <4>2, <4>3
          <6> QED
            BY <6>1, <6>2, <6>3, <6>4
        <5> QED
          BY <4>1, <4>4, <5>1 DEF Fits
    <3> QED
      BY <2>5, <3>1, <3>2
  <2> QED
    BY <1>0, <2>3, <2>6, <2>7, <2>8, <2>9 DEF Cut, AllFit
<1> QED
  BY <1>1, <1>2, <1>3

\* A line more is counted from where the last one ends.
LEMMA AddLineCut ==
    ASSUME CutInv, NEW length \in Lengths, AddLine(length)
    PROVE  CutInv'
<1> USE DEF CutInv, Types
<1>1. /\ Len(ends) \in Nat /\ first \in Nat /\ first >= 1 /\ first <= Len(ends) + 1
      /\ length \in Nat /\ MaxText \in Nat /\ size \in Nat
  <2>1. length \in Nat /\ MaxText \in Nat
    BY LengthsAssumption
  <2> QED
    BY <2>1, LenProperties
<1>2. EndOf(Len(ends)) \in Nat /\ EndOf(first - 1) \in Nat
  BY <1>1 DEF EndOf
<1>3. /\ ends' = Append(ends, EndOf(Len(ends)) + length)
      /\ pc = "lines" /\ UNCHANGED <<pc, queued, refused>>
  BY DEF AddLine
<1>4. /\ ends' \in Seq(Nat) /\ Len(ends') = Len(ends) + 1
      /\ \A n \in 1 .. Len(ends) : ends'[n] = ends[n]
      /\ ends'[Len(ends) + 1] = EndOf(Len(ends)) + length
  BY <1>1, <1>2, <1>3
<1>5. Written(first, Len(ends))'
         = (EndOf(Len(ends)) + length)
           - (IF first' - 1 = 0 THEN 0 ELSE ends'[first' - 1]) + ((Len(ends) + 1) - first') + 1
  <2>1. Written(first, Len(ends))'
           = (IF Len(ends') = 0 THEN 0 ELSE ends'[Len(ends')])
             - (IF first' - 1 = 0 THEN 0 ELSE ends'[first' - 1]) + (Len(ends') - first') + 1
    BY DEF Written, EndOf
  <2>2. (IF Len(ends') = 0 THEN 0 ELSE ends'[Len(ends')]) = EndOf(Len(ends)) + length
    BY <1>1, <1>4
  <2>3. Len(ends') - first' = (Len(ends) + 1) - first'
    BY <1>4
  <2> QED
    BY <2>1, <2>2, <2>3
<1>6. Current # <<>> <=> first <= Len(ends)
  BY <1>1 DEF Current
<1>7. CASE first <= Len(ends) /\ size + length + 1 > MaxText
  <2>1. batches' = batches \o Current /\ first' = Len(ends) + 1 /\ size' = length + 1
    BY <1>6, <1>7 DEF AddLine
  <2>2. Cut' /\ AllFit' /\ batches' \in Seq(Batch)
    BY <1>3, <1>4, <2>1, Flush
  <2>3. (IF first' - 1 = 0 THEN 0 ELSE ends'[first' - 1]) = EndOf(Len(ends))
    <3>1. first' - 1 = Len(ends)
      BY <1>1, <2>1
    <3>3. CASE Len(ends) = 0
      BY <3>1, <3>3 DEF EndOf
    <3>4. CASE Len(ends) # 0
      <4>1. Len(ends) \in 1 .. Len(ends)
        BY <1>1, <3>4
      <4>2. ends'[Len(ends)] = ends[Len(ends)]
        BY <1>4, <4>1
      <4> QED
        BY <3>1, <3>4, <4>2 DEF EndOf
    <3> QED
      BY <3>3, <3>4
  <2>4. Written(first, Len(ends))' = length + 1 /\ first' = Len(ends')
    <3>1. /\ first' = Len(ends) + 1 /\ Len(ends') = Len(ends) + 1
          /\ EndOf(Len(ends)) \in Int /\ length \in Int /\ Len(ends) \in Int
      BY <1>1, <1>2, <1>4, <2>1
    <3> QED
      BY <1>5, <2>3, <3>1
  <2>5. CurrentCounted'
    BY <1>3, <1>4, <2>1, <2>4 DEF CurrentCounted
  <2> QED
    BY <1>1, <1>3, <1>4, <2>1, <2>2, <2>5
<1>8. CASE ~ (first <= Len(ends) /\ size + length + 1 > MaxText)
  <2>1. batches' = batches /\ first' = first /\ size' = size + length + 1
    BY <1>6, <1>8 DEF AddLine
  <2>2. Cut'
    BY <2>1 DEF Cut
  <2>3. AllFit'
    <3> SUFFICES ASSUME NEW i \in 1 .. Len(batches)
                 PROVE  Fits(batches[i])'
      BY <2>1 DEF AllFit
    <3>1. PICK b \in Batch : b = batches[i]
      BY ElementOfSeq
    <3>2. Fits(b)
      BY <3>1 DEF AllFit
    <3>3. 1 <= b.from /\ b.from <= b.to /\ b.to < first
      BY <3>1 DEF Cut
    <3>4. b.to <= Len(ends)
      BY <1>1, <3>3 DEF Batch
    <3>5. Fits(b)'
      BY <1>4, <3>2, <3>3, <3>4, FitsStill
    <3> QED
      BY <2>1, <3>1, <3>5
  <2>4. (IF first' - 1 = 0 THEN 0 ELSE ends'[first' - 1]) = EndOf(first - 1)
    <3>2. CASE first = 1
      BY <2>1, <3>2 DEF EndOf
    <3>3. CASE first # 1
      <4>1. first - 1 \in 1 .. Len(ends)
        BY <1>1, <3>3
      <4>2. ends'[first - 1] = ends[first - 1]
        BY <1>4, <4>1
      <4> QED
        BY <1>1, <2>1, <3>3, <4>2 DEF EndOf
    <3> QED
      BY <3>2, <3>3
  <2>5. Written(first, Len(ends))'
           = (EndOf(Len(ends)) + length) - EndOf(first - 1) + ((Len(ends) + 1) - first) + 1
    BY <1>5, <2>1, <2>4
  <2>6. CASE first <= Len(ends)
    <3>1. size = EndOf(Len(ends)) - EndOf(first - 1) + (Len(ends) - first) + 1
      BY <1>3, <2>6 DEF CurrentCounted, Written
    <3>2. Written(first, Len(ends))' = size + length + 1
      <4>1. PICK e \in Int, f \in Int, l \in Int, k \in Int :
               e = EndOf(Len(ends)) /\ f = EndOf(first - 1) /\ l = Len(ends) /\ k = first
        BY <1>1, <1>2
      <4>2. size + length + 1 = (e + length) - f + ((l + 1) - k) + 1
        <5>1. size = e - f + (l - k) + 1
          BY <3>1, <4>1
        <5> QED
          BY <1>1, <5>1
      <4>3. Written(first, Len(ends))' = (e + length) - f + ((l + 1) - k) + 1
        BY <2>5, <4>1
      <4> QED
        BY <4>2, <4>3
    <3>3. CurrentCounted'
      <4>1. size' = Written(first, Len(ends))' /\ size' <= MaxText
        BY <1>1, <1>8, <2>1, <2>6, <3>2
      <4>2. pc' = "lines" /\ ~ (first' > Len(ends'))
        BY <1>1, <1>3, <1>4, <2>1, <2>6
      <4> QED
        BY <4>1, <4>2 DEF CurrentCounted
    <3> QED
      BY <1>1, <1>3, <1>4, <2>1, <2>2, <2>3, <3>3
  <2>7. CASE first > Len(ends)
    <3>1. size = 0 /\ first = Len(ends) + 1 /\ first - 1 = Len(ends)
      BY <1>1, <1>3, <2>7 DEF CurrentCounted
    <3>2. Written(first, Len(ends))' = length + 1
      BY <1>1, <1>2, <2>5, <3>1
    <3>3. size' = length + 1 /\ first' = Len(ends')
      BY <1>1, <1>4, <2>1, <3>1
    <3>4. CurrentCounted'
      BY <1>1, <1>3, <3>2, <3>3 DEF CurrentCounted
    <3> QED
      BY <1>1, <1>3, <1>4, <2>1, <2>2, <2>3, <3>4
  <2> QED
    BY <1>1, <2>6, <2>7
<1> QED
  BY <1>7, <1>8

\* Every step keeps the invariant.
LEMMA CutStep ==
    ASSUME CutInv, [Next]_vars
    PROVE  CutInv'
<1>1. CASE EndLines
  <2>1. Cut' /\ AllFit' /\ batches' \in Seq(Batch)
    BY <1>1, Flush DEF EndLines
  <2>2. /\ UNCHANGED <<ends, size, queued, refused>> /\ first' = Len(ends) + 1
        /\ pc' = "enqueue"
    BY <1>1 DEF EndLines
  <2>3. Types'
    BY <2>1, <2>2 DEF CutInv, Types
  <2> QED
    BY <2>1, <2>2, <2>3 DEF CutInv, CurrentCounted
<1>2. ASSUME (\E accepted \in BOOLEAN : Enqueue(accepted)) \/ Finish \/ UNCHANGED vars
      PROVE  CutInv'
  <2>1. UNCHANGED <<ends, first, size, batches>> /\ (pc' = "lines" <=> pc = "lines")
    BY <1>2 DEF Enqueue, Finish, vars
  <2>2. queued' \in Seq(Batch) /\ refused' \in Seq(Batch) /\ pc' \in {"lines", "enqueue", "done"}
    <3>1. CASE \E accepted \in BOOLEAN : Enqueue(accepted)
      <4>1. Len(queued) + Len(refused) < Len(batches) /\ Len(queued) \in Nat /\ Len(refused) \in Nat
            /\ Len(batches) \in Nat
        BY <3>1 DEF Enqueue, CutInv, Types
      <4>2. Len(queued) + Len(refused) + 1 \in 1 .. Len(batches)
        BY <4>1
      <4>3. NextBatch \in Batch
        BY <4>2, ElementOfSeq DEF NextBatch, CutInv, Types
      <4> QED
        BY <3>1, <4>3 DEF Enqueue, CutInv, Types
    <3>2. CASE Finish \/ UNCHANGED vars
      BY <3>2 DEF Finish, vars, CutInv, Types
    <3> QED
      BY <1>2, <3>1, <3>2
  <2> QED
    BY <2>1, <2>2 DEF CutInv, Types, Cut, AllFit, CurrentCounted, Fits, TextLength, Written, EndOf
<1> QED
  BY <1>1, <1>2, AddLineCut DEF Next

\* The invariant holds.
LEMMA CutHolds == Spec => []CutInv
<1>1. Init => CutInv
  BY DEF Init, CutInv, Types, Cut, AllFit, CurrentCounted
<1>2. CutInv /\ [Next]_vars => CutInv'
  BY CutStep
<1> QED
  BY <1>1, <1>2, PTL DEF Spec

\* No message is longer than Slack's limit, but for a single line that is.
THEOREM MessagesAreCut == Spec => []MessagesFit
<1>1. CutInv => MessagesFit
  <2> SUFFICES ASSUME CutInv, NEW batch \in ToSet(batches)
               PROVE  TextLength(batch) <= MaxText \/ batch.from = batch.to
    BY DEF MessagesFit
  <2>1. PICK i \in 1 .. Len(batches) : batch = batches[i]
    BY DEF ToSet, CutInv, Types
  <2> QED
    BY <2>1 DEF CutInv, AllFit, Fits
<1> QED
  BY <1>1, CutHolds, PTL

-----------------------------------------------------------------------------
(* What is sent *)

Sent == Len(queued) + Len(refused)

\* What the queue was offered are the first batches, accepted ones in their order.
SentInv ==
    /\ pc = "lines" => queued = <<>> /\ refused = <<>>
    /\ Sent <= Len(batches)
    /\ pc = "done" => Sent = Len(batches)
    /\ ToSet(queued) \cup ToSet(refused) = {batches[i] : i \in 1 .. Sent}
    /\ \A a, b \in 1 .. Len(queued) : a < b => queued[a].to < queued[b].from

\* One element more.
LEMMA AppendToSet ==
    ASSUME NEW S, NEW s \in Seq(S), NEW e \in S
    PROVE  ToSet(Append(s, e)) = ToSet(s) \cup {e}
<1> DEFINE t == Append(s, e)
<1>1. /\ t \in Seq(S) /\ Len(s) \in Nat /\ Len(t) = Len(s) + 1
      /\ \A i \in 1 .. Len(s) : t[i] = s[i]
      /\ t[Len(s) + 1] = e
  OBVIOUS
<1>2. DOMAIN t = 1 .. Len(t) /\ DOMAIN s = 1 .. Len(s)
  BY <1>1
<1>3. \A i \in 1 .. Len(t) : i \in 1 .. Len(s) \/ i = Len(s) + 1
  BY <1>1
<1>4. \A i \in 1 .. Len(s) : i \in 1 .. Len(t)
  BY <1>1
<1>5. Len(s) + 1 \in 1 .. Len(t)
  BY <1>1
<1> HIDE DEF t
<1>6. ToSet(t) = {t[i] : i \in 1 .. Len(t)} /\ ToSet(s) = {s[i] : i \in 1 .. Len(s)}
  BY <1>2 DEF ToSet
<1>7. ToSet(t) = ToSet(s) \cup {e}
  BY <1>1, <1>3, <1>4, <1>5, <1>6
<1> QED
  BY <1>7 DEF t

\* The next batch goes to the queue or to the log.
LEMMA EnqueueSent ==
    ASSUME CutInv, SentInv, NEW accepted \in BOOLEAN, Enqueue(accepted)
    PROVE  SentInv'
<1> USE DEF CutInv, Types
<1>1. /\ Len(queued) \in Nat /\ Len(refused) \in Nat /\ Len(batches) \in Nat
      /\ pc = "enqueue" /\ UNCHANGED <<batches, pc>> /\ Sent < Len(batches)
  BY DEF Enqueue, Sent
<1>2. Sent + 1 \in 1 .. Len(batches) /\ Sent \in Nat /\ NextBatch = batches[Sent + 1]
  BY <1>1 DEF Sent, NextBatch
<1>3. NextBatch \in Batch /\ NextBatch.from \in Nat /\ NextBatch.to \in Nat
  <2>1. NextBatch \in Batch
    BY <1>2, ElementOfSeq
  <2> QED
    BY <2>1 DEF Batch
<1>4. Sent' = Sent + 1
  <2>1. CASE accepted
    BY <1>1, <1>3, <2>1 DEF Enqueue, Sent
  <2>2. CASE ~ accepted
    BY <1>1, <1>3, <2>2 DEF Enqueue, Sent
  <2> QED
    BY <2>1, <2>2
<1>5. (ToSet(queued) \cup ToSet(refused))' = {batches[i] : i \in 1 .. Sent}'
  <2>1. (ToSet(queued) \cup ToSet(refused))' = ToSet(queued) \cup ToSet(refused) \cup {NextBatch}
    <3>1. CASE accepted
      BY <1>3, <3>1, AppendToSet DEF Enqueue
    <3>2. CASE ~ accepted
      BY <1>3, <3>2, AppendToSet DEF Enqueue
    <3> QED
      BY <3>1, <3>2
  <2>2. {batches[i] : i \in 1 .. Sent}' = {batches[i] : i \in 1 .. Sent + 1}
    BY <1>1, <1>4
  <2>3. 1 .. Sent + 1 = 1 .. Sent \cup {Sent + 1}
    BY <1>2
  <2>4. {batches[i] : i \in 1 .. Sent + 1} = {batches[i] : i \in 1 .. Sent} \cup {NextBatch}
    BY <1>2, <2>3
  <2> QED
    BY <2>1, <2>2, <2>4 DEF SentInv
<1>6. ASSUME NEW a \in 1 .. Len(queued'), NEW b \in 1 .. Len(queued'), a < b
      PROVE  queued'[a].to < queued'[b].from
  <2>1. CASE ~ accepted
    BY <1>6, <2>1 DEF Enqueue, SentInv
  <2>2. CASE accepted
    <3>1. /\ queued' = Append(queued, NextBatch) /\ Len(queued') = Len(queued) + 1
          /\ \A i \in 1 .. Len(queued) : queued'[i] = queued[i]
          /\ queued'[Len(queued) + 1] = NextBatch
      BY <1>1, <1>3, <2>2 DEF Enqueue
    <3>2. a \in 1 .. Len(queued) /\ queued'[a] = queued[a]
      BY <1>1, <1>6, <3>1
    <3>3. CASE b \in 1 .. Len(queued)
      BY <1>6, <3>1, <3>2, <3>3 DEF SentInv
    <3>4. CASE b = Len(queued) + 1
      <4>1. queued[a] \in ToSet(queued)
        BY <3>2 DEF ToSet
      <4>2. PICK i \in 1 .. Sent : queued[a] = batches[i]
        BY <4>1 DEF SentInv
      <4>3. i \in 1 .. Len(batches) /\ i < Sent + 1
        BY <1>1, <1>2, <4>2
      <4>4. batches[i].to < batches[Sent + 1].from
        BY <1>2, <4>3 DEF Cut
      <4> QED
        BY <1>2, <3>1, <3>2, <3>4, <4>2, <4>4
    <3> QED
      BY <1>1, <1>6, <3>1, <3>3, <3>4
  <2> QED
    BY <2>1, <2>2
<1> QED
  BY <1>1, <1>2, <1>4, <1>5, <1>6 DEF SentInv

\* Every step keeps it.
LEMMA SentStep ==
    ASSUME CutInv, SentInv, [Next]_vars
    PROVE  SentInv'
<1>1. CASE (\E length \in Lengths : AddLine(length)) \/ EndLines
  <2>1. queued = <<>> /\ refused = <<>> /\ queued' = <<>> /\ refused' = <<>>
        /\ Len(batches') \in Nat /\ pc' # "done"
    <3>1. pc = "lines" /\ UNCHANGED <<queued, refused>> /\ pc' # "done"
      BY <1>1 DEF AddLine, EndLines
    <3>2. Len(batches') \in Nat
      BY CutStep DEF CutInv, Types
    <3> QED
      BY <3>1, <3>2 DEF SentInv
  <2>2. Sent' = 0
    BY <2>1 DEF Sent
  <2>3. (ToSet(queued) \cup ToSet(refused))' = {}
    BY <2>1 DEF ToSet
  <2>4. {batches[i] : i \in 1 .. Sent}' = {}
    BY <2>2
  <2> QED
    BY <2>1, <2>2, <2>3, <2>4 DEF SentInv
<1>2. CASE \E accepted \in BOOLEAN : Enqueue(accepted)
  BY <1>2, EnqueueSent
<1>3. CASE Finish
  <2>1. UNCHANGED <<batches, queued, refused>> /\ Len(queued) + Len(refused) >= Len(batches) /\ pc' = "done"
    BY <1>3 DEF Finish
  <2>2. Sent' = Sent /\ Sent = Len(batches)
    BY <2>1 DEF Sent, SentInv, CutInv, Types
  <2> QED
    BY <2>1, <2>2 DEF SentInv
<1>4. CASE UNCHANGED vars
  BY <1>4 DEF vars, SentInv, Sent
<1> QED
  BY <1>1, <1>2, <1>3, <1>4 DEF Next

\* In the end every line is in exactly one message, and the queued messages keep the
\* order of the lines.
THEOREM LinesAreSentOnce == Spec => []LinesOnce
<1>1. Init => SentInv
  <2> SUFFICES ASSUME Init
               PROVE  SentInv
    OBVIOUS
  <2>1. /\ Len(queued) = 0 /\ Len(refused) = 0 /\ Len(batches) = 0
        /\ ToSet(queued) = {} /\ ToSet(refused) = {}
    BY DEF Init, ToSet
  <2> QED
    BY <2>1 DEF Init, SentInv, Sent
<1>2. CutInv /\ SentInv /\ [Next]_vars => SentInv'
  BY SentStep
<1>3. CutInv /\ SentInv => LinesOnce
  <2> SUFFICES ASSUME CutInv, SentInv, pc = "done"
               PROVE  /\ \A n \in 1 .. Len(ends) :
                            Cardinality({b \in ToSet(queued) \cup ToSet(refused) :
                                            n \in b.from .. b.to}) = 1
                      /\ \A n \in 1 .. Len(queued) - 1 : queued[n].to < queued[n + 1].from
    BY DEF LinesOnce
  <2>1. /\ Len(queued) \in Nat /\ Len(batches) \in Nat
        /\ \A i \in 1 .. Len(batches) : batches[i].from \in Nat /\ batches[i].to \in Nat
    BY FullBatches, LenProperties DEF CutInv, Types
  <2>2. \A k, m \in 1 .. Len(batches) : k < m => batches[k].to < batches[m].from
    BY DEF CutInv, Cut
  <2>3. ASSUME NEW n \in 1 .. Len(ends)
        PROVE  Cardinality({b \in ToSet(queued) \cup ToSet(refused) : n \in b.from .. b.to}) = 1
    <3>1. n \in 1 .. first - 1
      <4>1. first = Len(ends) + 1 /\ Len(ends) \in Nat
        BY LenProperties DEF CutInv, Types, CurrentCounted
      <4> QED
        BY <4>1
    <3>2. PICK i \in 1 .. Len(batches) : n \in batches[i].from .. batches[i].to
      BY <3>1 DEF CutInv, Cut
    <3>3. ToSet(queued) \cup ToSet(refused) = {batches[j] : j \in 1 .. Len(batches)}
      BY DEF SentInv
    <3>4. ASSUME NEW j \in 1 .. Len(batches), n \in batches[j].from .. batches[j].to
          PROVE  j = i
      <4>1. ASSUME i < j
            PROVE  FALSE
        <5>1. batches[i].to < batches[j].from
          BY <2>2, <4>1
        <5> QED
          BY <2>1, <3>2, <3>4, <5>1
      <4>2. ASSUME j < i
            PROVE  FALSE
        <5>1. batches[j].to < batches[i].from
          BY <2>2, <4>2
        <5> QED
          BY <2>1, <3>2, <3>4, <5>1
      <4> QED
        BY <2>1, <4>1, <4>2
    <3>5. {b \in ToSet(queued) \cup ToSet(refused) : n \in b.from .. b.to} = {batches[i]}
      BY <3>2, <3>3, <3>4
    <3> QED
      BY <3>5, FS_Singleton
  <2>4. ASSUME NEW n \in 1 .. Len(queued) - 1
        PROVE  queued[n].to < queued[n + 1].from
    <3>1. n \in 1 .. Len(queued) /\ n + 1 \in 1 .. Len(queued) /\ n < n + 1
      BY <2>1
    <3> QED
      BY <3>1 DEF SentInv
  <2> QED
    BY <2>3, <2>4
<1> QED
  BY <1>1, <1>2, <1>3, CutHolds, PTL DEF Spec
=============================================================================

---------------------------- MODULE PollLoopProofs ----------------------------
(***************************************************************************)
(* Proofs about PollLoop, for every interval, cooldown and bound on polls. *)
(***************************************************************************)
EXTENDS PollLoop, TLAPS

USE DEF observed, health

Age == Never .. Horizon + 1

Longest == Max({Interval, Cooldown})

-----------------------------------------------------------------------------
(* Durations *)

\* The Max of the community modules, for two numbers.
LEMMA MaxOfTwo ==
    ASSUME NEW a \in Int, NEW b \in Int
    PROVE  Max({a, b}) \in {a, b} /\ Max({a, b}) >= a /\ Max({a, b}) >= b
<1>1. \E x \in {a, b} : \A y \in {a, b} : x >= y
  <2>1. CASE a >= b
    BY <2>1
  <2>2. CASE b >= a
    BY <2>2
  <2> QED
    BY <2>1, <2>2
<1>2. Max({a, b}) \in {a, b} /\ \A y \in {a, b} : Max({a, b}) >= y
  BY <1>1 DEF Max
<1> QED
  BY <1>2

\* The constants of the loop are what their names say.
LEMMA Durations ==
    /\ Interval \in Nat \ {0} /\ Cooldown \in Nat \ {0} /\ MaxPoll \in Nat \ {0}
    /\ Longest \in Nat /\ Longest >= Interval /\ Longest >= Cooldown
    /\ CheckPeriod = Longest + MaxPoll
    /\ Horizon \in Nat /\ Horizon > Longest /\ Horizon > MaxPoll
<1>1. Interval \in Nat \ {0} /\ Cooldown \in Nat \ {0} /\ MaxPoll \in Nat \ {0}
  BY DurationsAssumption
<1>2. Longest \in {Interval, Cooldown} /\ Longest >= Interval /\ Longest >= Cooldown
  BY <1>1, MaxOfTwo DEF Longest
<1>3. CheckPeriod = Longest + MaxPoll
  BY DEF CheckPeriod, Longest
<1> QED
  BY <1>1, <1>2, <1>3 DEF Horizon

\* What is defined from constants does not change.
LEMMA Rigid == Longest' = Longest /\ Horizon' = Horizon /\ Age' = Age
BY DEF Longest, Horizon, Age, CheckPeriod, Max, Never

\* The sleep is never shorter than the cooldown nor than the rest of the interval.
LEMMA Sleeps ==
    ASSUME elapsed \in 0 .. MaxPoll
    PROVE  /\ SleepFor \in 1 .. Longest
           /\ SleepFor >= Cooldown
           /\ elapsed + SleepFor >= Interval
<1>1. Interval - elapsed \in Int /\ Cooldown \in Int
  BY Durations
<1>2. SleepFor \in {Interval - elapsed, Cooldown} /\ SleepFor >= Interval - elapsed /\ SleepFor >= Cooldown
  BY <1>1, MaxOfTwo DEF SleepFor
<1> QED
  BY <1>2, Durations

\* After a check, with all of the sleep to come, nothing is due.
LEMMA Checked ==
    ASSUME NEW s \in 1 .. Longest, NEW good \in Age, NEW alert \in Age,
           \/ alert = 0
           \/ good <= 2 * Interval
           \/ alert # Never /\ alert <= Interval
    PROVE  /\ 0 + s = s
           /\ \/ good + s <= 2 * Interval + Longest
              \/ alert # Never /\ alert + s <= Interval + Longest
BY Durations DEF Age, Never

\* A tick adds one to an age, until it saturates beyond the horizon.
LEMMA Ages ==
    ASSUME NEW age \in Age
    PROVE  /\ Older(age) \in Age
           /\ age = Never => Older(age) = Never
           /\ age # Never => Older(age) > 0 /\ Older(age) >= age /\ Older(age) <= age + 1
           /\ age # Never /\ age <= Horizon => Older(age) = age + 1
BY Durations DEF Older, Age, Never

-----------------------------------------------------------------------------
(* The inductive invariant *)

Types ==
    /\ pc \in {"start", "polling", "sleeping", "stopped"}
    /\ elapsed \in 0 .. MaxPoll
    /\ sleep \in 0 .. Longest
    /\ sinceRun \in Age /\ sinceOk \in Age /\ sinceAlert \in Age
    /\ sinceStart \in Age /\ sinceEnd \in Age /\ sinceGood \in Age
    /\ status \in {"none", "good", "failed"}
    /\ snapshot \in [status : {"none", "good", "failed"}, ok : Age, updated : Age]

\* What the loop knows of its last good poll is what really happened, and an alert
\* or a good poll of this instant is followed by a sleep that has yet to begin.
Knows ==
    /\ sinceRun # Never /\ sinceStart # Never /\ sinceEnd # Never
    /\ sinceGood = IF sinceOk = Never THEN sinceRun ELSE sinceOk
    /\ 0 \in {sinceOk, sinceAlert} => pc \in {"sleeping", "stopped"} /\ (pc = "sleeping" => sleep > 0)
    /\ sinceAlert = 0 => sinceGood > 2 * Interval

\* Time is accounted for: between two polls, and between two checks.
Spaced ==
    /\ pc = "polling" => sinceStart = elapsed
    /\ pc = "sleeping" => /\ sinceStart > Horizon \/ sinceStart + sleep >= Interval
                          /\ sinceEnd > Horizon \/ sinceEnd + sleep >= Cooldown
    /\ pc = "start" => sinceGood = 0
    /\ pc = "polling" => \/ sinceGood <= 2 * Interval + Longest + elapsed
                         \/ sinceAlert # Never /\ sinceAlert <= Interval + Longest + elapsed
    /\ pc = "sleeping" => \/ sinceGood + sleep <= 2 * Interval + Longest
                          \/ sinceAlert # Never /\ sinceAlert + sleep <= Interval + Longest

Shown ==
    /\ isoProbe \in BOOLEAN /\ cycled \in BOOLEAN
    /\ cycled => status # "none"
    /\ ~ isoProbe => status = "none"
    /\ snapshot.ok = sinceOk
    /\ snapshot.status = "none" =>
           /\ snapshot.ok = snapshot.updated
           /\ isoProbe => snapshot.ok = Never
    /\ snapshot.status = "good" => snapshot.ok = snapshot.updated
    /\ snapshot.status = "failed" => 
           /\ snapshot.updated # Never
           /\ snapshot.ok = Never \/ snapshot.ok > snapshot.updated \/ snapshot.ok > Horizon

Inv == Types /\ Knows /\ Spaced /\ Shown

-----------------------------------------------------------------------------
(* Every step keeps it *)

\* The invariant holds at the start.
LEMMA InvInit == Init => Inv
<1> SUFFICES ASSUME Init PROVE Inv
  OBVIOUS
<1> USE Durations, Rigid DEF Init, Defaults
<1>1. Types
  BY DEF Types, Age, Never
<1>2. Knows
  BY DEF Knows, Never
<1>3. Spaced
  BY DEF Spaced
<1>4. Shown
  BY DEF Shown, Never
<1> QED
  BY <1>1, <1>2, <1>3, <1>4 DEF Inv

\* Starting a poll keeps it.
LEMMA InvStart == Inv /\ StartPoll => Inv'
<1> SUFFICES ASSUME Inv, StartPoll PROVE Inv'
  OBVIOUS
<1> USE Durations, Rigid DEF Inv, StartPoll
<1>1. Types'
  BY DEF Types, Age, Never
<1>2. Knows'
  BY DEF Types, Knows, Never
<1>3. Spaced'
  BY DEF Types, Spaced, Age, Never
<1>4. Shown'
  BY DEF Shown
<1> QED
  BY <1>1, <1>2, <1>3, <1>4

\* The end of the probe cycle keeps it.
LEMMA InvEndCycle ==
    ASSUME Inv, NEW result \in {"good", "failed"}, EndCycle(result)
    PROVE  Inv'
<1> USE DEF Inv, EndCycle
<1>1. Types'
  BY DEF Types
<1>2. Knows'
  BY DEF Knows
<1>3. Spaced'
  BY DEF Spaced
<1>4. Shown'
  BY DEF Shown
<1> QED
  BY <1>1, <1>2, <1>3, <1>4

\* The end of a poll keeps it: the mark, the snapshot, the check and the sleep.
LEMMA InvEndPoll ==
    ASSUME Inv, NEW raised \in BOOLEAN, EndPoll(raised)
    PROVE  Inv'
<1> USE Durations, Rigid DEF Inv
<1>1. /\ pc = "polling" /\ pc' = "sleeping"
      /\ sleep' \in 1 .. Longest
      /\ sleep' >= Cooldown
      /\ elapsed + sleep' >= Interval
      /\ sinceEnd' = 0
      /\ UNCHANGED <<elapsed, sinceRun, isoProbe, cycled, status, sinceStart>>
  BY Sleeps DEF EndPoll, Types
\* A good poll is what the loop marks as one.
<1>2. \/ sinceOk' = 0 /\ sinceGood' = 0 /\ ~ raised /\ status # "failed"
      \/ sinceOk' = sinceOk /\ sinceGood' = sinceGood /\ (raised \/ status = "failed")
  BY DEF EndPoll, MarkSuccessful
<1>3. sinceOk # 0 /\ sinceAlert # 0 /\ sinceRun # Never /\ (raised \/ (isoProbe => cycled))
  BY <1>1 DEF Knows, EndPoll
<1>4. sinceGood' = IF sinceOk' = Never THEN sinceRun' ELSE sinceOk'
  BY <1>1, <1>2, <1>3 DEF Knows, Never
<1>5. \/ sinceAlert' = 0 /\ sinceGood' > 2 * Interval
      \/ /\ sinceAlert' = sinceAlert
         /\ sinceGood' <= 2 * Interval \/ (sinceAlert # Never /\ sinceAlert <= Interval)
  <2>1. sinceGood' \in Int /\ sinceAlert \in Int
    BY <1>2 DEF Types, Age, Never
  <2>2. (IF sinceOk' # Never THEN sinceOk' ELSE sinceRun) = sinceGood'
    BY <1>1, <1>4
  <2> QED
    BY <2>1, <2>2 DEF EndPoll, CheckStale
<1>6. Types'
  <2>1. sinceOk' \in Age /\ sinceGood' \in Age /\ sinceAlert' \in Age
    BY <1>2, <1>5 DEF Types, Age, Never
  <2>2. snapshot' \in [status : {"none", "good", "failed"}, ok : Age, updated : Age]
    <3>1. 0 \in Age
      BY DEF Age, Never
    <3>2. snapshot' \in {snapshot, [status |-> status, ok |-> sinceOk', updated |-> 0]}
      BY DEF EndPoll, Publish
    <3> QED
      BY <2>1, <3>1, <3>2 DEF Types
  <2> QED
    BY <1>1, <2>1, <2>2 DEF Types, Age, Never
<1>7. Knows'
  <2>1. sinceAlert' = 0 => sinceGood' > 2 * Interval
    BY <1>3, <1>5
  <2>2. sinceRun' # Never /\ sinceStart' # Never /\ sinceEnd' # Never
    BY <1>1 DEF Knows, Never
  <2> QED
    BY <1>1, <1>4, <2>1, <2>2 DEF Knows
<1>8. Spaced'
  <2>1. /\ 0 + sleep' = sleep'
        /\ \/ sinceGood' + sleep' <= 2 * Interval + Longest
           \/ sinceAlert' # Never /\ sinceAlert' + sleep' <= Interval + Longest
    BY <1>1, <1>5, <1>6, Checked DEF Types
  <2>2. sinceStart' = elapsed
    BY <1>1 DEF Spaced
  <2> QED
    BY <1>1, <2>1, <2>2 DEF Spaced
<1>9. Shown'
  <2>1. CASE raised
    BY <1>1, <1>2, <2>1 DEF EndPoll, Publish, Shown, Never
  <2>2. CASE ~ raised
    <3>1. snapshot' = [status |-> status, ok |-> sinceOk', updated |-> 0]
      BY <2>2 DEF EndPoll, Publish
    <3>2. IF isoProbe THEN status # "none" ELSE status = "none"
      BY <1>3, <2>2 DEF Shown
    <3>3. sinceOk' = Never \/ sinceOk' >= 0
      BY <1>6 DEF Types, Age, Never
    <3> QED
      BY <1>1, <1>2, <1>3, <2>2, <3>1, <3>2, <3>3, <1>6 DEF Shown, Never, Types, Age
  <2> QED
    BY <2>1, <2>2
<1> QED
  BY <1>6, <1>7, <1>8, <1>9

\* The end of the loop keeps it.
LEMMA InvStop == Inv /\ Stop => Inv'
BY DEF Inv, Stop, Types, Knows, Spaced, Shown

\* The passing of time keeps it.
LEMMA InvTick == Inv /\ Tick => Inv'
<1> SUFFICES ASSUME Inv, Tick PROVE Inv'
  OBVIOUS
<1> USE Durations, Rigid DEF Inv
<1>1. /\ UNCHANGED <<pc, isoProbe, cycled, status>>
      /\ \/ pc = "polling" /\ elapsed < MaxPoll /\ elapsed' = elapsed + 1 /\ sleep' = sleep
         \/ pc = "sleeping" /\ sleep > 0 /\ sleep' = sleep - 1 /\ elapsed' = elapsed
  BY DEF Tick
<1>2. /\ sinceRun' = Older(sinceRun) /\ sinceOk' = Older(sinceOk)
      /\ sinceAlert' = Older(sinceAlert) /\ sinceStart' = Older(sinceStart)
      /\ sinceEnd' = Older(sinceEnd) /\ sinceGood' = Older(sinceGood)
  BY DEF Tick
<1>3. /\ snapshot'.status = snapshot.status
      /\ snapshot'.ok = Older(snapshot.ok) /\ snapshot'.updated = Older(snapshot.updated)
      /\ snapshot' \in [status : {"none", "good", "failed"}, ok : Age, updated : Age]
  BY Ages DEF Tick, Types
<1>4. Types'
  BY <1>1, <1>2, <1>3, Ages DEF Types
<1>5. Knows'
  BY <1>1, <1>2, Ages DEF Types, Knows, Never
<1>6. Spaced'
  <2>1. pc = "polling" => sinceStart' = elapsed'
    BY <1>1, <1>2, Ages DEF Types, Spaced, Knows, Never
  <2>2. pc = "sleeping" => /\ sinceStart' > Horizon \/ sinceStart' + sleep' >= Interval
                           /\ sinceEnd' > Horizon \/ sinceEnd' + sleep' >= Cooldown
    BY <1>1, <1>2, Ages DEF Types, Spaced, Knows, Age, Never
  <2>3. pc = "polling" =>
            \/ sinceGood' <= 2 * Interval + Longest + elapsed'
            \/ sinceAlert' # Never /\ sinceAlert' <= Interval + Longest + elapsed'
    BY <1>1, <1>2, Ages DEF Types, Spaced, Age, Never
  <2>4. pc = "sleeping" =>
            \/ sinceGood' + sleep' <= 2 * Interval + Longest
            \/ sinceAlert' # Never /\ sinceAlert' + sleep' <= Interval + Longest
    BY <1>1, <1>2, Ages DEF Types, Spaced, Age, Never
  <2> QED
    BY <1>1, <2>1, <2>2, <2>3, <2>4 DEF Spaced
<1>7. Shown'
  BY <1>1, <1>2, <1>3, Ages DEF Types, Shown, Age, Never
<1> QED
  BY <1>4, <1>5, <1>6, <1>7

\* Every step keeps it.
LEMMA InvStep == Inv /\ [Next]_vars => Inv'
<1> SUFFICES ASSUME Inv, [Next]_vars PROVE Inv'
  OBVIOUS
<1>1. CASE Next
  BY <1>1, InvStart, InvEndCycle, InvEndPoll, InvStop, InvTick DEF Next
<1>2. CASE UNCHANGED vars
  BY <1>2 DEF vars, Inv, Types, Knows, Spaced, Shown
<1> QED
  BY <1>1, <1>2

\* It is an invariant.
LEMMA InvHolds == Spec => []Inv
BY InvInit, InvStep, PTL DEF Spec

-----------------------------------------------------------------------------
(* The theorems *)

\* Every variable keeps to its type: in particular no sleep is negative or longer
\* than the interval and the cooldown.
THEOREM TypeCorrect == Spec => []TypeOK
<1>1. Inv => TypeOK
  BY DEF Inv, Types, Shown, TypeOK, Age, Longest
<1> QED
  BY <1>1, InvHolds, PTL

\* run_forever's sleep: polls begin an interval apart and a cooldown after the end
\* of the one before, however long they take.
THEOREM Spacing == Spec => PollsSpaced
<1>1. Inv /\ [Next]_vars => [pc = "sleeping" /\ pc' = "polling" =>
                                sinceStart >= Interval /\ sinceEnd >= Cooldown]_vars
  <2> SUFFICES ASSUME Inv, [Next]_vars, pc = "sleeping", pc' = "polling"
               PROVE  sinceStart >= Interval /\ sinceEnd >= Cooldown
    OBVIOUS
  <2>1. sleep = 0
    BY DEF vars, Next, StartPoll, EndCycle, EndPoll, Stop, Tick
  <2> QED
    BY <2>1, Durations DEF Inv, Types, Spaced, Age, Never
<1> QED
  BY <1>1, InvHolds, PTL DEF Spec, PollsSpaced

\* The staleness check: however long polls hang and however they end, operators are
\* told within 2 intervals and a check period, and told again.
THEOREM StaleIsReported == Spec => []StaleReported
<1>1. Inv => StaleReported
  <2> SUFFICES ASSUME Inv, pc # "stopped", sinceGood > 2 * Interval + CheckPeriod
               PROVE  sinceAlert # Never /\ sinceAlert <= Interval + CheckPeriod
    BY DEF StaleReported
  <2>1. pc # "start"
    BY Durations DEF Inv, Spaced
  <2> QED
    BY <2>1, Durations DEF Inv, Types, Spaced, Age, Never
<1> QED
  BY <1>1, InvHolds, PTL

\* The staleness check: no alert while a poll ended well in the last 2 intervals.
THEOREM AlertsTrue == Spec => NoFalseAlert
<1>1. Inv' => (sinceAlert' = 0 => sinceGood' > 2 * Interval)
  BY DEF Inv, Knows
<1>2. Inv /\ [Next]_vars => [sinceAlert' = 0 => sinceGood' > 2 * Interval]_vars
  BY <1>1, InvStep
<1> QED
  BY <1>2, InvHolds, PTL DEF Spec, NoFalseAlert

\* _publish_health_snapshot: what /health shows is of one poll and agrees with the
\* alert on when a poll ended well last.
THEOREM SnapshotTrue == Spec => []SnapshotTruthful
<1>1. Inv => SnapshotTruthful
  <2> SUFFICES ASSUME Inv PROVE SnapshotTruthful
    OBVIOUS
  <2>1. snapshot.ok = IF sinceOk = Never THEN Never ELSE sinceGood
    BY DEF Inv, Knows, Shown
  <2>2. snapshot.status = "none" => IF isoProbe THEN snapshot = Defaults ELSE snapshot.ok = snapshot.updated
    BY DEF Inv, Types, Shown, Defaults
  <2>3. snapshot.status \in {"none", "good", "failed"}
    BY DEF Inv, Types
  <2> QED
    BY <2>1, <2>2, <2>3 DEF Inv, Shown, SnapshotTruthful
<1> QED
  BY <1>1, InvHolds, PTL
===============================================================================

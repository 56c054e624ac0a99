------------------------------- MODULE PollLoop -------------------------------
(***************************************************************************)
(* Scheduler.run_forever of monitor.py: polls at an interval, a cooldown   *)
(* after a poll that overran it, the stale-poll alert to operators, and    *)
(* the snapshot of all this that /health shows.                            *)
(*                                                                         *)
(* What a poll does is in module Scheduler; here it takes some time, has a *)
(* probe cycle, and ends well or raises.  Between two awaits the loop's    *)
(* own code takes no time.  Timestamps are represented by their ages, up   *)
(* to Horizon.  The code measures the age of a poll by the wall clock and  *)
(* all else by the monotonic one; here both advance together: nobody sets  *)
(* the wall clock.                                                         *)
(***************************************************************************)
EXTENDS Integers, FiniteSetsExt

CONSTANTS
    Interval,   \* cfg.poll_interval_minutes
    Cooldown,   \* cfg.poll_overrun_cooldown_seconds
    MaxPoll     \* bound on the duration of a poll, which the code does not have

ASSUME DurationsAssumption == {Interval, Cooldown, MaxPoll} \subseteq Nat \ {0}

\* The longest time from one staleness check to the next: a sleep and a poll.
CheckPeriod == Max({Interval, Cooldown}) + MaxPoll
Horizon == 3 * Interval + 2 * CheckPeriod
Never == -1

VARIABLES
    pc,         \* "start", "polling", "sleeping", "stopped"
    elapsed,    \* time since t0, while polling
    sleep,      \* time left of asyncio.sleep
    sinceRun,   \* age of run_started_wall
    sinceOk,    \* age of _last_successful_poll, Never for None
    sinceAlert, \* age of _last_ops_alert, Never for None
    isoProbe,   \* cfg.enable_iso_probe; without it polls have no probe cycle
    cycled,     \* the poll under way has had its probe cycle
    status,     \* _last_cycle_status: "none", "good" for SUCCESS and EMPTY, "failed"
    snapshot,   \* _health_snapshot: the status and the ages of its timestamps
    \* Observations
    sinceStart, \* time since the last poll began
    sinceEnd,   \* time since it ended
    sinceGood   \* time since a poll really ended well, or the start

observed == <<sinceStart, sinceEnd, sinceGood>>
health == <<isoProbe, cycled, status, snapshot>>
vars == <<pc, elapsed, sleep, sinceRun, sinceOk, sinceAlert, health, observed>>

\* What /health shows before the first poll has ended.
Defaults == [status |-> "none", ok |-> Never, updated |-> Never]

StartPoll ==
    /\ \/ pc = "start"
       \/ pc = "sleeping" /\ sleep = 0
    /\ pc' = "polling"
    /\ elapsed' = 0
    /\ sinceStart' = 0
    /\ cycled' = FALSE
    /\ UNCHANGED <<sleep, sinceRun, sinceOk, sinceAlert, isoProbe, status, snapshot, sinceEnd, sinceGood>>

\* Its probe cycle ends, and its status is recorded.
EndCycle(result) ==
    /\ pc = "polling"
    /\ isoProbe /\ ~ cycled
    /\ cycled' = TRUE
    /\ status' = result
    /\ UNCHANGED <<pc, elapsed, sleep, sinceRun, sinceOk, sinceAlert, isoProbe, snapshot, observed>>

\* Mutant: a FAILED cycle counts as a good poll.
MarkAlways == 0

\* _mark_poll_successful_if_probe_ok; without probing there is no status, and every
\* poll that comes to its end is a good one
MarkSuccessful == IF status = "failed" THEN sinceOk ELSE 0

\* Mutant: the snapshot is taken before the poll is marked as successful.
PublishFirst(raised) ==
    IF raised THEN snapshot ELSE [status |-> status, ok |-> sinceOk, updated |-> 0]

\* _publish_health_snapshot, which a poll that raises does not come to
Publish(raised) ==
    IF raised THEN snapshot ELSE [status |-> status, ok |-> sinceOk', updated |-> 0]

\* Mutant: always measured from the start of the loop.
CheckFromStart ==
    LET due == sinceRun > 2 * Interval /\ (sinceAlert = Never \/ sinceAlert > Interval)
    IN  sinceAlert' = IF due THEN 0 ELSE sinceAlert

\* The check that follows every poll: after 2 intervals, at most once an interval.
\* _last_ops_alert advances whether or not the alert could be enqueued.
CheckStale ==
    LET stale == IF sinceOk' # Never THEN sinceOk' ELSE sinceRun
        due == stale > 2 * Interval /\ (sinceAlert = Never \/ sinceAlert > Interval)
    IN  sinceAlert' = IF due THEN 0 ELSE sinceAlert

\* Mutant: no cooldown after an overrun.
SleepNoCooldown == Max({Interval - elapsed, 0})

SleepFor == Max({Interval - elapsed, Cooldown})

\* An exception may end a poll anywhere, also after a cycle that went well.
EndPoll(raised) ==
    /\ pc = "polling"
    /\ raised \/ (isoProbe => cycled)
    /\ sinceOk' = IF raised THEN sinceOk ELSE MarkSuccessful
    /\ snapshot' = Publish(raised)
    /\ CheckStale
    /\ sleep' = SleepFor
    /\ pc' = "sleeping"
    /\ sinceEnd' = 0
    /\ sinceGood' = IF raised \/ status = "failed" THEN sinceGood ELSE 0
    /\ UNCHANGED <<elapsed, sinceRun, isoProbe, cycled, status, sinceStart>>

\* ConfigurationError ends the loop; what raises it today is the loading of settings.
Stop ==
    /\ pc = "polling"
    /\ pc' = "stopped"
    /\ UNCHANGED <<elapsed, sleep, sinceRun, sinceOk, sinceAlert, health, observed>>

Older(age) == IF age = Never \/ age > Horizon THEN age ELSE age + 1

Tick ==
    /\ \/ pc = "polling" /\ elapsed < MaxPoll
       \/ pc = "sleeping" /\ sleep > 0
    /\ elapsed' = IF pc = "polling" THEN elapsed + 1 ELSE elapsed
    /\ sleep' = IF pc = "sleeping" THEN sleep - 1 ELSE sleep
    /\ sinceRun' = Older(sinceRun)
    /\ sinceOk' = Older(sinceOk)
    /\ sinceAlert' = Older(sinceAlert)
    /\ sinceStart' = Older(sinceStart)
    /\ sinceEnd' = Older(sinceEnd)
    /\ sinceGood' = Older(sinceGood)
    /\ snapshot' = [snapshot EXCEPT !.ok = Older(@), !.updated = Older(@)]
    /\ UNCHANGED <<pc, isoProbe, cycled, status>>

Init ==
    /\ pc = "start"
    /\ elapsed = 0
    /\ sleep = 0
    /\ sinceRun = 0
    /\ sinceOk = Never
    /\ sinceAlert = Never
    /\ isoProbe \in BOOLEAN
    /\ cycled = FALSE
    /\ status = "none"
    /\ snapshot = Defaults
    /\ sinceStart = Horizon
    /\ sinceEnd = Horizon
    /\ sinceGood = 0

Next ==
    \/ StartPoll
    \/ \E result \in {"good", "failed"} : EndCycle(result)
    \/ \E raised \in BOOLEAN : EndPoll(raised)
    \/ Stop
    \/ Tick

Spec == Init /\ [][Next]_vars

-----------------------------------------------------------------------------
(* Properties *)

TypeOK ==
    /\ pc \in {"start", "polling", "sleeping", "stopped"}
    /\ elapsed \in 0 .. MaxPoll
    /\ sleep \in 0 .. Max({Interval, Cooldown})
    /\ {sinceRun, sinceOk, sinceAlert, sinceStart, sinceEnd, sinceGood}
           \subseteq Never .. Horizon + 1
    /\ {isoProbe, cycled} \subseteq BOOLEAN
    /\ {status, snapshot.status} \subseteq {"none", "good", "failed"}
    /\ {snapshot.ok, snapshot.updated} \subseteq Never .. Horizon + 1

\* Polls begin at least an interval apart, however long they take, and never
\* without a cooldown after the end of the one before.
PollsSpaced ==
    [][pc = "sleeping" /\ pc' = "polling" =>
        sinceStart >= Interval /\ sinceEnd >= Cooldown]_vars

\* docs/probe-operations.md: no successful poll for more than 2 intervals means
\* an alert.  The bound the loop keeps: a try at the first check after the 2
\* intervals, and, also when the queue refused it, again after at most an
\* interval and a check.
StaleReported ==
    pc # "stopped" /\ sinceGood > 2 * Interval + CheckPeriod =>
        sinceAlert # Never /\ sinceAlert <= Interval + CheckPeriod

\* An alert tells the truth: no poll ended well in the last 2 intervals.
NoFalseAlert == [][sinceAlert' = 0 => sinceGood' > 2 * Interval]_vars

\* What /health shows is of one poll, its status and its times together: no failure
\* is shown as a success, no success with the time of an earlier one.  And it agrees
\* with the stale-poll alert on when a poll really ended well last, whatever polls
\* raised since.  Where probing is off no status is shown, and the times are those of
\* the last poll that did not raise.
SnapshotTruthful ==
    /\ snapshot.ok = IF sinceOk = Never THEN Never ELSE sinceGood
    /\ CASE snapshot.status = "none" ->
               IF isoProbe THEN snapshot = Defaults ELSE snapshot.ok = snapshot.updated
         [] snapshot.status = "good" -> snapshot.ok = snapshot.updated
         [] snapshot.status = "failed" ->
               snapshot.ok = Never \/ snapshot.ok > snapshot.updated \/ snapshot.ok > Horizon
===============================================================================

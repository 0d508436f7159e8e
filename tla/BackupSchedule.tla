---------------------------- MODULE BackupSchedule ----------------------------
(* The backup scheduler (internal/services/backup_schedule.go): the cron        *)
(* dialect, Next, and the loop that ticks twice a minute and runs what is due.  *)
(*                                                                              *)
(* Time is counted in half minutes, the period of the ticker, so a tick falls   *)
(* on a full or a half minute and minute m begins at instant 2 * m.  The        *)
(* calendar is a mixed radix with the sizes below.  A field of an expression    *)
(* is a set of atoms; the characters they are written with are left out.        *)
EXTENDS Integers, Sequences

CONSTANTS
    MinutesInHour, HoursInDay, DaysInMonth, MonthsInYear, DaysInWeek,
    Schedules,      \* the expressions a config holds, each of five fields
    Horizon,        \* how many minutes Next looks ahead
    MaxInstant,     \* bound: the last instant of the clock
    MaxSchedEdits   \* bound: how many edits, clicks and restarts there are

VARIABLES
    instant,     \* time.Now
    backupPlan,    \* Backup.Enabled and Backup.Schedule
    lastRun,     \* Backup.LastRun
    tick,        \* the ticker's channel, which holds one tick
    schedLoop,        \* schedulerLoop: waiting for a tick, for the lock, or running
    fire,        \* the scheduledFire it carries
    atTick,         \* the tick it works on, and the schedule it parsed for it
    runMu,       \* who holds it
    schedStarted,     \* when the run in progress started
    schedEdits,
    lastFire,    \* history: the last tick that ran a backup
    since,       \* history: the tick that computed a fire time from nothing
    noticed      \* history: the last tick that found its fire time overtaken by a run

schedVars == <<instant, backupPlan, lastRun, tick, schedLoop, fire, atTick, runMu, schedStarted,
               schedEdits, lastFire, since, noticed>>

Never == -1

-----------------------------------------------------------------------------
(* The expressions.  An atom is a range with a step; "*" has the field's bounds. *)

ParseRange(atom, min, max) == IF atom.star THEN <<min, max>> ELSE <<atom.lo, atom.hi>>
\* parseAtom: the values an atom covers, or none when it is out of range or its
\* step is not positive.
ParseAtom(atom, min, max) ==
    LET lo == ParseRange(atom, min, max)[1]
        hi == ParseRange(atom, min, max)[2]
    IN  IF atom.step < 1 \/ lo < min \/ hi > max \/ lo > hi THEN {}
        ELSE {i \in lo..hi : (i - lo) % atom.step = 0}

\* parseField: an atom that does not parse fails the field.
ParseField(field, min, max) ==
    IF \E atom \in field : ParseAtom(atom, min, max) = {} THEN {}
    ELSE UNION {ParseAtom(atom, min, max) : atom \in field}

\* parseFields.
Parsed(spec) ==
    [minute |-> ParseField(spec[1], 0, MinutesInHour - 1),
     hour |-> ParseField(spec[2], 0, HoursInDay - 1),
     dayOfMonth |-> ParseField(spec[3], 1, DaysInMonth),
     month |-> ParseField(spec[4], 1, MonthsInYear),
     dayOfWeek |-> ParseField(spec[5], 0, DaysInWeek - 1)]

\* ParseSchedule fails on an empty expression and on a field that is not a set.
Parses(spec) ==
    Len(spec) = 5 /\ LET fields == Parsed(spec) IN \A f \in DOMAIN fields : fields[f] # {}

Day(m) == m \div (MinutesInHour * HoursInDay)

\* matches: when both day fields are restricted, either suffices.
Matches(sched, m) ==
    LET dom == 1 + (Day(m) % DaysInMonth) \in sched.dayOfMonth
        dow == Day(m) % DaysInWeek \in sched.dayOfWeek
        dayOfMonthAll == sched.dayOfMonth = 1..DaysInMonth
        dayOfWeekAll == sched.dayOfWeek = 0..(DaysInWeek - 1)
    IN  /\ m % MinutesInHour \in sched.minute
        /\ (m \div MinutesInHour) % HoursInDay \in sched.hour
        /\ 1 + ((Day(m) \div DaysInMonth) % MonthsInYear) \in sched.month
        /\ \/ dayOfMonthAll /\ dayOfWeekAll
           \/ dayOfMonthAll /\ ~dayOfWeekAll /\ dow
           \/ ~dayOfMonthAll /\ dayOfWeekAll /\ dom
           \/ ~dayOfMonthAll /\ ~dayOfWeekAll /\ (dom \/ dow)

\* Next walks minute by minute from the one after the current minute.
NextFire(sched, after) ==
    LET cap == after \div 2 + Horizon
        from[m \in (after \div 2)..(cap + 1)] ==
            IF m >= cap THEN Never ELSE IF Matches(sched, m) THEN 2 * m ELSE from[m + 1]
    IN  from[after \div 2 + 1]

-----------------------------------------------------------------------------
(* The loop.                                                                    *)

NoFire == [at |-> Never, source |-> << >>]
NoTick == [at |-> Never, sched |-> << >>]

SchedInit ==
    /\ instant = 0 /\ lastRun = Never /\ tick = Never
    /\ backupPlan \in [enabled : BOOLEAN, schedule : Schedules]
    /\ schedLoop = "idle" /\ fire = NoFire /\ atTick = NoTick
    /\ runMu = "free" /\ schedStarted = Never /\ schedEdits = 0
    /\ lastFire = Never /\ since = Never /\ noticed = Never

\* The clock and its ticker: a tick the loop has not taken is kept, a further
\* one dropped.  An idle loop takes its tick long before the next one.
SchedClock ==
    /\ instant < MaxInstant
    /\ ~(schedLoop = "idle" /\ tick # Never)
    /\ instant' = instant + 1
    /\ tick' = IF tick = Never THEN instant' ELSE tick
    /\ UNCHANGED <<backupPlan, lastRun, schedLoop, fire, atTick, runMu, schedStarted, schedEdits,
                   lastFire, since, noticed>>

\* The fire time a tick works with: computed again when there is none, when a
\* run started after it, and when the schedule it came from was edited.
Stale == fire.at = Never \/ fire.source # backupPlan.schedule
Overtaken == ~Stale /\ fire.at < lastRun
Refreshed(sched) ==
    IF Stale \/ Overtaken THEN [at |-> NextFire(sched, tick), source |-> backupPlan.schedule]
    ELSE fire

\* schedulerTick up to RunNow.
SchedulerTick ==
    LET sched == Parsed(backupPlan.schedule)
        next == Refreshed(sched)
        off == ~backupPlan.enabled \/ backupPlan.schedule = << >>
        due == ~off /\ Parses(backupPlan.schedule) /\ next.at # Never /\ tick >= next.at
    IN  /\ schedLoop = "idle" /\ tick # Never
        /\ tick' = Never
        /\ fire' = IF off THEN NoFire ELSE IF Parses(backupPlan.schedule) THEN next ELSE fire
        /\ schedLoop' = IF due THEN "due" ELSE "idle"
        /\ atTick' = IF due THEN [at |-> tick, sched |-> backupPlan.schedule] ELSE NoTick
        /\ since' = IF ~off /\ Parses(backupPlan.schedule) /\ Stale THEN tick ELSE since
        /\ noticed' = IF ~off /\ Parses(backupPlan.schedule) /\ Overtaken THEN tick ELSE noticed
        /\ UNCHANGED <<instant, backupPlan, lastRun, runMu, schedStarted, schedEdits, lastFire>>

\* runOnce takes runMu and notes when it started, for the loop or for a click.
RunStarts(by) ==
    /\ runMu = "free"
    /\ runMu' = by /\ schedStarted' = instant
    /\ UNCHANGED <<instant, backupPlan, lastRun, tick, fire, atTick, since, noticed>>
RunNowLoop ==
    /\ schedLoop = "due" /\ RunStarts("loop")
    /\ schedLoop' = "running"
    /\ lastFire' = atTick.at
    /\ UNCHANGED schedEdits
RunNowClick ==
    /\ schedEdits < MaxSchedEdits /\ RunStarts("click")
    /\ schedEdits' = schedEdits + 1
    /\ UNCHANGED <<schedLoop, lastFire>>

\* runOnce records the run under its start, whatever became of it.
RunEnds ==
    /\ runMu # "free"
    /\ runMu' = "free" /\ schedStarted' = Never
    /\ lastRun' = schedStarted
    /\ UNCHANGED <<instant, backupPlan, tick, schedEdits, lastFire, since, noticed>>

\* Variant: the loop keeps the fire time it ran for.
LoopRunEndsSame == runMu = "loop" /\ RunEnds /\ schedLoop' = "idle" /\ atTick' = NoTick /\ UNCHANGED fire

\* The loop goes on with the first fire after the minute that follows its tick.
LoopRunEnds ==
    /\ runMu = "loop" /\ RunEnds
    /\ schedLoop' = "idle" /\ atTick' = NoTick
    /\ fire' = [at |-> NextFire(Parsed(atTick.sched), atTick.at + 2), source |-> atTick.sched]
ClickRunEnds == runMu = "click" /\ RunEnds /\ UNCHANGED <<schedLoop, fire, atTick>>

SchedulerLoop == SchedulerTick \/ RunNowLoop \/ LoopRunEnds

\* SaveSchedule, after HandleSaveSchedule parsed the expression.
SaveSchedule(enabled, schedule) ==
    /\ schedEdits < MaxSchedEdits
    /\ schedule = << >> \/ Parses(schedule)
    /\ backupPlan # [enabled |-> enabled, schedule |-> schedule]
    /\ backupPlan' = [enabled |-> enabled, schedule |-> schedule]
    /\ schedEdits' = schedEdits + 1
    /\ UNCHANGED <<instant, lastRun, tick, schedLoop, fire, atTick, runMu, schedStarted,
                   lastFire, since, noticed>>

\* The process restarts: the loop starts from nothing, a run is lost, and LastRun
\* comes back from the config.
SchedRestart ==
    /\ schedEdits < MaxSchedEdits
    /\ schedEdits' = schedEdits + 1
    /\ tick' = Never /\ schedLoop' = "idle" /\ fire' = NoFire /\ atTick' = NoTick
    /\ runMu' = "free" /\ schedStarted' = Never /\ since' = Never
    /\ UNCHANGED <<instant, backupPlan, lastRun, lastFire, noticed>>

SchedNext ==
    \/ SchedClock \/ SchedulerLoop \/ RunNowClick \/ ClickRunEnds
    \/ \E e \in BOOLEAN, s \in Schedules : SaveSchedule(e, s)
    \/ SchedRestart

SchedSpec == SchedInit /\ [][SchedNext]_schedVars

-----------------------------------------------------------------------------
SchedTypeOK ==
    /\ instant \in 0..MaxInstant /\ schedEdits \in 0..MaxSchedEdits
    /\ backupPlan \in [enabled : BOOLEAN, schedule : Schedules]
    /\ {lastRun, tick, schedStarted, since, lastFire, noticed} \subseteq -1..instant
    /\ schedLoop \in {"idle", "due", "running"} /\ runMu \in {"free", "loop", "click"}
    /\ fire.at \in Int /\ fire.source \in Schedules \cup {<< >>}
    /\ (schedLoop = "running") = (runMu = "loop") /\ (schedStarted # Never) = (runMu # "free")

Slots(schedule, from, to) ==
    LET sched == Parsed(schedule) IN {s \in from..to : s % 2 = 0 /\ Matches(sched, s \div 2)}

\* One slot, one run: between two ticks that run a backup there is a minute the
\* schedule names, across restarts, edits, clicks and runs that outlast the next
\* slot or keep a late tick in the channel.
FiresOnce ==
    [][runMu' = "loop" /\ runMu # "loop" =>
          Slots(atTick.sched, lastFire + 1, atTick.at) # {}]_schedVars

\* No slot is lost: between ticks, every slot since the loop learnt of the schedule
\* was followed by a run or is due at the next tick, except the minute right after
\* a fire and the slots between a run that overtook a fire time and the tick that
\* noticed it.
SlotsCovered ==
    schedLoop = "idle" /\ tick = Never /\ backupPlan.enabled /\ since # Never
    /\ fire # NoFire /\ fire.source = backupPlan.schedule
    => \A s \in Slots(backupPlan.schedule, since + 1, instant) :
          fire.at <= s \/ lastRun >= s \/ noticed >= s \/ s = 2 * (lastFire \div 2 + 1)

\* What schedulerTick and Next promise together.
ScheduleSound == []SlotsCovered /\ FiresOnce

=============================================================================

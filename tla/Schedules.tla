------------------------------ MODULE Schedules ------------------------------
(***************************************************************************)
(* A reminder schedule and the drafts its occurrences make (automation.ts).*)
(* A schedule names a wall-clock time; the zone skips some wall times and  *)
(* shows others twice, the application is closed when it is due, the clock *)
(* is set, and the schedule is saved again.                                *)
(***************************************************************************)
EXTENDS Integers, FiniteSets

CONSTANTS LastInstant,   \* bound on time
          DayLength,     \* instants of a day on the wall clock
          WeekLength,    \* days of a week
          ZoneOffset,    \* what the zone adds to each instant
          WallTimes,     \* the times a schedule may name
          StartInstants, \* the instants from which a schedule may be active
          StartDates,    \* the calendar days a schedule may name to start on, or NoDate
          MaxScheduleRevisions

ASSUME SchedulesAssumption ==
  /\ {LastInstant, MaxScheduleRevisions} \subseteq Nat /\ {DayLength, WeekLength} \subseteq Nat \ {0}
  /\ ZoneOffset \in [0..LastInstant -> Nat] /\ WallTimes \in (SUBSET (0..(DayLength - 1))) \ {{}}
  /\ StartInstants \in (SUBSET (0..LastInstant)) \ {{}}

VARIABLES clock,
          schedule,        \* the saved schedule
          scheduleRow,     \* its revision, 0 while none is saved
          occurrences,     \* the drafts made for each local key
          scheduling,      \* the admission of scheduling
          lastTick         \* the local days the last tick drafted, while nothing changed since

scVars == <<clock, schedule, scheduleRow, occurrences, scheduling, lastTick>>

Instants == 0..LastInstant
Wall(t) == t + ZoneOffset[t]              \* localStamp
LocalDay(t) == Wall(t) \div DayLength
LocalDays == UNION {0..LocalDay(t) : t \in Instants}
NoDate == -1

ASSUME StartDatesAssumption == StartDates \in (SUBSET (LocalDays \cup {NoDate})) \ {{}}

\* No zone turns its clocks back onto a wall time that it skipped before.
ASSUME ZoneAssumption ==
  \A t, u \in Instants : t < u /\ Wall(u) < Wall(t) => \E v \in 0..(t - 1) : Wall(v) = Wall(u)

ScheduleData == [cadence: {"once", "daily", "weekly"}, weekDay: 0..(WeekLength - 1), time: WallTimes,
                 startAt: StartInstants, startDate: StartDates, enabled: BOOLEAN]
Keys == (1..MaxScheduleRevisions) \X LocalDays
NoTick == [done |-> FALSE, days |-> {}]

SchedulesTypeOK ==
  /\ clock \in Instants /\ schedule \in ScheduleData /\ scheduleRow \in 0..MaxScheduleRevisions
  /\ occurrences \in [Keys -> 0..2] /\ scheduling \in BOOLEAN
  /\ lastTick \in [done: BOOLEAN, days: SUBSET LocalDays]

SchedulesInit ==
  /\ clock \in Instants /\ scheduling = TRUE /\ lastTick = NoTick
  /\ scheduleRow = 0 /\ occurrences = [k \in Keys |-> 0]
  /\ schedule = CHOOSE s \in ScheduleData : ~s.enabled

-----------------------------------------------------------------------------
Smallest(S) == CHOOSE x \in S : \A y \in S : x <= y

\* resolveLocalInstant: the instants some offset of the zone takes to that wall
\* time; when none does, the first instant whose wall time is past it.
Candidates(day, time) == {day * DayLength + time - ZoneOffset[t] : t \in Instants}
Exact(day, time) == {t \in Candidates(day, time) \cap Instants : Wall(t) = day * DayLength + time}
AfterGap(day, time) == {t \in Instants : /\ \E c \in Candidates(day, time) : c <= t
                                         /\ Wall(t) >= day * DayLength + time}
\* Mutant: the later of two matching instants.
ResolvedLate(day, time) ==
  IF Exact(day, time) # {} THEN CHOOSE t \in Exact(day, time) : \A u \in Exact(day, time) : u <= t
  ELSE IF AfterGap(day, time) # {} THEN Smallest(AfterGap(day, time)) ELSE LastInstant + 1
\* What falls beyond the bound on time is never due.
Resolved(day, time) ==
  LET exact == Exact(day, time)
      later == AfterGap(day, time) IN
  IF exact # {} THEN Smallest(exact) ELSE IF later # {} THEN Smallest(later) ELSE LastInstant + 1

\* dueOccurrence: the local days due at an instant, one or none.  Only what is
\* due once is compared with the instant again.
StartDay(s) == IF s.startDate = NoDate THEN LocalDay(s.startAt) ELSE s.startDate
LatestOn(s, day) == IF s.cadence # "weekly" THEN day
                    ELSE CHOOSE d \in (day - WeekLength + 1)..day : d % WeekLength = s.weekDay
Period(s) == IF s.cadence = "weekly" THEN WeekLength ELSE 1
DueOccurrence(s, now) ==
  LET latest == LatestOn(s, LocalDay(now))
      candidate == IF s.cadence = "once" THEN StartDay(s)
                   ELSE IF Resolved(latest, s.time) > now THEN latest - Period(s) ELSE latest IN
  {d \in {candidate} : /\ now >= s.startAt /\ d >= StartDay(s) /\ Resolved(d, s.time) >= s.startAt
                       /\ s.cadence = "once" => Resolved(d, s.time) <= now}

-----------------------------------------------------------------------------
\* saveSchedule: what is saved again unchanged keeps its revision.
SaveSchedule(s) ==
  /\ s.enabled => scheduling
  /\ scheduleRow' = IF scheduleRow # 0 /\ schedule = s THEN scheduleRow ELSE scheduleRow + 1
  /\ scheduleRow' <= MaxScheduleRevisions
  /\ s.cadence = "once" => Resolved(StartDay(s), s.time) >= s.startAt
  /\ schedule' = s
  /\ lastTick' = NoTick
  /\ UNCHANGED <<clock, occurrences, scheduling>>

\* tick: the occurrence is inserted, or already there, with its draft.
Tick ==
  /\ scheduling /\ scheduleRow # 0 /\ schedule.enabled
  /\ LET days == {d \in DueOccurrence(schedule, clock) : occurrences[<<scheduleRow, d>>] = 0} IN
     /\ occurrences' = [k \in Keys |-> occurrences[k] + IF k[1] = scheduleRow /\ k[2] \in days THEN 1 ELSE 0]
     /\ lastTick' = [done |-> TRUE, days |-> days]
  /\ UNCHANGED <<clock, schedule, scheduleRow, scheduling>>

\* Time passes, with the application open or closed, or the clock is set.
ClockMoves == /\ \E t \in Instants : t # clock /\ clock' = t
              /\ lastTick' = NoTick
              /\ UNCHANGED <<schedule, scheduleRow, occurrences, scheduling>>
AdmitScheduling == scheduling' = ~scheduling /\ UNCHANGED <<clock, schedule, scheduleRow, occurrences, lastTick>>

SchedulesNext == Tick \/ ClockMoves \/ AdmitScheduling \/ \E s \in ScheduleData : SaveSchedule(s)

-----------------------------------------------------------------------------
\* The reference: the days, from the one it starts on, whose wall time was first
\* passed while the schedule was active, up to the day the wall clock shows.
Reached(s, day) == /\ \E t \in s.startAt..clock : Wall(t) >= day * DayLength + s.time
                   /\ \A t \in 0..(s.startAt - 1) : Wall(t) < day * DayLength + s.time
DueDays(s) ==
  {d \in LocalDays : /\ d >= StartDay(s) /\ Reached(s, d)
                     /\ IF s.cadence = "once" THEN d = StartDay(s) ELSE d <= LocalDay(clock)
                     /\ s.cadence = "weekly" => d % WeekLength = s.weekDay}

\* Through wall times that are skipped or shown twice, a closed application and
\* a clock set back, a tick leaves the latest day that was due drafted, what it
\* drafts is that day, and no day of a revision is drafted twice
\* (automation.ts:464-486, 524-570).
EachDueDayDraftsOnce ==
  /\ \A k \in Keys : occurrences[k] <= 1
  /\ lastTick.done =>
       LET latest == {d \in DueDays(schedule) : \A e \in DueDays(schedule) : e <= d} IN
       /\ lastTick.days \subseteq latest
       /\ \A d \in latest : occurrences[<<scheduleRow, d>>] = 1

=============================================================================

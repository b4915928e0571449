------------------------------ MODULE StudyDay ------------------------------
(***************************************************************************)
(* The study day (services/study_day.py) and the days of the dashboard     *)
(* (services/review_stats.py), in a zone whose offset from UTC changes     *)
(* once.  Instants are whole hours of UTC, wall times whole hours of the   *)
(* zone, both counted from the same midnight; a date is a number of days.  *)
(* ReviewSession takes study days to be intervals of its clock; here is    *)
(* what the clock's ticks are in hours, and that days do follow one        *)
(* another like that.                                                      *)
(***************************************************************************)
EXTENDS Integers, ReviewSession

CONSTANTS
    Zones,  \* zones: the offsets before and after, and the instant of the change
    Shown   \* RETENTION_DAYS: how many days the dashboard shows

ASSUME DayAssumption == 24 % DayLength = 0 /\ Shown \in Nat \ {0}

(* Clocks are changed by an hour. *)
ASSUME ZonesAssumption ==
    \A zone \in Zones : /\ zone.before \in Int /\ zone.change \in Int
                        /\ zone.after \in zone.before - 1 .. zone.before + 1

(* The instants of a tick. *)
HoursPerTick == 24 \div DayLength
HoursOf(tick) == HoursPerTick * tick .. HoursPerTick * (tick + 1) - 1

Changed(zone, i) == i >= zone.change

Wall(zone, i) == i + (IF Changed(zone, i) THEN zone.after ELSE zone.before)

(* The instant of a wall time.  One that occurs twice is the first of the  *)
(* two, or the second with fold; one that is skipped is read with the      *)
(* offset before the change, or after it with fold.                        *)
Instant(zone, wall, fold) ==
    LET early == wall - zone.before
        late == wall - zone.after
    IN  IF fold THEN (IF Changed(zone, late) \/ Changed(zone, early) THEN late ELSE early)
        ELSE IF ~Changed(zone, early) \/ ~Changed(zone, late) THEN early ELSE late

(* now.astimezone(tz).fold *)
Fold(zone, i) == Changed(zone, i) /\ ~Changed(zone, Wall(zone, i) - zone.before)

(* Mutant: the start of the day takes the fold of the present. *)
StartFold_OfNow(zone, now) == Fold(zone, now)

StartFold(zone, now) == FALSE

StudyDayWindow(zone, rollover, now) ==
    LET local == Wall(zone, now)
        today == 24 * (local \div 24) + rollover
        start == IF local < today THEN today - 24 ELSE today
        fold == StartFold(zone, now)
    IN  [start |-> Instant(zone, start, fold), end |-> Instant(zone, start + 24, fold)]

StudyDate(zone, rollover, i) ==
    Wall(zone, StudyDayWindow(zone, rollover, i).start) \div 24

(* The first date of daily_reviews, and the first instant reviews_between  *)
(* is asked for: a margin of two days.                                     *)
FirstDate(zone, rollover, now) == StudyDate(zone, rollover, now) - (Shown - 1)
FetchedFrom(zone, rollover, now) ==
    StudyDayWindow(zone, rollover, now).start - 24 * (Shown + 1)

-----------------------------------------------------------------------------
(* Where clocks skip the hour before midnight, a day that starts in that   *)
(* hour is named after the next one, and the date before it is not used.   *)
StartIsSkippedToMidnight(zone, rollover) ==
    rollover = 23 /\ zone.after > zone.before /\ Wall(zone, zone.change) % 24 = 0

(* An instant is in its own study day, the next instant is in the same     *)
(* day or in one that starts where it ends, days have 23 to 25 hours, and  *)
(* dates count up by one; what the dashboard does not read is of days      *)
(* before the first one it shows.                                          *)
DayIsRight(zone, rollover, i) ==
    LET day == StudyDayWindow(zone, rollover, i)
        next_day == StudyDayWindow(zone, rollover, i + 1)
        date == StudyDate(zone, rollover, i)
    IN  /\ day.start <= i /\ i < day.end /\ day.end - day.start \in 23 .. 25
        /\ next_day = day \/ next_day.start = day.end
        /\ \/ StudyDate(zone, rollover, i + 1) = (IF next_day = day THEN date ELSE date + 1)
           \/ StartIsSkippedToMidnight(zone, rollover)
        /\ StudyDate(zone, rollover, FetchedFrom(zone, rollover, i) - 1)
               < FirstDate(zone, rollover, i)

RightTicks ==
    {tick \in 1 .. MaxClock :
        \A zone \in Zones, rollover \in 0 .. 23, i \in HoursOf(tick) :
            DayIsRight(zone, rollover, i)}

(* Study days follow one another without a gap or an overlap as the clock  *)
(* goes on, whatever the rollover hour and the hour at which clocks        *)
(* change, so that the new cards of each are counted once.                 *)
DaysFollow == clock \in RightTicks

=============================================================================

\* One schedule, over a repeated minute and up to a skipped one; two polls overlap, one
\* may die; two PATCHes overlap.
SPECIFICATION Spec
CONSTANTS
    DayLength = 4
    Calendar <- MCCalendar
    Wall <- MCWall
    Schedules = {s1}
    Crons <- MCCrons
    Pollers = {p1, p2}
    Editors = {a1, a2}
    NoSchedule = NoSchedule
    MaxClock = 4
    MaxEdits = 3
    MaxDeaths = 1
INVARIANTS EnabledIsScheduled NextIsFirst
PROPERTIES FiresOnce DueIsClaimed
CHECK_DEADLOCK FALSE

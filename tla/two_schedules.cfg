\* Two schedules of one project, over a change from summer time and back; two polls
\* overlap, one may die; two PATCHes overlap.
SPECIFICATION Spec
CONSTANTS
    DayLength = 4
    Calendar <- MCCalendar
    Wall <- MCWall
    Schedules = {s1, s2}
    Crons <- MCCrons
    Pollers = {p1, p2}
    Editors = {a1, a2}
    NoSchedule = NoSchedule
    MaxClock = 3
    MaxEdits = 2
    MaxDeaths = 1
INVARIANTS EnabledIsScheduled NextIsFirst
PROPERTIES FiresOnce DueIsClaimed
CHECK_DEADLOCK FALSE

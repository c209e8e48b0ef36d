\* Three PATCHes of one schedule may overlap: one disables it, another one that read it
\* enabled writes its next firing.
SPECIFICATION Spec
CONSTANTS
    DayLength = 4
    Calendar <- MCCalendar
    Wall <- MCWall
    Schedules = {s1}
    Crons <- MCCrons
    Pollers = {p1}
    Editors = {a1, a2, a3}
    NoSchedule = NoSchedule
    MaxClock = 1
    MaxEdits = 5
    MaxDeaths = 0
INVARIANTS DisabledHasNoFiring
CHECK_DEADLOCK FALSE

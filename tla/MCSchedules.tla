----------------------------- MODULE MCSchedules -----------------------------
(* A day of four minutes, in a zone that goes over from summer time and back to it.  *)
EXTENDS Schedules

\* Two weekdays.
MCCalendar == [d \in 0 .. 4 |-> [month |-> 1, day |-> d, weekday |-> d % 2]]

\* Minutes 1 and 2 of day 1 are repeated, minute 2 of day 2 is skipped.
Shows == <<0, 1, 2, 1, 2, 3,  0, 1, 3,  0, 1, 2, 3,  0, 1, 2, 3>>
ShowsDay == <<1, 1, 1, 1, 1, 1,  2, 2, 2,  3, 3, 3, 3,  4, 4, 4, 4>>
MCWall == [t \in 0 .. 16 |-> [day |-> ShowsDay[t + 1], minute |-> Shows[t + 1]]]

Expression(minutes, days, weekdays) ==
    [minutes |-> minutes, days |-> IF days = {} THEN 0 .. 4 ELSE days, months |-> {1},
     weekdays |-> IF weekdays = {} THEN {0, 1} ELSE weekdays,
     dayRestricted |-> days # {}, weekdayRestricted |-> weekdays # {}]

MCCrons == {Expression({1}, {}, {}), Expression({2}, {2}, {1})}

=============================================================================

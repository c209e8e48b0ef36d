--------------------------------- MODULE Cron ---------------------------------
(***************************************************************************)
(* When a cron expression next fires in a time zone (scheduling/cron.py).    *)
(* An instant is a minute of UTC; the zone shows it as a minute of a local   *)
(* day, where daylight saving skips some minutes and repeats others.         *)
(***************************************************************************)
EXTENDS Integers, FiniteSetsExt

CONSTANTS
    Crons,       \* the expressions that are stored
    DayLength,   \* minutes of a day
    Calendar,    \* the month, the day of the month and the weekday of each day
    Wall         \* the local day and minute of each instant

Instants == DOMAIN Wall
Days == DOMAIN Calendar

InOrder(p, q) == p.day < q.day \/ (p.day = q.day /\ p.minute <= q.minute)

\* No earlier instant of Wall shows what t shows.
ShownFirst(t) == \A u \in Instants : Wall[u] = Wall[t] => t <= u

\* A zone may repeat minutes and skip them, but a minute it shows for the first time is
\* later on the wall than all that were shown before: no minute that was skipped is
\* shown after all, and Wall starts at no minute that is being repeated.
ASSUME CronAssumption ==
    /\ Crons # {} /\ DayLength \in Nat \ {0}
    /\ Days \subseteq Nat /\ Instants \subseteq Nat
    /\ Wall \in [Instants -> [day : Days, minute : 0 .. DayLength - 1]]
    /\ \A t, u \in Instants : ShownFirst(t) /\ ShownFirst(u) /\ t < u => ~InOrder(Wall[u], Wall[t])

\* matches_day: days of the month and days of the week are alternatives when
\* both are restricted.
MatchesDay(e, d) ==
    LET day == Calendar[d].day \in e.days
        weekday == Calendar[d].weekday \in e.weekdays
    IN  /\ Calendar[d].month \in e.months
        /\ IF e.dayRestricted /\ e.weekdayRestricted THEN day \/ weekday ELSE day /\ weekday

\* _resolve_wall_clock: of a local minute that comes twice the first, of one that
\* is skipped none.
Resolved(d, m) ==
    LET shown == {t \in Instants : Wall[t] = [day |-> d, minute |-> m]}
    IN  IF shown = {} THEN {} ELSE {Min(shown)}

\* The wall-clock minute after the one that an instant shows.
NextMinute(t) ==
    IF Wall[t].minute + 1 < DayLength THEN [Wall[t] EXCEPT !.minute = @ + 1]
    ELSE [day |-> Wall[t].day + 1, minute |-> 0]

\* Mutant: the first minute on the wall, wherever the instant lies.
ProbesUnchecked(e, after) ==
    {p \in [day : Days, minute : e.minutes] :
        InOrder(NextMinute(after), p) /\ MatchesDay(e, p.day) /\ Resolved(p.day, p.minute) # {}}

\* The local minutes that next_fire tries, with those it takes. Instants goes
\* further than any schedule of an instance looks.
Probes(e, after) ==
    {p \in [day : Days, minute : e.minutes] :
        /\ InOrder(NextMinute(after), p)
        /\ MatchesDay(e, p.day)
        /\ \E t \in Resolved(p.day, p.minute) : t > after}

\* next_fire: local days in order, the minutes of each in order.
NextFire ==
    [e \in Crons |-> [after \in {t \in Instants : Probes(e, t) # {}} |->
        LET probes == Probes(e, after)
            first == CHOOSE p \in probes : \A q \in probes : InOrder(p, q)
        IN  Min(Resolved(first.day, first.minute))]]

=============================================================================

--------------------------- MODULE Schedules_proofs ---------------------------
(***************************************************************************)
(* What holds of the schedules of every project, in every time zone, whatever *)
(* polls overlap or die and whatever PATCHes overlap meanwhile: the search   *)
(* for the next firing misses none, a slot fires once, and a schedule has a  *)
(* next firing exactly while it is enabled.                                  *)
(***************************************************************************)
EXTENDS Schedules, Lemmas_proofs

-----------------------------------------------------------------------------
(* The search for the next firing                                           *)

\* The instants that the expression fires at, later than after.
Firings(e, after) ==
    {t \in Instants : /\ t > after /\ MatchesDay(e, Wall[t].day) /\ Wall[t].minute \in e.minutes
                      /\ ShownFirst(t)}

\* The local day and the minute of an instant are a day and a minute of a day.
LEMMA WallTypes ==
    \A t \in Instants :
        t \in Nat /\ Wall[t].day \in Nat /\ Wall[t].minute \in Nat /\ Wall[t].minute < DayLength
<1>1. TAKE t \in Instants
<1>2. Wall[t] \in [day : Days, minute : 0 .. DayLength - 1]
  BY CronAssumption
<1>3. t \in Nat /\ Wall[t].day \in Nat
  BY <1>2, CronAssumption
<1>4. \A m \in 0 .. DayLength - 1 : m \in Nat /\ m < DayLength
  BY CronAssumption
<1>5. Wall[t].minute \in Nat /\ Wall[t].minute < DayLength
  BY <1>2, <1>4
<1>6. QED
  BY <1>3, <1>5

\* The least member of a set of instants.
LEMMA MinIsLeast ==
    ASSUME NEW S, S \subseteq Instants, S # {}
    PROVE  Min(S) \in S /\ \A t \in S : Min(S) <= t
<1>1. S \subseteq Nat
  BY CronAssumption
<1>2. \E m \in S : \A t \in S : m <= t
  BY <1>1, LeastNumber
<1>3. QED
  BY <1>2 DEF Min

\* A local minute is resolved to the first instant that shows it, if there is one.
LEMMA ResolvedIsFirst ==
    ASSUME NEW d, NEW m
    PROVE  /\ \A t \in Resolved(d, m) :
                 /\ t \in Instants /\ Wall[t] = [day |-> d, minute |-> m] /\ ShownFirst(t)
                 /\ Resolved(d, m) = {t}
           /\ \A t \in Instants :
                 Wall[t] = [day |-> d, minute |-> m] /\ ShownFirst(t) => Resolved(d, m) = {t}
<1> DEFINE shown == {t \in Instants : Wall[t] = [day |-> d, minute |-> m]}
<1>1. Resolved(d, m) = IF shown = {} THEN {} ELSE {Min(shown)}
  BY DEF Resolved
<1>2. shown # {} => Min(shown) \in shown /\ \A t \in shown : Min(shown) <= t
  BY MinIsLeast
<1>3. shown # {} => ShownFirst(Min(shown))
  BY <1>2 DEF ShownFirst
<1>4. ASSUME NEW t \in Instants, Wall[t] = [day |-> d, minute |-> m], ShownFirst(t)
      PROVE  Resolved(d, m) = {t}
  <2>1. t \in shown /\ Min(shown) \in shown /\ Min(shown) <= t /\ t <= Min(shown)
    BY <1>2, <1>4 DEF ShownFirst
  <2>2. t \in Nat /\ Min(shown) \in Nat
    BY <2>1, CronAssumption
  <2>3. t = Min(shown)
    BY <2>1, <2>2
  <2>4. QED
    BY <1>1, <2>1, <2>3
<1> HIDE DEF shown
<1>5. ASSUME NEW t \in Resolved(d, m) PROVE t = Min(shown) /\ shown # {}
  BY <1>1
<1>6. QED
  BY <1>1, <1>2, <1>3, <1>4, <1>5 DEF shown

\* What the wall shows first is later on the wall than what it showed before.
LEMMA WallOrder ==
    ASSUME NEW t \in Instants, ShownFirst(t), NEW u \in Instants, u < t
    PROVE  InOrder(NextMinute(u), Wall[t]) /\ ~InOrder(Wall[t], Wall[u])
<1> DEFINE same == {v \in Instants : Wall[v] = Wall[u]}
           w == Min(same)
<1>1. w \in same /\ \A v \in same : w <= v
  BY MinIsLeast
<1> HIDE DEF w
<1>2. w \in Instants /\ Wall[w] = Wall[u] /\ w <= u /\ ShownFirst(w)
  BY <1>1 DEF ShownFirst
<1>3. w < t
  BY <1>2, CronAssumption
<1>4. ~InOrder(Wall[t], Wall[u])
  BY <1>2, <1>3, CronAssumption
<1>5. /\ Wall[t].day \in Nat /\ Wall[t].minute \in 0 .. DayLength - 1
      /\ Wall[u].day \in Nat /\ Wall[u].minute \in 0 .. DayLength - 1
      /\ Wall[u] \in [day : Days, minute : 0 .. DayLength - 1]
      /\ DayLength \in Nat
  BY CronAssumption
<1>6. \/ /\ NextMinute(u).day = Wall[u].day /\ NextMinute(u).minute = Wall[u].minute + 1
      \/ /\ NextMinute(u).day = Wall[u].day + 1 /\ NextMinute(u).minute = 0
         /\ Wall[u].minute + 1 >= DayLength
  BY <1>5 DEF NextMinute
<1>7. InOrder(NextMinute(u), Wall[t])
  BY <1>4, <1>5, <1>6 DEF InOrder
<1>8. QED
  BY <1>4, <1>7

\* The probes that next_fire takes are the local minutes of the later firings.
LEMMA ProbesAreFirings ==
    ASSUME NEW e \in Crons, NEW after \in Instants
    PROVE  /\ \A t \in Firings(e, after) :
                 Wall[t] \in Probes(e, after) /\ Resolved(Wall[t].day, Wall[t].minute) = {t}
           /\ \A p \in Probes(e, after) : \E t \in Firings(e, after) :
                 Wall[t] = p /\ Resolved(p.day, p.minute) = {t}
<1>1. ASSUME NEW t \in Firings(e, after)
      PROVE  Wall[t] \in Probes(e, after) /\ Resolved(Wall[t].day, Wall[t].minute) = {t}
  <2>1. /\ t \in Instants /\ t > after /\ MatchesDay(e, Wall[t].day)
        /\ Wall[t].minute \in e.minutes /\ ShownFirst(t)
    BY DEF Firings
  <2>2. /\ Wall[t] = [day |-> Wall[t].day, minute |-> Wall[t].minute]
        /\ Wall[t].day \in Days /\ t \in Nat /\ after \in Nat
    BY <2>1, CronAssumption
  <2>3. Resolved(Wall[t].day, Wall[t].minute) = {t}
    BY <2>1, <2>2, ResolvedIsFirst
  <2>4. InOrder(NextMinute(after), Wall[t])
    BY <2>1, <2>2, WallOrder
  <2>5. Wall[t] \in [day : Days, minute : e.minutes]
    BY <2>1, <2>2
  <2>6. QED
    BY <2>1, <2>3, <2>4, <2>5 DEF Probes
<1>2. ASSUME NEW p \in Probes(e, after)
      PROVE  \E t \in Firings(e, after) : Wall[t] = p /\ Resolved(p.day, p.minute) = {t}
  <2>1. /\ p \in [day : Days, minute : e.minutes] /\ MatchesDay(e, p.day)
        /\ \E t \in Resolved(p.day, p.minute) : t > after
    BY DEF Probes
  <2>2. PICK t \in Resolved(p.day, p.minute) : t > after
    BY <2>1
  <2>3. /\ t \in Instants /\ Wall[t] = [day |-> p.day, minute |-> p.minute]
        /\ ShownFirst(t) /\ Resolved(p.day, p.minute) = {t}
    BY ResolvedIsFirst
  <2>4. Wall[t] = p
    BY <2>1, <2>3
  <2>5. t \in Firings(e, after)
    BY <2>1, <2>2, <2>3, <2>4 DEF Firings
  <2>6. QED
    BY <2>3, <2>4, <2>5
<1>3. QED
  BY <1>1, <1>2

\* In every zone, next_fire finds the first later firing: the search over local days
\* and minutes misses none and takes no minute that is repeated or skipped.
THEOREM SearchFindsFirst ==
    ASSUME NEW e \in Crons, NEW after \in Instants, Probes(e, after) # {}
    PROVE  /\ NextFire[e][after] = Min(Firings(e, after))
           /\ NextFire[e][after] \in Firings(e, after)
<1> DEFINE probes == Probes(e, after)
           first == CHOOSE p \in probes : \A q \in probes : InOrder(p, q)
           t0 == Min(Firings(e, after))
<1>1. NextFire[e][after] = Min(Resolved(first.day, first.minute))
  BY DEF NextFire
<1>2. Firings(e, after) # {} /\ Firings(e, after) \subseteq Instants
  BY ProbesAreFirings DEF Firings
<1>3. t0 \in Firings(e, after) /\ \A t \in Firings(e, after) : t0 <= t
  BY <1>2, MinIsLeast
<1>4. Wall[t0] \in probes /\ Resolved(Wall[t0].day, Wall[t0].minute) = {t0}
  BY <1>3, ProbesAreFirings
<1> HIDE DEF t0
\* Any other probe is later on the wall.
<1>5. ASSUME NEW q \in probes, q # Wall[t0] PROVE InOrder(Wall[t0], q) /\ ~InOrder(q, Wall[t0])
  <2>1. PICK t \in Firings(e, after) : Wall[t] = q
    BY <1>5, ProbesAreFirings
  <2>2. t0 \in Instants /\ t \in Instants /\ ShownFirst(t) /\ t0 < t
    <3>1. t0 <= t /\ t0 # t
      BY <1>3, <1>5, <2>1
    <3>2. QED
      BY <1>2, <1>3, <3>1, WallTypes DEF Firings
  <2>3. ~InOrder(Wall[t], Wall[t0])
    BY <2>2, WallOrder
  <2>4. /\ Wall[t].day \in Nat /\ Wall[t].minute \in Nat
        /\ Wall[t0].day \in Nat /\ Wall[t0].minute \in Nat
    BY <2>2, WallTypes
  <2>5. QED
    BY <2>1, <2>3, <2>4 DEF InOrder
<1>6. InOrder(Wall[t0], Wall[t0])
  <2>1. t0 \in Instants
    BY <1>2, <1>3
  <2>2. Wall[t0].day \in Nat /\ Wall[t0].minute \in Nat
    BY <2>1, WallTypes
  <2>3. QED
    BY <2>2 DEF InOrder
<1> HIDE DEF probes
<1>7. first \in probes /\ \A q \in probes : InOrder(first, q)
  BY <1>4, <1>5, <1>6
<1> HIDE DEF first
<1>8. first = Wall[t0]
  BY <1>4, <1>5, <1>7
<1>9. Min({t0}) = t0
  <2>1. {t0} \subseteq Instants
    BY <1>2, <1>3
  <2>2. QED
    BY <2>1, MinIsLeast
<1>10. QED
  BY <1>1, <1>3, <1>4, <1>8, <1>9 DEF t0

-----------------------------------------------------------------------------
(* The inductive invariant                                                  *)

Rows == [exists : {"not_yet", "yes", "gone"}, enabled : BOOLEAN, cron : Crons,
         next : Nat \cup {Never}, ran : BOOLEAN]

Ticks == [pc : {"asleep", "listed", "read", "claimed"}, now : 0 .. clock \cup {Never},
          due : SUBSET Schedules, on : Schedules \cup {NoSchedule}, upcoming : Nat \cup {Never}]

Edits == [on : Schedules \cup {NoSchedule}, saw : Rows, new : Rows, passed : BOOLEAN]

Types ==
    /\ clock \in 0 .. MaxClock
    /\ schedule \in [Schedules -> Rows]
    /\ fired \in [Schedules -> Nat \cup {Never}]
    /\ tick \in [Pollers -> Ticks]
    /\ torn \in [Schedules -> BOOLEAN]
    /\ edit \in [Editors -> Edits]

\* A schedule that is not torn has a next firing exactly while it is enabled, and
\* between edits that firing is later than what it fired, and on another minute of the
\* wall.
Planned(s) ==
    /\ ~torn[s] => (schedule[s].enabled <=> schedule[s].next # Never)
    /\ schedule[s].enabled => schedule[s].exists = "yes"
    /\ schedule[s].exists = "not_yet" => fired[s] = Never
    /\ schedule[s].next # Never => schedule[s].next \in Instants
    /\ schedule[s].next # Never /\ fired[s] # Never =>
          fired[s] < schedule[s].next /\ Wall[fired[s]] # Wall[schedule[s].next]

\* A poll that reads and claims works on a schedule for its own minute; what comes
\* after that minute is shown for the first time.
Polling(p) ==
    /\ tick[p].pc # "asleep" => tick[p].now # Never
    /\ tick[p].pc \in {"read", "claimed"} => tick[p].on \in Schedules
    /\ tick[p].pc = "read" => /\ tick[p].upcoming \in Instants /\ ShownFirst(tick[p].upcoming)
                              /\ tick[p].upcoming > tick[p].now

\* The row that a PATCH in flight has read: if none was committed over it since, it is
\* still enabled or disabled, and still planned or not, as it was read.
Editing(a) ==
    edit[a] # NoEdit =>
        /\ edit[a].on \in Schedules
        /\ edit[a].new.enabled <=> edit[a].new.next # Never
        /\ edit[a].new.next # Never => edit[a].new.next \in Instants
        /\ schedule[edit[a].on].exists # "not_yet"
        /\ ~edit[a].passed /\ schedule[edit[a].on].exists = "yes" =>
              /\ schedule[edit[a].on].enabled = edit[a].saw.enabled
              /\ schedule[edit[a].on].next = Never <=> edit[a].saw.next = Never

IInv ==
    /\ Types
    /\ \A s \in Schedules : Planned(s)
    /\ \A p \in Pollers : Polling(p)
    /\ \A a \in Editors : Editing(a)

-----------------------------------------------------------------------------
(* Its proof                                                                *)

\* No firing at all is told apart from every instant.
LEMMA NeverIsNoInstant == Never \notin Nat /\ Never \notin Instants /\ Instants \subseteq Nat
BY CronAssumption DEF Never

\* The next firing after a minute of an instance.
LEMMA NextIsLater ==
    ASSUME NEW e \in Crons, NEW now \in 0 .. MaxClock
    PROVE  LET t == NextFire[e][now]
           IN  t \in Instants /\ t > now /\ ShownFirst(t)
<1>1. now \in Instants /\ Probes(e, now) # {}
  BY ScheduleAssumption
<1>2. QED
  BY <1>1, SearchFindsFirst DEF Firings

\* What a save or a claim computes is a plan: the first firing after now, or none.
LEMMA UpcomingIsPlanned ==
    ASSUME NEW enabled \in BOOLEAN, NEW e \in Crons, clock \in 0 .. MaxClock
    PROVE  /\ Upcoming(enabled, e) \in Instants \cup {Never}
           /\ enabled <=> Upcoming(enabled, e) # Never
BY NextIsLater, NeverIsNoInstant DEF Upcoming

\* An empty row is a row that is off.
LEMMA BlankRow == Blank \in Rows /\ ~Blank.enabled /\ Blank.next = Never
<1>1. (CHOOSE e \in Crons : TRUE) \in Crons
  BY CronAssumption
<1>2. QED
  BY <1>1 DEF Blank, Rows

\* No schedule and no poll: every plan is kept trivially.
LEMMA InitPlans == Init => IInv
<1> SUFFICES ASSUME Init PROVE IInv
  OBVIOUS
<1>1. Types
  <2>1. clock \in 0 .. MaxClock
    BY ScheduleAssumption DEF Init
  <2>2. schedule \in [Schedules -> Rows] /\ fired \in [Schedules -> Nat \cup {Never}]
    BY BlankRow DEF Init
  <2>3. Asleep \in Ticks
    BY DEF Asleep, Ticks
  <2>4. tick \in [Pollers -> Ticks]
    BY <2>3 DEF Init
  <2>5. NoEdit \in Edits
    BY BlankRow DEF NoEdit, Edits
  <2>6. torn \in [Schedules -> BOOLEAN] /\ edit \in [Editors -> Edits]
    BY <2>5 DEF Init
  <2>7. QED
    BY <2>1, <2>2, <2>4, <2>6 DEF Types
<1>2. \A s \in Schedules : Planned(s)
  BY BlankRow DEF Init, Planned
<1>3. \A p \in Pollers : Polling(p)
  BY DEF Init, Polling, Asleep
<1>4. \A a \in Editors : Editing(a)
  BY DEF Init, Editing
<1>5. QED
  BY <1>1, <1>2, <1>3, <1>4 DEF IInv

\* A turn of poll p to a record of its type, which may go by what p relies on.
LEMMA TurnsPoll ==
    ASSUME Types, \A q \in Pollers : Polling(q), UNCHANGED clock,
           NEW p \in Pollers, NEW t \in Ticks, Turn(p, t),
           t.pc # "asleep" => t.now # Never,
           t.pc \in {"read", "claimed"} => t.on \in Schedules,
           t.pc = "read" => t.upcoming \in Instants /\ ShownFirst(t.upcoming) /\ t.upcoming > t.now
    PROVE  tick' \in [Pollers -> Ticks] /\ \A q \in Pollers : Polling(q)'
<1>1. tick' \in [Pollers -> Ticks]
  BY DEF Types, Turn
<1>2. tick'[p] = t /\ \A q \in Pollers \ {p} : tick'[q] = tick[q]
  BY DEF Types, Turn
<1>3. Polling(p)'
  BY <1>2 DEF Polling
<1>4. \A q \in Pollers \ {p} : Polling(q)'
  BY <1>2 DEF Polling
<1>5. QED
  BY <1>1, <1>3, <1>4

\* A poll goes to sleep, or on to the rest of its list.
LEMMA Passes ==
    ASSUME Types, \A q \in Pollers : Polling(q), UNCHANGED clock, NEW p \in Pollers, tick[p].pc # "asleep",
           Turn(p, Asleep) \/ Pass(p, tick[p].due)
                           \/ \E s \in tick[p].due : Pass(p, tick[p].due \ {s})
    PROVE  /\ tick' \in [Pollers -> Ticks] /\ \A q \in Pollers : Polling(q)'
           /\ tick'[p].pc \in {"asleep", "listed"}
<1>1. Asleep \in Ticks /\ Asleep.pc = "asleep"
  BY DEF Asleep, Ticks
<1>2. tick[p] \in Ticks /\ tick[p].now # Never
  BY DEF Types, Polling
<1>3. PICK t \in Ticks : Turn(p, t) /\ t.pc \in {"asleep", "listed"} /\ (t.pc # "asleep" => t.now # Never)
  <2>1. CASE Turn(p, Asleep)
    BY <1>1, <2>1
  <2>2. ASSUME NEW left \in SUBSET Schedules, Pass(p, left)
        PROVE  \E t \in Ticks : /\ Turn(p, t) /\ t.pc \in {"asleep", "listed"}
                                /\ t.pc # "asleep" => t.now # Never
    <3> DEFINE listed == [Asleep EXCEPT !.pc = "listed", !.now = tick[p].now, !.due = left]
    <3>1. listed \in Ticks /\ listed.pc = "listed" /\ listed.now = tick[p].now
      BY <1>2 DEF Asleep, Ticks
    <3>2. Turn(p, Asleep) \/ Turn(p, listed)
      BY <2>2, Zenon DEF Pass
    <3> HIDE DEF listed
    <3>3. QED
      BY <1>1, <1>2, <3>1, <3>2
  <2>3. tick[p].due \in SUBSET Schedules
    BY <1>2 DEF Ticks
  <2>4. QED
    BY <2>1, <2>2, <2>3
<1>4. tick'[p] = t
  BY <1>3 DEF Turn, Types
<1>5. QED
  BY <1>3, <1>4, TurnsPoll

\* The row of schedule s says what another row may say, and the others what they said.
LEMMA RowsWritten ==
    ASSUME Types, NEW s \in Schedules, NEW r \in Rows, schedule' = [schedule EXCEPT ![s] = r]
    PROVE  /\ schedule' \in [Schedules -> Rows] /\ schedule'[s] = r
           /\ \A u \in Schedules \ {s} : schedule'[u] = schedule[u]
BY DEF Types

\* What a schedule's plan and the edit of it rest on.
LEMMA PlanStays ==
    ASSUME NEW s \in Schedules, Planned(s), fired'[s] = fired[s], torn'[s] = torn[s],
           schedule'[s].exists = schedule[s].exists, schedule'[s].enabled = schedule[s].enabled,
           schedule'[s].next = schedule[s].next
    PROVE  Planned(s)'
BY DEF Planned

\* The PATCHes in flight keep what they rest on when a row is neither enabled nor
\* disabled, nor planned nor forgotten, and no request creates one.
LEMMA EditsStay ==
    ASSUME IInv, UNCHANGED edit, NEW s \in Schedules, NEW r \in Rows,
           schedule' = [schedule EXCEPT ![s] = r],
           r.exists = "not_yet" => schedule[s].exists = "not_yet",
           r.exists = "yes" /\ schedule[s].exists # "not_yet" =>
               /\ schedule[s].exists = "yes"
               /\ r.enabled = schedule[s].enabled
               /\ r.next = Never <=> schedule[s].next = Never
    PROVE  \A a \in Editors : Editing(a)'
<1>1. schedule'[s] = r /\ \A u \in Schedules \ {s} : schedule'[u] = schedule[u]
  BY RowsWritten DEF IInv
<1>2. ASSUME NEW a \in Editors PROVE Editing(a)'
  <2>1. Editing(a)
    BY DEF IInv
  <2>2. CASE edit[a].on = s
    BY <1>1, <2>1, <2>2 DEF Editing
  <2>3. CASE edit[a].on # s
    BY <1>1, <2>1, <2>3 DEF Editing
  <2>4. QED
    BY <2>2, <2>3
<1>3. QED
  BY <1>2

\* A minute passes: no row changes.
LEMMA MinutePlans == IInv /\ Minute => IInv'
<1> SUFFICES ASSUME IInv, Minute PROVE IInv'
  OBVIOUS
<1>0. clock \in 0 .. MaxClock /\ clock' = clock + 1 /\ clock' \in 0 .. MaxClock
      /\ UNCHANGED <<schedule, fired, torn, tick, edit>>
  BY ScheduleAssumption DEF IInv, Types, Minute
<1>1. Types'
  <2>1. 0 .. clock \subseteq 0 .. clock'
    BY <1>0, ScheduleAssumption
  <2>2. \A t \in Ticks : t \in Ticks'
    BY <2>1 DEF Ticks
  <2>3. tick' \in [Pollers -> Ticks']
    BY <1>0, <2>2 DEF IInv, Types
  <2>4. QED
    BY <1>0, <2>3 DEF IInv, Types
<1>2. (\A s \in Schedules : Planned(s)') /\ (\A p \in Pollers : Polling(p)')
  BY <1>0 DEF IInv, Planned, Polling
<1>3. \A a \in Editors : Editing(a)'
  BY <1>0 DEF IInv, Editing
<1>4. QED
  BY <1>1, <1>2, <1>3 DEF IInv

\* A new row is planned from the minute of its creation.
LEMMA CreatePlans ==
    ASSUME IInv, NEW s \in Schedules, Create(s)
    PROVE  IInv'
<1>0. UNCHANGED <<clock, fired, torn, tick, edit>> /\ schedule[s] \in Rows /\ schedule[s].exists = "not_yet"
  BY DEF IInv, Types, Create
<1>1. PICK enabled \in BOOLEAN, e \in Crons :
          schedule' = [schedule EXCEPT ![s] = [@ EXCEPT !.exists = "yes", !.enabled = enabled, !.cron = e,
                                                        !.next = Upcoming(enabled, e)]]
  BY Zenon DEF Create
<1> DEFINE next == Upcoming(enabled, e)
           r == [schedule[s] EXCEPT !.exists = "yes", !.enabled = enabled, !.cron = e, !.next = next]
<1>2. next \in Instants \cup {Never} /\ (enabled <=> next # Never)
  BY UpcomingIsPlanned DEF IInv, Types
<1>3. schedule' = [schedule EXCEPT ![s] = r]
  BY <1>1
<1> HIDE DEF next
<1>4. r \in Rows /\ r.exists = "yes" /\ r.enabled = enabled /\ r.next = next
  BY <1>0, <1>2, NeverIsNoInstant DEF Rows
<1> HIDE DEF r
<1>5. /\ schedule' \in [Schedules -> Rows] /\ schedule'[s] = r
      /\ \A u \in Schedules \ {s} : schedule'[u] = schedule[u]
  BY <1>3, <1>4, RowsWritten DEF IInv
<1>6. Types'
  BY <1>0, <1>5 DEF IInv, Types, Ticks
<1>7. fired[s] = Never
  BY <1>0 DEF IInv, Planned
<1>8. Planned(s)'
  BY <1>0, <1>2, <1>4, <1>5, <1>7 DEF Planned
<1>9. \A u \in Schedules \ {s} : Planned(u)'
  BY <1>0, <1>5 DEF IInv, Planned
<1>10. \A p \in Pollers : Polling(p)'
  BY <1>0 DEF IInv, Polling
<1>11. \A a \in Editors : Editing(a)'
  BY <1>0, <1>3, <1>4, EditsStay
<1>12. QED
  BY <1>6, <1>8, <1>9, <1>10, <1>11 DEF IInv

\* A PATCH reads the row and plans from the minute it reads it.
LEMMA BeginEditPlans ==
    ASSUME IInv, NEW a \in Editors, NEW s \in Schedules, BeginEdit(a, s)
    PROVE  IInv'
<1>0. /\ UNCHANGED <<clock, schedule, fired, torn, tick>> /\ schedule[s] \in Rows
      /\ schedule[s].exists = "yes"
  BY DEF IInv, Types, BeginEdit
<1>1. PICK enabled \in BOOLEAN, e \in Crons : Reads(a, s, enabled, e, Upcoming(enabled, e))
  BY DEF BeginEdit
<1>2. PICK next : next = Upcoming(enabled, e)
  OBVIOUS
<1>3. next \in Instants \cup {Never} /\ (enabled <=> next # Never)
  BY <1>2, UpcomingIsPlanned DEF IInv, Types
<1> DEFINE r == [schedule[s] EXCEPT !.enabled = enabled, !.cron = e, !.next = next]
           new == [on |-> s, saw |-> schedule[s], passed |-> FALSE, new |-> r]
<1>4. r \in Rows /\ r.enabled = enabled /\ r.next = next
  BY <1>0, <1>3, NeverIsNoInstant DEF Rows
<1>5. edit' = [edit EXCEPT ![a] = new]
  BY <1>1, <1>2 DEF Reads
<1> HIDE DEF r
<1>6. /\ new \in Edits /\ new.on = s /\ new.saw = schedule[s] /\ ~new.passed /\ new.new = r
  BY <1>0, <1>4 DEF Edits
<1> HIDE DEF new
<1>7. /\ edit' \in [Editors -> Edits] /\ edit'[a] = new
      /\ \A b \in Editors \ {a} : edit'[b] = edit[b]
  BY <1>5, <1>6 DEF IInv, Types
<1>8. Editing(a)'
  BY <1>0, <1>3, <1>4, <1>6, <1>7 DEF Editing
<1>9. \A b \in Editors \ {a} : Editing(b)'
  BY <1>0, <1>7 DEF IInv, Editing
<1>10. Types' /\ (\A u \in Schedules : Planned(u)') /\ (\A p \in Pollers : Polling(p)')
  BY <1>0, <1>7 DEF IInv, Types, Ticks, Planned, Polling
<1>11. QED
  BY <1>8, <1>9, <1>10 DEF IInv

\* The unit of work writes the columns that were changed, whatever claim or PATCH wrote
\* the row since; those that have not seen it are passed.
LEMMA CommitPlans ==
    ASSUME IInv, NEW a \in Editors, CommitEdit(a)
    PROVE  IInv'
<1>s. PICK s, saw, new : s = edit[a].on /\ saw = edit[a].saw /\ new = edit[a].new
  OBVIOUS
<1>0. /\ UNCHANGED <<clock, tick>> /\ edit[a] # NoEdit /\ edit[a] \in Edits
      /\ s \in Schedules /\ saw \in Rows /\ new \in Rows /\ schedule[s] \in Rows /\ Planned(s)
      /\ new.enabled <=> new.next # Never
      /\ new.next # Never => new.next \in Instants
      /\ ~edit[a].passed /\ schedule[s].exists = "yes" =>
            /\ schedule[s].enabled = saw.enabled
            /\ schedule[s].next = Never <=> saw.next = Never
  BY <1>s DEF IInv, Types, CommitEdit, Editing, Edits
<1>1. \A p \in Pollers : Polling(p)'
  BY <1>0 DEF IInv, Polling
<1>2. CASE edit' = [edit EXCEPT ![a] = NoEdit] /\ UNCHANGED <<schedule, fired, torn>>
  <2>1. NoEdit \in Edits
    BY BlankRow DEF NoEdit, Edits
  <2>2. Types'
    BY <1>0, <1>2, <2>1 DEF IInv, Types, Ticks
  <2>3. \A b \in Editors : Editing(b)'
    BY <1>2 DEF IInv, Types, Editing
  <2>4. QED
    BY <1>1, <1>2, <2>2, <2>3 DEF IInv, Planned
<1> DEFINE Passed(b) == IF edit[b].on = s THEN [edit[b] EXCEPT !.passed = TRUE] ELSE edit[b]
<1>3. CASE /\ schedule[s].exists = "yes"
           /\ schedule' = [schedule EXCEPT
                 ![s].enabled = Column(@, saw.enabled, new.enabled),
                 ![s].cron = Column(@, saw.cron, new.cron),
                 ![s].next = Column(@, saw.next, new.next)]
           /\ fired' = [fired EXCEPT ![s] = IF new.next = saw.next THEN @ ELSE Never]
           /\ torn' = [torn EXCEPT ![s] = edit[a].passed]
           /\ edit' = [b \in Editors |-> IF b = a THEN NoEdit ELSE Passed(b)]
  <2>0. PICK now \in Rows : now = schedule[s]
    BY <1>0
  <2> DEFINE r == [now EXCEPT !.enabled = Column(now.enabled, saw.enabled, new.enabled),
                              !.cron = Column(now.cron, saw.cron, new.cron),
                              !.next = Column(now.next, saw.next, new.next)]
  <2>1. /\ r \in Rows /\ r.exists = now.exists
        /\ r.enabled = Column(now.enabled, saw.enabled, new.enabled)
        /\ r.next = Column(now.next, saw.next, new.next)
    BY <1>0 DEF Rows, Column
  <2>2. schedule' = [schedule EXCEPT ![s] = r]
    BY <1>0, <1>3, <2>0 DEF IInv, Types
  <2> HIDE DEF r
  <2>3. /\ schedule' \in [Schedules -> Rows] /\ schedule'[s] = r
        /\ \A u \in Schedules \ {s} : schedule'[u] = schedule[u]
    BY <1>0, <2>1, <2>2, RowsWritten DEF IInv
  <2>4. /\ fired' \in [Schedules -> Nat \cup {Never}]
        /\ fired'[s] = IF new.next = saw.next THEN fired[s] ELSE Never
        /\ \A u \in Schedules \ {s} : fired'[u] = fired[u]
    BY <1>0, <1>3 DEF IInv, Types
  <2>5. /\ torn' \in [Schedules -> BOOLEAN] /\ torn'[s] = edit[a].passed
        /\ \A u \in Schedules \ {s} : torn'[u] = torn[u]
    BY <1>0, <1>3 DEF IInv, Types, Edits
  <2>6. ASSUME NEW b \in Editors
        PROVE  /\ edit'[b] \in Edits
               /\ edit'[b] # NoEdit =>
                     /\ edit[b] # NoEdit /\ edit'[b].on = edit[b].on /\ edit'[b].saw = edit[b].saw
                     /\ edit'[b].new = edit[b].new /\ edit'[b].passed = (edit[b].passed \/ edit[b].on = s)
    <3>1. edit[b] \in Edits /\ NoEdit.on = NoSchedule /\ NoSchedule # s
      BY <1>0, ScheduleAssumption DEF IInv, Types, NoEdit
    <3>2. NoEdit \in Edits
      BY BlankRow DEF NoEdit, Edits
    <3>3. CASE b = a
      BY <1>3, <3>2, <3>3
    <3>4. CASE b # a /\ edit[b].on = s
      <4>1. edit'[b] = [edit[b] EXCEPT !.passed = TRUE]
        BY <1>3, <3>4
      <4>2. edit'[b] \in Edits /\ edit'[b].passed
        BY <3>1, <4>1 DEF Edits
      <4>3. /\ edit'[b].on = edit[b].on /\ edit'[b].saw = edit[b].saw /\ edit'[b].new = edit[b].new
        BY <3>1, <4>1 DEF Edits
      <4>4. edit[b] # NoEdit
        BY <3>1, <3>4
      <4>5. QED
        BY <3>4, <4>2, <4>3, <4>4
    <3>5. CASE b # a /\ edit[b].on # s
      <4>1. edit'[b] = edit[b]
        BY <1>3, <3>5
      <4>2. edit[b].passed \in BOOLEAN
        BY <3>1 DEF Edits
      <4>3. QED
        BY <3>1, <3>5, <4>1, <4>2
    <3>6. QED
      BY <3>3, <3>4, <3>5
  <2>7. Types'
    <3>1. edit' \in [Editors -> Edits]
      BY <1>3, <2>6
    <3>2. QED
      BY <1>0, <2>3, <2>4, <2>5, <3>1 DEF IInv, Types, Ticks
  <2>8. r.next # Never => r.next \in Instants
    BY <1>0, <2>0, <2>1 DEF Planned, Column
  <2>9. r.exists = "yes" /\ schedule[s].exists = "yes"
    BY <1>3, <2>0, <2>1
  <2>10. ~edit[a].passed => (r.enabled <=> r.next # Never)
    <3>1. SUFFICES ASSUME ~edit[a].passed PROVE r.enabled <=> r.next # Never
      OBVIOUS
    <3>2. now.enabled = saw.enabled /\ (now.next = Never <=> saw.next = Never)
      BY <1>0, <1>3, <2>0, <3>1
    <3>3. r.enabled = new.enabled
      BY <1>0, <2>0, <2>1, <3>2 DEF Column, Rows
    <3>4. r.next = Never <=> new.next = Never
      BY <1>0, <2>0, <2>1, <3>2 DEF Column
    <3>5. QED
      BY <1>0, <3>3, <3>4
  <2>11. r.next # Never /\ fired'[s] # Never =>
            fired'[s] < r.next /\ Wall[fired'[s]] # Wall[r.next]
    <3>1. CASE new.next = saw.next
      BY <1>0, <2>0, <2>1, <2>4, <3>1 DEF Planned, Column
    <3>2. CASE new.next # saw.next
      BY <2>4, <3>2
    <3>3. QED
      BY <3>1, <3>2
  <2>12. Planned(s)'
    BY <2>3, <2>5, <2>8, <2>9, <2>10, <2>11 DEF Planned
  <2>13. \A u \in Schedules \ {s} : Planned(u)'
    BY <2>3, <2>4, <2>5 DEF IInv, Planned
  <2>14. ASSUME NEW b \in Editors PROVE Editing(b)'
    <3>0. SUFFICES ASSUME edit'[b] # NoEdit PROVE Editing(b)'
      BY DEF Editing
    <3>1. /\ Editing(b) /\ edit[b] # NoEdit /\ edit'[b].on = edit[b].on /\ edit'[b].saw = edit[b].saw
          /\ edit'[b].new = edit[b].new /\ edit'[b].passed = (edit[b].passed \/ edit[b].on = s)
      BY <2>6, <3>0 DEF IInv
    <3>2. CASE edit[b].on = s
      <4>1. edit'[b].passed
        BY <3>1, <3>2
      <4>2. schedule'[s].exists = "yes"
        BY <2>3, <2>9
      <4>3. QED
        BY <3>1, <3>2, <4>1, <4>2, Zenon DEF Editing
    <3>3. CASE edit[b].on # s
      <4>1. edit[b].on \in Schedules \ {s}
        BY <3>1, <3>3 DEF Editing
      <4>2. schedule'[edit[b].on] = schedule[edit[b].on]
        BY <2>3, <4>1
      <4>3. QED
        BY <3>1, <3>3, <4>2 DEF Editing
    <3>4. QED
      BY <3>2, <3>3
  <2>15. QED
    BY <1>1, <2>7, <2>12, <2>13, <2>14 DEF IInv
<1>4. QED
  BY <1>s, <1>2, <1>3 DEF CommitEdit

\* A deleted row leaves nothing behind but what polls and an edit have read.
LEMMA DeletePlans ==
    ASSUME IInv, NEW s \in Schedules, Delete(s)
    PROVE  IInv'
<1> DEFINE r == [Blank EXCEPT !.exists = "gone"]
<1>1. r \in Rows /\ ~r.enabled /\ r.next = Never /\ r.exists = "gone"
  BY BlankRow DEF Rows
<1>2. schedule' = [schedule EXCEPT ![s] = r] /\ UNCHANGED <<clock, fired, torn, tick, edit>>
  BY DEF Delete
<1> HIDE DEF r
<1>3. /\ schedule' \in [Schedules -> Rows] /\ schedule'[s] = r
      /\ \A u \in Schedules \ {s} : schedule'[u] = schedule[u]
  BY <1>1, <1>2, RowsWritten DEF IInv
<1>4. Types'
  BY <1>2, <1>3 DEF IInv, Types, Ticks
<1>5. Planned(s)' /\ \A u \in Schedules \ {s} : Planned(u)'
  BY <1>1, <1>2, <1>3 DEF IInv, Planned
<1>6. (\A p \in Pollers : Polling(p)') /\ (\A a \in Editors : Editing(a)')
  BY <1>1, <1>2, EditsStay DEF IInv, Polling
<1>7. QED
  BY <1>4, <1>5, <1>6 DEF IInv

\* The steps of a poll that leave the rows alone, and its death.
LEMMA QuietPolls ==
    ASSUME IInv, NEW p \in Pollers, UNCHANGED <<clock, schedule, fired, torn, edit>>,
           Poll(p) \/ Read(p) \/ PollDies(p) \/ (Pass(p, tick[p].due) /\ tick[p].pc # "asleep")
    PROVE  IInv'
<1>0. tick[p] \in Ticks /\ Polling(p) /\ clock \in 0 .. MaxClock /\ schedule \in [Schedules -> Rows]
  BY DEF IInv, Types
<1>1. tick' \in [Pollers -> Ticks] /\ \A q \in Pollers : Polling(q)'
  <2>1. CASE Poll(p)
    <3> DEFINE due == {s \in Schedules : Due(s, clock)}
               t == [Asleep EXCEPT !.pc = "listed", !.now = clock, !.due = due]
    <3>0. due \in SUBSET Schedules /\ clock \in 0 .. clock
      BY <1>0, ScheduleAssumption
    <3>1. Turn(p, t)
      BY <2>1 DEF Poll
    <3> HIDE DEF due
    <3>2. t \in Ticks /\ t.pc = "listed" /\ t.now = clock
      BY <3>0 DEF Ticks, Asleep
    <3>3. clock # Never
      BY <1>0, NeverIsNoInstant
    <3> HIDE DEF t
    <3>4. QED
      BY <3>1, <3>2, <3>3, TurnsPoll DEF IInv
  <2>2. CASE Read(p)
    <3>1. PICK s \in tick[p].due :
             LET left == tick[p].due \ {s}
             IN  IF schedule[s].enabled /\ schedule[s].next # Never
                 THEN Turn(p, [tick[p] EXCEPT !.pc = "read", !.on = s, !.due = left,
                                              !.upcoming = NextFire[schedule[s].cron][tick[p].now]])
                 ELSE Pass(p, left)
      BY <2>2, Zenon DEF Read
    <3>2. tick[p].pc = "listed" /\ s \in Schedules /\ schedule[s].cron \in Crons
      BY <1>0, <2>2, Zenon DEF Read, At, Ticks, Rows
    <3>3. tick[p].now \in 0 .. MaxClock
      BY <1>0, <3>2, ScheduleAssumption DEF Polling, Ticks
    <3>4. CASE Pass(p, tick[p].due \ {s})
      BY <3>2, <3>4, Passes DEF IInv
    <3> DEFINE next == NextFire[schedule[s].cron][tick[p].now]
               t == [tick[p] EXCEPT !.pc = "read", !.on = s, !.due = tick[p].due \ {s}, !.upcoming = next]
    <3>5. CASE Turn(p, t)
      <4>1. next \in Instants /\ next > tick[p].now /\ ShownFirst(next)
        BY <3>2, <3>3, NextIsLater
      <4> HIDE DEF next
      <4>2. t \in Ticks /\ t.on = s /\ t.upcoming = next /\ t.now = tick[p].now
        BY <1>0, <3>2, <4>1, NeverIsNoInstant DEF Ticks
      <4>3. t.now # Never
        BY <1>0, <3>2, <4>2 DEF Polling
      <4> HIDE DEF t
      <4>4. QED
        BY <3>2, <3>5, <4>1, <4>2, <4>3, TurnsPoll DEF IInv
    <3>6. QED
      BY <3>1, <3>4, <3>5
  <2>3. CASE PollDies(p)
    BY <2>3, Passes DEF IInv, PollDies, At
  <2>4. CASE Pass(p, tick[p].due) /\ tick[p].pc # "asleep"
    BY <2>4, Passes DEF IInv
  <2>5. QED
    BY <2>1, <2>2, <2>3, <2>4
<1>2. Types'
  BY <1>1 DEF IInv, Types, Ticks
<1>3. (\A s \in Schedules : Planned(s)') /\ (\A a \in Editors : Editing(a)')
  BY DEF IInv, Planned, Editing
<1>4. QED
  BY <1>1, <1>2, <1>3 DEF IInv

\* A poll claims what is due: it fires that slot, and goes over to a later one.
LEMMA Claimed ==
    ASSUME IInv, NEW p \in Pollers, NEW s, tick[p].on = s, At(p, "read"), Due(s, tick[p].now), Advance(p, s)
    PROVE  /\ s \in Schedules
           /\ schedule' \in [Schedules -> Rows] /\ schedule' = [schedule EXCEPT ![s] = schedule'[s]]
           /\ schedule'[s].exists = schedule[s].exists /\ schedule'[s].enabled = schedule[s].enabled
           /\ schedule'[s].next = tick[p].upcoming
           /\ fired' \in [Schedules -> Nat \cup {Never}]
           /\ fired'[s] = schedule[s].next /\ fired'[s] \in Instants
           /\ \A u \in Schedules \ {s} : schedule'[u] = schedule[u] /\ fired'[u] = fired[u]
           /\ fired'[s] <= clock
           /\ tick[p].upcoming \in Instants /\ fired'[s] < tick[p].upcoming
           /\ Wall[fired'[s]] # Wall[tick[p].upcoming]
<1>1. /\ s \in Schedules /\ tick[p] \in Ticks /\ schedule[s] \in Rows /\ Planned(s)
      /\ tick[p].upcoming \in Instants /\ ShownFirst(tick[p].upcoming)
      /\ tick[p].upcoming > tick[p].now /\ tick[p].now # Never
      /\ schedule[s].next # Never /\ schedule[s].next <= tick[p].now
      /\ clock \in Nat
  BY ScheduleAssumption DEF IInv, Types, Polling, At, Due
<1>2. tick[p].now \in 0 .. clock /\ tick[p].upcoming \in Nat /\ schedule[s].next \in Instants
      /\ schedule[s].next \in Nat
  BY <1>1, NeverIsNoInstant DEF Ticks, Planned
<1> DEFINE r == [schedule[s] EXCEPT !.next = tick[p].upcoming]
<1>3. /\ r \in Rows /\ r.exists = schedule[s].exists /\ r.enabled = schedule[s].enabled
      /\ r.next = tick[p].upcoming
  BY <1>1, <1>2 DEF Rows
<1>4. schedule' = [schedule EXCEPT ![s] = r]
  BY <1>1 DEF Advance, IInv, Types
<1> HIDE DEF r
<1>5. /\ schedule' \in [Schedules -> Rows] /\ schedule'[s] = r
      /\ \A u \in Schedules \ {s} : schedule'[u] = schedule[u]
  BY <1>1, <1>3, <1>4, RowsWritten DEF IInv
<1>6. /\ fired' \in [Schedules -> Nat \cup {Never}] /\ fired'[s] = schedule[s].next
      /\ \A u \in Schedules \ {s} : fired'[u] = fired[u]
  BY <1>1, <1>2 DEF Advance, IInv, Types
<1>7. schedule[s].next <= clock /\ schedule[s].next < tick[p].upcoming
  BY <1>1, <1>2
<1>8. Wall[schedule[s].next] # Wall[tick[p].upcoming]
  BY <1>1, <1>2, <1>7 DEF ShownFirst
<1>9. QED
  BY <1>1, <1>2, <1>3, <1>4, <1>5, <1>6, <1>7, <1>8

\* A claim writes the firing after now; a PATCH in flight finds a row that moved on.
LEMMA ClaimPlans ==
    ASSUME IInv, NEW p \in Pollers, Claim(p)
    PROVE  IInv'
<1>s. PICK s : s = tick[p].on
  OBVIOUS
<1>0. UNCHANGED <<clock, torn, edit>> /\ At(p, "read")
  BY DEF Claim
<1>1. CASE Pass(p, tick[p].due) /\ UNCHANGED <<schedule, fired>>
  BY <1>0, <1>1, QuietPolls DEF At
<1>2. CASE Due(s, tick[p].now) /\ Advance(p, s)
  <2>1. /\ s \in Schedules
        /\ schedule' \in [Schedules -> Rows] /\ schedule' = [schedule EXCEPT ![s] = schedule'[s]]
        /\ schedule'[s].exists = schedule[s].exists /\ schedule'[s].enabled = schedule[s].enabled
        /\ schedule'[s].next = tick[p].upcoming
        /\ fired' \in [Schedules -> Nat \cup {Never}]
        /\ fired'[s] = schedule[s].next /\ fired'[s] \in Instants
        /\ \A u \in Schedules \ {s} : schedule'[u] = schedule[u] /\ fired'[u] = fired[u]
        /\ tick[p].upcoming \in Instants /\ fired'[s] < tick[p].upcoming
        /\ Wall[fired'[s]] # Wall[tick[p].upcoming]
    BY <1>s, <1>0, <1>2, Claimed
  <2>2. tick' \in [Pollers -> Ticks] /\ \A q \in Pollers : Polling(q)'
    <3> DEFINE t == [tick[p] EXCEPT !.pc = "claimed"]
    <3>1. tick[p] \in Ticks /\ tick[p].now # Never
      BY <1>0 DEF IInv, Types, Polling, At
    <3>2. t \in Ticks /\ t.pc = "claimed" /\ t.on = s /\ t.now = tick[p].now
      BY <1>s, <3>1 DEF Ticks
    <3>3. Turn(p, t)
      BY <1>2 DEF Advance
    <3> HIDE DEF t
    <3>4. QED
      BY <1>0, <2>1, <3>1, <3>2, <3>3, TurnsPoll DEF IInv
  <2>3. Types'
    BY <1>0, <2>1, <2>2 DEF IInv, Types, Ticks
  <2>4. Planned(s)'
    <3>1. schedule[s].enabled /\ schedule[s].exists = "yes" /\ tick[p].upcoming # Never
      BY <1>2, <2>1, NeverIsNoInstant DEF Due, IInv, Planned
    <3>2. QED
      BY <2>1, <3>1 DEF Planned
  <2>5. \A u \in Schedules \ {s} : Planned(u)'
    BY <1>0, <2>1 DEF IInv, Planned
  <2>6. \A a \in Editors : Editing(a)'
    <3>1. PICK r \in Rows : r = schedule'[s]
      BY <2>1
    <3>2. schedule[s].next # Never /\ r.next # Never /\ schedule[s].exists = "yes"
      BY <1>2, <2>1, <3>1, NeverIsNoInstant DEF Due, IInv, Planned
    <3>3. QED
      BY <1>0, <2>1, <3>1, <3>2, EditsStay
  <2>7. QED
    BY <2>2, <2>3, <2>4, <2>5, <2>6 DEF IInv
<1>3. QED
  BY <1>s, <1>1, <1>2 DEF Claim

\* A poll launches: no row changes but the flag of its last run.
LEMMA FirePlans ==
    ASSUME IInv, NEW p \in Pollers, Fire(p)
    PROVE  IInv'
<1>s. PICK s : s = tick[p].on
  OBVIOUS
<1>0. /\ UNCHANGED <<clock, fired, torn, edit>> /\ tick[p].pc = "claimed" /\ Pass(p, tick[p].due)
      /\ s \in Schedules /\ schedule[s] \in Rows
  BY <1>s DEF Fire, At, IInv, Types, Polling
<1>1. CASE UNCHANGED schedule
  BY <1>0, <1>1, QuietPolls
<1>2. CASE schedule' = [schedule EXCEPT ![s].ran = @ \/ schedule[s].exists = "yes"]
  <2> DEFINE ran == schedule[s].ran \/ schedule[s].exists = "yes"
             r == [schedule[s] EXCEPT !.ran = ran]
  <2>0. ran \in BOOLEAN
    BY <1>0 DEF Rows
  <2>a. schedule' = [schedule EXCEPT ![s] = r]
    BY <1>0, <1>2 DEF IInv, Types
  <2> HIDE DEF ran
  <2>1. /\ r \in Rows /\ r.exists = schedule[s].exists /\ r.enabled = schedule[s].enabled
        /\ r.next = schedule[s].next
    BY <1>0, <2>0 DEF Rows
  <2> HIDE DEF r
  <2>2. /\ schedule' \in [Schedules -> Rows] /\ schedule'[s] = r
        /\ \A u \in Schedules \ {s} : schedule'[u] = schedule[u]
    BY <1>0, <2>a, <2>1, RowsWritten DEF IInv
  <2>3. tick' \in [Pollers -> Ticks] /\ \A q \in Pollers : Polling(q)'
    BY <1>0, Passes DEF IInv
  <2>4. Types'
    BY <1>0, <2>2, <2>3 DEF IInv, Types, Ticks
  <2>5. \A u \in Schedules : Planned(u)'
    BY <1>0, <2>1, <2>2, PlanStays DEF IInv
  <2>6. \A a \in Editors : Editing(a)'
    BY <1>0, <2>a, <2>1, EditsStay DEF Rows
  <2>7. QED
    BY <2>3, <2>4, <2>5, <2>6 DEF IInv
<1>3. QED
  BY <1>s, <1>1, <1>2 DEF Fire

\* The rows, the PATCHes in flight and the polls are what the searches before them found
\* (scheduling/poller.py, api/routes_schedules.py).
THEOREM PlansInvariant == Spec => []IInv
<1>1. Init => IInv
  BY InitPlans
<1>2. IInv /\ [Next]_vars => IInv'
  <2> SUFFICES ASSUME IInv, [Next]_vars PROVE IInv'
    OBVIOUS
  <2>1. ASSUME NEW p \in Pollers, Poll(p) \/ Read(p) \/ PollDies(p) PROVE IInv'
    <3>1. UNCHANGED <<clock, schedule, fired, torn, edit>>
      BY <2>1, Zenon DEF Poll, Read, PollDies
    <3>2. Poll(p) \/ Read(p) \/ PollDies(p) \/ (Pass(p, tick[p].due) /\ tick[p].pc # "asleep")
      BY <2>1
    <3>3. QED
      BY <3>1, <3>2, QuietPolls, Zenon
  <2>2. CASE UNCHANGED vars
    BY <2>2 DEF vars, IInv, Types, Ticks, Planned, Polling, Editing
  <2>3. QED
    BY <2>1, <2>2, MinutePlans, CreatePlans, BeginEditPlans, CommitPlans, DeletePlans, ClaimPlans, FirePlans
    DEF Next, PollStep
<1>3. QED
  BY <1>1, <1>2, PTL DEF Spec

-----------------------------------------------------------------------------

\* In every time zone, at every minute of every instance: the search over local days
\* and minutes finds the first later instant that shows a minute of the expression for
\* the first time (next_fire).
THEOREM NextIsAlwaysFirst == Spec => []NextIsFirst
<1>1. IInv => NextIsFirst
  <2> SUFFICES ASSUME IInv, NEW e \in Crons PROVE NextFire[e][clock] = Min(Firings(e, clock))
    BY DEF NextIsFirst, Firings
  <2>1. clock \in 0 .. MaxClock
    BY DEF IInv, Types
  <2>2. clock \in Instants /\ Probes(e, clock) # {}
    BY <2>1, ScheduleAssumption
  <2>3. QED
    BY <2>2, SearchFindsFirst
<1>2. QED
  BY <1>1, PlansInvariant, PTL

\* For any number of schedules, polls and PATCHes, which may overlap: a schedule has a
\* next firing exactly while it is enabled, whatever claim lands beside the PATCH that
\* disables or enables it, unless that PATCH was committed over another one that it had
\* not seen (create_schedule, update_schedule, _claim).
THEOREM EnabledMeansScheduled == Spec => []EnabledIsScheduled
<1>1. IInv => EnabledIsScheduled
  BY DEF IInv, Planned, EnabledIsScheduled
<1>2. QED
  BY <1>1, PlansInvariant, PTL

\* For any number of overlapping polls, whichever die: between two edits a slot fires
\* once, not before its minute, and the next firing is of a later slot and of another
\* minute of the wall clock even when daylight saving repeats it (poller.py, _claim).
THEOREM SlotsFireOnce == Spec => FiresOnce
<1> DEFINE Once == \A p \in Pollers : \A s \in {tick[p].on} :
                      At(p, "read") /\ tick'[p].pc = "claimed" =>
                          /\ fired'[s] <= clock
                          /\ fired[s] # Never => /\ fired'[s] > fired[s]
                                                 /\ Wall[fired'[s]] # Wall[fired[s]]
<1>1. IInv /\ [Next]_vars => Once
  <2> SUFFICES ASSUME IInv, [Next]_vars, NEW p \in Pollers, NEW s, s = tick[p].on,
                      At(p, "read"), tick'[p].pc = "claimed"
               PROVE  /\ fired'[s] <= clock
                      /\ fired[s] # Never => /\ fired'[s] > fired[s]
                                             /\ Wall[fired'[s]] # Wall[fired[s]]
    BY Zenon
  <2>1. Claim(p)
    <3>1. tick'[p] # tick[p]
      BY DEF At
    <3>2. PICK q \in Pollers : PollStep(q) \/ PollDies(q)
      BY <3>1, Zenon DEF Next, Minute, Create, BeginEdit, CommitEdit, Delete, vars
    <3>3. tick' = [tick EXCEPT ![q] = tick'[q]]
      BY <3>2, Zenon DEF PollStep, PollDies, Poll, Read, Claim, Fire, Advance, Pass, Turn, IInv, Types
    <3>4. q = p
      BY <3>1, <3>3 DEF IInv, Types
    <3>5. ~PollDies(p)
      BY DEF PollDies, Turn, Asleep, IInv, Types
    <3>6. QED
      BY <3>2, <3>4, <3>5, Zenon DEF PollStep, Poll, Read, Fire, At
  <2>2. Due(s, tick[p].now) /\ Advance(p, s)
    <3>1. ~Pass(p, tick[p].due)
      <4>1. SUFFICES ASSUME Pass(p, tick[p].due) PROVE FALSE
        OBVIOUS
      <4>2. tick[p].pc # "asleep" /\ UNCHANGED clock
        BY <2>1 DEF At, Claim
      <4>3. tick'[p].pc \in {"asleep", "listed"}
        BY <4>1, <4>2, Passes DEF IInv
      <4>4. QED
        BY <4>3
    <3>2. QED
      BY <2>1, <3>1 DEF Claim
  <2>3. /\ s \in Schedules /\ fired'[s] = schedule[s].next /\ fired'[s] <= clock /\ fired'[s] \in Instants
    BY <2>2, Claimed
  <2>4. fired[s] # Never => fired[s] < schedule[s].next /\ Wall[fired[s]] # Wall[schedule[s].next]
    BY <2>2, <2>3 DEF IInv, Planned, Due
  <2>5. fired[s] # Never => fired[s] \in Nat
    BY <2>3 DEF IInv, Types
  <2>6. QED
    BY <2>3, <2>4, <2>5, NeverIsNoInstant
<1>2. Once => [Once]_vars
  OBVIOUS
<1>3. QED
  BY <1>1, PlansInvariant, PTL DEF Spec, FiresOnce

=============================================================================

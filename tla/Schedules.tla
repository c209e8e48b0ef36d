------------------------------ MODULE Schedules ------------------------------
(***************************************************************************)
(* The schedules of a project (scheduling/poller.py,                         *)
(* api/routes_schedules.py). A poll is a process of a worker: it lists what  *)
(* is due, claims one schedule after another and launches a run for each.    *)
(* launch() is one step here: RunControl has its steps.                      *)
(***************************************************************************)
EXTENDS Cron

CONSTANTS
    Schedules,
    Pollers,      \* ticks that may overlap
    Editors,      \* PATCHes that may overlap
    NoSchedule,
    MaxClock,     \* bound: minutes
    MaxEdits,     \* bound: requests of administrators
    MaxDeaths     \* bound: polls that die

\* Every expression fires again after every minute of an instance, and Wall reaches
\* that far: the routes refuse an expression without a next firing.
ASSUME ScheduleAssumption ==
    /\ NoSchedule \notin Schedules
    /\ MaxClock \in Nat /\ MaxEdits \in Nat /\ MaxDeaths \in Nat
    /\ 0 .. MaxClock \subseteq Instants
    /\ \A e \in Crons, t \in 0 .. MaxClock : Probes(e, t) # {}

VARIABLES
    clock,
    schedule,     \* the schedule rows
    fired,        \* history: the slot each fired last since next_at was edited
    torn,         \* history: the last PATCH committed over one that it had not seen
    tick,         \* what each poll is doing
    edit,         \* the PATCHes in flight
    budget        \* for the bounds

vars == <<clock, schedule, fired, torn, tick, edit, budget>>

Never == -1

Blank == [exists |-> "not_yet", enabled |-> FALSE, cron |-> CHOOSE e \in Crons : TRUE,
          next |-> Never, ran |-> FALSE]
Asleep == [pc |-> "asleep", now |-> Never, due |-> {}, on |-> NoSchedule, upcoming |-> Never]
NoEdit == [on |-> NoSchedule, saw |-> Blank, new |-> Blank, passed |-> FALSE]

Init ==
    /\ clock = 0
    /\ schedule = [s \in Schedules |-> Blank]
    /\ fired = [s \in Schedules |-> Never]
    /\ torn = [s \in Schedules |-> FALSE]
    /\ tick = [p \in Pollers |-> Asleep]
    /\ edit = [a \in Editors |-> NoEdit]
    /\ budget = [edits |-> MaxEdits, deaths |-> MaxDeaths]

Spend(what) == budget[what] > 0 /\ budget' = [budget EXCEPT ![what] = @ - 1]

Minute ==
    /\ clock < MaxClock
    /\ clock' = clock + 1
    /\ UNCHANGED <<schedule, fired, torn, tick, edit, budget>>

-----------------------------------------------------------------------------
(* api/routes_schedules.py                                                  *)

\* _next_at
Upcoming(enabled, e) == IF enabled THEN NextFire[e][clock] ELSE Never

Create(s) ==
    /\ Spend("edits")
    /\ schedule[s].exists = "not_yet"
    /\ \E enabled \in BOOLEAN, e \in Crons :
          schedule' = [schedule EXCEPT ![s] = [@ EXCEPT !.exists = "yes", !.enabled = enabled, !.cron = e,
                                                        !.next = Upcoming(enabled, e)]]
    /\ UNCHANGED <<clock, fired, torn, tick, edit>>

Reads(a, s, enabled, e, next) ==
    edit' = [edit EXCEPT ![a] = [on |-> s, saw |-> schedule[s], passed |-> FALSE,
                                 new |-> [schedule[s] EXCEPT !.enabled = enabled, !.cron = e, !.next = next]]]

\* Mutant: an edit that only switches the schedule leaves its next firing alone.
BeginEditUnplanned(a, s) ==
    /\ Spend("edits")
    /\ edit[a] = NoEdit /\ schedule[s].exists = "yes"
    /\ \E enabled \in BOOLEAN, e \in Crons :
          /\ <<enabled, e>> # <<schedule[s].enabled, schedule[s].cron>>
          /\ Reads(a, s, enabled, e, IF e = schedule[s].cron THEN schedule[s].next ELSE Upcoming(enabled, e))
    /\ UNCHANGED <<clock, schedule, fired, torn, tick>>

\* The row is read without a lock; the next firing is computed again on every edit.
BeginEdit(a, s) ==
    /\ Spend("edits")
    /\ edit[a] = NoEdit /\ schedule[s].exists = "yes"
    /\ \E enabled \in BOOLEAN, e \in Crons :
          /\ <<enabled, e>> # <<schedule[s].enabled, schedule[s].cron>>
          /\ Reads(a, s, enabled, e, Upcoming(enabled, e))
    /\ UNCHANGED <<clock, schedule, fired, torn, tick>>

Column(now, saw, new) == IF new = saw THEN now ELSE new

\* The unit of work writes the columns that the request changed; a row that is
\* gone is an error.
CommitEdit(a) ==
    LET s == edit[a].on  saw == edit[a].saw  new == edit[a].new
        Passed(b) == IF edit[b].on = s THEN [edit[b] EXCEPT !.passed = TRUE] ELSE edit[b]
    IN  /\ edit[a] # NoEdit
        /\ IF schedule[s].exists = "yes"
           THEN /\ schedule' = [schedule EXCEPT
                      ![s].enabled = Column(@, saw.enabled, new.enabled),
                      ![s].cron = Column(@, saw.cron, new.cron),
                      ![s].next = Column(@, saw.next, new.next)]
                /\ fired' = [fired EXCEPT ![s] = IF new.next = saw.next THEN @ ELSE Never]
                /\ torn' = [torn EXCEPT ![s] = edit[a].passed]
                /\ edit' = [b \in Editors |-> IF b = a THEN NoEdit ELSE Passed(b)]
           ELSE /\ edit' = [edit EXCEPT ![a] = NoEdit]
                /\ UNCHANGED <<schedule, fired, torn>>
        /\ UNCHANGED <<clock, tick, budget>>

Delete(s) ==
    /\ Spend("edits")
    /\ schedule[s].exists = "yes"
    /\ schedule' = [schedule EXCEPT ![s] = [Blank EXCEPT !.exists = "gone"]]
    /\ UNCHANGED <<clock, fired, torn, tick, edit>>

-----------------------------------------------------------------------------
(* scheduling/poller.py                                                     *)

Due(s, now) == schedule[s].enabled /\ schedule[s].next # Never /\ schedule[s].next <= now

At(p, pc) == tick[p].pc = pc
Turn(p, t) == tick' = [tick EXCEPT ![p] = t]

\* On to the next schedule of the list, if there is one.
Pass(p, left) ==
    Turn(p, IF left = {} THEN Asleep
            ELSE [Asleep EXCEPT !.pc = "listed", !.now = tick[p].now, !.due = left])

\* _due_ids; the order of next_at is left open.
Poll(p) ==
    /\ At(p, "asleep")
    /\ \E s \in Schedules : Due(s, clock)
    /\ Turn(p, [Asleep EXCEPT !.pc = "listed", !.now = clock, !.due = {s \in Schedules : Due(s, clock)}])
    /\ UNCHANGED <<clock, schedule, fired, torn, edit, budget>>

\* _claim reads the row, and computes what comes after this minute.
Read(p) ==
    /\ At(p, "listed")
    /\ \E s \in tick[p].due :
          LET left == tick[p].due \ {s}
          IN  IF schedule[s].enabled /\ schedule[s].next # Never
              THEN Turn(p, [tick[p] EXCEPT !.pc = "read", !.on = s, !.due = left,
                                           !.upcoming = NextFire[schedule[s].cron][tick[p].now]])
              ELSE Pass(p, left)
    /\ UNCHANGED <<clock, schedule, fired, torn, edit, budget>>

Advance(p, s) ==
    /\ schedule' = [schedule EXCEPT ![s].next = tick[p].upcoming]
    /\ fired' = [fired EXCEPT ![s] = schedule[s].next]
    /\ Turn(p, [tick[p] EXCEPT !.pc = "claimed"])

\* Mutant: the claim goes by what was read.
ClaimRead(p) ==
    /\ At(p, "read")
    /\ Advance(p, tick[p].on)
    /\ UNCHANGED <<clock, torn, edit, budget>>

\* Mutant: the claim asks for a slot of the past.
ClaimPast(p) ==
    /\ At(p, "read")
    /\ IF Due(tick[p].on, tick[p].now - 1) THEN Advance(p, tick[p].on)
       ELSE Pass(p, tick[p].due) /\ UNCHANGED <<schedule, fired>>
    /\ UNCHANGED <<clock, torn, edit, budget>>

\* UPDATE ... WHERE next_at <= now, committed: of the polls that read the row,
\* one has the firing.
Claim(p) ==
    /\ At(p, "read")
    /\ IF Due(tick[p].on, tick[p].now) THEN Advance(p, tick[p].on)
       ELSE Pass(p, tick[p].due) /\ UNCHANGED <<schedule, fired>>
    /\ UNCHANGED <<clock, torn, edit, budget>>

\* _fire: launch() starts a run and last_run_id is written, or launch() fails, or
\* the project is busy; the schedule waits for its next slot in every case.
Fire(p) ==
    LET s == tick[p].on
    IN  /\ At(p, "claimed")
        /\ \/ schedule' = [schedule EXCEPT ![s].ran = @ \/ schedule[s].exists = "yes"]
           \/ UNCHANGED schedule
        /\ Pass(p, tick[p].due)
        /\ UNCHANGED <<clock, fired, torn, edit, budget>>

\* The worker dies: what it claimed and did not launch is lost.
PollDies(p) ==
    /\ Spend("deaths")
    /\ ~At(p, "asleep")
    /\ Turn(p, Asleep)
    /\ UNCHANGED <<clock, schedule, fired, torn, edit>>

PollStep(p) == Poll(p) \/ Read(p) \/ Claim(p) \/ Fire(p)

-----------------------------------------------------------------------------

Next ==
    \/ Minute
    \/ \E s \in Schedules : Create(s) \/ Delete(s)
    \/ \E a \in Editors, s \in Schedules : BeginEdit(a, s)
    \/ \E a \in Editors : CommitEdit(a)
    \/ \E p \in Pollers : PollStep(p) \/ PollDies(p)

\* The worker's cron runs the poll every minute.
Spec == Init /\ [][Next]_vars /\ \A p \in Pollers : WF_vars(PollStep(p))

-----------------------------------------------------------------------------

\* Between two edits a slot fires once, not before its minute, and slots that were
\* missed fire as one: the next firing is of a later slot and of another minute of
\* the wall clock even when daylight saving repeats it, whatever ticks overlap
\* (poller.py, _claim and next_at_for).
FiresOnce ==
    [][\A p \in Pollers : \A s \in {tick[p].on} :
          At(p, "read") /\ tick'[p].pc = "claimed" =>
              /\ fired'[s] <= clock
              /\ fired[s] # Never => /\ fired'[s] > fired[s]
                                     /\ Wall[fired'[s]] # Wall[fired[s]]]_vars

\* A schedule has a next firing exactly while it is enabled, whatever claims and
\* PATCHes land beside each other, unless the last PATCH committed over one that it
\* had not seen; the next PATCH that has seen the row mends it (create_schedule,
\* update_schedule, _claim).
EnabledIsScheduled ==
    \A s \in Schedules : schedule[s].exists = "yes" /\ ~torn[s] =>
        (schedule[s].enabled <=> schedule[s].next # Never)

\* What create_schedule says of a disabled row, without exception: it has no next
\* firing at all.
DisabledHasNoFiring ==
    \A s \in Schedules : ~schedule[s].enabled => schedule[s].next = Never

\* An enabled schedule has a next firing, without exception: the poll would never
\* find it again.
EnabledHasFiring ==
    \A s \in Schedules : schedule[s].enabled => schedule[s].next # Never

\* What is due does not stay due: a poll claims it, whatever polls die and whatever
\* is edited, or it is disabled (poll_schedules).
DueIsClaimed == \A s \in Schedules : Due(s, clock) ~> ~Due(s, clock)

\* At every minute, the search over local days and minutes finds the first later
\* instant that shows a minute of the expression for the first time (next_fire).
NextIsFirst ==
    \A e \in Crons :
        NextFire[e][clock] =
            Min({t \in Instants :
                    /\ t > clock /\ MatchesDay(e, Wall[t].day) /\ Wall[t].minute \in e.minutes
                    /\ ShownFirst(t)})

=============================================================================

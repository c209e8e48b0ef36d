# Verification of the control of Ads-automation

The system is a service that takes an advertising project through pipelines of nodes: research,
plan, guideline, creative. A *run* executes one pipeline. An API process launches, cancels,
retries and answers; a worker process takes jobs from a queue and executes the nodes of a run in
waves; people answer the questions a node raises (*gates*, *person-tasks*); a cron sweep
(*reaper*) ends the runs whose worker died. A creative run buys images and videos from a
provider; a guideline run harvests claims that a legal owner signs, and its guideline is
published as a ruleset, which a policy watcher amends; a poll launches runs on a schedule. All
of them share Postgres rows and a few Redis keys. Every actor works in several commits, with
other actors in between, from objects it loaded at the start (`expire_on_commit=False`,
`db/session.py:36`). That is where the correctness of the program is hard to see and hard to
test, and it is what this project models.

Paths below are relative to `apps/api/src/agent/`.

## Contents

The run lifecycle:

- `RunState` - the shared rows and keys, with the reads and the writes of
  `orchestrator/state.py`, `approvals.expire_pending` and the lock.
- `WaveExecutor` - `RunExecutor.execute`, one action per stretch between commits.
- `RunControl` - launch, cancel and retry-failed.
- `Decisions` - answering a gate, attesting, clearing exceptions, resuming.
- `Reaper` - `scheduling/reaper.py`.
- `RunLifecycle` - composes these five, states the properties and the fairness.
- `GateProtocol` - the abstract promise of a gate, which `RunLifecycle` implements.
- `Dag` - the graph operators (`orchestrator/dag.py`) as definitions; `DagLoops` - the loops of
  that file, shown to compute them.

Paid media:

- `MediaBudget` - the three Lua scripts of `media/budget.py`.
- `MediaJobs` - `media/jobs.py` over it: submit, await, check again, the provider.
- `SpendControl` - the abstract promise about paid work, which `MediaJobs` implements.

The rulebook:

- `ClaimsRegister` - every request that writes claims and signatures.
- `Publication` - guidelines, rulesets and policy amendments over it.
- `Rulebook` - the abstract promise about versions, which `Publication` implements.

Schedules:

- `Cron` - the search for the next firing; `Schedules` - the poll and the edits.

`MCRunLifecycle`, `MCDagLoops`, `MCMediaJobs`, `MCPublication`, `MCSchedules` and the `.cfg`
files are the instances for TLC.

The theorems, checked by TLAPS:

- `Lemmas_proofs` - sets, sequences, sums over finite sets; cited by the others.
- `RunTypes_proofs` - types of the lifecycle, and what its actions do to one node, one question,
  one worker; `RunLifecycle_proofs` - its invariants, action properties and refinement.
- `DagLoops_proofs` - what the loops of `dag.py` compute.
- `MediaJobs_proofs` - the refinement of `SpendControl`; `MediaCosts_proofs` - the money.
- `Publication_proofs` - licences, voided signatures, and the refinement of `Rulebook`.
- `Schedules_proofs` - the search of `Cron`, and the polls.

## Inventory

### Modelled

**Dependency graph** (`orchestrator/dag.py`). State: the dependencies; while a loop runs, its
frontier, what it found, what remains. Operations: validation, `descendants`, `closure`,
`waves`. The executor uses `waves` to order a run and `descendants` to decide what a failed or a
waiting node holds back. Correct when validation rejects exactly the cyclic graphs, each loop
computes the transitive closure it stands for, and every loop ends.

**Run state** (`orchestrator/state.py`, `db/models.py`). State: `run.status` and `started_at`;
the `node_run` rows by attempt number; the approvals and the person-tasks; per project a lock
key, per run a cancel flag and a heartbeat key, all three with a TTL. Operations:
`mark_running`, `start_node`, `finish_node`, `record_skipped`, `fail_stale_running`,
`reset_failed`, `finish_run`, lock, release, refresh.

**Executor** (`orchestrator/executor.py`, `heartbeat.py`, `worker.py`). State: the local sets of
`_run_waves` (outputs, blocked, halted, waiting), the wave in progress, the number of passes. It
reads the rows at the start of every pass, executes up to `WAVE_CONCURRENCY` nodes at a time,
each with its own session and its own retries, opens gates and tasks, parks the run or ends it.
Hard: everything it read is stale by the time it acts; several commands follow the commit that
ends or parks a run; it can die anywhere, and a job is never delivered twice (`MAX_TRIES = 1`).
Correct when no node starts before its inputs, nothing that succeeded is executed again, a run
that is called a success is complete, and the lock goes back.

**Approvals** (`orchestrator/approvals.py`, `api/routes_approvals.py`). State: the approval
rows. Operations: open, park, decide, expire, resume or close the run. Hard: the answer arrives
while the run parks, executes, dies or is cancelled; two people answer; two gates of one run are
answered; two executors look for the open question of one gate and both insert one. Correct when
an answer is final, an open question has a proposal behind it, only a person's yes lets the gate
count as done, and the run wakes up.

**Launch and run requests** (`orchestrator/launch.py`, `queue.py`, `api/routes_runs.py`). Lock,
commit, enqueue, each of which may fail; cancel and retry-failed act on a run by the status they
loaded. Correct when one run executes per project, a queued run has a job and the lock always
has somebody who gives it back.

**Person-tasks and clearance** (`guidelines/tasks.py`, `api/routes_tasks.py`,
`api/routes_creative_exceptions.py`). H1 and H2 are attestations; H3 is cleared or its
exceptions are withdrawn. Opened and parked on like gates.

**Reaper** (`scheduling/reaper.py`). Lists running and never-started queued runs, looks at the
heartbeat, and closes a run out in four steps; it may die in between. Correct when every run it
should end is ended and nobody else's is.

**Media generation** (`media/jobs.py`, `budget.py`, `video.py`, `images.py`, the check job of
`worker.py`). State: a `generation_job` row per asset, the run's and the job's Redis hashes,
what the provider has and charges. Operations: `submit_or_resume`, `_submit`, `await_video`,
`checkable`, `check`, `reserve`, `reconcile`, `release`. The budget is reserved before a POST
and settled after the row is committed. Hard: a POST without an answer, a death between POST and
commit, a poll whose answer is applied to a row that has moved on, two caps that concurrent
reservations race for, two stores without a common transaction, a provider that does not say what
it charged. Correct when a video is POSTed at most once, with money set aside that stays set
aside until its end is known, the caps hold, and a row says what was billed.

**Claims and signatures** (`api/routes_claims.py`, `routes_governance.py`,
`guidelines/register.py`, `signoff.py`). State: claims, signatures, the sign-off matrix.
Operations: harvest, edit, sign, revoke, change the matrix, hand H1 over, expiry. Hard: no
request locks a claim, and SQLAlchemy writes the columns a request changed, so two requests mix
in one row. Correct when whatever is licensed was approved by a signature, and no claim is left
under a signature that was voided.

**Publication and amendments** (`guidelines/publish.py`, `versions.py`, `policy/`). State:
guidelines, rulesets, amendments. Operations: draft, publish, supersede; watch, classify, mint a
minor, void signatures, apply, dismiss. Hard: the register is read to see what blocks, read
again to compile, and the seal comes later; two people publish at once; the watcher classifies
and applies all that is open in one transaction, with a call of a model for each. Correct when
one guideline is in force, versions go up, issued rulesets stay.

**Schedules** (`scheduling/poller.py`, `cron.py`, `api/routes_schedules.py`). State: the
schedule row with its next firing. Operations: create, edit, delete; list what is due, claim,
launch. Hard: polls overlap and die, PATCHes overlap with them and with each other, daylight
saving repeats and skips minutes. Correct when a slot fires once and what is due is claimed.

### Not modelled

| part | state | what is hard | why not |
|---|---|---|---|
| run budget and LLM gateway (`orchestrator/budget.py`, `llm/`) | spent and reserved money, model chain | fallback chain, retries of a call | next in the plan; here the budget may run out after any wave |
| gate regeneration, creative review and release (`orchestrator/regeneration.py`, `creative/`) | review state, regeneration | regeneration against decisions, release of a complete package | in the plan |
| creative exceptions as claims (`creative/clearance.py`, `mint_reviewed_minor`) | claims and minors made by a clearance | a minor minted beside the watcher's | in the plan; clearing and withdrawing as far as the run follows is in `Decisions` |
| campaign plan freeze (`planning/`) | plan versions | freezing against edits | in the plan; the rest is calculation |
| staleness of signatures, the person-task an amendment re-opens | flags and tasks for the console | - | nothing that is licensed depends on them |
| exports (`export/`) | export job rows | job lifecycle; rendering is pure | in the plan, last |
| reminders, retention, backups | maintenance | - | change nothing of the control |
| registry, events, presence | static, or for the console only | - | nothing to check |
| stage inputs (`creative_run.py`, `plan_input.py`, ...) | none | pure assembly | a missing input is `Abort` here |
| nodes, calc, evidence, connectors, guardrails, imaging, preview, postproduction | none | - | a node succeeds, fails or halts, nothing else reaches the run |
| auth, credentials, storage, mail, documents, other routes | - | I/O and CRUD | no interleaving that reaches the state above |
| web app, contracts, scripts, deployment | - | - | generated types and presentation |

Most of the source by lines is in the last four rows: what a node does with prompts, schemas and
tables, the routes that read and edit one row, and the ORM's column lists. There is no order of
steps in it for a model to get wrong.

## How the state corresponds to the code

| variable | code |
|---|---|
| `status`, `started` | `Run.status` (`"none"` until the launch commits the row), `Run.started_at` |
| `rows[r][n]` | `NodeRun` rows, a function from attempt number to status and to the worker whose session has it in flight. The function is the constraint `uq_node_run_attempt` |
| `asks[r][n]`, `tasks[r][n]` | `Approval` and `HumanTask` rows in the order they were opened |
| `jobs[r]` | `execute_run` jobs in the arq queue; resume and retry enqueue with `unique=False`, so there may be two |
| `lock`, `cancel`, `beat` | `RunLock`, `CancelFlag`, `RunHeartbeat` keys |
| `exec[w]` | one job slot of the worker: where it is, and the local variables of `execute` and `_run_waves`, among them `seen`, the run's status as its session loaded it |
| `api[h]` | one request in progress, with the status it loaded (`seen`) and the approval it is about |
| `reaper` | the run the sweep is closing out |

The media, the rulebook and the schedules:

| variable | code |
|---|---|
| `row`, `hold`, `spent`, `reserved` | `GenerationJob` rows; the job's hash and the run's hash in Redis |
| `task[t]`, `floor[t]` | an asyncio task inside `submit_or_resume`, `_submit`, `await_video` or `check`, and the committed spend it read |
| `asked` | `check_generation_job` jobs in the queue |
| `posts`, `remote`, `charged`, `quoted` | the provider: POSTs it was sent, what became of the job, what it charges, what it says it charged (0: nothing) |
| `claim`, `signature`, `owner` | `ClaimRecord`, `ClaimSignature`, the legal owner in the current `SignOffMatrix`; `words` counts changes of the wording |
| `desk[a]`, `press[p]`, `inbox[r]` | one request in flight at each person, with what it has read |
| `sweep`, `flushed` | the watcher's transaction: the amendment it is at and what it has read; what it has written and not committed |
| `guideline`, `rulesets`, `amendment` | `ContentGuideline` with its MAJOR, `RuleSet` with the claims it licenses, `PolicyAmendment` |
| `schedule`, `tick[p]`, `edit[a]` | `Schedule` rows, a poll in progress, a PATCH in flight |
| `clock`, `Wall`, `Calendar` | minutes of UTC, what a time zone shows at each, the days |
| `fired`, `torn` | history: the slot each schedule fired last since its `next_at` was edited; that its last PATCH was committed over another one it had not seen |

In the lifecycle all runs are of one project and one pipeline: they compete for one lock key,
which is when they interact. An action is the code between two commits or two Redis commands;
what follows the last commit of a handler is part of its last action.

Where an action is coarser than the code, and why that loses nothing that is claimed:

- Opening a gate is two steps, the SELECT (`FindOpen`) and the INSERT with its commit
  (`OpenGate`). An executor that found no question and meets another's fails on the partial
  unique index of migration 0004 (`GateTaken`). What reads the session after the failed flush
  raises too, so the attempt is left `running` and the run breaks off.
- `select` then `UPDATE` inside one transaction (`fail_stale_running`, `reset_failed`,
  `record_skipped`, `park`) is one step; the rows involved are those the transaction locks or
  those the properties about them name.
- `lock.release` is one step. In the code it is a GET and a DEL; see the plan.
- A request over the claims register is two steps, its reads and its commit: everything is read
  at the beginning. `Column` writes a column only where the request changed it, as the unit of
  work does.
- In `MediaJobs` money is whole units, nothing costs more than its estimate, and what the provider
  reports is what it charged, at least one unit, or nothing. The semaphore gives a slot or does
  not; capabilities, references and files are left out. A POST for an image that fails, or whose
  task is killed, may have been charged (`Bill`).
- In `Publication` a sweep is one transaction: what it writes is `flushed`, seen by itself only
  and waited for by whoever writes the same row, until `CommitSweep`. One sweep runs at a time
  (a nightly cron job, `scheduling/jobs.py:144`); an amendment that cannot be classified stays
  open; fetching the pages is a transaction before it (`Watch`, `watcher.py:635`). The order of
  amendments is left open. A seal does not wait for the stale flag that the sweep writes on the
  guideline, since the flag is not modelled: more interleavings than the code has.
- In `Publication` a publisher never publishes what another one publishes at the same moment
  (`Publishes` is disjoint in the instance), and no run starts while a publish request lasts
  (the guard of `Draft`): with either, the version that was confirmed may be taken.
- In `Schedules`, `launch()` is one step that may fail (a busy project and a queue that refuses
  are among the ways); the parser, rows that no longer parse and `last_run` beyond a flag are
  left out.
- `gather` waits for all nodes of a wave. When one of them raises something unforeseen, the code
  leaves at once and the others finish unobserved; here they finish first.
- The budget may run out after any wave, resources may be missing at any start, and any
  never-started queued run may be older than the sweep's grace: nondeterministic where the code
  computes.
- Nodes on a frontier are a set in `DagLoops` where the code has a list: any order.
- Names, prompts, outputs, evidence, cost, events and audit rows are left out. `Conditional` are
  the nodes that may find nothing to ask, or have a cached output.

Bounds of the lifecycle: `MaxRetries` (accepted retries per run), `MaxNodeAttempts` and
`MaxGatePasses` (constants of the code, 3 and 20, smaller in the instances), the sets `Runs`,
`Workers`, `Handlers`, and one launch per run id. Nothing else is bounded, and the state space
is finite because only an accepted retry starts a new life of a run. Of media: `MaxPosts`, how
often an image is POSTed before it is no longer checked again (only a check of an unknown image
POSTs again). Of the rulebook: `MaxSignatures`, `MaxWordings` and `MaxMajor`. Of schedules:
`MaxClock`, `MaxEdits`, `MaxDeaths` and the PATCHes that overlap (`Editors`).

`CHECK_DEADLOCK FALSE` is set in every run: a run that has ended, or that waits for a person who
does not come, media that are all settled and a rulebook nobody writes are where the program
really stops; `schedules` stops at its last minute.

## The runs

Pipelines: `OneGate` is a gate alone; `Gated` a gate with work behind it; `TwoGates` two gates
side by side, work behind one; `Chain` plain work in a row; `Staffed` two gates, a clearance and
an attestation behind them, and work that needs both.

| run | instance | shows |
|---|---|---|
| `everything` | OneGate, all requests, all faults, sweep, one pass | `TypeOK`; `AnswersStand`: an answer or a closure is never changed; `NoRework`: success is never taken back or executed again; `GatesKept`: the gate implements `GateProtocol` |
| `two_runs` | OneGate, two runs, two workers, one retry each | `LockHasOwner`, `QueuedHasJob`: the lock and a queued run have somebody who goes on with them; `NoLiveRowFailed`: only dead workers' rows are swept; `EndIsFinal` |
| `retried_twice` | OneGate, two requests, two workers, crashes, sweep, two retries | `QuestionIsBacked`: with two executors that race for the gate's question, lose it or die, no question is open without a proposal that awaits its answer |
| `launches` | Chain, two runs, two requests, commits, enqueues and resources may fail, fair | `OneRunPerProject`; `LockReturns` |
| `reaping` | Chain, two workers, crashes, cancel, fair | `Settles`: every run leaves the queue and the worker |
| `staffed` | Staffed, one person at a time, fair | `InputsFirst`, `QuestionHasProposal`, `SuccessIsComplete`, `Settles` |
| `dag_loops` | every graph over four ids | `ValidationExact`, `DescendantsExact`, `ClosureExact`, `LayersExact`; `LoopsEnd` |
| `media_jobs` | an image and a video, two nodes and a check, caps that hold one and a half of them | `TypeOK`; `PaidWorkIsControlled`: `MediaJobs` implements `SpendControl`; `ReservedExact`; `BilledWithinCaps`; `BlockedIsUnspent`; `CostIsBill` |
| `publishing` | one claim, a signer, a harvest, two guidelines, two publishers, the watcher's sweep, a reviewer | `LicensedWasApproved`; `RulebookKept`: `Publication` implements `Rulebook` |
| `claims` | one claim, two signatures, two legal owners, an administrator with every duty | `TypeOK`; `SignaturesStand`: no claim is left under a voided signature |
| `schedules` | one schedule, two polls of which one may die, three requests of which two PATCHes may overlap, days of four minutes | `EnabledIsScheduled`, `NextIsFirst`, `FiresOnce`, `DueIsClaimed` |

Four more instances are kept beside the runs, where the same properties hold. `control`: Gated
with cancel, two passes, two attempts and one retry (`LockHasOwner`, `QueuedHasJob`, `NoRework`,
`GatesKept`). `creative_cap`: `media_jobs` where the creative cap refuses and the media cap does
not. `two_amendments`: `publishing` with two amendments, which may be applied in one commit, and
without claims. `two_schedules`: `schedules` with two of them.

Why these sizes: the properties are about one run between its actors, or about two runs at one
lock, so one or two runs suffice; a second worker is needed as soon as a run can be executed
twice; two handlers when two people act on the same thing. A gate with something behind it is
the smallest pipeline in which a branch waits, and four ids give the graph loops a diamond, a
chain of four, and a cycle beside an acyclic part. Attempts and passes run up to the second, in
some run each, so that each "next" and each "last" happens; where the failures multiply the
states (`everything`, `retried_twice`, `two_runs`) there is one pass, and `control` and
`staffed` have two.

The other instances are as small as their hazards let them be. In `media_jobs` the image costs
one and the video two and the media cap is two, so that either job can be the one that is
refused; the creative cap refuses in `creative_cap`. Three tasks are the node of the image,
which also checks it, the node of the video and a check beside it. In the rulebook a second
signature is needed to have one that is revoked while another stands, and five versions let two
guidelines be published, superseded and published again while drafts take numbers. `publishing`
and `claims` are two runs because together they are too large: the first has everything that
reads the register, with few who write it; the second has everything that writes it. The
calendar of `schedules` has a day on which two minutes come twice and one on which a minute is
skipped, and an expression restricted by both day and weekday, whose next candidate is the
skipped minute.

What the claims do not cover. `InputsFirst`, `QuestionHasProposal`, `GatesKept` and
`NoLiveRowFailed` are claimed, and proved, for runs with one worker at a time at work on them:
two gates of one parked run that are approved together put two executors into it
(`double_resume`), and with that all of them are violated. `QuestionIsBacked` and `AnswersStand`
hold even then. `LockHasOwner` and `QueuedHasJob` are claimed without crashes: a process that
dies keeps the lock until its TTL, and a refused enqueue of a resume leaves a queued run without
a job. `EndIsFinal` is claimed where nobody cancels: a cancel that saw the run queued and a
worker that takes it write over each other. `OneRunPerProject` is claimed for runs that are not
parked: the refuted statements below say what happens otherwise. `Settles` is claimed under
crashes for runs that are launched: one that was resumed or retried and loses its job is queued
for ever. `SuccessIsComplete` excepts a run whose `MAX_GATE_PASSES` ran out; `PassesAdvance`
says why that was thought impossible, and is refuted.

`BilledWithinCaps`, `BlockedIsUnspent` and `CostIsBill` except an image that was POSTed a second
time, by a check of an unknown one: both POSTs may be billed, and one reservation was made. The
first two are also not claimed of what the code takes for free (`TakenForFree`): a POST for an
image that failed, which `images.py:11-12` says may have been billed (`unanswered_image`), a video
that came to nothing, and one that failed without a reported cost. `CostIsBill` says that a row
records the estimate where the provider did not say what it charged; the two may differ.
`BlockedIsUnspent` is claimed of jobs that one task at a time submits.

`LicensedWasApproved` says that some signature approved the claim, not that it is still live: a
ruleset is compiled once. `SignaturesStand` is claimed of people, not of the watcher
(`partly_sent_back`). `RulebookKept` allows two rulesets of one minor, and is claimed where one
person publishes at a time or nobody publishes a superseded rulebook again. `FiresOnce` is claimed
between two edits of a schedule, and `EnabledIsScheduled` unless the last PATCH of the schedule
committed over another one that it had not seen (`overlapping_edits`).

### Refuted statements

| instance | statement | what happens |
|---|---|---|
| `parked_unwoken` (a run) | `ParkedIsWaiting`, `orchestrator/approvals.py:11-18` | The row lock orders park and decide, but `decide` takes `resume` from the status loaded before (`approvals.py:422`): the run parks with every question answered and nobody wakes it |
| `double_resume` | `NoLiveRowFailed`, `orchestrator/state.py:337-338` | Two gates decided together enqueue the run twice; the second executor fails the first one's live node |
| `lost_lock` | `OneRunPerProject`, `orchestrator/state.py:110` | `park` commits before the lock goes back (`executor.py:405`, `453`): the release deletes the lock of the resumed run, and a second run of the project executes beside it |
| `retry_forgets_gate` | `PassesAdvance`, `orchestrator/executor.py:124-126` | Cancel at a gate, then retry: the awaiting row has no question, all passes go by and the run ends succeeded with the gate unanswered |
| `spend_counted_twice` | `SpentOnce`, `media/budget.py:207` | A cost that is committed is part of the floor the next reservation writes, and is added once more when its own job is reconciled: headroom is lost, the caps hold |
| `late_refusal` | `BlockedIsUnspent`, `media/jobs.py:329-340` | With two tasks that submit one job: the first is refused, a sibling's reservation is released, the second reserves and POSTs, and the first writes `blocked_by_budget` over a job that is paid for; `_finish` does not look at the row |
| `unanswered_image` | `EverythingWithinCaps`, `media/budget.py:6-7` | An image whose POST times out or is answered unreadably may have been billed (`images.py:11-12`); the job takes it for "unbilled on failure" and gives its reservation back (`jobs.py:381-382`), and the next job spends that money again |
| `overlapping_edits` | `DisabledHasNoFiring`, `api/routes_schedules.py:96-98` | `update_schedule` takes no lock: one PATCH disables the schedule and clears `next_at`, another that read it enabled commits a new expression and its `next_at`. The poll's filter on `enabled` keeps the row from firing. With a third PATCH a schedule can also end enabled without a next firing, which no poll finds (`EnabledHasFiring`) |
| `partly_sent_back` | `SignaturesStand`, `policy/lifecycle.py:33` | "It voids live signatures, moves their claims back": one signature covers several claims, the watcher voids it and moves only those the model named (`lifecycle.py:563`). The others stay approved under a voided signature, and nobody is asked for them again |
| `voided_still_licensed` | `VoidedIsUnlicensed`, `policy/lifecycle.py:33-37` | Voiding a signature recompiles nothing: the ruleset in force still licenses the claim that was sent back |
| `republished` | `SupersededStays`, `guidelines/publish.py:569-571` | Only a *published* guideline is refused (`publish.py:163`), and the trigger of migration 0016 guards only rows that are published: a superseded rulebook is published again, with a new version, payload and ruleset |

The first is checked as a run. The other configurations are kept beside the runs; TLC finds the
violation with each.

Other disagreements between a comment or a document and the code, and orders of steps that end
badly, met while modelling, without a run of their own:

- A gate rejected while its run executes is executed and asked again in the next pass
  (`executor.py:125-126` against `523`).
- `_abort` closes no question (`executor.py:1276`), the ordinary end does "to keep the
  approver's inbox honest" (`474-475`).
- H3 cleared while its resumed run executes is executed again
  (`routes_creative_exceptions.py:620-621` against `executor.py:523`).
- A cancel that saw the run queued finalises it while a worker takes it, and the worker makes it
  running again until it reads the flag (`routes_runs.py:335-337`).
- A run that parks after the cancel loaded it, or is parked on a person-task, is never
  finalised: it stays paused with the flag set (`routes_runs.py:335-338`).
- A sweep between `mark_running` and the first beat fails a run that is just starting
  (`executor.py:382`, `392` against `reaper.py:3-4`).
- A resume that meets another run's lock is not repeated when the project is free
  (`routes_approvals.py:316-318`, `337`).
- A resumed run whose job is lost before `mark_running` is queued for ever: the sweep asks for
  `started_at IS NULL` (`reaper.py:136`).
- An image that has no answer is POSTed again by a check; that it is safe "because a failed
  generation is unbilled" does not cover the one that was made and not answered
  (`media/jobs.py:529-530`).
- A job that was concluded without a reported cost is recorded at its estimate, or, when it failed,
  at nothing (`media/jobs.py:395`, `494-497`, `514`), while `media/budget.py:8` has "reconciled to
  `usage.cost`".
- A harvest rewrites the surface forms of a signed claim (`guidelines/register.py:143-153`), and
  one that read the claim before it was signed writes its status over the signature's; an edit
  that read the claim unsigned commits after the signature.
- A matrix change voids what its preview named: a signature made since stays live, of somebody
  who is no longer the owner. A mix of columns from three signatures can leave a claim approved
  under the one that rejected it; that is why `LicensedWasApproved` asks for some signature.
- A lapsed signature cannot be renewed by signing the same decisions again: the retry guard
  finds it and does not look at its expiry; nothing in the source sets `ClaimStatus.EXPIRED`,
  which two places test.
- An amendment dismissed by one person and applied by another at the same time is minted and may
  end dismissed or applied.
- Two requests that mint at once take the same minor, with different contents if the register
  changed in between; with the same contents the second is refused by `uq_rule_set_hash`
  (`DecideRefused`, `SweepDies`), and a sweep that is refused loses all it has done.
- A draft's own provisional number counts for `next_major`, so it is published under a later
  one; a superseded guideline can be published again, with a new version.
- A PATCH in flight while polls claim makes a slot fire twice ("A due schedule fires once",
  `scheduling/poller.py:11`), and one whose next firing equals the one it read does not write
  the column, so that a claim in between leaves a slot of the old expression ("Recomputed on
  every edit", `api/routes_schedules.py:149`).
- An attestation resumes nothing (`routes_tasks.py:270-296` against "the branch resumes with the
  submitted payload", `PRD files/prd-content-guidelines.md:584`).

## Fairness

`FairSpec` is weak fairness of each worker's next step, of each request in progress, of the
expiry of a heartbeat key nobody refreshes, and of the sweep. The event loops keep running the
coroutines they started, every external call has a timeout, Redis expires keys by itself and the
sweep is a cron job of the worker (`worker.py:339-374`). Requests, answers and faults are fair
to nobody: a run may wait for a person for ever, and `Settles` counts it as settled. A node that
is retried for ever is excluded by the code's bound on attempts, not by fairness.

`Schedules` has weak fairness of each poll: the worker's cron runs it every minute, and a poll
that died is followed by the next. Administrators, deaths and the clock are fair to nobody.
`MediaJobs` and `Publication` state safety only: a provider, a person or a model may never
answer.

## What is proved

Every safety property that a passing run checks is also the conclusion of a theorem, for every
value of the constants; where a hypothesis is needed it is named in the theorem, it is met by
instances that are checked, and what refutes the property without it is said here. The
assumptions on the constants are those of the modules (`GraphAssumption`, `RunAssumption`,
`ExecutorAssumption`, `ControlAssumption`, `ReaperAssumption`, `BudgetAssumption`,
`MediaAssumption`, `RegisterAssumption`, `PublicationAssumption`, `CronAssumption`,
`ScheduleAssumption`): finite graphs, jobs and guidelines, an acyclic pipeline, positive limits,
distinct markers, a wall clock that never runs backwards over the minutes it shows for the first
time, and a calendar long enough for the search to end. TLC evaluates them in every run.

### The run lifecycle

Without hypotheses, for any pipeline, runs, workers, requests and faults:

| theorem | states |
|---|---|
| `TypesKept` | `Spec => []TypeOK` |
| `AnswersAreFinal` | `Spec => AnswersStand` |
| `QuestionsAreBacked` | `Spec => []QuestionIsBacked` |

`AnswersAreFinal` goes through one relation, `OneGateStep`: the questions of one gate stay as
they are, get a new one while none is open, have the open one answered, or have what is open
closed. `EveryStepAsks` shows that every action of every actor is such a step for every gate.
`QuestionsAreBacked` follows the rows beside it. Its invariant `Backed` adds that an attempt
that awaits its answer is in flight in no worker, so that no other executor's checkpoint,
failure or loss of the race overwrites it; that a gate has one open question, so that the
decision that ends the attempt leaves none open; and what requests in progress have read.
Neither needs anything about the lock or the number of executors, which is why they survive
`double_resume`. `TypesKept` needs more than types: the attempt number of a node is one more
than the greatest there is, so `IInv` adds that attempts are bounded (then the greatest exists,
`GreatestNumber`, by well-founded induction), and that a worker that is not idle is inside a
run.

About jobs and locks, with the faults that would refute them left out:

| theorem | hypothesis | states |
|---|---|---|
| `QueuedIsCarried` | `NobodyDies`: no worker or API process dies, no enqueue is refused | `[]QueuedHasJob` |
| `LockIsOwned` | `NobodyDiesAtAll`: nor does the sweep | `[]LockHasOwner` |
| `LaunchesExclude` | `OnlyLaunches`: people only launch, no sweep, the key does not expire | `[]OneRunPerProject` |

The hypotheses are on the constants, and leave the interleavings as they are. A process that
dies keeps the lock until its TTL; a refused enqueue leaves a queued run without a job
(`EnqueueFails`); a run that is resumed while the worker that parked it still holds the lock
loses it (`lost_lock`). The invariants count who is on the way: `Carried` (a job, a request
about to enqueue, a worker about to mark the run), `Owned` (somebody who hands the lock back, or
whose successor does), `Sole` (one holder of the lock, who is the only one busy with a run).

About what an executor may rely on, for specifications `Spec /\ []OneExecutor`, that is, for
behaviours in which no run ever has two workers at work on it (one that has parked or ended its
run and only gives the lock back does not count):

| theorem | states |
|---|---|
| `InputsComeFirst` | `[]InputsFirst` |
| `QuestionsHaveProposals` | `[]QuestionHasProposal` |
| `SuccessesAreComplete` | `[]SuccessIsComplete` |
| `GatesArePromised` | `GatesKept`: the refinement of `GateProtocol` |
| `SuccessIsNeverRedone` | `NoRework`, if no node is cleared from outside (`Firm`) |
| `LiveRowsAreSpared` | `NoLiveRowFailed`, if nobody sweeps |

`double_resume` shows that with a second executor in a run all of them can fail: everything
`_run_waves` holds in local variables is then stale. Their common inductive invariant is
`Working`: `IInv`, one open question, and `Flow`, which says for every worker how its local view
(outputs, blocked, halted, waiting, the wave) relates to the rows, for every node how its
attempts, its questions and the successes of its inputs relate (`SoundAt`), and for every
request what it has written. Its proof has two levels. The actions are reduced to relations on
one node and one worker (`Turned`, `Kept`, `Calm`, `Tidy` in `RunTypes_proofs`), once per
action; the invariant and the action properties then follow from the relations. `GatesArePromised`
maps each such step to one of `GateProtocol` or to a stutter. `Firm` is needed because clearing
H3 makes a node succeed from outside while a worker may be about to attempt it.
`LiveRowsAreSpared` covers the sweep a worker starts with; the reaper goes by the heartbeat
alone, and may fail the attempt of a worker that is alive but has not written its first beat.

Where `OneExecutor` comes from:

| theorem | hypothesis | states |
|---|---|---|
| `TurnsExclude` | `NobodyInterferes` (no cancel requests, no sweep) and `[]TakesTurns` (no two requests about one run at once) | `[]OneExecutor` |
| `WorkersExclude` | `OnlyLaunches` | `[]OneExecutor` |
| `EndsAreFinal` | as `TurnsExclude` | `EndIsFinal` |
| `TurnsKeepPromises` | as `TurnsExclude` | all of the table before |

With one worker there is nothing to show, as in `everything`, `staffed` and `control`, but the
deployed worker has four job slots (`max_jobs`, `worker.py:374`), and the theorems hold for any
number. The invariant `Orderly` says of each run: it has a job or a worker at work on it, not
both and not two; its status agrees with that; and what a request in progress has read of the
status still holds. It was checked by TLC on one gate, two gates, a person-task and two runs,
with two workers, two handlers and faults, under `TakesTurns` as a constraint, before it was
proved. Crashes, lost enqueues and expired locks are included. A cancel or a sweep ends a run by
what it saw of it, with a worker at work on it, and a retry then puts a second one into it; two
decisions at once put two into it at once.

### The graph

`DagLoops_proofs`, for every finite set of ids and every graph over it: `LoopsExact`
(`ValidationExact`, `DescendantsExact`, `ClosureExact` and `LayersExact` together) and one
theorem for each of the first three. Of each loop the invariant says that what it has found is
reachable and that what is reachable is found or still on the frontier (`Descending`,
`Widening`), of validation that what remains holds every set of nodes that wait for each other
(`Validating`), of the layers that
they are a prefix of the layers `Dag` defines (`Layering`), so that `waves` never raises on a
graph that was accepted. This is partial correctness; that the loops end is checked by
`dag_loops`.

### Paid media

For any finite set of jobs, any tasks, prices and caps:

| theorem | states |
|---|---|
| `PaidWork` | `PaidWorkIsControlled`: the refinement of `SpendControl` |
| `MediaTypesKept` | `[]TypeOK`: among others, the spend is never negative |
| `ReservationsAddUp` | `[]ReservedExact` |
| `CostsAreBills` | `[]CostIsBill`: the bill if the provider named it, the estimate if not |
| `CapsHold` | `[]BilledWithinCaps`: what the code does not take for free is within the caps |
| `BlockedJobsAreUnspent` | `OneSubmitter => []BlockedIsUnspent` |

What `TakenForFree` and a second POST leave out of these is said under the runs, with the
instances that refute the statements without them.

The mapping of `PaidWork` forgets everything but what a video holds, how often it was POSTed and
whether the provider has ended it. That no POST happens twice follows from the row: it leaves
`queued` under its lock before the POST and a video is never put back. `IInv` of
`MediaJobs_proofs` has four parts: types; what the row of a video says about its POST and its
end (`VideoRow`); what a task at work on a video may rely on at each of its steps (`VideoTask`);
and that one task at a time is about to POST a video (`OnePoster`).

The amounts need a second invariant, `Money`: for each job, how the row's cost, the state of its
hash, the provider's charge and what it said of it agree (`Purse`), and what a task at work on
it carries, whichever task concludes it. Sums over jobs are `Total`, a sum over a finite set;
`Lemmas_proofs` has the laws (`TotalLaws`) that a step changing one job needs. `CapsHold` adds
`Covered`: what was paid is within the spend, and with what is still reserved it is within both
caps, whichever floors the tasks have read. `OneSubmitter` (the sets of jobs two tasks submit
are disjoint) is what `late_refusal` violates.

### The rulebook

For any claims, people, signatures, guidelines and amendments:

| theorem | states |
|---|---|
| `ColumnsTyped` | `[]TypeOK` |
| `SignedBeforeLicensed` | `[]LicensedWasApproved` |
| `VoidedGovernNothing` | `Amendments = {} => []SignaturesStand` |
| `OnePublisherKeepsRulebook` | `Alone => RulebookKept` |
| `PublishersKeepRulebook` | `Spec /\ SupersededStays => RulebookKept` |

`SignedBeforeLicensed`: an approved row is only ever written by the signature that approves it,
or copied over a row that was approved; signatures only gain. The invariant follows the copies:
the register, a publish in flight, the minors in flight, the rulesets. It needs no assumption on
the order of requests: no race between them can license what nobody approved.

`VoidedGovernNothing`: a revocation, a hand-over of H1 or a new matrix voids signatures and sends
back the claims it read under them; meanwhile others sign, harvest and edit the same rows, column
by column. No claim is left under a voided signature, because a request that voids one has read
every claim under it, and a claim comes under a signature only in the commit that makes it
(`Governed`, `Knows`). The watcher is left out by the hypothesis: it voids for the claims a model
named and knows no others (`partly_sent_back`).

`RulebookKept` says that one guideline is in force, versions only go up and issued rulesets
stay. Its invariant `Versions` says what each publish in flight knows is still true or will be
refused (`PressTrue`), that what is sealed has its ruleset (`Pinned`), and that the minors of
the watcher and the reviewers follow the ruleset they amend (`MintsFollow`), those the sweep has
not committed included; a commit of the sweep may issue several. It is false of the code in
general. A publisher compiles under major M and is slow; another one seals M, it is superseded
by M+1, and its guideline is published once more as M+2, which leaves M free for the slow one.
That takes two people who publish at once (excluded by `Alone`) and a superseded guideline that
is published again (excluded by `SupersededStays`, a promise in the comments of `publish.py`
that `republished` refutes). Either exclusion is enough; in `publishing` each publisher has one
guideline, so that the three cannot meet.

### Schedules

For any schedules, polls, edits, expressions and any calendar that satisfies `CronAssumption`:
`SearchFindsFirst` (the search of `next_fire` over days and minutes finds the first instant, as
a fact about the definition), `NextIsAlwaysFirst` (`[]NextIsFirst`), `EnabledMeansScheduled`
(`[]EnabledIsScheduled`) and `SlotsFireOnce` (`FiresOnce`). The invariant relates a poll that
has read a schedule to the row it will claim: whoever claims finds `next_at` later than what
fired before, unless an edit came in between; and it relates a PATCH in flight to the row it
read: as long as no other PATCH of that row has committed, only a claim can have changed it, which
moves `next_at` and leaves `enabled` alone.

### Only model-checked

`Settles`, `LockReturns`, `LoopsEnd` and `DueIsClaimed`: liveness under fairness, which the
prover does not reach. `ParkedIsWaiting` is expected to be violated, and so are the refuted
statements above. The properties of the lifecycle are checked by TLC in instances that go beyond
the hypotheses of their theorems: `everything` has cancels and the sweep (with one worker),
`retried_twice` puts two executors into one run, `two_runs` one worker into each of two.

## Plan

1. Done: the run lifecycle and the graph; media jobs and their budget; claims, publication and
   amendments; schedules.
2. The ledger of the run budget with concurrent reservations and the LLM gateway's chain and
   retries; the executor's `StopOverBudget` then becomes the ledger's decision. `RunLock` as
   GET, DEL and SET NX with the TTL.
3. Creative review, regeneration and release; the claims and the minors of a creative exception;
   plan freeze; exports last. One module each with an abstract specification of what a released
   or frozen thing promises.
4. Theorems, done: every safety property of the runs (above). Left: `SuccessIsNeverRedone` for a
   clearance that is granted while its run is parked; `OneRunPerProject` for projects whose runs
   are answered, once a hypothesis is found that excludes `lost_lock` and is met in practice; the
   types of `Publication` without `Alone` as lemmas for the modules of (3).

Bounds planned: two or three actors and two objects per module, as here; each run below three
minutes. The runs that check the same component are merged rather than multiplied.

## Running

In this directory: `tlc -config staffed.cfg MCRunLifecycle`, `tlc MCDagLoops`, `tlc -config
claims.cfg MCPublication`, `tlapm MediaJobs_proofs.tla`. Every run takes between a few seconds
and three minutes on two cores; of the proofs `RunLifecycle_proofs` takes ten minutes,
`RunTypes_proofs` five, the others two or less.

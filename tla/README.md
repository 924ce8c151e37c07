# Verification of smortboard

smortboard is a local board of cards. Each card is a piece of work that an agent does in its own git
worktree; the board starts the agents, tests and reviews what they leave behind, opens pull requests, lands
them, and asks its operator when it cannot go on. It is one python process: a single-threaded http server,
one thread per card run, per landing and per model turn, a ticker thread, and an sqlite file they all open.
This directory holds TLA+ models of the parts where those threads meet, the TLC instances that check them,
and the TLAPS proofs of what holds for every instance.

    tlc -config start_and_stop.cfg MCScheduler.tla     one run
    tlapm Scheduler_proofs.tla                         the proofs

## The system

| part | state | operations | modelled in |
|---|---|---|---|
| board scheduler, `scheduler.py` | per board: `_queue`, `_running`, `_retry_ok`, `_runtime_attempts`, `_card_retry_at`, `_lab_paused_until`; `_tick_lock`, `_lock` | start all, stop, tick, `process_due`, `on_finish` and its handlers, `requeue_lapsed` | `Scheduler`; the pauses per lab in `Profiles`, globs in `Leases`, the sweep in `Attempt` and `RebaseGuard` |
| run registry, `server/runs.py` | `_runs`, notes, process handles, cards being stopped | start, stop, active, queue a note, `recover_orphaned_runs` | `Scheduler`, `Attempt`, `CardRun` |
| card lifecycle, `lifecycle.py`, `briefing.py` | a card's row, its events, worktree and branch | one attempt: refuse, run the agent, test, review, fix, sync, open | `Attempt`; its ends as its readers see them in `Spend` |
| gates and reviewer, `review/gates.py`, `reviewer.py` | containers | run tests, ask for a verdict | `Attempt` |
| agent runner, `exec/runner.py` | the agent's process, its results, usage and limits | stream, end by budget, stall or cap | `Spend`; its life in `Attempt` |
| containers, `exec/backends.py` | clone, guards, token | one turn of a worker: clone, run, fetch back, check | `Attempt`, `Leases`, `RebaseGuard` |
| leases and guards, `exec/leases.py`, globs in `scheduler.py` | lease rows, remembered paths, compiled guards | overlap, policy, hook, check | `Leases` |
| rebase guard, `review/rebase_guard.py`, `exec/worktrees.py`, `merge_request.py`, the sweep | branch, origin's copy, tracking ref, backups | rebase onto the base, reset to the base, push with a lease | `RebaseGuard` |
| attention inbox, `attention.py` | rows and events | answer, fallback run, approve a lease; what it hides | `Scheduler`; the approval in `Leases`, the reset in `RebaseGuard`, what a fallback run records in `Profiles` |
| decisions, `review/decide.py` | rows of a card and its dependents | accept, reject, and the reversal of each | `Scheduler`; the branch of a rejected card in `RebaseGuard` |
| landing lock, `store/api.py`, `review/landing.py` | `landing_locks`, `landing_queue` | request, poll and heartbeat, release, list; eviction by ttl | `LandingLock` |
| landing, `land_card.py`, `integrate.py`, `land_cli.py` | the base branch, `_integration_locks` | sync and retest, merge, push | `LandingLock`; the card's branch meanwhile in `RebaseGuard` |
| store: cards, dependencies, backups | rows; the transaction of each connection | create, patch, delete, restore | `Cards` |
| fold, `consolidate.py`, mission control, `orchestrator.py` | one model turn each | merge cards; create and link cards | `Cards`; the turn's credentials in `Profiles` |
| credential profiles, `profiles.py`, `labs/routing.py` | the state file, one-shot fallbacks in the event log | rotate, mark limited, add, activate, remove, pick a lab | `Profiles` |
| spend caps, `budgets.py`, telemetry, `telemetry.py`, `timeline.py`, `labs/events.py` | the event log, `board_spend` | cost by role, card, board, day; refuse a start; tell how an attempt ended | `Spend` |
| http api, `server/app.py` | one request at a time | the handlers of all these | with each |
| stacks, setup, cli, demo, ui | | | not modelled, see below |

What is hard here, and what makes each part correct:

- **Scheduler and registry.** Ticks, starts by hand, ends of runs and timers interleave, and a tick
  gives up its locks for every store read. One run per card; no more runs than the caps; no two runs
  with clashing leases; a queue that neither doubles nor loses a card; a freed seat that reaches the
  next card; a card that reaches its operator however the process dies.
- **Decisions.** They check, then talk to git and github, then write. What rests on rejected work is
  put before the operator and comes back when it may.
- **Landing.** Leases expire, clients die, requests race on two connections, heartbeats arrive late.
  One client works on a base at a time, only tested work lands, the line keeps its order and moves.
- **Attempts.** A stop, a note, an edit of the test command, the sweep and the end of a process race
  with the steps of a run. What is opened was tested and approved as it is; a gate is skipped only
  when nothing has changed since it passed; a stop is a stop; every run ends with somebody called.
- **Branches.** A branch moves under a run, a sweep and strangers, and every git call may fail.
  Nobody's commits are lost, and a pull request shows what the board has.
- **Cards.** Two model turns rewrite the board in many small transactions beside the operator. The
  order that was asked for is the one in the rows; no card's work disappears; no cycle comes about
  past a check.
- **Leases.** Compiled before a turn, edited during it, checked after it, across crashes and retries.
  No path is leased to two runs; nothing that no check let by is opened.
- **Profiles.** A limit is met, read, recorded, rotated and announced in separate steps, by several
  threads. It is booked on the credential that met it, and a limited card runs again.
- **Spend.** The log is the only account book, its readers infer what it does not say. Every cost
  counts once with every reader, and the caps refuse in time.

## Modules

| module | what it is |
|---|---|
| `Scheduler`, `MCScheduler`, `Scheduler_proofs` | every `BoardScheduler` over the one `RunRegistry`, the card rows and events they go by, the operator's requests, a restart; its instances; its inductive invariants and theorems |
| `LandingLock`, `MCLandingLock`, `LandingLock_proofs` | the landing lock statement by statement, with the cards and the outside agents that take it |
| `CardRun` | what a run promises to whoever starts it: the abstract specification |
| `Attempt`, `MCAttempt`, `Attempt_proofs` | the attempts of one card in detail; they implement `CardRun`; the proofs of that, and of the gates and the stop |
| `RebaseGuard`, `MCRebaseGuard`, `RebaseGuard_proofs` | one card's branch, here, on origin and in the backups |
| `Cards`, `MCCards`, `Cards_proofs` | the rows and the order of one board under fold, mission control, operator, ticks |
| `Leases`, `MCLeases`, `Leases_proofs` | the leases of the cards on one repo |
| `Profiles`, `MCProfiles`, `Profiles_proofs` | the credentials of each lab under runs, turns and the operator |
| `Spend`, `MCSpend`, `Spend_proofs` | the event log as it is written and everything that is summed up from it |

`Scheduler` takes a run to be three steps: `Begin` (the card is in doing), `Opening` (in checking, its
pull request on the way) and `RunEnd` (a reason or a flag, or landed). `CardRun` states just that, and
`overlapping_runs` checks that `Attempt` implements it with the refinement mapping `StageOf`: one run
at a time, checking only between the gates and the end, never an end that leaves doing or checking
with nobody called. So what the scheduler's model takes for granted of a run is what the detailed runs do;
`RunsKeepPromise` proves it for every value of the constants.
The other modules meet over the same seams: a run in `Leases`, `RebaseGuard`, `Profiles` and `Spend`
is the part of an attempt that touches their state, with every way it may break off.

Each module names at its head what it takes as one step. Optional events are in the constant `Happens`
(in `Scheduler` and `Attempt` also `Endings`, `Ends` and `Acts`), so that a configuration says under
which of them its properties hold. A definition whose comment begins with "mutant of" is a variant of
the next one with a mistake in it; no specification uses it.

### Scheduler

| model | code |
|---|---|
| `card`, `log` | the row of a card, and the facts its event log is asked for (`_left_mid_run`, spent retries, `next_retry_at`, `resets_at`) |
| `run[t]` | a `RunState` with its thread: `registered` (started, not doing yet), `working`, `opening`, then `finished` (`finished_at` set), `handling` and `resuming` inside `on_finish` |
| `queue`, `seated`, `retryOk`, `rtTries`, `timer`, `pause` | the fields of `BoardScheduler`; the sets are unions over the boards, whose cards are disjoint |
| `tick`, `todo`, `wantTick` | the tick that holds `_tick_lock`, its snapshot and its locals, and how many threads wait for the lock |
| `http` | the request the single server thread is half way through |
| `TickBegin`, `TickDrop`, `TickWait`, `TickStart`, `TickWriteback` | `_tick_locked`, cut where it holds no lock of another thread's concern |
| `Begin`, `Opening`, `RunEnd` | `_run_attempt` and `RunRegistry._run` as the scheduler sees them |
| `Finish...`, `RejoinQueue`, `SetTimer`, `Resume` | `on_finish` and the handler its block goes to, split where a lock is taken again |
| `StartAllRead`, `StartAll`, `Stop`, `HandCheck`, `HandStart`, `DecideCheck`, `DecideWrite` | the requests, check and effect apart |
| `Restart` | `build_server` and `start_background` after the process died at any point |

One step here: `RunRegistry.start` with the finish hook's `prepare_run`; a run's outcome with
`run_ended` and `finished_at`; the reads a tick makes before its loop. `OTHER` stands for the six
reasons an answer clears and nothing retries. `refused` also stands for a run the operator stopped.
Left out: pauses per lab (one per board; `Profiles` has them), `relabel_stale_crashes`, the status a
person drags a card to, stacked cards, caps that change (`Capped` is fixed), and the thread a landing
accept runs on: `DecideWrite` stands for it.

### LandingLock

| model | code |
|---|---|
| `holder`, `stale`, `line`, `places` | the row of `landing_locks` for one key, whether its heartbeat is past its ttl, and `landing_queue` by position, with the positions |
| `req[k]` | the request a connection is half way through and the statement it comes to next; `"http"` is the server's connection, `"board"` that of the card inside `integration_lock` |
| `phase`, `tested`, `tries`, `beat`, `base` | how far each client is, the base it last tested, its attempts, the heartbeat thread; how often the base has moved |
| `mark[k]` | the `MAX(position) + 1` that a connection read (`Join`) and has yet to insert at (`EnterLine`) |
| `SelectStale` ... `StatusQueued`, `ReleaseHeld` ... `LeaveLine` | one action per statement or transaction of `request_landing`, `_landing_status`, `release_landing`; sqlite holds nothing between a SELECT and the next write |
| `Ask`, `Sync`, `Check`, `Merge`, `Push`, `Fail`, `Release` | `land_card` with `integrate`, and `smortboard-land` |
| `Watch`, `Lapse`, `PushByHand`, `Interrupt`, `Kill`, `Crash` | what else happens |

History: `evicted` are the clients that were at work when their lease was evicted, `overtaken` the
cards whose newest tests are not of the newest base they might have had (their sync's fetch failed, or
somebody pushed by hand since), `blind` those whose last fetch in `integrate` failed. A card's fetch may
fail in both places, and the card goes on either way (`FetchMayFail`); an agent's ends it (`Fail`).
`LandsTested` excuses a card that is both overtaken and blind, which `slow_card` reproduces with failed fetches.
A lease id is the client it was made for: each client lands once. `PushByHand` never falls between
`integrate`'s fetch and its merge: that gap is documented in `integrate.py`. Left out: the proof that a
card has landed already, retargeting of stacked children, the release pull request, `resolve_repo_key`.

### CardRun and Attempt

| model | code |
|---|---|
| `row`, `log`, `notes` | the card row; of each attempt's events those that later attempts read (`briefing.py`); the operator's comments |
| `env`, `head`, `base` | the repo's image or test command, the branch (newest worker commit, base it holds), origin's base |
| `run`, `current`, `stopping`, `handle` | the threads of `RunRegistry`, `_runs`, `_stopping`, `_handles` |
| `Start`, `Answer`, `Stop`, `WriteNote`, `Edit`, `Accept` | the operator's requests |
| `Prepare`, `SetOut`, `Work`, `Known`, `WorkerEnds`, `TestGate`, `Review`, `Approves`, `Rejects`, `LastCheck`, `Sync`, `Checking`, `Open` | `_run_attempt`, cut where it waits for git, an agent, the tests, github |
| `Finish`, `Cleanup` | the `finally` of `RunRegistry._run`: `finished_at`, and later the handle and the mark |
| `MayResume` with `SameNotes`, `LaterSkipped`, `LeftAt`, `GateMayPass` | `resume_point`, rule by rule |
| `SweepReads`, `SweepEnds`, `Crash`, `Break` | the sweep over the same card, a restart, a step that raises |

`told`, `left` and `judged` are history: what the newest worker was told, the head it left, the newest
verdict on each head. They are what the properties hold the fingerprints of the log against. With
`locked` in `Happens` the database stays locked while an end is written, which the code lets go: the
row after a step that raised (`Break`), `run_ended` (`Finish`). Left out: stacked cards, screenshots,
landing, the delivery of a note to a live agent, and a thread that cannot even open its `Store`: that
is outside the `try`, so such a run has no `finished_at` and `RunEnds` says nothing of it.

### RebaseGuard

| model | code |
|---|---|
| `branch`, `origin`, `tracking`, `backups` | tips: how much of the base one holds, and its own commits, each with the base it was written or replayed on |
| `card`, `pr`, `diffs` | the card's status as far as it matters here, whether a pull request is on record, what the attached diffs hold |
| `guard` with `AskOrigin`, `Conflicts`, `MoveBranch`, `Miscounts`, `PushBranch`, `Skip` | `rebase_onto_base`, one guard in the run and one in the sweep |
| `Refused`, `Restored` | the push that is refused, and the branch moved back, which may fail as well |
| `Start`, `Prepare`, `RefuseDiverged`, `Launch`, `FetchBack`, `HandOver`, `CardChecks`, `PushOver`, `Open`, `GiveUp` | a run, from a fresh cut to the pull request, with the merge of the base at the hand-over |
| `LandSync`, `LandPush`, `LandStops` | `land_card`: the base merged in and tested, then pushed and merged, or stopped in between; its retries are `LandSync` again |
| `Answer`, `Reset`, `ResetRefused`, `Reject`, `TakeOver` | the operator: the reset of an outdated card, a rejection, and the rebase by hand that a refused run asks for |
| `StrangerPush`, `MoveBase`, `Crash` | everybody else, and the process |

Any git call may fail: `Skip` is a guard that gives up, `Miscounts` the `_own_commits` that is 0 because git
could not count, after which the branch restarts at the base; `Reject` may find no diff. History says what
the properties excuse: `missed` what a branch held where git could not say so, `rejected` what rejections
left on origin, `unpushed` that what was to push the branch last ended before it did, `cut` that a branch
was replayed and its push cut short or not undone, or that two of run, sweep, landing and rejection were at
the branch together. `own_push_refused` reproduces each of these, with the property and the `Happens` its
rows below name. A replayed commit counts as the same content. An accepted card stays accepted, a rejection
comes between runs. Left out: `fast_forward_base`, worktree directories, cards stacked on this one, the
questions put to gh.

### Cards

| model | code |
|---|---|
| `status`, `deps`, `task`, `backups` | rows of `cards`, `card_deps`, the ledger task, `card_backups` |
| `open` | the transaction a failed write left open on the HTTP connection: nothing in the store rolls back |
| `PatchChecked`, `PatchWritten`, `Delete`, `Restore`, `Accept` | the operator; `set_dependencies` checks, then writes |
| `FoldStarts`, `FoldReads`, `FoldTakes`, `FoldDeletes`, `FoldCreates`, `FoldLinks`, `FoldNext`, `FoldEnds`, `FoldDies` | `run_fold_turn`, `apply_folds`, `_fold`, one step per transaction |
| `TurnStarts`, `TurnCreates`, `TurnLooks`, `TurnLinks`, `TurnEnds`, `TurnDies` | `run_orchestrator_turn` |
| `TickStarts`, `RunBegins`, `RunEnds`, `Crash` | the scheduler and the runs, as far as the rows go |

`wanted` is the order that was asked for, `standsIn` the merged card a folded one went into,
`unchecked` the edges written past the check for cycles, `mishap` says that a fold or turn died half
way or that a write of the operator met one: each is history. One step here: a delete's reads and its
transaction, a group's re-read, a tick's reads and its start. A start by hand ignores the order, by
design. Left out: the overlap of a group's leases, planning mode (it writes no card), the expiry of
backups, `delete_board`.

### Leases

`lease`, `remembered` and `mode` are the rows; `guard` is the policy a run's hook was compiled from
(`Compile`), `given` the one its turn began with (`Turn`); `since` and `before` are what the branch changed
after and before the commit a check starts at. `Write` is an edit the hook lets by or any write of a shell
command, `RefuseEdit` the hook's no, `PutBack` a change undone; then `FetchBack`, `Check` and `Open`, or
`Die` and `Crash` anywhere; a run of a branch that was left clean skips its worker (`SkipWorker`). Whoever
starts a card looks at the runs going on (`Look`; for an approval `Approve`, then `Resume`) and starts it in
a step of its own (`Start`), or is refused after all (`Refuse`); the paths of an approval are remembered
after that (`Remember`). `Patch`, `SetMode`, `Forget` and `Accept` edit the rows under it all. `Covers` is
what a glob matches by `lease_glob_regex`, `Overlaps` is `globs_may_overlap`: the first is the reference the
second is held against (`NoSharedEdits`, and `OverlapIsSeen` in `overlap_missed`). `patched` and `raced` are
history: cards whose rows were set under their own run, which the code holds against nobody, and for each
card the others that began between its own look and its start; `NoSharedEdits` excuses both,
`StartsNeverOverlap` shows the second. One step here: an approval's reading and widening of the rows. A card
has one start under way at a time (that two start it once is `OneRunPerCard`). Left out: `?` and `[...]`,
the filter by what a merge of the base brought in, empty leases, the guard of shell commands.

### Profiles

`disk` is the state file, `tokens` the credential files, `fallback` the `lab_fallback` events not consumed,
`paused` the field of the scheduler. A tick goes through the queue it read and starts (`Start`), joins
(`Join`) or drops cards (`Drop`), and takes them from the queue of by then, and seats them, when it is
through (`WriteBack`), beside the operator's `Press` and `PressFallback` (`fallback_run`). A run goes
`Begin` (readiness), `Capture` (`run_ref`, consuming a fallback), `Present` (the token), `Ends`; a refused
one goes on as its own handler: `Mark`, `Reroute`, `Record`, `Requeue`. A turn of mission control goes
`BeginTurn`, `Capture`, `Present`, then `TurnMarks`, `TurnChooses`, `TurnActivates`. `AddProfile`,
`RemoveProfile`, `ActivateProfile` and `SetRoute` are the operator. `spent` is the world: until when an
account refuses. `missed` is history: cards that a write-back took from the queue, or seated, when their run
was over. The reset that a refused run goes by may be one an earlier run on its credential was told
(`Heard`). One step here: what a press reads, records and starts; each load, change and save under the lock;
a handler's reads without it; `remove`'s unlink with its save. The lab a press goes from may be any. Only
the worker's role meets a limit, starts refused for their runtime are "failed", and a reset nobody told is
parked (`Park`). Left out: kinds of credentials, effort, file modes.

### Spend

`log` is a card's event log, as `run_process` and the lifecycle append to it: `Uses`, `Reports`,
`Limited`, `Finishes`, `Stalls`, `Dies` and `Capped` are the lines and ends of an agent; `Start`,
`RefusedAtOnce`, `Prepare`, `Worked`, `Test`, `Verdict`, `NoReviewer`, `Open` and `Raises` the steps of
an attempt; whoever starts one asks the caps first (`Ask`, into `cleared`) and starts it later, whatever
was booked meanwhile; `Turn`, `Midnight`, `Restart` the rest. Above them stand the readers: `RoleOf`
(`_result_role`), `AttemptCost`, `CardCost`, `BoardCost`, `UsageCost`, `CardSpend`, `SpentOn`,
`Outcome`, `Shown`. `paid`, `today` and `ends` are history: what was really spent, told and how each
attempt really ended; the properties hold the readers against them. `astray` excuses an attempt that
went on after a result with a reason, `odd` its end, that of one whose lease conflict only the check
after its run found, and of one a restart ended before it began or with its card in checking, which
recovery passes over; `unheard` money that no line tells of (a silent
time cap, a board that died under its agent, usage after the last result of a metered agent). A cost
is a price of `Prices` or `NoPrice`. Only labs without `native_budget` are metered; turns of mission
control ask no cap. Left out: estimates, tokens, models, the roster, windows, waste, the digest, deleted
cards dropping out of the day's sum, landing after the pull request (`LandingLock`).

## What the runs check

Deadlock checking is off everywhere: the operator may do nothing more, clients and runs end, and the
bounds cut both off.

| run | bounds | shows |
|---|---|---|
| `start_and_stop` | 3 cards, two of them clashing, one capped; 3 threads, 3 seats, board cap 2; start all, stop; retries, a usage limit | the lease rule of one board, a queue without doubles, a stop that stays |
| `decisions` | a card and its dependent, 2 threads, 4 operator actions, merge conflicts | rejection reaches dependents, one run per card |
| `queue_drains` | 2 cards, 1 seat, usage limit, runtime retries, 1 restart anywhere, fair | a queued card gets its turn, the seat is never given twice, nobody sits in doing unseen |
| `land_cards` | 2 cards, 1 agent on two connections, 2 attempts, leases out of sight, any fetch of a card fails, 2 pushes by hand, 1 lapse | two land at once only after an eviction; only tested work lands, but by a card that was overtaken and could not fetch |
| `land_faults` | 3 agents killed, interrupted, asleep, late; 1 lapse, 1 restart | order and live holder survive |
| `attempts` | 3 attempts, 1 thread, 1 fix round, 1 operator action of each kind, 1 commit, 1 move of the base | what is opened was tested and approved, what is skipped may be, a stop is a stop |
| `overlapping_runs` | 2 attempts on 2 threads that overlap, refusals, raising steps, the sweep, 1 restart, fair | `Attempt` implements `CardRun`; every run ends |
| `branch` | 2 workers' commits, 1 stranger's, 3 runs, 1 move of the base, every fault | no commits lost, pull requests follow; refusals are for strangers, and for what a rejection or a failure left |
| `cards` | 3 cards, 2 fresh ids, one group, 2 other events, every kind of them | order and work survive a fold and a turn; cycles come only from unchecked edges |
| `leases` | 2 cards, 2 files, 4 globs, 1 protected, 3 starts, 1 write, 1 change, every kind of them | no path leased twice but to runs that raced, nothing unjudged opened, protected paths named, no expansion into what another card holds |
| `profiles` | 2 labs, 2 names, 1 card, a run and a turn, 2 refusals, 1 request of any kind, fair | limits and pauses booked where they belong, one run per fallback; a limited card runs again, unless a write-back forgot it |
| `spend` | 2 attempts of a card, 1 fix round, daily cap 1, card cap 2, 3 lines, turns, midnights or restarts, prices known or not | every reader counts each cost once, outcomes are told, caps refuse in time |

Two cards are enough for every conflict the scheduler and the leases know: seats, leases, dependencies and
places in the queue all relate two cards; the third card of `cards` is the one outside a group that an edge
of it must be moved to. A third thread is there wherever an `on_finish` may still be going when its card
runs again. Three agents are a holder, one in line that dies, and one behind it. `Attempts` is 2 for
`INTEGRATE_ATTEMPTS` = 3, `MaxFixRounds` 1 for 2, `Park` 1 for five minutes: a first time and a last one.
Three attempts are one that leaves a fingerprint, one that is judged by it, and one that is judged past a
skipped one. In `spend` two attempts make one whose log is over and one under way, and three lines make a
result, usage after it and a midnight between them; two cards with one attempt each, and tagged logs, were
checked with the same result. In `leases` one file is protected and the other is not. `branch` needs a third
run, after one that opened a pull request and one that was rejected or cut short; with two runs and two
moves of the base it holds as well, and so does `land_cards` with three attempts.

### Fairness

`Scheduler`: every thread the process started goes on, a tick's thread gets its lock, the ticker calls
`process_due`, time passes: weak fairness of each. `Attempt`: agents end, at the latest at their time
limit, and threads are scheduled: weak fairness of each thread's steps. `Profiles`: weak fairness of
the clock, the threads and the board's ticks together. The operator, refusals, crashes and kills are
never forced. `LandingLock` (in `land_served`): the server takes waiting requests in turn, hence strong
fairness of `Request`, since another client's request keeps it busy now and then; clients at work
finish; a lease nobody refreshes goes stale.

### Where code and documentation disagree

The listed runs all pass. The other configurations of this directory reproduce, one property each,
where TLC finds that the code does something else than the quoted place says. A row that names one with
a change, or one of the runs, puts its property in the place of those the configuration checks.

| configuration | property | what happens | said at |
|---|---|---|---|
| `profiles` | `LimitedAlwaysRunsAgain` | the same as the next, with the profiles beside it | `scheduler.py`, "the card itself has to rejoin the queue too" |
| `limit_forgotten` | `LimitedCardRunsAgain` | a tick's write-back removes the card a usage limit has just queued again | `scheduler.py`, "the card itself has to rejoin the queue too" |
| `rejected_while_running` | `NoRejectUnderRun` | a tick starts a card between the check and the rejection | `_handle_decision`, no decision on a running card |
| `global_cap` | `GlobalCap` | two boards read the registry before either has started, and fill the same seat | `docs/reference/configuration.md`, "cards run at once across the install" |
| `seat_leaked` | `QueuedCardLeaves` | a run ends before its tick writes back, which seats its card for good; a board with a cap of its own starts nothing more | `RunRegistry.start`, "to learn a slot freed up" |
| `retries_used_up` | `QueuedCardLeaves` | the last `API_UNREACHABLE` retry frees its seat and returns with no tick: the queued card waits for the next press | the same |
| `seat_taken_back` | `BoardCapHonoured` | a late `on_finish` gives up its card's next seat | `tests/test_scheduler.py`, "a starts one at a time" |
| `crash_while_opening` | `MidRunIsRecovered` | recovery skips a card that was in checking | `recover_orphaned_runs`, "every card a previous board process left mid-run" |
| `crash_after_answer` | `NoSilentDoing` | the answer cleared the block, the new attempt is not on the log | `recover_orphaned_runs`, "sits in `doing` forever, out of the inbox" |
| `unheard_crash` | `KeepsPromise` | the database is still locked when a run that raised blocks its card: the run is over, the card in doing, nobody called | `RunRegistry._run`, "every failure becomes visible state" |
| `released_and_lost` | `NoSilentDoing` | a reversal clears the reason of a dependent in doing with no run | the same |
| `hidden_after_restart` | `HiddenIsScheduled` | a retry not yet due has no timer any more, and the inbox hides its card | `handled_by_board`, "instead of hiding forever" |
| `lost_wakeup` | `WaiterIsServed` | a waiter joins the line just after the last holder left | `docs/practices/landing.md`, "a dead process cannot wedge the queue" |
| `evicted_twice` | `OneLands` | both connections read one stale lease; the second eviction removes the holder that came after the first | `docs/practices/landing.md`, one holder |
| `slow_card` | `NothingUntestedLands` | a card past its ttl merges onto a base it never tested | `docs/practices/landing.md`, "never merged untested" |
| `slow_card`, `Happens = {"fetch"}` | `NothingUntestedLands` | the fetches of both the sync and `integrate` fail, which neither heeds: the card merges onto a base it never tested | `docs/practices/landing.md`, "never merged untested" |
| `stop_forgotten`, `Happens = {"sweep"}` | `OpenedIsVetted` | the sweep moves the branch while an attempt tests it | `lifecycle.py`, "passing two things that do not care what it thinks" |
| `stop_forgotten` | `StoppedOpensNothing` | the run before drops its mark after the next one was stopped | `RunRegistry.stop` |
| `own_push_refused` | `OnlyStrangersAreRefused` | the board dies after it moved a branch and before its push, or the push is not undone: the next run takes origin's copy for a stranger's | `branch_diverged_from_origin` |
| `own_push_refused`, `Happens = {"reject"}`, 3 runs | `OnlyStrangersAreRefused` | a rejection deletes the branch and leaves origin's copy; the next run cuts afresh, and the one after it takes that copy for a stranger's | `reject_card`, "the next run cuts a fresh worktree from base" |
| `own_push_refused`, `Happens = {"unread"}` | `NothingIsLost` | git cannot count the branch's own commits, and it restarts at the base with no backup | `_rebase`, "a branch with nothing of its own yet simply restarts at the current base" |
| `own_push_refused`, `Happens = {"sweep"}` | `PullRequestIsCurrent` | a landing merges the base in and its tests fail: the card waits on, its pull request behind the branch | `_sweep_checking_prs`, "so the PR stays current" |
| `leases` | `StartsNeverOverlap` | two cards look at the runs before either has started, and both start | `review/mergeable.py`, leases "stop two running cards overlapping" |
| `cyclic_board` | `NoCycle` | folding both ends of a chain makes a cycle with its middle | `set_dependencies`, "would leave the board unable to schedule cards" |
| `fold_orphans_run` | `NoOrphan` | a fold deletes a card whose run began after it read the board | `consolidate.py`, "would orphan both" |
| `refused_holds_lock` | `RefusedLeavesNothing` | a write that fails half way leaves its transaction, and the write lock, open | `set_dependencies` |
| `overlap_missed` | `OverlapIsSeen` | `d/a*` and `d/*b` share `d/ab` and neither matches the other | `globs_may_overlap`, "True unless the two globs are PROVABLY disjoint" |

More of them appear when a property takes the place of the one in such a configuration:

- `stop_forgotten`: `KilledIsNoCrash`, `StopsOnRequest`. `fold_orphans_run`: `NeverStartsEarly`.
  `refused_holds_lock`: `FoldedIsRestorable`. `lost_wakeup`: `LeaseInOnePlace`.
  `evicted_twice`: `LiveHolderKeepsIt`.
- `leases`: `RunningNeverOverlap`, since rows set under a run are held against nobody.
- `profiles` under `Spec`: `RemovedStaysRemoved` (a refused run brings its removed profile back),
  `FallbackIsFollowed` (an earlier run consumes it), `NoneIsLost` (the handler raises on a profile
  removed meanwhile); with `Requests = {}`, `NoBlindStart` (the pause ends with the first free profile,
  the run starts on the active one).
- `spend`: `UnknownIsRefused`, `OutcomeIsHonest`, `RunningIsNoEvidence`, `ShowsTheLatest`; the comment
  on each quotes the line it contradicts.
- `global_cap` with both cards on one board and `Acts = {"run", "start all"}`, clashing:
  `LeasesDisjoint`; with accept and reject, `ReleasedOnceAccepted`.

`land_served` is a further configuration that passes: `AlwaysReleases` and `WaiterIsServed` for three
agents of which some are killed.

## What is proved

Each `*_proofs` module holds for every value of the constants that meets the module's assumption
(finite cards and threads, bounds in `Nat`, and what is said there), so for any number of cards,
runs, clients, profiles and steps. Together they state every invariant and action property the
runs check; the end of this section says what is only model-checked. A theorem's hypotheses leave out just
what a configuration of the table above shows to break it.

| module | theorem | states | hypothesis |
|---|---|---|---|
| `Scheduler_proofs` | `TypeCorrect`, `OneRunPerCardHolds`, `BoardCapHolds`, `BoardLeasesHold`, `QueueHolds`, `StopHolds` | `TypeOK`, `OneRunPerCard`, `BoardWithinGlobalCap`, `BoardLeasesDisjoint`, `QueueIsASet`, `StoppedStaysStopped` | |
| | `RejectionHolds` | `RejectionReachesDependents` | no restart yet |
| | `DoingHolds` | `NoSilentDoing` | no reversal blocks others (`released_and_lost`); no restart yet, or nothing resumes a run (`crash_after_answer`) |
| `Attempt_proofs` | `TypeCorrect` | `TypeOK` | |
| | `RunsKeepPromise` | `KeepsPromise`: every step is one of `CardRun` or a stutter | a run's end can be written (`unheard_crash`) |
| | `NoStoppedRunOpens`, `OnlyStoppedRunsStop`, `NoKillIsACrash` | `StoppedOpensNothing`, `StopsOnRequest`, `KilledIsNoCrash` | no run starts under another's leave (`stop_forgotten`) |
| | `WhatIsOpenedIsVetted`, `SkipsAreJustified` | `OpenedIsVetted`, `SkipIsJustified` | no sweep under a run (the row of `OpenedIsVetted` above) |
| `LandingLock_proofs` | `TypeCorrect`, `OnlyEvictionsOverlap`, `LandsOnlyTested` | `TypeOK`, `OnlyEvictedOverlap`, `LandsTested` | |
| | `AgentsKeepTheLock`, `AgentsAreServedInTurn` | `LiveHolderKeepsIt`, `FirstComeFirstServed` | one connection (`evicted_twice`) |
| `RebaseGuard_proofs` | `TypeCorrect`, `OthersAreKept`, `WorkIsKept`, `RefusalsAreForStrangers`, `PullRequestsFollow` | `TypeOK`, `StrangersKept`, `OwnWorkKept`, `RefusedForStrangers`, `PullRequestFollows` | |
| `Cards_proofs` | `TypeCorrect`, `ChecksHold`, `OrderHeld`, `StartsHeld`, `WorkHeld`, `RunsAreSpared` | `TypeOK`, `CyclesAreUnchecked`, `OrderIsKept`, `StartsInOrder`, `WorkIsNotLost`, `FoldSparesRuns` | |
| `Leases_proofs` | `TypeCorrect`, `OpenedBranchesAreJudged`, `ProtectedPathsAreNamed`, `ExpansionSparesHeld` | `TypeOK`, `OpenedIsJudged`, `ProtectedIsNamed`, `HeldIsSpared` | |
| | `RunsShareNoPath` | `NoSharedEdits` | `OverlapIsSeen` (`overlap_missed`) |
| `Profiles_proofs` | `TypeCorrect`, `LimitsAreOfTheRefused`, `PausesAreOfTheirLab`, `FallbacksServeOneRun` | `TypeOK`, `LimitsAreTheRefused`, `PauseIsOfItsLab`, `FallbackServesOneRun` | |
| `Spend_proofs` | `TypesHold`, `SpendCounted`, `TodayCounted`, `CapsHeld`, `OutcomesAreTold` | `TypeOK`, `SpendIsCounted`, `TodayIsCounted`, `CapsHold`, `OutcomeIsTold` | |

None of these properties is inductive. What each rests on, with the invariant that says it:

- **Ticks** (`TickInv`). A step of a tick's loop starts a card by what the tick read at its
  beginning, while runs end and start. It is sound because of `TickAccountsForRuns`: during a loop the
  runs this board's ticks started are all among the tick's `pending`, and their number plus the `slots`
  left is at most `max_parallel`. Only the board's own tick adds to them, one at a time, so the reading
  can only err on the safe side.
- **Queues** (`QueueInv`). Every card of a queue, and of the `todo` of a tick, is of its board, once;
  a stop empties the queue while no tick is in its loop, so no tick brings a stopped card back.
- **Decisions and runs** (`AnswersRejection`, `AttendsDoing`, `StartsAreLogged`). A card that rests on
  rejected work, or is in doing, is in the inbox or has a run that will put it there; with restarts its
  log has a start without an end, which is what recovery goes by.
- **Attempts** (`CoreInv`, `RowInv`, `StopInv`, `VetInv`, `LeftInv`). One run is alive; the row follows it; the
  mark of a stop is there for the run it was set for until that run has looked at it; what a run
  believes of tests and verdicts is true of the head as it is; the newest fingerprint in the log is what
  the newest worker was told and left. Each is built on the one before.
- **Landing** (`LockInv`, `OneConnInv`). Who works on the base holds the row, unless evicted, however
  stale the SELECT another connection acts on. What a card tested is the base as it is, unless somebody
  pushed since or its fetch failed (`overtaken`); on one connection what a SELECT saw still stands at the
  next statement.
- **Branches** (`BranchInv`, `OriginInv`). A guard in flight remembers the tip it found, and pushes
  over nothing that tip did not hold; between pushes origin is behind the branch, or it is where somebody
  else or a rejected attempt left it. While nobody meets at the branch a refused push finds it where it
  put it, and moves it back.
- **Cards** (`CoreInv`, `CheckHolds`, `OrderInv`, `WorkFollows`, `RunsKnown`). An open transaction
  holds the write lock, so a check still stands when its write comes; the edges in the rows and those a
  fold or a turn has yet to write make up the order that was asked for; a folded card is in the one it
  went into, or in its backup.
- **Leases** (`CheckInv`, `RowsAreApart`). What a branch had changed before the commit its last check
  began at has been judged, and what it changed since as well once that check has passed. From its look on, a card's rows are apart
  from those of every run that did not begin in between.
- **Profiles** (`LimitsInv`, `FallbackInv`, `TypeInv`). What a thread carries from one step to the next was told
  to a run of the lab and profile it carries along; a card's fallbacks and the run it has in another lab
  are never more than were granted. Every window ends within the bound, so that what a refused run
  assumes of its own, where its stream told none, does too.
- **Spend** (`Money`, `RolesTold`, `RoleSums`, `OutcomesTold`). What a card's results cost, and what is
  due for its agent's work since the last of them, is what it was paid for; its usage is that as long as
  it is known; today's share of results and turns is what was told of today. Whose a result is follows
  from the last mark before it in the whole log; results that say it, and the summary or gate written
  after one, say the same, which is why `_result_role` need look at its own attempt only. Attempts
  partition the log, so the sum over attempts, and over cards, is the sum over the results. The log has
  one start for each attempt that ended and for the one that goes on, and tells the outcome of each that
  ended. Nothing after the last start says that the running one is over, and what it says of reasons and
  limits is what its agent stands at. Only a refusal before the next start changes an attempt that is
  over, and that one is among those `OutcomeIsTold` leaves out (`odd`), as is one a restart cut off
  where recovery does not look. A start is let through (`cleared`) on what is booked at that moment, and
  taken off by the run that starts.

Two arguments recur. Least elements and induction come from finite sets (`MinIsIn`, `Induction`,
`LeastSubset`, by the well-foundedness of strict inclusion among the finite subsets), since theorems that
take an operator as a parameter cannot be used; so does what a sum is (`SumIs`: its recursive function
over a finite set exists and adds one member at a time). `Reach` of `Cards`, a recursive function over
steps, is shown to be the least set closed under the edges by counting: it cannot grow more often than
there are cards.

Only model-checked: liveness (`QueuedCardLeaves`, `RunEnds`, `LimitedRunsAgain`), and whatever rests on
ENABLED. Neither proved nor checked to hold: `NoSilentDoing` where an answer or a conflict resumes runs
and a restart falls between (`queue_drains` has a restart and no answers; `crash_after_answer` has both,
and shows one way it fails).

## Plan

Every invariant and action property the runs check has its theorem, under the hypotheses above. What is
left to prove is `NoSilentDoing` with both an answer and a restart, under a hypothesis that leaves out no
more than the restarts `crash_after_answer` is about: those between an answer and the mark of its attempt.
What is left to model is named below, stacks first.

## Not modelled

- Stacks of review mode (`review/stacks.py`) and the retargeting of their children: a tree of branches
  on top of `RebaseGuard` and `LandingLock`, more than TLC can hold beside the rest.
- The live delivery of notes between the turns of an agent (`_NoteFeeder`): a note counts here from
  the attempt after it. The clocks of the watchdog: it may fire at any time.
- Planning mode, prompts, screenshots, the digest, the cost panels beside the sums above, schema
  migrations, export and import: they read, or write one row that nobody else reads.
- Docker and gh command lines, parsing of the labs' streams, bash guard, images: text in, text out.
- Setup, command line, demo, the browser interface.

# Formal model of agent-gitu

TLA+ modules, TLC configurations and TLAPS proofs for the parts of agent-gitu in
which order, failure and concurrency decide whether the program is right. Paths
below are relative to `src/src/` unless they start with another directory.
`PROJECT.json` lists the runs, the theorems, the mutants that show each checked
property can fail, and, for every definition, the source lines it stands for.

To check one configuration: `tlc -config MCRunSession.cfg MCRunSession`. To check
the proofs of one module: `tlapm RunSessionProofs.tla`.

## 1. The system

agent-gitu runs coding agents, teams of "coworkers" and whole "companies" of
agents from one Node.js server. Each process is single-threaded, so a step of the
models is what the code does between two awaits. What runs beside it are other
asynchronous functions of the process, timers, child processes, and other
processes that share files or an SQLite store with it.

| Component | Source | State | Operations | Talks to |
|---|---|---|---|---|
| Coding sessions and runs | `server/server.ts` (2846-2870, 6412-6515, 8857-9353, 9422-10004) | per session: status, generation, attached engine, recovery record and timer, queued and buffered messages; per task: resume lock; per workspace: checkpoint in progress | message, stop, credential form, run prelude, attach, checkpoint, settle, outage and retry, restart | task lock (file), session store, the engine of a run |
| Company scheduler | `company/coordinator.ts`, `company/store.ts` | the lease row, job records, company state and direction, jobs in progress of each coordinator | tick, complete, stop, drain, recover, enqueue, steer, pause, delete | the company store (SQLite), conversations of the server |
| Mission graph | `execution/mission.ts` | leaf states, dependencies, scopes in flight, criteria and evidence, recovery counters, integration verdicts | define, depend, start, report, re-verify, integrate, abandon, fail, block, recover, amend, audit | verification oracles (awaited) |
| Browser lease | `cowork/browser-lease.ts` | one promise chain | acquire, release, cancel | cowork tools |
| Cowork turns and sub-agents | `cowork/runner.ts`, `cowork/subagents.ts` | tool loops, abort controllers, leases held by a scope | start, browse, spawn, time limit, stop, return | browser lease, model |
| Resilient model client | `llm/resilient.ts` | a circuit per credential, attempts of each request | wait, probe, attempt, back off, reset a stream, abort | model providers |
| Task lock | `ledger/task-lock.ts` | a lock file per task | acquire, take over, release | every process that resumes the task |
| Session runtime | `coding/session-runtime.ts`, `coding/event-log.ts`, `coding/chief.ts` | requests to a person (approvals, plans, questions), their slots, event log | open, settle, time out, cancel, release all | engine, user, chief of staff |
| Delegation | `cowork/delegation.ts` | cards of a delegated task, their map to requests | surface, answer, close, cancel | session runtime, the conversation that delegated |
| Budget accounts | `coding/budget.ts`, `server/server.ts` (2205-2504, 4626-4942) | tree of accounts of a conversation, its record on disk | grant, charge, restore, raise, write down | missions, delegated sessions and their specialists |
| Cron scheduler | `cron/scheduler.ts`, `server/server.ts` (3680-3760) | file of jobs, jobs in flight of each scheduler | tick, run, retry, edit, replace a scheduler | server, file system |
| Meetings, workflows, wallets | `company/meeting-runtime.ts`, `company/workflows.ts`, `company/wallets.ts` | speaking leases, workflow runs, spending limits | speak, advance, spend | company store |
| Memory file lock | `memory/file-lock.ts` | a lock file per memory file | acquire, steal, release | other processes |
| Problem recovery | `recovery/`, `loop/` | state of a problem, attempts at it | diagnose, try, prove | one engine |

The remaining components are surfaces (HTTP routes, user interface, channels),
clients of external services, or pure functions over text. They are listed in
`PROJECT.json` with the reason they are left out.

### What is hard, and what makes each part correct

- **Coding sessions.** A message handler decides by a status it read several
  awaits ago; a stop, a pause, an outage or another message may come between. A
  stopped run goes on until it notices. Correct means: at most one run of a
  session is current, at most one engine works in its workspace, runs that took
  the resume lock exclude each other, a stop is final until somebody sends a
  message, and a session shown as running is worked for.
- **Company scheduler.** Two processes share the store during a rolling update.
  The lease is known to a process only as of its last tick, while completions
  arrive at any time. Correct means: a job is executed once at a time; a job
  recorded as running is being executed; only the owner of the lease writes; a
  settled job stays settled; queued work is served in the end.
- **Mission graph.** Two operations await oracles and then write without looking
  again. Correct means: scopes in flight are exclusive, readiness rests on
  verified dependencies, dependencies are acyclic, recovery is bounded, evidence
  for an amended requirement does not count, and no leaf waits for ever on
  verified work.
- **Browser lease and turns.** A waiter in the middle of the chain may give up. A
  turn that holds the browser waits for a helper that wants it. Correct means:
  one user, no waiter lost, nothing held after a loop has ended, and a stop that
  always unwinds.
- **Delegated sessions.** One request is shown on several surfaces: a card in the
  conversation, the coding chat, the chief of staff. Each may answer, a time limit
  and a stop may be first, and the listener that closes the card runs inside the
  call that settles the request. Correct means: every request that waits is with
  somebody, a card tells what really happened, the chief claims no decision of
  another, and a stopped run ends.
- **Budget accounts.** Charges are never refused, so accounts are overrun by calls
  in progress; pool and missions are written down now and then and restored one by
  one. Correct means: no money is spent beside the pool, a main loop is told before a
  second late call and specialists stop as well (they do not, see section 4), a raise
  pays for more work, a spent mission stops.
- **Cron scheduler.** A job is in flight by the memory of one scheduler and by a
  mark on disk that counts for two minutes; settings replace the scheduler, the
  file may be unreadable. Correct means: no job twice at a time, and none that is
  never run again.
- **Memory file lock.** A lock is created, filled, read and removed in separate
  steps, and processes die between them. Correct means: one action at a time, and
  no call that waits for ever.
- **Model client.** Many requests share one circuit without knowing of each
  other. Correct means: one probe at a time, a slot that is always in use by
  somebody, retries that start with a clean stream, and requests that end.

## 2. Modules

| Module | Models | Used by |
|---|---|---|
| `Mutex` | the abstract promise of the lease: a lock that calls ask for, hold, give back or give up | refined by `BrowserLease` and `MemoryFileLock` |
| `BrowserLease` | `CoworkBrowserLease.acquire` cut at its await | extended by `CoworkTurns` |
| `CoworkTurns` | turns and helpers over the lease | `MCCoworkTurns` |
| `MissionGraph` | every state-changing method of the class `MissionGraph` | `MCMissionGraph` |
| `RunSession` | handlers and runs of coding sessions of one task | `MCRunSession` |
| `WorkPool` | the abstract promise of the scheduler: a queue whose jobs are worked on by at most so many workers, and not again once settled | refined by `CompanyScheduler` |
| `CompanyScheduler` | coordinators of several servers on one store | `MCCompanyScheduler` |
| `ProviderCircuit` | the requests that share one credential | `MCProviderCircuit` |
| `SessionRuntime` | one delegated session: engine, requests, chief of staff, cards | `MCSessionRuntime` |
| `MemoryFileLock` | `withMemoryFileLock` by single file operations, in several processes | `MCMemoryFileLock` |
| `BudgetAccounts` | the money of a conversation: pool, missions, delegated sessions | `MCBudgetAccounts` |
| `CronJobs` | the file of jobs and the two schedulers of a project | `MCCronJobs` |

The `...Proofs` modules hold the theorems; the `MC...` modules hold the instances.
Definitions commented "Slip" or "MUTANT" are deliberately wrong variants of the
definition that follows them. They are part of no specification: they stand in
for a plausible bug when a property is tested for its power to find one.

### BrowserLease and Mutex

The code keeps `this.tail`, a promise. A promise of the chain is represented by
the set of `held` promises it waits for, so `tail` is a set of calls,
`previous[c]` what call `c` captured, and `resolved` the calls that released or
gave up. `Acquire` is the synchronous part; `Wake` and `Enter` are the promise
reactions after the race with the abort signal; `Cancel` is the path that throws;
`Release` resolves the call's own promise. `IsLock` is the refinement: `Mutex`
with `holder` and `waiting` computed from `pc`.

### CoworkTurns

Each agent has a turn and at most one helper, two callers of the same lease: the
module extends `BrowserLease` and its assumption `TurnCalls` says that the calls are
those of turns and helpers. `Browse` calls `acquire` when the
scope does not hold the lease; `EndTurn` and `HelperReturns` contain the release
in `finally`. The signal of a pending acquire is the one of the turn, also for
the helper, because the server binds it (`server/server.ts:4526`). `Stop` aborts
the turn and, through `onParentAbort`, its helper. `TimeLimit` aborts the helper.

### MissionGraph

`state`, `deps`, `inFlight`, `attempts` and `integration` are the fields of the
class. `satisfied` tells for each criterion whether it is unsatisfied, satisfied
by evidence that is current, or by evidence from before an amendment.
`parentReverify` is three actions: `BeginReverify` up to its first await,
`ReverifyCriterion` for each oracle, `ReverifyConcludes` for what follows the
last; `verifyIntegration` is cut likewise. Left out: fingerprints of evidence and
staleness by file change; more than one `parentReverify` of a leaf at a time;
manual criteria appear as the outcome "unconfirmed"; the oracles of a leaf
answer in any order, where the code asks them one by one. `dispatchable` is a query
and has no action; `audit` is the operator `Complete`. The engine imports the
class; the tests exercise it.

### RunSession

`status`, `generation` (executionGeneration), `engine` (gitu), `recovery` and
`timer` (modelRecovery, modelRecoveryTimers), `queued` and `buffered` are fields
of sessions; `busy` is `checkpointOperations`; `lock`, `stale` and `claimed` are
the lock file, its age and `taskResumeLocks`. `call[c]` is where the handler of a
message is and the status it has read; `run[r]` is a call of `executeRun` with
the generation it was started in. A handler goes `Receive` (before the body is
read), then `Steer`, `Queue`, `Pause` or `Prepare`, then `Resume` or `Refuse`. A
run goes `Begin`, prelude (`PreludeQuits`, `PreludeUnavailable`,
`PreludeRejects`, `Attach`), `CheckpointSaved`, `WorkEnds`, and then settles:
`SettleSuperseded`, `Settle`, `SettleOutage` or `Continue` (queued messages and
fallbacks).

The constant `Admitted` lists disturbances: `"credential"` (a message that carries
a key), `"bad prelude"`, `"crash"`, `"long run"` (a run that outlasts its lock),
`"reserved stop"` (a stop while a message is being set up). A property that the
code only keeps without one of them is checked without it, and the run that
admits it is listed below with its counterexample. Left out: creating and deleting
sessions, first runs and runs of cron, chat mode, sessions of companies, the
gates of a runtime, a report of status "aborted" (`server/server.ts:9847`), an error
while the lock is taken (9292-9294) and the take-over of a lock file that cannot be
read (`ledger/task-lock.ts:157`). The end of a stopped engine is assumed to come.

### CompanyScheduler

The row `scheduler_lock` is `lock`, with the owner and whether it is past its 60
seconds. A coordinator has the fields of the class: `leaseHeld`, `active`,
`tasks`, and `mode` for its timer. A tick has no await before its end, so
`Tick` is one action: it loses the lease (`Lose`), or renews or takes it and then
recovers, enqueues the due review, drops outdated jobs and admits what the limits
and the busy conversation allow (`Lead`). `Finish` is the continuation of a job's
promise: it looks at `leaseHeld` and at the state of the company. `Disable` is
the toggle route, which drops the coordinator; `StopServer` and `DrainEnds` are
the orderly end; `Crash` forgets the process. `MaxStalls` bounds how often a
ticking owner misses its renewal (a suspended process) and `LongJobs` says
whether work may go on for 60 seconds after its coordinator stopped. One company
is modelled: the order in which a tick visits several is left out, and so are the
actions and usage records that `recover()` settles, the callback `prepare()`, the
steering of a job that is not running, and exceptions inside a tick.

`IsWorkPool` is the refinement: all coordinators of all servers together are one
`WorkPool`. Its queue is the jobs recorded as queued, and those recorded as running
that nobody executes any more (they wait for the next owner to recover them);
`working` is what some coordinator executes, `settled` what is done, failed or
superseded, and `closed` says that the company is deleted. A tick of the owner is
one `Dispatch`, the end of a job `Settle` or `Interrupt` (a retry, a pause, a
deferral), a crash an `Interrupt` of all its work.

### ProviderCircuit

`circuit` is the entry of `cooldowns` for one credential: none, cooling, or half
open with a slot that is free or taken. `Request`, `Proceed` (waitForCircuit),
`Succeed`, `Fail`, `Retry` and `Abort` follow `guard()` and `completeStream`.
Error texts are abstracted to "rate limit", "transient" and "fatal"; delays to
waiting until `Proceed` or `Retry` is taken.

### SessionRuntime

`gate[r]` and `by[r]` are what became of a request and the reason its event
gives; `slot` is the three fields `pendingApproval`, `pendingPlanReview` and
`pendingQuestions`; `routed` and `card` are the maps of `cowork/delegation.ts` and
the cards they lead to. `Settle` is the function every settling path calls:
request, slot, event, and the listener that closes the card, in one step, for
there is no await between them. The engine is `thinking` (in a model call), `acting` (in an
action, which may make requests) or `ending`; it looks at its stop flag between
these only. Requests are asked of the chief (`AskChief`, then `ChiefReplies` after
an await) or of a person (`AskPerson`), and settled by the reply, the card
(`AnswerCard`), the coding chat (`AnswerInChat`), the time limit (`TimeOut`) or a
release (`Cancel`, `StopTask`, the spent allocation in `Reply`). Left out: a
session continued after it settled, the event log, tasks refused before a session
exists, the contents of requests, and parallelism other than of approvals.

### MemoryFileLock

Each action is one file operation: `Open`, `Write`, `Look`, `Reread`, `Unlink`,
`Verify`, `Free`. `queue` is `acquisitionChains`, `claim` is `heldClaims`, `file`
is the token in the lock file, `old` says that a file without a body has passed
its 30 seconds of grace. `Dying` names the processes that may die at any step.
`IsLock` maps the state to `Mutex`: `holder` is the call inside its action in a
live process, `waiting` are the calls in the chain or at the file. A lock file that an
earlier process left behind is one whose owner has died. Left out: a write of the body
that fails (`file-lock.ts:66-71`; it leaves an empty file, which opens the gap of
section 4 without a death), the number of a dead process given to a new one, a process
that is suspended for longer than the grace.

### BudgetAccounts

`open`, `grant` and `spent` are the accounts in memory, `kept` and `disk` their
records, in whole units of money. `ChargedTo` charges the account and its
ancestors; `PoolFor` and `AccountFor` open, restore or create. `Wake`, `Think` and
`SessionEnds` are a mission's work session, `Delegate`, `Work` and `WorkEnds` a
delegated one. `WorkExtra` is a call of its specialists, charged to the session;
`AskChief` and `ChiefAnswers` are a call of its chief, charged to the mission when it
returns; what `charge()` says is dropped in both cases (`server/server.ts:2499-2503`).
`Raise` is the new total a person sets, `Cancel` and `Reply` are the person's other
words, `Tick` and `Crash` the writing down and the loss. `late` counts the calls of a
main loop at work after money ran out, for `LoopsHeedCharge`; `unheeded` counts those of
specialists, for `SpecialistsHeedCharge`. Left out: the dimensions for turns and
sub-agents, sub-agents of a mission's own session (their loop asks the account),
specialists that return after the end of their session, the pruning of deleted
conversations, and the pools of companies, which have no ceiling. The write of a
mission's status and that of the accounts, two files, are one step.

### CronJobs

The file is `listed` with the fields of each job; `running[s]` are the jobs whose
`onDue` call has not returned, of scheduler `s`, 0 for coding jobs, 1, 2, ... for the maintenance
schedulers that `startCoworkLearning` replaces one by another. `detached` are the
coding jobs whose call has returned while a fallback, a queued follow-up or a retry
timer of `executeRun` works on (`server/server.ts:9941`, 9883, 9966). Times are
abstracted to what `isDue` asks: has the interval passed (`elapsed`), is the retry due
(`retry`), did the run start less than 120 seconds ago (`recent`). The bounded
`faults` are reads that fail, which the store takes for an empty file, and writes
that fail, which may leave the file as it was or empty. Left out: several processes on one file, and how schedules are parsed.

## 3. Runs

`CHECK_DEADLOCK FALSE` stands in every configuration: each call, message, run, job
or request of an instance is used once, so the instance legitimately ends.

| Run | Instance | Distinct states | What it shows |
|---|---|---|---|
| `lease` | 4 calls, fair | 37 017 | the chain implements `Mutex` (so it has one user), never waits for itself, and no call waits for ever |
| `turns` | 2 agents with a helper each, fair | 17 573 | loops wait for each other for ever only behind a turn that holds the browser while its helper asks for it; nothing held after a loop, a stopped turn unwinds |
| `mission` | leaves a (2 criteria) and b (1) with overlapping scopes, a branch with an integration oracle, 1 recovery attempt, 1 amendment, fair | 223 740 | ownership, acyclicity, readiness, bounded recovery, no leaf left waiting |
| `sessions` | 2 sessions, 3 messages (two to one session), 4 runs; all disturbances but a stop during setup | 291 473 | one current run, one engine |
| `sessions_calm` | 2 sessions, 3 messages, 3 runs, no disturbance, fair | 64 460 | exclusion under the lock, stops that last, no stuck session, everything settles |
| `companies` | 2 servers, 3 coordinators, a mission and 2 reviews, 1 worker, 2 directions, symmetry | 433 108 | single execution, records that follow it, writes under the lease, one pool of workers |
| `companies_live` | 2 servers, 2 coordinators, a message and a question of one conversation, one missed renewal, fair | 141 636 | queued work is served, also when a coordinator loses its lease and stops for good |
| `circuit` | 3 requests, 2 of them streams, 2 retries, fair | 90 569 | slot in use, clean retries, requests end |
| `gates` | 2 approvals of a parallel action and a question, with or without a chief, fair | 230 922 | live cards, true cards, an honest chief, stopped runs end |
| `memory_lock` | 2 processes with 2 calls each, both may die, fair | 49 552 | the lock implements `Mutex`, no call waits for ever |
| `budget` | pool of 3, missions that ask 3 and 1, a delegated session, a reserve, one raise, one call of a specialist or the chief, 2 crashes, fair | 370 874 | no spend beside the pool, one late call of a main loop, raises that pay, spent missions stop |
| `cron` | a coding job and a maintenance job, 2 maintenance schedulers, 3 edits, 2 faults, a crash, fair | 364 248 | one `onDue` call of a job at a time, jobs are served |

Why these bounds are enough to be interesting: a waiter that gives up matters
only between two others, so the lease has four calls. The sessions need two
messages to one session (to race with each other) and one to another session of
the task (to race for the lock); four runs leave one for a fallback, a queue or a
retry. A hand-over of companies needs two servers, and a third coordinator lets a
server be switched off and on again; with one worker the limit is reached and
jobs wait for it, while two are at work at once in `companies_live`. A mission needs two leaves for scopes and
dependencies and one branch. A circuit needs one request that was sent before it
opened, one that opens it, and one retry that probes. Two approvals are what one
parallel action needs to wait twice, and a question has outcomes and a card text of
its own. In the memory lock either process survives the other, in every state it can
leave the file in, and both may be gone. The pool covers one mission and not both, so missions exhaust
each other, and the second crash finds records that the first one left behind.
Two schedulers with one job each suffice since jobs share nothing but the file.
Symmetry is used only in
runs without liveness properties, on sets whose members nothing tells apart.

### Fairness

Fairness is on actions that the runtime performs by itself, and weak unless a
reason for strong fairness is given:

- lease: promise reactions run, and a holder releases in the end (`finally`);
- turns: model calls have time limits and tool loops have a maximum of rounds, so
  loops end; promise reactions run;
- mission: the engine starts a leaf that is ready, reports it and re-verifies it;
- sessions: handlers, preludes and models end or time out, forms time out, timers
  fire. A user is never obliged to send or stop anything;
- companies: timers tick, a drain ends, work ends (conversations within five
  minutes), and a lease that nobody renews expires;
- circuit: cooldowns pass, sleeps end, attempts end by an answer or a time-out;
- gates: awaits return, time limits fire, model calls return. The chief and the
  person are never obliged to answer;
- memory_lock: live processes take their steps. Giving up after five seconds is
  strongly fair: the deadline passes once and for all, and a call looks at it again
  and again, though it is not always in the step where it looks;
- budget: work sessions of missions end. `Wake` is strongly fair: the tick
  wakes what is due in turn, also when other missions of the conversation were
  busy in between;
- cron: the server is started again, ticks come, runs end, time passes.

## 4. Disagreements between the code and what it says of itself

Each of these has a configuration in this directory, or is seen by one change in
one, and TLC answers with a counterexample. None is part of the runs of section 3,
which pass; `PROJECT.json` quotes what the code, a comment or a test says.

| Configuration | Property | What happens |
|---|---|---|
| `MCCoworkTurnsLimit` | `TimeLimitEndsHelper` | a turn that browsed holds the lease while it awaits its helper, whose `acquire` waits on the turn's signal: the helper's own time limit does not end it. A stop of the turn does (`cowork/runner.ts:1517` against `cowork/subagents.ts:56`) |
| `MCMissionGraphSmall` | `AbandonedNeverSucceeds` | a re-verification in progress verifies a leaf that was abandoned meanwhile (`execution/mission.ts:316` against the comment at 391) |
| `MCMissionGraphSmall`, property replaced | `CompleteMeansIntegrated` | `amend()` keeps the verdict of the branch, and the audit is complete on an integration that ran before the amended work (449 against 320-322) |
| likewise | `FailedBlocksDependents` | a leaf that was ready when its dependency failed is started (241 against `tests/execution-hardening.test.ts:417`) |
| likewise | `ObsoleteCannotComplete` | an oracle run that began before an amendment satisfies the amended criterion (300 against `tests/execution-hardening.test.ts:505`) |
| `MCRunSessionStop` | `StopSticks` | the message handler sets `running` and starts a run after its awaits without asking whether a stop was answered meanwhile (`server/server.ts:9272` against 8891) |
| `MCRunSessionPause` | `PauseEndsGeneration` | a pause does not change the generation, so a run in its prelude attaches and works on (`server/server.ts:6429` against 6437) |
| `MCRunSessionStuck` | `RunningHasRunner` | a fallback whose prelude rejects leaves its session running (9941 against 9346) |
| `MCRunSessionMail` | `MailDelivered` | a message is buffered on a session whose run ended while its body was read (8947 against 9065) |
| `MCRunSessionResume` | `OneResume` | the retry after an outage does not take the resume lock (9443 against 9285) |
| `MCRunSessionRefusal` | `RefusalMeansWork` | a stopped run keeps the lock for its whole window, and others are refused for nothing (8863 against `ledger/task-lock.ts:97`) |
| `MCRunSessionSuperseded` | `OnlyCurrentChangesState` | a superseded prelude writes the status (9520 against 9497) |
| `MCCompanySchedulerToggle` | `RunsOnce` | switching companies off stops the timer that renews the lease but not the work; when the work outlives the lease, the next coordinator starts it a second time (`company/coordinator.ts:30`) |
| `MCCompanySchedulerWrites` | `WritesUnderLease` | after missed renewals a completion is recorded under another's lease (`company/coordinator.ts:81` against 79) |
| `MCCompanySchedulerOrphan` | `RunningIsExecuted` | an owner that takes over from its crashed successor does not recover (51 against `tests/company-rolling-update.test.ts:39`) |
| `MCCompanySchedulerLost` | `ServerSchedules` | after the loss of the lease a server never schedules again (46 against 25) |
| `MCProviderCircuitProbe` | `OneProbe` | a failure of any request, also of one sent before the circuit opened, frees the slot of the probe in progress (`llm/resilient.ts:157`) |
| `MCProviderCircuitAbort` | `OneProbe` | a stream that is cancelled while it waits frees another's slot (`llm/resilient.ts:217` against 134) |
| `MCProviderCircuit`, `Streams = {c}`, `TurnStreams = {b}` | `RetriesStartClean` | `completeTurnStream` retries without a reset (246 against 207) |
| `MCSessionRuntime`, property replaced | `StopLeavesNoGate` | an action in progress opens a request after the stop, which then waits for its time limit (`coding/session-runtime.ts:503`) |
| likewise | `SlotShowsPending` | of two approvals of one parallel action the slot holds the later one, and is empty when that is settled (259) |
| likewise | `CancelledRunsEnd` | a cancel while the checkpoint is saved finds no engine to stop and leaves no trace: the run goes on (693 against `cowork/delegation.ts:509`) |
| likewise | `AnsweredMeansAnswered` | a question that timed out or was released is closed as answered (`cowork/delegation.ts:543`) |
| `MCMemoryFileLock`, `Process = {p, q, r}`, `Call = {p1, q1, r1}` | `MutualExclusion` | two live processes judge the lock of a dead one; the slower one unlinks what the faster one has created (`memory/file-lock.ts:53` against 44) |
| `MCBudgetAccounts`, property replaced | `RaisePays` | the overrun of a pool is not topped up, and the raised mission is refused at its next wake (`server/server.ts:2363` against 2339) |
| `MCBudgetAccounts`, `Worker = {v, w}`, property replaced | `ReserveIsKept` | two sessions are granted what is left before either has spent, and together spend the reserve (`coding/budget.ts:176` against 18) |
| `MCBudgetAccounts`, `MaxExtra = 3`, property replaced | `SpecialistsHeedCharge` | a session's specialists are charged and not told: they go on after session, mission and pool are spent, while the main loop waits for them (`server/server.ts:2503` against `agent/subagent.ts:136`) |
| `MCCronJobs`, `LongJob = {c, m}` | `OneExecution` | a replaced scheduler's job of more than two minutes is started again by its successor (`server/server.ts:3689`) |
| `MCCronJobs`, property replaced | `ErrorsOnlySkip` | an error while an update reads the file makes the update write an empty one (`cron/scheduler.ts:61` against 124) |
| likewise | `OneWorking` | a coding job that passed its work on is no longer in flight, and its next interval starts it again, as a new task, beside that work (`server/server.ts:1653` against 3662) |

## 5. Proofs

The proofs hold for every value of the constants that satisfies the modules' named
assumptions, which TLC evaluates in the passing runs.

**BrowserProofs.** `ChainInv` is inductive by itself: the calls that entered the
chain are totally ordered by `previous`, and a call past its race has only
resolved calls before it. `Exclusion` follows since of two holders one is before
the other, hence resolved. `LeaseIsLock` proves the refinement of `Mutex`, action
by action. The lemmas speak of single steps of a call, so they serve `CoworkTurns`
too: `TurnsInv` adds that whatever of the chain is not resolved belongs to a call
that waits or holds, that such a call is that of a tool loop under way, and that a
turn delegates exactly while its helper works. It gives `NothingLeftBehind` for any
number of teammates.

`NoLockUp` is freedom from deadlock, as far as it is a matter of safety: while a
call waits, some unresolved promise of the chain is a holder's, or of a call that
has nobody before it. Besides `ChainInv` it needs `ChainOrder`: every promise
waits for promises of the chain only, every non-empty group of them has a member
that waits for none of the group, and what is not resolved waits or holds. So
abandoned waiters leave no gap and no circle in the chain; that the browser is
then really handed on is `EveryCallAnswered`, which TLC checks under fairness.

`LockUpIsNested` (`OnlyNestedLockUp`) says the same of the tool loops, which can hold
the browser while they wait. `TurnsOrder` is `ChainOrder`, with the fact that a stopped
turn has told its helper's call. The first unresolved promise of the chain then
belongs to a loop that works, to a call whose answer is due, or to a turn that awaits
its helper; and that helper works, or else waits for its own turn. This last case is the
one of section 4, and no stopped turn is in it.

**MissionGraphProofs.** `Types`; `Ownership` (scopes held are those of leaves in
flight and never overlap), inductive together with the types; and
`NoDependencyCycle`. Acyclicity is stated as: every non-empty set of leaves has
a member with no dependency in it. Its strengthening `DepsInv` adds that leaves
depend on defined leaves only. It assumes `~ForwardReferences`: `defineLeaf` does not look for
cycles, so a leaf may only name leaves defined before it. Under the same assumption
`WaitingMoves` says that a mission never stands still on its dependencies: while
leaves wait, one of them waits for a leaf that is ready, at work or given up. It
needs `WaitsForUnverified`: every operation that can verify a leaf, or add or reset
one that waits, recomputes readiness in the same step, so whoever waits has an
unverified dependency. (TLC agrees on the instance of `mission`; no run lists it,
for `MissionSettles` is checked there.) `ReadinessIsEarned` and
`RecoveryIsBounded` speak of steps and need no assumption: whatever
`recomputeReadiness` makes READY rests on verified leaves that it leaves alone, and
no other operation writes READY; an attempt that reaches the limit of unproductive
recoveries stops its leaf in the same step.

Two theorems say how much holds of what section 4 shows to be violated.
`GivenUpForGood` (`GivenUpStays`): a leaf that is abandoned, failed or blocked while
nobody re-verifies it stays given up, so a re-verification in progress is the only way
back. `UnamendedComposes` (`UnamendedIsIntegrated`): where every leaf of a branch
is required, a complete mission that was never amended is integrated as it is.
Its invariant `Composed` says that before the first amendment whatever is verified, being integrated, or
was integrated is at rest: nobody re-verifies it, and it is verified or given up
(a child can still be given up while the oracle runs). No bound on amendments is
assumed; TLC agrees with both properties on the instance of `mission`.

**RunSessionProofs.** `RunInv` is the conjunction of the types, `Generations` (no run
has a generation above its session's, and no two active runs of a session have
the same) and
`Checkpoints` (`busy` marks the sessions with a run between the halves of a
checkpoint). It gives `CurrentRunIsOne` and `EngineIsOne` with all disturbances.
`LockExcludes` adds `LockHeld` (a current run started under the lock is that of
the lock's owner, and the lock is not stale) and assumes neither keys nor runs
that outlast their lock. `StopIsTerminal` adds `Working` (what a session that is
not running cannot have: forms, a prepared handler, a reservation, current runs, a
timer without a waiting status) and assumes no key, no failing prelude and no
stop during setup; with any of these the code restores or overwrites a status
that is no longer right. `NeverStuck` and `RetryIsSet` add `Alive` under the same
assumptions: an attached engine is that of a current run, a running session has a
handler or a current run, and the record of a retry is there for the handler that
found its session waiting and will set its timer again. Crashes are allowed.

**SchedulerProofs** is about both schedulers of the server. Company work: `LeaseInv`: whoever has tasks is the owner of a lease
that has not expired and knows it, each job is executed at most once, and absent
jobs are fresh. From it `WorkRunsOnce`, `CompletionsUnderLease` and
`SettledIsFinal`, for any number of servers, coordinators, jobs and workers. All
assume `Punctual`: an owner never misses its renewals and no work goes on for 60
seconds after its coordinator stopped. Section 4 shows both are needed.
`RecordInv` adds what the store says: a coordinator that has ticked as the owner
executes all that is recorded as running (`LeaderInv`), and one review at most is
pending. It gives `NothingOrphaned` and `ReviewsOneByOne`.

`SchedulerIsPool` proves the refinement of `WorkPool` action by action, for any number
of workers, under `Punctual` too. What is executed anywhere is, by `LeaseInv`, the
work of the one owner of the lease; `PoolInv` adds that its `active` is exactly that
work and no more than `Workers`, that finitely many jobs are known at a time (so they can be
counted), and that a deleted company has nothing in its queue.

Scheduled jobs: `JobsRunOnce` is `OneExecution`, which is about calls of `onDue`: what
a call passed on is not covered, see `OneWorking` in section 4. A scheduler runs its own jobs only,
so a coding job is in flight once by the memory of its scheduler; a maintenance
job in flight at a replaced scheduler is kept from starting again by its record.
`MarkInv` says why, for a job that is listed: it was started or listed anew less
than 120 seconds ago, so its interval has not passed, and when it was a retry it
is marked as running. It assumes `WithinMark`: no maintenance job runs for more than
120 seconds (section 4 shows the violation) and none has an interval shorter than
that. The second is needed for a job whose record was lost while it ran and written
anew, without the mark; the server's own intervals are a day and 15 minutes.

**ProviderCircuitProofs.** `CircuitInv` (types, a taken slot belongs to an attempt in
progress, attempts left before a retry) gives `SlotIsFreed`. `TextGone` (only a
request that has failed for good leaves its caller with text of a failed attempt) gives `StreamsRestart`
when there is no `completeTurnStream`.

**SessionRuntimeProofs.** `GateInv` adds to `CardsAreLive`, `CardTellsOutcome` and
`ChiefClaimsItsOwn` what an action needs to find: a request nobody made has no
history, a slot holds a request of its kind that waits, and the engine lives
exactly while the run executes. It is inductive for any number of requests of any
kinds, and gives `LiveCards`, `TrueCards` and `HonestChief`.

**MemoryFileLockProofs.** `LockInv`: a call past the chain is the head of its queue,
and the file belongs to the call that created it until that call is done, leaves it
behind, or dies. Any process may die at any step. An unlink by a thief keeps it when
the lock is still stale in that step, and nothing else can break it. `OnlyTheGap` and
`LockButForTheGap` say so for any number of processes: where every unlink removes a
stale lock (`RemovesStale`), nobody else is in the action, and the code implements
`Mutex`; so the gap between the second look of `stealStaleLock` and its unlink is
the only way to lose the lock. `MemoryLockExcludes` and `MemoryLockIsLock` need no such
condition, but `OneRival`: behind a process that may die there is one other process
at most. For then the thief that judged a dead process's lock is alone with it
(`Thieves`), and a lock that a call left behind in a living process is removed by a call
of that process only. Section 4 shows that two live rivals are enough to break it.

**BudgetAccountsProofs.** `BudgetInv`: the types, and a main loop at work has made no
late call. A spent chain stays spent by a further charge, whoever makes it, so the
charge of a main loop that is late also tells that loop to stop: `LateCalls`
(`LoopsHeedCharge`). Specialists and the chief appear in it as spenders; that their own
calls are bounded is not stated, for they are not, see `SpecialistsHeedCharge`.
`RaisesCover` follows from the types and the arithmetic of the top-up, for any grants,
costs and overruns of missions, when the pool itself is not overrun.

`SpendStaysShared` is about sums over sets. Their lemmas are proved by induction over
the subsets of a finite set, said of a set of subsets (`SubsetsByInduction`, from the
library's theorem that strict inclusion is well-founded on them): the partial sums
of `SumFunction` exist (`SumsExist`), and a sum grows by no more than its members
(`SumGrows`). `SpendInv` speaks of the spend at which each account stands, in
memory or else on disk. Opening, writing down and closing leave it alone, a charge
adds the same to a mission and to the pool, and a crash replaces the spend in memory
by that on disk, for which the same is an invariant; so both parts are needed. It
also says that whoever spends has its accounts open. Missions and sessions are
assumed to be finitely many.

Every invariant and every action property of the runs is stated by a theorem, some
under the assumptions named above. Model-checked only is everything about liveness:
`EveryCallAnswered`, `StopUnwinds`, `MissionSettles`, `AllSettle`, `QueuedIsServed`,
`RequestsEnd`, `StoppedRunsEnd`, `CallsEnd`, `SpentMissionStops` and `JobsAreServed`,
for temporal properties under fairness are out of the prover's reach.
No module declares a RECURSIVE operator.

## 6. Plan

Next modules, the most exposed first:

1. `TaskLock`: `ledger/task-lock.ts` between processes, with create, fill, read and
   remove as separate steps, in the way of `MemoryFileLock`; then `RunSession`'s
   lock as what it promises.
2. `Meetings`: the speaking leases of `company/meeting-runtime.ts`; wallets and
   workflow runs after them.
3. The state machine of problems in `recovery/`.
4. The file of cron jobs between processes, which lose each other's updates.

To extend: several companies in `CompanyScheduler`, each of them a `WorkPool`; first
runs and deletion in `RunSession`; limits on spawning in `CoworkTurns`.

To prove: abstract specifications of the other components and their refinement, as
for the lease, the memory lock and the scheduler: a session whose generations own it
one after the other for `RunSession`, a request settled once by one of many for
`SessionRuntime`, a spender that stops for `BudgetAccounts`. Then, as `NoLockUp` and
`WaitingMoves` do for the lease and the mission, the safety half of the remaining
liveness properties: in every reachable state somebody can go on.

Not modelled and not planned: surfaces, clients of external services, the agent
loop itself (one sequential program driven by the answers of a model), and pure
functions over text such as policies, parsers and ranking.

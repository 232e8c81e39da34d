# Orcats in TLA+

Orcats runs coding agents as steps of a program. A flow asks a backend for a
turn, the backend starts or contacts an agent, a *conversation* streams the
agent's events and settles once, and loops repeat turns until a goal is met or
a guard gives up. A supervisor may fire a loop for every event of a source, and
the repository's own workflows let agents change a repository under gates that
decide what is kept. This directory holds TLA+ models of the parts of that system
where order matters, the TLC configurations that check them, and proofs of
their safety properties. Paths below are relative to the repository's `src/`.

## The system

| Component | State | Operations | Talks to | What is hard | Correct when |
| --- | --- | --- | --- | --- | --- |
| Event queue, `conversation/queue.ts` | items, parked pushes, parked readers, closed, whether iteration began | push, next, close | drivers push, the caller reads | a resolved promise resumes later, after other code; dropping before the first reader, waiting after | nothing lost, reordered or stranded; capacity kept |
| Conversation, `conversation/conversation.ts`, `settlement-reservation.ts` | outcome, abort signal, promise of cancel(), reservation depth and deferred settlement | succeed, fail, cancel, report failure of a cancellation, reserve, release | every driver settles one; reservations hold it back | several parties settle one conversation; cancel is asynchronous | one outcome, the strongest asked for, agreeing with cancel() |
| Subprocess run, `backends/subprocess-run.ts`, `subprocess-termination.ts` | timers, flags, the child, three ways to terminate it | spawn, read and consume lines, wait, time out, clean up | conversation, child process, the codex, claude and pi drivers | four activities race; the child may resist its signals | outcome after the exit, no success after a timeout, always an end |
| ACP client and run, `backends/acp-client.ts`, `acp-run.ts` | request table, closed flag, update queue, watchdog | request, notify, route, close, shut down, cancel | an ACP agent over stdio, the conversation | late answers, back-pressure in the read loop, shutdown against cancellation | a success has the agent's whole answer; every turn ends |
| OpenCode, `backends/opencode-run.ts`, `opencode-sse.ts` | shared server, one SSE stream per turn, deadline | start, prompt, consume, abort | an HTTP server shared by turns | a turn left behind by a timer; events of other sessions | only its own session ends a turn with success |
| Loop execution, `loop/execution.ts`, `termination.ts` | iterations, token counter, repeat detector | evaluate, decide, execute, record | everything that loops: builder, fix loop, review loop, plan | guards that depend on each other's order; state carried across cycles | stops for the right reason, reports the last state |
| Loop context, `loop/context/*`, `createManagedContext` | observations, last pressure | record: offload, append, compact | loop execution, scratch files | compaction of its own results | bounded; keeps what must stay |
| Fan-out and fan-in, `loop/fanout.ts`, `loop/engine/*` | branch outcomes | bounded parallel run, join policies | the Effect scheduler, the state store | failures, aborts and ties counted together | a join folds what its policy says |
| State store, `loop/state/sqlite.ts` | history, lease | open, load, checkpoint, heartbeat, close | one database file, other processes | two runners that find one lease stale; a live runner taken for crashed | one chain of checkpoints |
| Serve, sources and sinks, `loop/serve.ts`, `loop/firing.ts`, `loop/io/*` | live children, dedupe keys | start, fire, stop, emit | HTTP, Linear, child processes | redelivery, restart, stop against a request being received | one child per event, none after stop |
| Improvement workflow, `.orca/workflows/codebase-improvement*.ts` | worktree, index, commit, branch, pull request; scopes of the scout; report, record and its lock | preflight, scout, reproduce, implement, repair, review, verify, deliver, finalize; delivery continuations | coding agents, git, GitHub, a launcher, other processes | someone else writes to the worktree; crashes between two files; processes that contend for a lock file; lost answers of GitHub | what is pushed was verified, what is recorded is true, every process ends |
| Semantic control, in the same runtime | provenance of each variable of a test | read control and RED test, run both | the TypeScript compiler, a test runner | a construct whose effect the analysis forgets | an accepted test really observed production code |
| Cleanup workflow, `workflows/ai-slop-cleanup.ts` | working tree, HEAD, accepted paths | edit, judge, repair, restore, commit, publish | coding agents, git | restores that git refuses; files shared by groups | only judged content is pushed |
| Baseline gate, `baseline/index.ts` | snapshot, repairs | check, capture, repair, record | git, verification commands | commands that write; captures that fail | passes on a pass after the last repair; work is saved first |
| Loop builder and graph; review loop, `review/`; persistent plan, `plan/` | a definition, a task index | build, analyze, run tasks or reviewers | loop execution | partial failure | that of loop execution |
| Tools, CLI and runner, flow context, model, monitor, run output, launcher script, documentation checks | none of their own beyond a call | wrappers, parsing, rendering | operating system, remote services | - | unit tests |

`PROJECT.json` lists the same components with the source files of each and, under
`hazards`, what is hard to test in them, line by line. The components that are not
modelled are listed there as such, with the reason.

## The models

One step of every model is what the code runs between two awaits: JavaScript
runs it without interruption, and anything may run between two such steps.

**`BoundedQueue`** (`BoundedAsyncQueue`). `items`, `pushWaiters`, `closed` and
`iteratorStarted` are the fields of the class. A promise that has been resolved
has not yet resumed its awaiter, so a woken push waits in `wakes` and the
reader's answer in `reply`. `ahead` counts the wakes queued before the answer:
microtasks are FIFO, which orders those two and nothing else. `Push` and
`ResumePush` are the two entries into the body of `push`, and `TryPush` is that
body. `CallNext` is `next`, `DeliverReply` its continuation, `Close` is `close`.
Every producer is sequential and the reader is one `for await` loop, which is
how the repository uses the queue. **`EventChannel`** is the abstract
specification: a FIFO that may drop its oldest event only before its first
reader. `ImplementsChannel` states the refinement, with `reply \o items` as the
channel.

**`Conversation`** holds the operators of one conversation as functions from its
record to its next record, because a driver calls several between two awaits.
**`Settlement`** makes each call an action, in any order, with any holders of
reservations. **`OneOutcome`** is the abstract specification of the
`Conversation` interface: at most one outcome, and a `cancel()` that says the
same as it does. `KeepsContract` is the refinement. **`MCConversation`** puts the
two kinds of caller side by side: a behaviour has a backend that drives the
conversation (`AgentTurn`), or callers of whom nothing is assumed (`Settlement`).

**`SubprocessRun`** is one turn: `runSubprocessConversation` under its drivers,
composed with `Conversation`. `pc` names the await the run is at:

    prepare -> startup -> read <-> consume -> exit -> stderr -> finalize
    any of these, after a timer     -> awaitTimeout -> finalize
    finalize -> terminating -> stopping -> cleanup -> lateTimeout -> release -> done
    release, after an error         -> throwing -> done

`term` holds the up to three terminations of the same child (a timeout's, the
cancel hook's, the run's own), `child` the process group, `exit` the shared
promise of its exit. An await on `Promise.race` may continue with any promise
that has settled; the looks at the flags that follow are modelled one by one.

**`AcpTurn`** is `runAcpConversation` with its client. The run (`pc`), the
client's read loop (`client.loop`), the consumer of its update queue and the
cancel hook interleave, and a timer may fire between any two of their steps.
`client.reply` is the one request the run awaits: a late answer finds it gone.
The read loop waits for room in the queue, `Capacity`, before it reads on.
**`OpenCodeTurn`** is `runOpenCodeConversation` with the event consumer and the
start of the shared server. `pc` is the race against the wall clock and `turn`
the activity that the race may leave behind. The stream carries other sessions'
events too. **`AgentTurn`** is one turn of any of the three backends: a flow sees
the conversation only, so `KeepsContract`, `EveryTurnSettles` and `CancelAnswered`
are stated once, of all of them.

**`LoopExecution`** is `executeLoop` with `TokenBudgetCounter` and
`makeFingerprintStuckDetector`. `pc` goes evaluate, decide, execute, record and,
when a loop stops after a step, refresh. Every loop of the repository is this
one with other callbacks, so the callbacks answer as they please. `detector` is
the window with its map of counts; `proposed` and `spent` are histories that
say what those should amount to. A callback that throws rejects the promise of
the whole loop, which differs from `StepFails` only in the message.

**`ManagedContext`** is `record` of `createManagedContext` with `compact`. An
observation is its number, its cost in tokens and whether it is pinned; an
offloaded one costs what its reference does; number 0 is a summary. The context
a loop may be started with is left empty: it would be the first batch. The loop
and its context meet in the record step only, where the context takes any batch
and the loop learns whether that failed, so **`MCLoop`** follows each of them with
the other at its beginning.

**`StateStore`** is the sqlite store. `ReadLease` is the SELECT of opening and
`InsertLease`, `ReclaimLease` or `OpenRefused` what follows it, with anything in
between; `lease` is the row, `history` the checkpoints with the entry each
continues, `handle` a runner's connection. Two histories name runners: `lapsed`
those whose heartbeat was late once, `robbed` those whose row was overwritten by a
runner that had read another's, or that were left without one. **`FanOut`** is
`fanOut`, `storeBackedFanOut` and `fanIn` over `runBoundedBranches`.
**`LinearSource`** is the verification, normalisation, filtering and keying of one
request. **`LoopService`** composes the three: `serve` owns a trigger and spawns a
process per firing, each process opens the store, resumes, steps, may fan out,
closes and hands its output on; the supervisor may be stopped, or crash and be
started again.

**`ScoutFanout`** is `runScopedScoutFanout`: conversations that race one deadline,
and the controller that looks at their ends one at a time. **`ActiveWork`** is the
body of an improvement run, one action per stage of the workflow or per gate of a
stage: worktree, index and commits are each a content of the candidates' tests, of
the production code and of everything else. What the delivery asks of its commit
is three awaits of its own: `ValidateCommit` reads the name that will be pushed
and asks for ancestry and paths by that name, `CheckContents` reads the contents
of whatever HEAD names by then, `CheckWorktree` looks at the worktree again;
`Push` pushes the name. `Drift` is a bystander who, between any two stages, writes
to worktree or index, commits or amends, or goes back to the base commit.
**`Finalization`** is `finalizeWorkflowEvidence` with the actions the workflow
gives it; a publication is one rename guarded by what time is left.
**`DeliveryContinuation`** is a process of its own: it takes the record's lock (a
directory with the owner's name in it, judged stale by age and by whether its
owner lives; any number may contend for it), looks at GitHub, asks for a merge of
the locked head, confirms it, mirrors the verdict to the report and replaces the
record. It may crash anywhere. The history `stolen` is set when a rename takes a
directory that its process had not found stale (`judged`, a mark on the directory
itself). **`ImprovementSystem`** runs them together: a worker that crashes or is
killed, and continuations that share nothing with it but the files and the pull
request.

**`WorkflowGates`** chooses one of four gates. **`SemanticControl`** is the
analysis of a control and a RED test. The test is not given: each action is a
construct an author may write next, does what the analysis does to `states`, and
what the construct may do when it runs to `value`. A member access on a received
value is represented by the value it is made on: an observation of `result` in the
model stands for one of `result.member` too. **`CleanupWorkflow`** is the
sequence of files and groups with the judgement of each attempt by what git says,
the repair loop, restores, commits and the publication. **`BaselineGate`** is
`runBaselineGate` under each policy and `captureDirtyBaselineSnapshot`; uncommitted
work has four parts, of which the capture records three: the staged diff, the
unstaged diff and the names of untracked files, but not what is in them.
**`BoundedWait`** is `awaitBounded` under its two callers: the stages of the
improvement workflow, and `awaitOneTimeoutRetry`, which the runtime exports and
the workflow does not call at this commit. Time is a clock of ticks that moves
between any two steps, so that timers fire late.

## What is checked

| Run | Bounds | What it shows |
| --- | --- | --- |
| `queue` | 3 producers of 2 pushes, capacity 2 | `Conservation`, `NoStrandedPush`, the refinement of `EventChannel`; parked pushes return and close reaches everyone |
| `queue_reader_left` | 2 producers, capacity 1 | finding 1 |
| `conversation` | 3 reservations, each taken once; ACP: queue of 1, 3 updates | `StrongestOfferWins`, `CancelPromiseAgrees`, `HeldBack`, `OutcomeAfterExit`, `TimedOutNeverSucceeds`, `TerminationsAgree`, `SuccessIsReal`, the refinement of `OneOutcome`; what is asked is settled, every turn of every backend settles, every cancellation is answered |
| `loop` | 4 cycles, clock to 2, 4 actions with 3 fingerprints, default window; 5 observations, at most 2 a step, window 60 | `SummaryIsFresh`, `SeatbeltsHold`, `NoUnnoticedRepeat`, `ContextBounded`, `PinnedAndNewestKept`, `SurvivorsAreNewest`; a loop with a ceiling ends |
| `loop_budget` | 4 cycles, clock to 2 | finding 2 |
| `context_window` | 5 observations, window 60 | finding 3 |
| `service` | 2 processes, 2 deliveries, 2 supervisors, 2 checkpoints, 3 branches | `HistoryIsOneChain`, `StoppedIsQuiet`, `OneFiringPerEvent`, `JoinIsSound` |
| `lease_taken` | 3 runners, 1 checkpoint | finding 5 |
| `improvement` | 3 scopes, quorum 2, 2 drifts, 2 continuations | `AcceptedAreSound`, `PushedIsVerified`, `PassedReportIsBacked`, `MergeIsSound`, `ReportRepaired`; every process ends |
| `delivery` | 3 continuations | `OneHolder`, `AttemptsRecorded`, `ReportRepaired` |
| `delivery_lock_theft` | 3 continuations | finding 4 |
| `workflow_gates` | 2 variables, 2 entrypoints; 4 files and a new one in 3 groups, 1 repair, limits 2 and 4, 3 contents; 2 baseline repairs; waits of 1, 3 and 6 ticks | `AcceptedIsCausal`, `PublishedIsApproved`, `BaselineIsSound`, `GoesOnAlone` |

Why the bounds are enough. Three producers at a capacity of two let two pushes be
parked while a third takes the room that one of them was woken for, the one race
of the queue that needs three. Three holders are one more than the code has, and
let two releases leave one. An ACP queue of one fills at the second of three
updates, with the read loop waiting and one more to come. Four cycles exceed the
window of three, so a fingerprint leaves it and may come back, and two actions
share a fingerprint. The costs of the context's observations make each stage
happen, alone and after another, and make a budget come out at exactly the window.
Two processes are what the lease is about; a supervisor, its successor and what
the first left running need two of everything else; three branches are the fewest
with a majority against a minority, and a tie beside a failure. The code wants
three accepted scopes of at most four; two of three still leave a scope to be
cancelled once enough are accepted, and a candidate for the fallback. A bystander
may act twice, so it can change something and put it back, or write to the index
and then move HEAD. Of two continuations beside a worker one finds what the other
left; of three, one dies with the lock while two contend for it, or two leave
something for the third. Two variables let one be exact while the other is
overwritten, two entrypoints let control and RED test differ. Of the four files
two share a test in a group between theirs. Six ticks hold two attempts of two,
three hold one and leave too little for a second, one is too little to begin; the
settlement reserve of two is cut to one in the last attempt.

`CycleBound`, both `ClockBound`s, `MaxPush`, `Recordings`, `BatchSize`, `MaxUpdates`,
`MaxHistory`, `MaxDrifts` and the `incarnations` and `checkpoints` of
a setup are bounds of the models, not of the code. The ceilings of `loop` are all
below its `CycleBound`, so that `LoopEnds` is about the guard and not about the
bound. Symmetry is used where only invariants are checked (`workflow_gates`:
variables of a test, exports) or steps (`delivery`: continuations, which nothing
tells apart), and nowhere else.

What a property leaves out, it says. `StoppedIsQuiet` speaks of the processes
spawned before the children were gone through: a request that `serve` was already
receiving fires afterwards. `OneFiringPerEvent` is of one supervisor, and excepts
an event whose first spawn threw: it is remembered as seen. `HistoryIsOneChain`
excepts what is appended by runners whose heartbeat was late once, noticed or not,
and by runners that lost their row: a live one too, when another that had read an
older row overwrites it, which `sqlite.ts:22-25` does not allow for (finding 5),
or one that took a row that was gone by then. It also says that nobody loses a row
before somebody's heartbeat has been late. `PushedIsVerified` always claims that
what is pushed is one commit on the base with the candidate's own paths; that its
contents are the verified ones it claims unless HEAD was moved between the
`rev-parse` that names the commit and the `ls-tree HEAD` that reads the contents,
because an index written to before the commit is then compared in another commit
than the one that is pushed. `OneHolder`, `AttemptsRecorded` and `ReportRepaired`
hold until a rename steals a live lock (finding 4). `AcceptedIsCausal` excepts
tests that let a closure, or a result bound inside a call's arguments, out of
their hands, which the analysis does not follow, and admits a RED test that failed
in a statement after its assertion, because its record looks the same.
`GoesOnAlone` excepts a cancellation that did not settle, which the code reports
as an error of its own, and a wait that finds less than two milliseconds left: the
agent that its caller has just started is then not cancelled.
`PublishedIsApproved` excepts paths whose restore git refused (nobody looks at the
result), tests whose group was committed before they were accepted, and groups
that the limit left out. `BaselineIsSound` speaks of what the code records, part
by part, and counts a captured error text as unreadable; of the contents of
untracked files, which a repair may write over, it claims nothing. In each of
these cases the model does what the code does, and TLC finds the property violated
without the exception.

Type invariants, `CapacityRespected` of the queue and `GoalBeforeGuards` of the
loop are stated in the modules and proved (below); they are not among the runs'
properties, which are the ones that could go wrong.

Every property has a mutant in its module (`ResumePush_NoRecheck`,
`Release_First`, ...): a definition changed the way a plausible mistake in the
code would change it, with which TLC finds the property violated. Deadlock is not
checked: each of these systems ends, and the liveness properties say how.

### Fairness

- Queue: resolved promises resume, and a reader that stays in its loop asks
  again. No one has to push, close or start reading; `LeaveLoop` is never owed.
- Settlement: a cancel hook ends (both hooks are bounded by timers) and whoever
  reserved releases (each does so in a `finally`).
- Agent turn: promise continuations run (`Progress`, `RunProgress`), an armed
  timer fires (a termination's, a request's, the wall clock), a hook whose waits
  are over ends, and each termination takes its next step, because its waits
  have timers. Nothing is assumed of the agent, its server, its output or the
  caller. Of an ACP conversation's events it is assumed that a reader that has
  begun keeps reading: the update consumer otherwise waits in `emit` for good,
  which is finding 1 again.
- Loop: callbacks answer. `executeLoop` has no timer of its own, so this is an
  assumption; for an agent turn it is `EveryTurnSettles`. Nothing is assumed of the
  clock, and a loop without a ceiling is not claimed to end.
- Improvement: the worker's steps and every continuation's are weakly fair (the
  operating system runs live processes; each wait on an agent, on a command or on
  GitHub has a timer, whose firing is one of the step's outcomes). That a lock
  directory grows old, `LockAges`, is strongly fair: time passes also while a
  waiter is between its two looks. A process is taken to be faster than the 60
  seconds of `DELIVERY_RECORD_LOCK_STALE_MS` between `mkdir` and writing its name,
  and between reading a name and looking at the age.
- Service and gates: only safety is claimed.

### Findings

1. `queue_reader_left`: `iteratorStarted` is never reset. After a reader has
   left its loop, a full queue parks every push for good, although the comment
   in `push` says that without a consumer the oldest event is evicted.
2. `loop_budget`: one step that does not report its usage disables the token
   budget for the rest of the run. `docs/loops.md` says it cannot fire "for that
   cycle".
3. `context_window`: an observation that fits the window, but not together with
   a summary, leaves the context over the window, and can leave it larger than
   it was. The comment on `compact` promises the window unless one observation
   alone exceeds it. The default configuration has room for such an observation:
   it offloads above 8000 characters, and the window is 2000 tokens of four.
4. `delivery_lock_theft`: two waiters find the same dead owner's lock. One renames
   it away and makes its own; the other, which judged the old one, renames the
   new one away, and a third makes another lock beside the live owner. A test of
   the workflow is named for the opposite: "never reclaims a stale-looking lock
   with a live owner".

5. `lease_taken`: opening reads the lease and then takes it by an UPDATE that names
   no owner. Two runners that have read the row of a crashed third both take it,
   the second from the first, whose heartbeat was never late. The comment at the
   head of `sqlite.ts` says that a live foreign lease is refused at open, and a
   test that there are "no two active runners on one store".

Two more departures are no findings, because no run isolates them: a
continuation that ends at its deadline is not recorded, since the mirror of its
report throws first; and the file that a rejected cleanup attempt restores may be
one that an earlier attempt had accepted.

## What is proved

Every invariant, action property and refinement that a run above checks and
expects to hold is a theorem, for all values of the constants that satisfy the
named assumptions. TLAPS checks the proofs with Z3, Zenon and LS4. Each follows
one pattern: the property is strengthened to an inductive invariant, stated as a
conjunction of named parts, which TLC confirmed on the run's instance before it
was proved; each action preserves it by a step of its own; the last step is
temporal.

- **`BoundedQueueProofs`** (`CapacityAssumption`, `MaxPushAssumption`):
  `TypeCorrect`, `CapacityHolds`, `NoLostWakeup`, `NothingLost`,
  `QueueIsAChannel`. Neither the capacity nor the absence of stranded pushes is
  inductive alone. `IInv` adds that a parked reader excludes items and pending
  answers (`ReaderInv`: why a hand-over never overtakes an item), and that a
  parked or woken push has an event to add (`PusherInv`). `NothingLost` is then
  inductive relative to `IInv`: each step moves one event along `evicted \o
  delivered \o reply \o items`. In `QueueIsAChannel`, the refinement of
  `EventChannel`, a hand-over is a send and a step of the awaiter the receipt;
  `EndInv` (who is told the end has been given everything else) makes the end of
  the queue an end of the channel.
- **`SettlementProofs`** (any set of holders): `TypeCorrect`, `CancelAgreement`,
  `StrongestOffer`, `ReservationHoldsBack` and `Refinement`, that is `Spec =>
  KeepsContract`. The invariant says of the record, in four parts, that outcome
  and cancel() agree, that only a requested cancellation is deferred, that what is
  deferred is the strongest offer that still counts, and that a settled outcome is
  the strongest of all. It is proved operator by operator, so that an action that
  composes several is covered by their lemmas.
- **`AgentTurnProofs`** (any queue capacity, any number of updates):
  `TurnTypeCorrect`, `TurnTerminationsAgree`, `TurnOutcomeAfterExit`,
  `TurnTimedOutNeverSucceeds`, `TurnSuccessIsReal` and `TurnRefinement`. A driver
  calls several operators of a conversation in one step, so the lemmas of
  `SettlementProofs` are instantiated with a turn's two holders and chained
  (`Follows`: what any number of calls leaves as it was). `SubprocessInv` then
  says what each await has established: who reports the child stopped has seen its
  exit, the run holds a reservation from the spawn to its end, and a timeout that
  has begun holds another, has already reported its failure, or came after a
  cancellation, which is why a consumer that reads on after the timer cannot make
  the turn succeed. `AcpInv` counts the updates: used, queued, or in the read
  loop's hand.
- **`LoopExecutionProofs`** (`NoneIsNothing`, `Hash`, `OptionsTyped`, `Sizes`):
  `TypeCorrect`, `SummaryFresh`, `GoalFirst`, `GuardsHold`, `RepeatsNoticed` and
  `Seatbelts`. The detector's counts are exactly the occurrences in the last
  proposals (`DetectorRemembers`: a lemma on appending to and shortening a
  sequence carries it through every step), no count reached the threshold at an
  earlier proposal, and so asking about the newest fingerprint only is enough, for
  every hash, window and threshold. `Seatbelts` is about the sum over all of the
  history; the history grows by one step at a time, so that the invariant itself
  does the induction: a function of partial sums exists, and ends in what the
  counter knows.
- **`ManagedContextProofs`** (`WindowAssumption`, `CostsAssumption`):
  `ContextStaysBounded`, `WhatMustStayStays`, `TheNewestSurvive`. Totals and
  filters are shown to be the only functions that satisfy their equations and to
  distribute over concatenation; a compaction is the identity or one `Shape`: the
  pinned observations, stubs that fit or a summary under its cap, and a verbatim
  tail. `Survives` is the part that is not a property of a single compaction: the
  context is the end of what was recorded behind at most one summary, appending to
  both keeps that, and compacting keeps it because a summary is older than
  everything it stands beside.
- **`LoopServiceProofs`** (`StoreConstants`, `FanOutConstants`,
  `JoinRequestsTyped`; any numbers of processes, deliveries and branches):
  `StoreHistoryIsOneChain` of the store alone; `ServiceUsesTheStore`, that every
  step of the service is a step of the store or a stutter; and
  `ServiceHistoryIsOneChain`, `ServeTypeCorrect`, `ServiceStoppedIsQuiet`,
  `ServiceOneFiringPerEvent`, `ServiceJoinIsSound`. `StoreInv` says that a stale
  row's owner has lapsed, that the owner of an open handle that is neither lapsed
  nor robbed is the row's, that what was appended after the base of such a handle
  is by runners that have lapsed or were robbed, and that while no heartbeat has
  been late a runner that reads its own row still finds it there, which is why
  nobody is robbed before one is. `ServeInv` says that a serving supervisor tracks
  whatever it started, so that stopping reaches it, and that the dedupe keys it
  remembers are those of what it fired. The fan-in goes through the branches in
  order, which makes its recursions step-by-step: `FastestWins` and `VoteTallied`
  say of every prefix who leads and what the groups have come to.
- **`ImprovementProofs`** (`ScoutConstants`, `WorkConstants`,
  `DeliveryConstants`): `ImprovementTypeCorrect`, `ImprovementScoutsAreSound`,
  `ImprovementPushesWhatWasVerified`, `ImprovementReportIsBacked`,
  `ImprovementMergeIsSound`, `ImprovementOneHolder`,
  `ImprovementAttemptsRecorded`, `ImprovementReportRepaired`, and of the
  continuations alone `DeliveryMergeIsSound` and `DeliveryLockHolds`, all for any
  number of contenders. A verdict comes from GitHub and travels one way, so the
  merge needs no lock. The lock's invariant says that, until a theft, whoever is
  inside owns the directory or is about to put its name into it, that a directory
  that somebody has found stale, or is about to, is nobody's, and that one that
  does not name its owner yet is not old; so that a rename takes a dead owner's
  lock or is a theft. `WorkerInv` follows the stages: what a check has established
  holds of the manifest, which nobody else can reach, and of the commit that
  `validated` names, whose ancestry and paths are its own; that its contents are
  the manifest's holds as long as HEAD is that commit when they are read, and
  nothing is claimed of the worktree, which a bystander reaches at any time.
- **`WorkflowGatesProofs`** (`BaselineConstants`, `WaitConstants`,
  `SemanticConstants`, `CleanupConstants`): `GatesTypeCorrect`,
  `GateBaselineIsSound`, `GateGoesOnAlone`, `GateAcceptedIsCausal`,
  `GatePublishedIsApproved`. The gates have an invariant each. That of the
  analysis is that a variable whose state is exact holds that value unless
  something has leaked, and that the analysis reads on only where execution gets.
  That of the cleanup is that between attempts a path that was not accepted is at
  HEAD, or was refused by a restore, and that during one the tree it began with is
  still known. That of the bounded wait is that a second agent starts only after
  the first has ended, whatever the timers do late.

Model-checked only: liveness (`ParkedPushReturns`, `CloseReachesEveryone`,
`AskedIsSettled`, `EveryTurnSettles`, `CancelAnswered`, `LoopEnds`, `EveryProcessEnds`).
It rests on fairness, that is on ENABLED, which is outside the provers' reach. The
library's induction theorems take an operator as a parameter, which none of the
provers can instantiate; where a proof needs induction (`NaturalsAreInductive`) it
is made from `WellFoundedInduction`'s theorem that a set of naturals that is not
empty has a least element, with the set of the lengths for which the claim holds.

## What is not modelled

Within modelled components: the wording of events, messages, prompts and reports,
the splitting of output into lines and their decoding, the wire formats (a
consumer may return, throw or settle on any line), spawners other than the default
one on POSIX, two `next()` calls at once on one queue, which no code makes, and
usage totals. Of OpenCode, the server-side abort of a cancelled turn, which
nothing waits for and which may overtake its prompt, and the manager's shutdown.
Of an ACP client, the handler of the agent's own file requests. Of the fan-out,
what a branch function does after an abort (it is not interrupted). Of the state
stores, the snapshot store, which keeps its order in memory and no lease. Of the
sources, file watching and timers; of the sinks, those that are one remote call.
Of the improvement workflow, prompts, evidence rendering and the validation of a
candidate's fields, and the race of a scope's outcome with an event that is still
buffered; of the cleanup workflow, its report and token counts. The failure
signatures that both repair loops feed to their stall detector are an arbitrary
verdict, because the detector is in `LoopExecution`.

Whole components: the loop graph's analysis and the builder (a pure reading of a
definition, and `executeLoop`), the persistent plan (one file, one process, and
`executeLoop`), the Effect engine beyond its bounded branches (no caller), and
tools, CLI, model, flow context, monitor, run output, launcher script and
documentation checks: wrappers, parsers and renderers without state that
outlives a call.

## Plan

Modelled and checked: everything above. Proved: every safety property that a run
expects to hold. What is left, in the order of its worth:

1. An abstract specification of the store (a log whose writer is whoever holds
   the lease) and of the delivery (a verdict that is pending until it is final),
   with the two implementations shown to refine them.
2. Action properties of the long-lived files: a delivered record never becomes
   anything else, and no attempt disappears from it.
3. The lock of the delivery record with a rename that compares what it takes, and
   the lease with an UPDATE that names the owner it read: that findings 4 and 5
   then go away, and the exemptions with them.

## Running it

    tlc -config MCBoundedQueue.cfg MCBoundedQueue
    tlapm BoundedQueueProofs.tla

and likewise for the other modules; `PROJECT.json` names the module and the
configuration of each run. The longest run takes two minutes, a proof a few.

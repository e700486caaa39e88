# semdev in TLA+

semdev takes a GitHub issue to a pull request. An issue becomes a *run*: a
coordinator drafts an OpenSpec change, a human approves it on the issue thread,
a developer agent implements it task by task, deterministic floors and a reviewer
judge each attempt, a clean room proves the result and a delivery station pushes
the branch. Control lives in declarative JSON rules over a triple store; Go code
supplies tools (called by agent loops), stations (called by rules) and adapters
(called by GitHub events). This directory holds the specifications of that
control, their model checks and their proofs.

## How the system runs

Everything the parts know about each other is a set of triples on graph entities:
the *run*, the *loop* of each agent, the admission record of each issue. Four
kinds of actor write them, concurrently:

- the **rule engine** (semstreams, an external library): a rule fires when its
  conditions *become* true on an entity and not again before they have been
  false. What matched is kept in the bucket RULE_STATE. The actions of a firing
  run in order; each graph action is a revision of its own, every revision is
  evaluated again, and an action that fails is logged and the next one runs.
  `$entity...` values are those of the revision that fired. `add_triple` adds
  to a multi-valued predicate, as a set: an entry that is there already is not added again
  (in the release `go.mod` pins, beta.160:
  `openspec/changes/archive/2026-08-12-migrate-semstreams-beta160/design.md:217-219`,
  `test/e2e/parks_journey_test.go:198-201`, `docs/evidence-ledger.md:291`; what older
  change notes say of an unconditional append is of an earlier release). `publish` is core
  NATS, at most once; `publish_agent` starts an agent loop;
- **tools** (`internal/tools`), called one at a time by an agent loop, which is
  capped in iterations and whose terminal is written on its loop entity;
- **stations** (`internal/station`), one handler each, taking dispatches off
  core NATS with a bounded retry;
- **conversation adapters** (`internal/conversationchannel`) and **intake**
  (`internal/intake`), JetStream consumers with at-least-once delivery.

There are no locks between them, and no compare-and-set that spans a guard and
the write it guards: a write replaces its owner's whole group of predicates on an
entity (`graphown.Replace`; the revision fence below it covers one call), and
every guard is a read followed later by a write. Mutual exclusion, budgets and
exactly-once behaviour are made of marker triples and of the order in which a
rule's actions run. That is what the specifications are about.

## Inventory

| Part | State | Operations | Hard behaviour | Correct when |
|---|---|---|---|---|
| Exact commands and bridge (`approval.go`) | `run.change.decision`, `conversation.pending.*` | `releaseGate`, `bridgeNonCommand`, `stampDecision` | read-then-write decision; latest-wins slot; redelivery | a gate settles once, for what an authorized person asked on that gate |
| Apply consumer (`apply.go`) | the attempt of one dispatch, the thread | `handleApplyDispatch`, `handleDispatch` | announces before it stamps; retries from a new snapshot; restarts | the thread and the gate say the same |
| classify_intent | `conversation.intent.*`, the ledger | `Execute`, `stampIntent` | reads a slot others replace; replaces a ledger whole | a reading is attributed to the message that was judged |
| conversation rules 01-06 | marker, spend ledger, pending slot | spawn, route, release, notes | four-revision release; edge triggers; lost RULE_STATE | one classifier at a time, bounded spend, no silent stuck message |
| run-lifecycle rules 01-07 | `agent.run.phase` | offer, resume, cancel, park | phase moves race decisions and parks | each decided gate is left, each approved run starts |
| dev-from-task 03-08 | loop marks, `task.attempt`, verdicts | dispatch, floors trigger, eleven routes, deliver, park | rule exclusivity, provider faults, no-verdict reviews | one worker at a time, no dead end, bounded spend |
| Station base (`station.go`) | queue and handler | take, retry, `stampDispatchFailed`, stop | at-most-once delivery, panics, restarts | an exhausted dispatch reaches its park rule |
| apply_patch, measure_task, submit_review | checkout HEAD, `attempt.commit.sha`, `attempt.measurement.*`, verdict | `Execute` of each | commit and record are two writes; so are verdict and mirror | what is measured is what is recorded |
| floors, verify, delivery stations | mirrors, `run.verify.*`, branch, pull request, `delivery.pr.ref` | `RunFloors`, `RunVerify`, `Deliver` | idempotent replay, retries of a half-done push | what is delivered is what was proved |
| Checkouts and patcher (`runspace`) | the run's git tree, clones, warm sandboxes | `Apply`, `CloneForVerify`, `Up`/`Down` | re-provision during use | HEAD only moves by an accepted patch |
| Coordinator, agent-run, sandbox rules; provision, projection and validation stations | run identity, sandbox and task facts | mint, spawn, provision, validate, project | idempotent kick-off after lost RULE_STATE | one run and one coordinator per issue |
| Authoring tools (`createchange`, `hydratechange`, `writechange`) | the change's files and facts | `Execute` | files and facts written apart | the change validated is the one written |
| Poller and resolver (`poller.go`, `admission`) | cursors per thread | `tick`, `Resolve` | cursor pruned by an enumeration; several runs on an issue | no comment skipped for good |
| Intake (`intake`) | admission records | admit, publish | redelivery, crash between record and publish | no issue runs twice, none is lost |
| graphown | predicate ownership | `Replace`, convergent create | ambiguous writes | a retry converges |
| Clean room (`cleanroom`, `coldproof`) | containers, volumes | `Up`, `Exec`, `Down` | partial creation | nothing leaks |
| Standards (`standards`) | lesson records, per-run snapshot | synchronise, snapshot | partial synchronisation | converges on the declared set |
| openspec, floors checks, harness | none (pure) | parse, render, check | edge cases of text | parse and render agree |
| Boot (`internal/boot`) | open resources, rule pack, personas bucket | `NewRuntime`, `Start`, `Stop`, `SeedFragments` | a step that fails half-way; a release that hangs | a process serves what it loaded and closes what it opened |

The harness manifests, read-only tools, the HTTP side of the forge clients and the
mock model are I/O and test support. PROJECT.json lists every part with its files.

## The modules

    the run
      ChangeGate     <- implemented by -  GateDecision     - proofs -  GateDecisionProofs
      ClassifierLane   - instances - MCClassifierLane;       proofs -  ClassifierLaneProofs
      RunKickoff                                           - proofs -  RunKickoffProofs
      TaskAttempt    <- implemented by -  DevLoop, as      - proofs -  DevLoopShape,
                        DevLoopTurns shows it                DevLoopBaton, DevLoopProofs
    the services around it
      GroupStore     <- implemented by -  GraphWriter
      ChangeFolder  TaskSpecs                              - proofs -  RecordProofs
      FrontDoor  Poller  UserNotes  Boot
      Workbench  Standards                                 - proofs -  ServicesProofs
      Floors  OpenSpec
    compositions
      MCServices     every service, one per behaviour
      MCProgress     ClassifierLane and Poller under their fairness

The run's modules follow one issue: `RunKickoff` takes it from its wake to its first
developer and `DevLoop` from there to the pull request; `GateDecision` and
`ClassifierLane` look into the one step of it in which a human answers. The
services are what these steps stand on: how an issue gets in (`FrontDoor`), how a
comment reaches the gate (`Poller`), what the thread is told (`UserNotes`), how a
fact is written (`GraphWriter`), where code is built and measured (`Workbench`), by
which rules of the target repository (`Standards`), and what the free choices
of the run's modules really decide (`Floors`, `TaskSpecs`, `OpenSpec`,
`ChangeFolder`).

The services meet only through the graph and the run's files, and each module owns
its part of them. `MCServices` is therefore a sum, not a product: it extends the
services, whose names are chosen apart for that, and instantiates `Floors` and `OpenSpec`;
the variable `part` picks one of them at the start and the others rest, so that a
property of one holds there trivially. `ServicesProofs` and `RecordProofs` extend the
same modules and prove about each of them alone. `MCProgress` does the same for two components under fairness. What
is lost is a fault in one service during the work of another; each module has
that fault among its own (a failed call, a restart).

### GateDecision and ChangeGate

`GateDecision` is how the approval gate of one run is decided and left.

- *Exact commands*: `CommandGuards` is `releaseGate` up to `stampDecision`
  (authorization, resolution, phase, watermark); `CommandReads` and
  `CommandWrites` are `stampDecision`'s read and write. Whether a comment
  follows the gate's watermark is the constant `Fresh`: time is not modelled.
- *Apply lane*: `ApplyRead` (one snapshot; guards 1 and 2a), `ApplyAnnounce`
  (thread, re-authorization, the post keyed by decision and author),
  `ApplyRereads`, `ApplyWrites` (`stampDecision`), `ApplyCorrects`,
  `ApplyError` (retry from a new snapshot; exhaustion), `ApplyNotice`,
  `ApplyCrash` (restart and redelivery). The lane is serial, as its consumer is.
- *Rules*: `Route` fires 03a and 03b on each revision; `Fire(r)` and `Move(r)`
  split a lifecycle rule into its evaluation and its transition, since other
  writers get in between. `Move` respects the edges of the agent-run workflow.
- *Classify* is the environment: `ClassifierLane` shows what it may stamp.

`ChangeGate` is the promise in five actions: what authorized people asked for
only grows, the gate opens once, it settles for something asked, and only a
rejection that raced an approval may overrule it. `Gate`, `Asked` and
`writes > 1` are the refinement mapping; `SettledOnceAsAsked` is its `Spec`.

### ClassifierLane

The natural-language half of the same gate. A message value stands for a
comment's id, author and text; the slot, the marker and the ledger refer to it,
so the properties can tell when they disagree. `Bridge*` is `bridgeNonCommand`
split at its reads and write; `Spawn*` rule 02 with its three actions (its
snapshot is in `spawn`); `ReadPending`, `ReadDispatched`, `ReadLedger`,
`StampIntent`, `MirrorRecorded` are `classify_intent`; `Release*` are the four
removals of rule 04; `FaultNote` is rule 05; `Budget*` is rule 06. The spend ledger
`attempted` is the set of message ids that `add_triple` keeps; `used.again` is history: how
often each comment came again (`BridgeRepeat`: redelivered, or read again by a poller that
lost its cursor). The gate is left abstract (`GateNext`) and decided at will, which covers `GateDecision`.

### RunKickoff

From an admitted issue to its first developer, through three coordinators, an
author, the gate and three stations. Loops are spawned with a `kind`; what a
coordinator of that kind may decide is `Choices`: its allowlist, or the constant
`RouteActions` for the routing coordinator, which has none. The rules are spelled
out one definition per file (`Mint` is coordinator/01, `KickOff`
dev-from-task/02, ...), with their actions in `Does(r)` and the same engine as
`DevLoop`; the four steps of `mint` (run, anchor, spawn, marker) are one
`publish_agent`. `WriteChange`/`MarkAuthored` are `create_change`'s two
writes. `Validate` is `ReadDocument`, `Judge`, `StampValidated`; `Project` is
`ReadValidated`, `BindRevision`, `ReadTasks`, `StampSpec`: every read of the run is
a step of its own. `Provision` is `Materialize`, `ProveCold`, `StampSandbox`. A
document is its revision, a number; the oracle's verdict on one is fixed when
first given (`judged`), since it is a deterministic program. `DecideGate` is the
human, whose lanes are `GateDecision`'s. A restart empties queues, firings and
the process's sandboxes, and may lose RULE_STATE.

`torn` remembers that an author replaced the document between two reads of one
handler. Neither handler can notice that, and `FrozenIsValidated` excludes it; it
needs a second author, which only a lost RULE_STATE brings (coordinator/02 has no
marker).

### DevLoop

From the approved change to the pull request. The state is the run's facts, the
facts of each loop entity, HEAD and the forge. `Fire(r, e)` fires a rule on an
entity with its conditions `When(r, e)` and its actions `Does(r)`, run one at a
time by `AddMark`, `AddToRun`, `SpawnLoop` and `PublishDispatch`. The conditions
are spelled out per rule file (`RouteAdvance` is 06a, and so on). Tools:
`ApplyPatch`/`RecordCommit`, `Measure`/`RecordMeasurement`,
`SubmitReview`/`MirrorVerdict`. Stations: `Take`, `HandleError`,
`StampDispatchFailed`, `DropDispatch`; `RunFloors`; `CloneForVerify`/
`StampVerify`; `Push`/`OpenPR`/`StampPR`. What tests, floors, reviewers and clean
rooms decide is a free choice; which tree they looked at is remembered (`proof`).

Work passes as a *baton*: a live loop, a queued dispatch, a handler at work, or a
firing that will start one of these. `OneBaton` says there is never more than one.
It also justifies modelling `RunFloors` as one step: nobody else writes what it
reads.

### TaskAttempt and DevLoopTurns

`TaskAttempt` is the promise of `DevLoop` without rules, markers, dispatches or
handlers: the work has one holder (`turn`), which changes by a fixed table
(`Handovers`) until the outcome is a pull request (`Deliver`, from delivery's hands) or a
human (`Park`, from a firing that gives up). Only the developer's turn moves the
checkout (`Commit`), only delivery's the branch (`Publish`), and a pull request is
opened at most once. A mishap may lose the work, never hand it on; after mishaps of
two kinds anybody may have it (`Chaos`).

`DevLoopTurns` is the refinement mapping. `Places` names everywhere the baton can be,
also between two workers: a judged loop whose route has not fired yet, a verdict
on the run, a firing with actions left. `Party` says whose turn each place makes it, from
the facts alone: `RoutedTo` and `ReviewedTo` are what rules 06 and 07 should
do with a loop, written without their conditions, so that a rule which does something
else with it hands the work on outside the table. `Holder` is the party of the one
place taken. As long as no action failed the marks tell where that is; from the
first failure on RULE_STATE does, and `Turn` changes its source there. `WorkIsHandedOn`
is the `Spec` of `TaskAttempt` under this mapping. What it leaves to
`DeliveredIsProven` is *which* tree each party looked at.

### FrontDoor

Two doors into a run. The webhook: `Receive` is the host's delivery (and its
retries), `DeliverEvent` JetStream's; `DecideAdmission` is the admission order (event,
author, signal, permission with one forge lookup), `RecordAdmission` the strict create
under a content-derived identity, `ResolveByRef` the look for a run of the issue,
`Publish` the wake under a message id the stream deduplicates, `Ack`. Every call may
fail, land unheard, or be cut by `RestartIntake`; a copy is delivered `EventDeliver`
times. The
operator: `Snapshot`, `PublishLaunch`, `BindRun`, `StampCondition`. `RunStep` and
`StampRef` are the rules of `RunKickoff`, as far as the doors see them. `lapsed` remembers that a
wake left the deduplication window before it settled; `OneWakePerAdmission`
excludes that case, in which the code can start the issue twice.

### Poller

`Enumerate`, `ReadThread`, `NextCursor`, `Prune` are one pass of the poller over
one thread, from its in-memory cursor; the same comment may reach the adapter by
webhook instead (`lane`, at most `MaxDeliver` deliveries). `Resolve` is the
resolver's preference among the issue's runs, `Stamp` the decision with its
watermark, widened by `Skew`. What is a command for which run is fixed when it is
written (`of`). A restart loses cursors and what handlers hold.

### UserNotes

A request is published by a rule beside its facts, before or after them
(`PublishNote`, `ParkLands`); `ReadRun` is the component's guards on the run as it
is read, `NoteBody` the choice of text, `Post` the call, which may land unheard.

### GraphWriter and GroupStore

`Replace`, `Read`, `Write` are an attempt of the mutation client: read the entity,
write it back against the revision read. `WriteFails` leaves the request refused,
landed unheard, or `astray` (it may land later, `Deliver`). `Convergent`,
`Bound`, `GivesUp` are `graphown`'s table of failures another attempt
converges on. `RuleWrites` is the engine on the same entity. `GroupStore` is the
promise: a call sets its owner's whole group in one step that touches nothing else;
"ok" is such a step; a failed call may still take effect once, until the entity is
next written. `Loose` is the refinement mapping: the requests astray whose revision still
matches and whose call did not succeed. What the model also shows: a call retried
after an unknown commit may set a fact again that a rule removed in between.

### Workbench

Three workers over one docker: the provision station, the verify station and
measure_task. `CreateVolume`, `RunDetached`, `Rollback`, `CommandEnds`, `ColdDown`
are the runner's `Up`, `Exec` and `Down`; `Record`, `DownPrior`, `Ready` are the warm
registry and the readiness stamp; `Die` is docker losing a container, `Exit` the
process ending, `CloseAll` its orderly stop. A red verdict needs a command that
really exited: that is what `VerdictIsTheCommands` checks against containers that
vanish or are replaced under a command.

### Standards

Per repository a *law*, the content of its standards file, if it parses; the file may
also be absent, `Broken` (captured, then refused by the parser) or `Irregular` (a symlink,
not a regular file, outside the checkout or too large: refused before it is captured, so
on a second provision what an earlier one captured stays in force). `Take` starts a
provision and `Capture` captures the file; `CannotRead` is a failed read before
that. `Source`, `Birth`, `Promote`, `Retire` are the writes of one synchronisation,
each of which can fail or land unheard; `OperatorRetires` is a person. `Lookup`, `GateOf`
and `RunChecks` are the gate on an attempt: the captured file, the check it requires, and
its control and command. A lane that cannot be evaluated (nothing captured, a capture that does
not parse, no sandbox, a control that exits zero) is an error, never a file without checks.

### Boot

`Load` to `Start` are `NewRuntime` and its error tails, `SeedPersonas` the merge into a
bucket that outlives the process, `StopServices` and `Release` the stop, which
goes on although `StopAll` hangs.

### The pure parts

`TaskSpecs` is what becomes of `create_change`'s arguments on their way to `task.spec`.
`Floors` is the set of structural floors over abstract files (which is broken, a stub,
asserts, skips, fakes its target, hands its `*testing.T` on); `CanFail` is an
independent definition, by closed sets, of what `FuncAsserts` computes by recursion.
`OpenSpec` is the five parsers and renderers over lines by kind. `ChangeFolder` is
a change written over what an earlier write left: `BeginWrite`, `ClearSpecs`, then its
files in their order (`Order`, `IsNext`), any of which may fail.

## The runs

| Run | Question and instance | Shows |
|---|---|---|
| `classifier_safety` | three comments (one by a stranger), budget 2, three loop identities; one failed rule action or write, comment delivered again or loss of RULE_STATE; comments and loops are symmetric | one classifier in flight; at most Budget comments read, each paid once and once more per time it came again, and a note only for a refused message; whole slots dispatched; readings attributed to what was judged, and only to permitted authors; the ledger only grows |
| `classifier_loss` | two comments, one loop | **violated**: finding 3 |
| `gate` | one command, two readings by authors admitted or not, three faults (failed calls, restarts, commands delivered again), parks, all under fairness | the refinement of `ChangeGate`; the thread tells the decision and nothing is stamped before it is announced; a decided gate is left; an approved run starts |
| `gate_race`, `gate_diverge` | two commands; a reading and a command | **violated**: findings 1, 2 |
| `kickoff` | one issue, six loops, one fault of any kind: a failing call or handler attempt, a failed rule action, a dropped dispatch, an undecided loop, a restart with or without RULE_STATE; the routing coordinator may decide anything but development | the issue is worked on once; only validated tasks are frozen; development is cleared; the checkout is not replaced under it; a run at rest has a reason and its issue a reference |
| `kickoff_early` | the routing coordinator may decide development; no fault | **violated**: finding 5 |
| `dev_loop_safety` | two attempts, two commits, one trouble (failing call, failed rule action, dropped dispatch or restart, with or without RULE_STATE), stations that try twice | one baton, which a park takes; bounded developers; delivered tree proved; the refinement of `TaskAttempt` |
| `dev_loop_live` | two attempts, one provider fault, one failing call that exhausts a station | every run ends in a pull request or with its human |
| `dev_loop_drift` | two commits of which one is not recorded | **violated**: finding 4 |
| `services` | each service on its own instance, see below | what each service promises, under failed, unanswered and repeated calls and restarts; the refinement of `GroupStore` |
| `progress` | the lane with budget 1 (hence one loop identity), three comments of which one is older than the gate, one repeat, no fault; the poller with two runs, one comment, two failed calls or restarts | the lane reopens and leaves no pending message lying; a command on the thread is heard by its gate |

The properties of `services`:

| Property | Service and instance | Says |
|---|---|---|
| `OneWakePerAdmission`, `AdmittedIsServed` | FrontDoor: one delivery that the stream may hold twice, one launch, 3 deliveries, 3 wakes, 2 mishaps | one admission wakes once and nothing else does; an acknowledged admission left a wake or a run behind; a launch labels its own run unless another door raced it |
| `CursorPassesAnswered` | Poller: 2 runs, 2 comments, 2 ticks, 1 outage, comments polled (`progress` has the webhook too) | the cursor never passes a comment that met a fault |
| `ThreadIsTold` | UserNotes: 2 requests, 2 deliveries, 1 blip | no note contradicts the run as it was when asked for; a park that can be posted is |
| `ServesWhatItLoaded` | Boot: 2 rules with variants, 2 boots on one bucket | a process serves its own personas and one pack; a failed boot and a stop hold nothing |
| `VerdictIsTheCommands`, `NothingAccumulates` | Workbench: 2 cache homes, 3 containers, 2 provisions, one proof, one measurement, 2 faults | verdicts come from commands that exited; no container runs that nobody holds |
| `TheFileIsTheLaw`, `PassedMeansGated` | Standards: 2 repositories with a run each, 2 laws that share a standard, one push, 2 upsets | a finished synchronisation left exactly the file's standards; a pass ran the check of the file its run was provisioned under, which could be read for it |
| `GreenIsTested` | Floors: every patch and rewrite of three files | accepted production source has a committed test that can fail, or openly skips |
| `RoundTrip` | OpenSpec: every document of up to 4 lines | a rendered document reads back as itself |
| `FolderIsTheChange` | ChangeFolder: 2 capabilities, 3 writes, 2 failures | a successful write leaves its change and nothing of an earlier one |
| `FrozenAsAuthored` | TaskSpecs: up to 2 sections of up to 2 tasks, every value of a task's fields | a frozen task is what was authored; it is refused exactly when something was left out |
| `ImplementsGroupStore` | GraphWriter: 2 owners, 2 entities, 3 facts of which rules write one, 2 calls, 1 rule write, 2 flaws | Replace is an atomic set of the owner's group |

*Why the bounds are enough.* In the classifier lane two comments are needed for a
replacement between evaluation and reading and a third for an unauthorized
author; budget 2 with three loop identities leaves one more than there are comments to
read, so overspending is a reachable error, and so is a turn that a repeated comment does not
account for. In the gate an approval by command and readings of
either direction give every race of two decisions; that unauthorized and stale
commands decide nothing is in `GateImplementsPromise` for every set of commands;
`ApplyAttempts` and `MaxDeliver` are 2 where the code has 3 and (for dispatches) 10:
one retry and one redelivery distinguish first, repeated and last. In the
development loop budget 2 has a first, a retried and an exhausted attempt;
in `dev_loop_safety` `MaxLoops` is 7 because the coordinator and three developers with a reviewer each
(two budgeted and one that a lost append allows) need that many; `dev_loop_live`, where
no append is lost, reaches the same states with 6 as with 7. A station retries in
`dev_loop_safety` and gives up in `dev_loop_live`, where it tries once. The troubles of a
run (`Troubles`) and the upsets of a lane (`Upsets`) are bounded together, so the two
safety runs see one of any kind; their safety properties are theorems for any number. The provider
fault routes 06f and 06g are exercised by `dev_loop_live`; in `dev_loop_safety`
the allowance is 0, so a provider fault parks at once. In `kickoff`
the six loops are the front door, the router, two authors, the last coordinator and
the developer: one author more than a run without faults has, so a second router,
kick-off or developer fits as well. Two documents are what two authors write; a
handler is tried twice and may then give up with one fault.

In the services the retry bounds keep one repetition of each kind, and the fault
bounds two faults where the code answers a fault with a call that may itself fail
(a rollback, a retried synchronisation, a removal). Two concurrent copies of a
delivery are what JetStream redelivery makes of one; two runs of an issue are what
the resolver chooses between; two repositories and two laws are what one
synchronisation could confuse; four lines are a heading of each level with one line
below them. `MaxRepeats`, `MaxFaults` and `MaxLosses` (ClassifierLane) all bound the sum of
repeats, faults and losses, `MaxErrors` and `MaxMishaps` (DevLoop) that of failed calls
and mishaps. These and `MaxFaults`, `MaxReadings`, `MaxErrors`, `MaxLoops`,
`MaxPatches`, `MaxMishaps`, `MaxOutages`, `MaxBlips`, `MaxUpsets`, `MaxFlaws`, `MaxFails`
and the bounds on calls, boots, boxes, wakes and time bound the environment only.
Deadlock is not checked: a delivered, parked or cancelled run has nothing left to
do, comments run out, and a service may be left alone.

*Fairness.* The engine evaluates each revision and runs the actions it started;
consumers take what is queued and handlers return; tool calls return. Those are
weak. A loop's end is strong: the framework caps its iterations, however often a
refused call brings the model back. The poller's ticker ticks and its pass goes on,
and its consumers are delivered to (`Polling`, `Work`), weakly, as long as calls
work: outages are bounded, and a comment redelivered to exhaustion is only caught by
an outage-free delivery left to it, hence `MaxDeliver` 3 against two outages. No
fairness is given to people, faults, comments, the mint, validation, parks, or a
model's choice to act. In
`progress` and `dev_loop_live` no rule action fails, no dispatch and no RULE_STATE is
lost: the code has no sweep that would recover one (its own notes call that open),
and TLC shows that `LaneReopens` and `PendingNeverStuck` then fail; those hazards carry no
liveness property.

*Rest instead of liveness.* Every behaviour of `RunKickoff` is finite: markers and
matched rules are used up. "Something happens in the end" is therefore "what has
come to rest is right", and `QuietHasReason` says so of `Quiet` states without any
fairness. `Quiet` asks that no rule, loop, dispatch or handler can go on, so that
only a human or a fault could change the run.

*What a failed call means.* In the run's modules a call that returns an error has had
no effect. What happens to one that landed although its answer was lost is
`GraphWriter`, and `FrontDoor`, `UserNotes`, `Workbench` and `Standards` have it for
their own calls. It is not composed with the review loop or the gate.

*Faults.* `Faultless` properties of the classifier lane hold until a rule action
fails or RULE_STATE is lost: the engine's best-effort actions can leave a marker
unset, and the code accepts it. That readings cite only permitted authors who wrote
for this gate (the second half of `JudgedIsAttributed`) holds under all faults. In
`RunKickoff` and the development loop the markers hold against either kind of
fault, failed actions or a forgotten RULE_STATE; `OneKindOfFault` excludes both in
one run.

## What is proved

TLAPS checks these for every value of the constants that satisfies the assumptions
named in the modules: `LaneAssumption` (a `NoMsg` outside the messages, natural
bounds), `GateAssumption` (disjoint commands), `KickoffAssumption` (the router
has something to decide, among the actions there are; at least one attempt and one loop), `LoopAssumption` (a budget
of 1 to 5 attempts, as the projection clamps it, and natural bounds),
`WriterAssumption` (a contract per owner and entity), and those of the services:
`FolderAssumption` (a list of capabilities), `BootAssumption`, `UserNotesAssumption`,
`PollerAssumption` and `WorkbenchAssumption` (natural bounds and at least one delivery,
budgeted note or cache), `FrontDoorAssumption`
(a delivery is not a launch) and `StandardsAssumption` (a run has its repository, a law
its standards, and the values that stand for no file, an unusable one and "unknown" are no
laws). None of them is about behaviour.

| Theorem | States |
|---|---|
| `TypeCorrect` (both lanes, the development loop), `KickoffTypeCorrect`, `WriterTypeCorrect` | the type invariants |
| `NeverTwoClassifiers` | `OneClassifierInFlight` |
| `LedgerKeepsClassified` | `LedgerOnlyGrows` |
| `ReadingsAreAttributed` | `JudgedIsAttributed` |
| `DispatchedIsWhole` | `DispatchableSlotIsWhole` |
| `SpendIsBounded` | `SpendWithinBudget` of the lane: comments by the budget, turns by the repeats |
| `GateImplementsPromise` | `GateDecision` implements `ChangeGate` |
| `ThreadIsTrue` | `ThreadTellsDecision` |
| `FrozenWasValidated` | `FrozenIsValidated` |
| `DevelopmentStartsCleared` | `DevelopmentIsCleared`, if the router does not decide development |
| `WorkIsDoneOnce` | `WorkedOnce` |
| `CheckoutStays` | `CheckoutKept` |
| `RestingRunsHaveReason` | `QuietHasReason` |
| `OneBatonHolds` | `OneBaton` |
| `SpendIsBounded` (`DevLoopProofs`) | `SpendWithinBudget` of the development loop |
| `DeliveredHolds` | `DeliveredIsProven` |
| `WorkIsHandedOnHolds` | `DevLoop` implements `TaskAttempt` (`WorkIsHandedOn`) |
| `WriterImplementsStore` | `GraphWriter` implements `GroupStore` |
| `WakesOnce`, `AdmittedServed` | `OneWakePerAdmission`, `AdmittedIsServed` |
| `CursorHolds` | `CursorPassesAnswered` |
| `NotesHold` | `ThreadIsTold` |
| `BootHolds` | `ServesWhatItLoaded` |
| `VerdictsHold`, `NothingLeaks` | `VerdictIsTheCommands`, `NothingAccumulates` |
| `LawTyped`, `FileHolds`, `GateHolds` | the types of `Standards`, `TheFileIsTheLaw`, `PassedMeansGated` |
| `FolderHolds` | `FolderIsTheChange` |
| `FrozenHolds` | `FrozenAsAuthored` |

*The classifier lane.* `OneClassifierInFlight` is not inductive: it does not say what
keeps the next classifier out. `InFlightInv` adds that while a firing has passed
its marker action, and while any classifier lives between its birth and the end of
its release, the marker is set; and that a firing about to add the marker carries a
message. The spawn condition then refuses a second firing, and only the last step
of a release re-arms it. On it rest the other four. `LedgerInv`: what a classifier
has read of the ledger still covers it, so replacing it loses nothing. `CitedInv`:
the slot's author is that of its id or absent, because the bridge writes the slot
whole and the release only empties it; it needs no luck and holds under every
fault. `DispatchInv`: the slot is whole unless a release is emptying it, which
keeps the marker up; the marker names the prompt of whoever can still call the tool,
and the tool binds only an id that equals the marker. `SpendInv`: a firing past its
condition still fits the budget, and the prompt of every loop born is in the ledger, which
is never cleared. That bounds the comments, not the turns, for the ledger is a set; `PaidInv`
bounds the turns: the turns a comment has cost, and the places it may still cost one from (its bridge, the slot,
a firing of rule 02), are never more than one and the times it came again.

*The gate.* `GateInv`: before the gate nobody is past a guard
(`NobodyBeforeGate`); every handler past its guards carries a direction that was
asked (`HandlersGuarded`); a rule in `firing` was justified when it fired
(`FiringsJustified`); the decision that stands was asked (`DecisionAsked`). Each
step then maps to a step of `ChangeGate` or a stutter. `ThreadInv` adds what the
apply lane owes the thread: a last word that is not the decision (`Astray`) is still
about to be stamped or corrected by a lane past its post (`Pending`), which carries
what it posted (`PastPost`); a correction is about the one decision there is (`Corrects`).

*The kick-off.* `Owned` goes beside the types: what is left of a firing belongs to
its rule, so that an action can be told from its rule alone. `FrozenInv` carries the
oracle's verdict along: the revision a handler holds was vouched for, and between a
handler's two reads the document is still the one it read first, or the behaviour
is `torn`. `ClearedInv` says why an anchored loop that decides development is the
one the kick-off spawned: a loop decides once and only what its kind may
(`Choosing`), a front-door loop is anchored only by the mint it decided
(`Minting`); and the kick-off fires on a cleared run, which stays cleared because
neither decision nor frozen revision is ever undone. The premise of
`DevelopmentStartsCleared` is the gap of finding 5: `kickoff_early` shows that it
is needed.

`WorkedOnce` and `CheckoutKept` need to know why four rules act once: the mint, the
provision, the kick-off and the dispatch. Each writes a mark before it makes what
it is for. `Lineage` says where loops come from (`LoopFacts`), what a firing of a
rule implies (`RuleFacts`: an offer is pending only before the gate, so an approved
run stays in execution) and that a frozen document was written for a router that
asked for a change (`DocFacts`). `Once` says of each rule that a firing is held
against a second by the engine's memory or its mark, and by one that survives the faults
of this world once it is past the mark (`Guarded`); that there is one such firing
(`Alone`); that what it made is held too (`Backed`), is one loop (`Single`), or one
sandbox among queue, handler and run (`OneSandbox`); and that a kick-off finds its sandbox
ready (`Prepared`). The two worlds are those of the development loop, below. No
allowlist is assumed: a router that decides development itself never asked for a
change, so nothing was frozen, no kick-off fired, and its developer is the only one.

`QuietHasReason` is about the end of a run, so its invariant (`RestInv`) says at every
step what is still to come. As long as no action failed, a firing has behind it what its
rule's earlier actions wrote (`Tracks`) and a station's dispatch is about the loop or the run its
rule fired on (`Orderly`). As long as besides every restart emptied RULE_STATE, a rule
that matched is still firing, because its last action, or a mark before it, makes its
condition false (`Recall`); four rules, those in `Slow`, have conditions that outlast them.
And with no restart, whatever was started is due or its outcome is there (`Carried`):
the mint's loop, the author's document, a station's dispatch on its way, its stamp, or
its failure mark. For the validation that needs one author (`AuthorOnce`), so that the
document judged is the one on the run (`Settled`). In a `Quiet` state nothing is due, no rule that
is not slow holds, and `Carried` leads from the mint to one of the reasons
(`RestOffered` before the gate, `RestApproved` after it). The reference of the issue needs
`Orderly` and `Recall` only, hence its weaker premise.

*The development loop.* `Shape` (`DevLoopShape`) is the types and what the control
alone gives: the remaining actions of a firing are a suffix of its rule's list, a
handler holds a dispatch of its own station, a loop has the role of whoever spawned
it. `OneBaton` counts live loops, firings, queues and handlers, and no counting
argument is inductive: what matters is where the baton may come from next. So
`DevLoopBaton` names its places (`Places`): also a loop whose attempt ended and waits
for floors, one that was judged and waits for its route, a verdict on the run that
waits for its rule. `Baton` says that at most one of them is taken, that after the
clean room's verdict only delivery is left, and that a parked or delivered run has
none. A rule takes the baton from its place in two ways, and the two kinds
of fault break one each: the engine remembers that the rule matched, and the rule's
first action writes a mark that makes its condition false. Hence two invariants from one
definition, for two worlds: in "remembered" (nothing was forgotten) a place is closed
when its rule matched and every firing holds the baton; in "marked" (no action
failed) it is closed by the mark and a firing holds the baton only past its first
action, so that a rule fired twice writes the mark twice and passes one baton. `OneKindOfFault`
puts every behaviour in one of the two. `SpendWithinBudget` and `DeliveredIsProven`
rest on the baton. `Spend`: developers, and the one a firing still owes, are paid by
the ledgers and the failed actions (`Paid`); a firing that will still add to a ledger was
let through below its bound (`Allowed`), since what its loop was stamped with is the
ledger as it is (`Current`) while the baton keeps others from adding to it. `Proven`:
the recorded commit is the head except while a patch is being stamped (`Kept`);
whatever relies on a measurement has a green one of the recorded commit (`Earned`);
what is shipped was proved in the clean room at the same head (`Cleared`).

`WorkIsHandedOn` needs the baton and more of the state, since it says who holds it
(`Turned`). `Turning` adds to `Relay`, in the same two worlds: a firing and a mark of a
loop are there for a reason the loop still shows (`Grounds`); once a station's failure is
stamped, nothing but giving up is left (`Sounds`, with `Failed`), so the human's turn does
not end in another's hands; what an approval leads to finds that verdict still on the run,
or 08a would not match (`Sounds`, with `ApprovedPlace`); a verdict that was routed is not
replaced (`Closed`); a firing about to note its park has parked (`GaveUp`); and a pull
request exists before delivery stamps it (`Opened`). Each action then maps to a step of
`TaskAttempt` or a stutter, one lemma for each kind (`EngineStep` to `RestartStep`).
Where the first action is lost, the holder by RULE_STATE is the holder by the marks or
nobody (`SwitchTurn`): this is where the two worlds meet, and a case that testing would
hardly hit. RULE_STATE is lost at restarts only (`Counted`), so two kinds of
fault are two mishaps.

*The fact writer.* `WriterInv`: a call is in flight exactly while unanswered
(`InFlight`); no request carries the number of a later call (`Numbered`); what was
read at the entity's present revision is what it holds (`ReadsHold`), so writing
back changes the owner's group only; and a call that was answered "ok" has fenced
off its own earlier attempts (`OkIsLast`), so nothing of it is loose.

*The services* (`ServicesProofs`, `RecordProofs`). Each has one inductive invariant, and what each
needed beyond its property says where the code's safety lies.

- `DoorInv`: each step of the intake handler has the earlier ones behind it
  (`Handlers`), a wake follows its record (`Ordered`), and an admission that woke is
  `Fenced`: its wake is still deduplicated, or its run is there to be found and no
  concurrent copy is past the look for one. That the restart and the lost answer are
  harmless is this disjunction. A launch binds only a run it had not listed
  (`Bindings`).
- `CursorInv`: a batch is contiguous and begins right after what was handled cleanly
  (`InOrder`), and a thread that is polled has no webhook messages beside (`OneWay`).
- `NoteInv`: what held when a request was published stays so (`Honest`), since the
  spend and decision it depends on only grow.
- `BootInv`: what is open follows the steps, whichever step fails (`Held`), the pack is
  swapped before anything is wired (`Packed`), the personas come last (`Persona`).
- `LawInv`: while a synchronisation works its repository has not answered, and
  each standard no longer on its list is active unless an operator interfered
  (`Working`); a record that was born cites its source (`Sourced`), so retiring by citation
  misses nothing; a snapshot is lost or the file last captured for the run (`Snapped`), which
  together with the gate's refusal of a lost or unparsable one is why a pass means that the
  check ran.
- `BenchInv`: the container of a call that stands one up or proves in it is nobody else's
  (`Sole`), is new when it starts (`Fresh`), and does not run again once killed under
  a command (`Gone`), so an exit code that was read is the command's own (`AllFit`); what
  a failed start leaves running is known (`Watched`).
- `FolderInv`: while a change is being written, what is not waiting is as the change wants it
  (`Mended`), torn files of an earlier write included.
- `TaskInv`: until it is projected, the stored change reads back as what was supplied
  (`ReadsBack`). That is a fact about `FlattenSeq`, for the document stores texts and
  records apart and joins them by a flat index: an image of the sections flattens to the
  image of the flattened sections (`FlattenMaps`). It takes an induction over the sections,
  which is made by a least counterexample (`LeastElement`, `UpTo`) from the
  well-foundedness of the numbers.

*Model-checked only.* `GreenIsTested` (`Floors` has a
RECURSIVE operator, which the prover does not take); `RoundTrip`,
which would need nested inductions over the lines of five kinds of documents; and the
type invariant of `MCServices`, a sum of the services' of which `ServicesProofs` proves
what it needs. Liveness stays with TLC: the prover does not handle fairness and
ENABLED.

## Findings

Each is a run that must find its property violated.

1. `gate_race`: two exact commands pass `stampDecision`'s read; the rejection is
   written when rule 02 has resumed the run and development has not begun. The
   run is executing with decision `reject`, which no rule matches and no lane
   decides again. `approval.go:328` says "never a permanent wedge".
2. `gate_diverge`: an announced decision whose stamp failed is retried from a new
   snapshot; if a command decided the other way meanwhile, guard 1 returns
   silently and the correction is not posted. `apply.go:180` says the gate fact
   "can never diverge from what was announced".
3. `classifier_loss`: a message bridged after the classifier bound its own, and
   before the release, is removed from the slot while the classifier records its
   reading. Rule 04 says such a miss is surfaced by a fault; there is none.
4. `dev_loop_drift`: apply_patch commits and then fails to stamp
   `attempt.commit.sha`; its loop goes on. measure_task and the clean room see
   HEAD, the measurement is bound to the commit recorded before, and delivery
   pushes that one. `delivery.go:118` says the delivered bytes are exactly those
   that were measured and verified.

5. `kickoff_early`: rule dev-from-task/04 dispatches on any anchored coordinator loop
   that decided `dev_from_task`. Phase, decision and readiness are read by the
   kick-off (02), not by the dispatch, and the routing coordinator of
   coordinator/01 may decide anything. `openspec/specs/run-lifecycle/spec.md:126`
   says the action is not eligible before the approval. What keeps it out is
   the prompt.

## Observations

Behaviours TLC showed while the models were written, which no run of their own
states:

- One failed marker add at the first spawn lets a late release remove the second
  classifier's marker; a third classifier may then record the reading of one
  comment's text under another comment's id and author.
  `configs/rules/conversation/02-spawn-classifier.json` notes for such cases "never
  a false approval". Hence `Faultless` in `JudgedIsAttributed`.
- A comment whose classifier ended without a reading, and which then comes again, is
  dispatched again, and the spend ledger does not grow, since its id is in it: a paid turn
  that is not counted. Rule conversation/02 says that "every fire is a distinct authorized
  message" (line 85) and that the ledger "caps the gate at N=3 paid turns" (line 90); it caps the
  distinct comments. `SpendWithinBudget` fails without its term for the repeats.
- One comment may decide the gates of two runs of an issue, one after the other: read
  again after the first run has left its gate, it resolves to the second, whose
  watermark the clock skew lets it pass. `poller.go:17-20` calls a re-read "a no-op
  against the core's alreadyApproved guard", which is so for one run.
- When the admission record exists and no run does, the wake is published again
  (`intake/component.go:441-468`); the comment at `intake/record.go:70-77` still says
  that the caller skips it. Doubles are absorbed inside the deduplication window only.
- A launch that overlaps a webhook may label the webhook's run
  (`launch/launch.go:118-121`, `148-153`): `Raced` in `AdmittedIsServed`.
- `docker run` may create the container and then fail; `Up` rolls back the volumes only,
  while `cleanroom/container.go:121` says that "nothing leaks". And a re-provision
  removes the old checkout while the old warm container may still measure in it,
  where `runspace/sandboxes.go:20` says "never a stale copy".
- A boot whose connection never becomes ready leaves its client unclosed
  (`unconnected` in `Boot`).
- The floors index helpers by name alone and credit an assertion under a constant
  condition unless it is a failing call (`Floors`).
- An indented heading is prose on the first reading and a heading on the second,
  so `RoundTrip` holds at once only without one, and from the first rendering on with one.

## Not modelled

The engine, the agent loops, NATS, GitHub, git and containers are external; the
modules hold what the code relies on. Texts (findings, notes, prompts, the prompt of
`hydrate_change`) are left out. Not modelled of the repository:

- harness manifests: detection and parsing of declarations, pure and stateless; what
  they refuse is a fault of the steps in `Workbench` and `Boot`;
- the parsing of unified diffs and the path guard: pure refusals before
  `ApplyPatch`'s first effect; the shell words of `gates.go` likewise;
- read-only tools: they change no state;
- the HTTP, pagination and git calls of the forge clients, image builds, and
  configuration, metrics and health of the components: I/O;
- mock models, the experiment's fixtures and the conformance tests: test support;
- run-lifecycle/04 (archive): disabled in the repository.

## What is left

The run's modules, the services and the proofs above are complete as described. Not done:

1. The full type invariants of the services that prove only a part of theirs (the front
   door, the poller, the notes, boot and the workbench).
2. The unheard write of `GraphWriter` composed with `DevLoop`'s verdict mirror and with
   the gate's stamp; the torn reads of `RunKickoff` without their exclusion.

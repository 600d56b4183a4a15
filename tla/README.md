# A TLA+ verification project for JourneyMap

JourneyMap is a deterministic, single-threaded simulation research platform. A
kernel commits scheduled inputs and actor actions against a logical clock;
modules of the simulated village hang their handlers on it; actors observe and
act through ports of a session; trial runners let scripted or language-model
controllers play, and audits recompute afterwards what happened from the
exported trace. There are no threads. What makes the program hard is control
flow that leaves in the middle: every handler, subscriber, projector and
provider may raise, a timed action lets other inputs commit in its middle, a
request may come again after its first submission failed at any point, and the
process that writes a journal may die between two lines.

Paths below are relative to `src/src/journeymap/` unless they start with `docs/`
or `tests/`, which are under `src/`.

## 1. The system

| part | state | operations | used by / uses |
|---|---|---|---|
| simulation kernel, `core/kernel.py` (with `core/run.py`, `scheduler.py`, `handlers.py`) | status, clock, event and transition sequences, RNG, world state; heap of scheduled inputs; event log, action results, outcomes of inputs; the guard `_transition_active` | `boot`, `close`, `schedule`, `advance_to`, `submit_action` | calls handlers and, through the bus, subscribers; called by the session, the trial runner and the replay |
| event bus, `core/events.py` | ordered subscriptions | `publish` | called inside the kernel's call, after the commit |
| deterministic RNG, `core/rng.py` | a state of 64 bits | `next_u64`, `randbelow`, clone and restore | drawn from by handlers, committed by the kernel |
| module registry, `core/modules.py` | registered modules | `register`, `validate_dependencies` | filled by the composition root, validated by `boot` of the kernel, which keeps a reference to it |
| game session, `application/session.py` | reserved request identities, traces, observation history, `_busy` | `observe`, `submit` of the port of an actor | calls projectors, contributors and `kernel.submit_action` |
| world modules, `modules/{movement,survival,inventory,trade}` | positions and routes, pressures, quantities, balances and offers | one handler per action type: `validate`, `prepare`, `validate_completion`, `resolve`; the survival tick | handlers of the kernel |
| Alderwick scenario, `scenarios/alderwick` | the bridge, the fixture, the schedule | the collapse of the east bridge, its witnesses | input handler; what witnesses know reaches knowledge |
| knowledge and social, `modules/knowledge`, `modules/social`, `application/social.py` | a ledger of records, projected from the complete log at every read | ASK, INFORM, REQUEST, claim validation, projection, the controller of the NPCs | observations and the content check of `submit` |
| event memory, `adapters/event_memory.py` | archived traces, the open opportunity | begin, close, context for a decision | language-model controller |
| language-model adapters, `adapters/llm.py`, `provider.py` | exchange records | `decide`, `close` | trial runner; provider |
| trial runner and audits, `experiments/alderwick.py`, `experiments/event_memory.py`, `experiments/inclusion.py` | budgets, schedule of turns, stop reason | trial loop, export, assessment of the memory, admission of a trial without memory | everything above |
| Distinct Places trial and audit, `experiments/memory_horizon.py`, `memory_horizon_audit.py` | the same, and the metrics of the task | `run_trial`, `summarize`, `assess_trial` with its own run of the record | a session, a model, the replay |
| pilot trial, `memory_horizon_pilot.py`, `pilot_journal.py`, `memory_horizon_pilot_audit.py` | the journal of a trial, its export | `run_mock_trial`, `append`, `inspect_trial`, `audit_export` | a session, a provider |
| study allocation, `memory_horizon_study.py` and the batches of `memory_horizon_pilot.py` | a manifest of allocations, directories of batches | `run_preflight`, `add_replacement`, `validate_cohort`, `inspect_cohort`, `audit_cohort` | the pilot trial |

How they interact. A controller's turn is `observe`, `decide`, `submit`. The
session checks authority, reserves the request's identity, checks the content of
social requests against what the actor knows, and enters `submit_action`. The
kernel advances to the submission time (which may execute scheduled inputs),
validates, elapses the duration (which may execute more), validates again,
resolves, commits and publishes. Any callback may raise; the exception travels
through all of these layers, and each has something to restore, keep or release
on the way.

What makes each part correct:

* kernel: committed time never passes a pending input, each input is executed
  once, earliest first, numbers are without gaps, a failure restores exactly
  what the failed step changed, the RNG moves with commits only, subscribers see
  the log in order and once, calls end;
* session: one execution per identity, one answer per request, the answer of
  whatever committed recoverable, authority before the engine, an observation
  history that is ordered and shows an actor only its own receipts, no port
  left locked;
* world: nothing is crossed, bought or eaten that the world at completion does
  not allow, goods and money are conserved, modules that keep two sides of one
  truth agree, ticks inside actions are not lost;
* pilot trial and journal: an intent is on disk before its effect, nothing
  happens after a row was lost, the horizon is not passed, evidence of failures
  survives, and the readers verify exactly the complete and truthful trials;
* study allocation: every manifest that is handed out can be used again, a directory
  tells what was begun and what was finished, and the audit of all batches verifies
  a manifest exactly when nothing was executed that it does not show; no arm is tried
  again until it has an outcome that pleases, and every outcome in a manifest is backed by
  a directory;
* event memory and offline trial: a decision is delivered the latest experiences that
  were over before it and nothing else, attempts belong together exactly when the
  actor saw the same and experienced nothing between them, a trial stops where and
  why its record says, and the audit finds that record correct however it ended;
* knowledge: what an actor holds it saw or was told by one who held it, the news of the
  collapse is never ahead of the collapse, the log can always be projected again and
  yields the same, an inquiry comes to an end;
* Distinct Places: the metrics measure what the task asks for, and the audit's own run
  of the record ends as the trial did;
* registry and boot: a run starts only on modules that can be put in an order of their
  dependencies, a boot is refused for them only when they cannot, and no run starts on
  a cycle whatever is registered after the refusal;
* RNG: a draw that favours no number of its range.

The hazards of the code, each at its line and with the properties that would
catch it going wrong, are listed under `hazards` in `PROJECT.json`.

## 2. Modules

    Timeline  <- Kernel  -> Engine        (Kernel implements both)
                 ^   ^         ^
      KernelProofs   MCKernel  Session    (Session is built on Engine)
                               ^    ^
                    SessionProofs   MCSession
    Kernel, Registry <- Boot <- KernelProofs
    MCKernel, Rng, Boot <- MCKernelTimeline
    Timeline <- World  (World implements it)
                ^   ^
      WorldProofs   MCWorld
    Knowledge <- Social -> Hearsay        (Social implements it)
                 ^   ^
      SocialProofs   MCSocial
    Pilot <- PilotAudit <- PilotProofs, MCPilot
    Cohort -> Study                       (Cohort implements it)
    Cohort <- CohortProofs, MCCohort
    EventMemory <- Trial <- Inclusion <- TrialAudit <- TrialProofs, MCTrial
    Places <- PlacesAudit <- PlacesProofs, MCPlaces

| module | models |
|---|---|
| `Timeline` | abstract: what the kernel promises of time, pending inputs and committed transitions |
| `Kernel` | `core/kernel.py`, the scheduler's order, the run's counters, `EventBus.publish` |
| `Rng` | the SplitMix words and `randbelow` of `core/rng.py` and `core/run.py`, at a small width |
| `Registry` | registration and `validate_dependencies` of `core/modules.py` |
| `Boot` | registrations and boots, refused, failed or successful, up to the start of the run of `Kernel` |
| `Engine` | abstract: what a caller of `submit_action` may rely on |
| `Session` | `application/session.py`, the observation history, the request fingerprint |
| `World` | the handlers of MOVE, WAIT, REST, CONSUME, BUY, the survival tick and the collapse, under the timeline |
| `Hearsay` | abstract: how news may spread |
| `Knowledge` | the ledger, the rules for what is seen and told, and their projection, as operators on a log |
| `Social` | ASK, INFORM and REQUEST, the content check of the session, the controller and the script of the NPCs, players, the collapse |
| `Pilot` | `run_mock_trial` of `experiments/memory_horizon_pilot.py`, `AttemptJournal`, the mock provider and `PilotController` of `adapters/memory_horizon_live.py` |
| `PilotAudit` | `inspect_trial`, `reconstruct` and `audit_export` of `experiments/memory_horizon_pilot_audit.py`, `admission`; the properties of both |
| `Cohort` | `run_preflight`, `add_replacement`, `validate_cohort`, `inspect_cohort` and `audit_cohort` over trials that are opaque |
| `Study` | abstract: what a cohort promises to whoever reads its manifests and directories |
| `EventMemory` | the archive of `adapters/event_memory.py` and the recency selection, as operators on an archive |
| `Trial` | `run_trial` of `experiments/alderwick.py` with event memory and without, `run_controller_turn`, `decide` of `adapters/llm.py` |
| `Inclusion` | `assess_inclusion` of `experiments/inclusion.py`, as operators on the record of a trial |
| `TrialAudit` | `assess_event_memory` of `experiments/event_memory.py`; the properties of the trial |
| `Places` | `run_trial` of `experiments/memory_horizon.py` with `decide` of `adapters/llm.py` |
| `PlacesAudit` | `summarize`, the replay of the submitted actions and `assess_trial`; the properties of both |
| `KernelProofs`, `SessionProofs`, `WorldProofs`, `SocialProofs`, `PilotProofs`, `CohortProofs`, `TrialProofs`, `PlacesProofs` | theorems |
| `MCKernel`, `MCKernelTimeline`, `MCSession`, `MCWorld`, `MCSocial`, `MCPilot`, `MCCohort`, `MCTrial`, `MCPlaces` | instances for TLC |

Operators whose comment starts with "Fault" are not part of the specifications.
Each is a variant of the definition that follows it as a plausible mistake would
have left it; with the variant in place the property named with it in
`PROJECT.json` (`mutants`) is violated, which shows that the property depends on
that code.

### Kernel

One action is the code between two callbacks. `pc` says which callback is
running: `dispatch` is `resolve` of an input's handler (with `validate` before
it), `validate`, `completion` and `resolve` are the action handler's, `publish`
is a subscriber. `purpose` is the return address of the innermost `_advance_to`
or `publish`. The other variables of the frame are the Python locals of the
call. Correspondence:

| code | action |
|---|---|
| `boot`, `close`, `schedule` | `Boot`, `Close`, `Schedule` |
| `advance_to`, `submit_action` up to the arrival advance | `AdvanceTo`, `SubmitAction` |
| loop head of `_advance_to`, clock set to the due time, RNG cloned | `BeginDispatch` |
| `except` of `_dispatch_system_event`: clock restored | `DispatchFails` |
| commit of an input, its removal from the heap | `CommitSystemEvent` |
| end of the loop, by return address | `FinishAdvance`, `FinishArrival`, `FinishElapse` |
| REJECTED and FAILED results, any other exception | `RejectAction`, `FailAction`, `AbortAction` |
| `prepare` and the duration | `BeginElapse` |
| `resolve` and its commit | `BeginResolve`, `Draw`, `CommitAction` |
| `EventBus.publish` | `Deliver`, `DeliveryFails`, `Published` |

Mutation calls from inside a callback are not excluded by the model: their
actions stay in `Next` while a call is active, and only the code's own guard
(`EnsureNotTransitioning`) keeps them out. `Boot` has no such guard in the code
and none here; that the dependencies must be in order is added by `Boot`, below. Handlers
are free: they may raise, draw from the RNG, and emit
any sequence of event types. The RNG is the number of draws. World state is left
out because the kernel only replaces it as a whole, at the same moment as the
RNG.

### Rng

`Rng` has no state: it is what a draw is, while the kernel's model counts draws: the
word of a state, the stream of a seed, and the words that `randbelow` takes. The code's
width of 64 bits is a constant.

### Registry and Boot

`Registry` has no state either: `ValidateDependencies` is `validate_dependencies` of what
is registered, an error or an order; `Resolved` is the set that its loop has grown after
so many passes. The kernel discards the order and starts no module, so that all a boot
takes from it is whether it raises. `Boot` puts this before the kernel: the kernel keeps
the registry by reference and nothing freezes it, and a `boot` that raises leaves the run
CREATED, so that modules may be registered between one boot and the next, as
`tests/test_resource_architecture.py:72-82` does between two validations.

| code | action |
|---|---|
| `ModuleRegistry.register` | `Register` |
| `boot`, the dependencies refused | `BootRefused` |
| `boot`, `persistence.initialize` raises | `StoreFails` |
| `boot`, to the end | `BootStarts` (which is `Boot` of `Kernel` under the condition) |
| every call after it | `Started` (`Next` of `Kernel`) |

`refusals` is a history variable: the errors that boots have raised. It, and what is
registered, are dropped at the start, since no later step depends on them; registrations
after the start are therefore not modelled (`module_ids` alone would show them).
`BootIsOrdered` compares the loop with a definition that knows nothing of it: some list
of the modules has each after what it depends on. Versions of modules and texts of errors
are left out.

### Engine and Session

`Engine` is a small state machine: a call may be accepted, time may pass, the
result is recorded, and the call returns or raises before or after that.
`Kernel!ImplementsEngine` shows, by TLC and by proof, that the kernel keeps it
(`settled` is `purpose = "commit"`, time is the committed time), so `Session` may
use it in place of the kernel.

In `Session`, `pc` is `observe` while contributors run, `check` while the content
of a request is examined, `engine` while `submit_action` runs. `SubmitConflicting`,
`SubmitAgain`, `SubmitDenied` and `SubmitFresh` are the four ways through
`_submit`; `DenyContent`, `FailKnowledge`, `UnknownAction`, `EngineReturns` and
`EngineFails` the ways out of `_execute`. `shown` is not in the code: it records
the last receipt a port returned to its actor, so that `LastReceiptShown` can
compare what an observation repeats with what was really said.

Abstractions: the content of a request is its record (two requests with one id
differ in another field, so the fingerprint is the request itself and the actor);
the reasons a handler gives are one value, `RESOLVED`; the observation's content
is its actor, its time and the last receipt; envelope validation
(`INVALID_REQUEST`) and calls refused by the guard change nothing and are left
out. The owner of the kernel advances and closes it only between port calls:
the runner is on the same thread and the kernel's guard refuses it during one.

### World

The handlers of four modules and the scenario share one record, `world`. An
action in progress is `action`: the request, its timing, and what `prepare` kept
in `timing.data` (the route's two ends of a MOVE, the whole offer of a BUY).
`Begin` is `validate` and `prepare`, `Complete` is `validate_completion` and
`resolve` with the commit, `Fail` is a FAILED result. A REJECTED request changes
neither world nor time and is the absence of `Begin`. `Execute` is a scheduled
input, `ExecuteFails` one whose handler raises: the collapse of a bridge that is
already down. An advance of the runner that meets such an input raises too and
changes nothing, so it needs no action. `history` keeps the committed
transitions with the facts their events carry, so that properties can compare
the world with what was emitted.

The village is reduced to places, roads and items that the configuration names.
`TestReplace` is an input that replaces the offers, as
`tests/test_resources.py` (lines 287-326) schedules it to test a purchase whose
offer changes: it stands for any module's input that changes offers. Reasons for
malformed state tables are left out: the constructors build well-formed ones and
`WorldAssumption` says so. That an actor makes only requests the session lets
through is the session's part; here any request of the set may come.

### Hearsay, Knowledge and Social

`Knowledge` has no variables: an event is its position in the log, a record stems from
an event, and `Rebuild` is the projection of a whole log, with the validation of the
ledger at each step. `Social` carries what it yields along in `known`, event by event;
that both agree is a property (`RebuildsAlike`), because the code projects the complete
log again at every read.

| code | action |
|---|---|
| an NPC's activation: `observe`, `SocialNpcController.decide`, `submit` | `Turn` with `View` and `Decision` |
| a player's `submit`, on any observation it was ever given | `Play` with `Shown` |
| `validate_claim`, start checks of the handlers | `Accepted` with `Entitled` and `Possible` |
| the collapse, as the kernel reaches it inside an action or in an advance | `Collapse` |
| completion checks, the event and its commit | `Complete`, `Fail` |

A topic is the pair of a subject and a predicate. The text of a request, malformed
payloads and the order of records in an observation, apart from the one the controller
depends on, are left out. A player tries any topic, any claim of anybody and any event
as the question it replies to, and the session lets some of it pass. The world is
reduced to positions and the bridge; food, money and hunger do not meet it.

### Pilot and PilotAudit

`Pilot` is one trial. `pc` is the kind of the row that is about to be appended, or
the name of the step between two appends; `Record` is `append` that returns, and
`After` says where control goes then, so that the order of rows is the order of
the code and nothing else fixes it. `RecordFails` is `append` that raises: nothing,
a part of the line or the whole line is in the file. From inside the provider the
exception is swallowed by the turn and raised again when `journal.failed` is
found set; from everywhere else it propagates; nothing happens in between, so
both are one step. `Crash` is the death of the process at any point. What
survives is `journal`, `torn` (an unterminated record) and `snapshot`.

| code | action |
|---|---|
| `while` and the bounds | `Leave`, or else `BeginTurn` with `observe` and the start of `decide` |
| `RecordingMockTransport.send` | `Send`; the answer is any of `Outcomes` |
| classification in `decide` | `Parse` |
| `submit` up to the intent | `Submit`, with `Precheck` for `protocol_precheck` |
| `game.submit` | `Engine`, `EngineFails` |
| after `decision_finished` to the end of the loop's body | `Conclude`, with `Stalled` and `StopAfter` |
| export, digest, last row, `trial.json` | `Seal`, `Record`, `WriteSnapshot`, `WriteSnapshotFails` |

An answer names its failure, or the duration and the status its action will
have: the world of the pilot is deterministic, so the auditor's engine gives the
same. `sent` and `entered` are not in the code: they count what went out, for the
comparison with what is on disk.

`PilotAudit` has no variables of its own: the readers are operators on the disk,
evaluated in every state, hence at every moment of a running trial and after every
crash. `Replayed` is one round of `reconstruct`'s loop, folded over the exported
decisions; `Reconstructs` compares the rows it expects with those of the journal.
The audit has no clock, so `StopAgrees` takes a claimed timeout for any bound that
may have been true as well, if the elapsed time supports it.

Left out: the comparison of worlds, prompts, archives and metrics that follows
from equal decisions, and the replay of the engine's inputs; a complete row whose
seal is wrong, which no failure of the writer produces.

### Cohort

`manifests` is everything the researcher has obtained: the frozen plan, and what
`run_preflight` and `add_replacement` returned. Both may be applied to any of them,
at any time when no batch runs. `batches` are the directories, each with its plan,
its journal, its exported trials and its final snapshot. `pc`, `current` and `at`
are the locals of `run_preflight`; they vanish when it is left, so that an
interrupted batch has its directory and nothing else.

| code | action |
|---|---|
| `add_replacement` | `AddReplacement` |
| `validate_cohort` and `mkdir` | `RunPreflight` |
| `cohort-plan.json` | `WritePlan` |
| the journal is opened, `cohort_started` | `AppendCohort` |
| head of the loop, `allocation_started` | `StartAllocation` |
| `run_mock_trial`, `audit_export`, `allocation.update` | `RunTrial` |
| `allocation_finished` | `AppendFinished` |
| `cohort-final.json`, `return` | `Finish` |
| an exception, or the end of the process, at any of these | `Interrupt`; `Cut` is what it leaves of the write under way |

A trial is what `audit_export` says of it, any of `Assessments`, and a record of the
plan and allocation it was run for. The digest of the record in a row is the record
itself. An allocation's identities are functions of its position, and the pair
of block and condition is its arm. `inspect_cohort` and `audit_cohort` are operators
on the directories, evaluated in every state; the records the audit is given are
those the manifest's digests stand for.

`Study` knows neither files nor batches' inner steps. It has the studies one may go on
with (the manifests, with the arm and the outcome of each allocation), a ledger with a
page for each batch (what has become of each allocation: announced, executed, broken,
reported) and the copy of the study that the batch in progress works on. `Cohort` is
mapped to it by what can be read: `Accounts` of the manifests, `Directories` by `Evidence`
from journal and exported trial, `InProgress`. The files that tell nothing of an attempt
(plan, snapshot, the first row) are stutters; `Interrupt` is `Abandon`, with one more step
on the page if the write under way got that far.

Left out: the random order of the conditions, a source or a runtime that changes
between two batches, a manifest that was edited by hand, and directories in which
something other than a batch was put.

### EventMemory, Trial, Inclusion and TrialAudit

`EventMemory` has no variables. An archive is a value, with `begin` as the guard
`Begins` and the result `Begun`, and `close` as `Closes` and `Closed`: the
controller of a trial keeps one archive, and the audit builds a second one from the
record and compares. An observation is its number, its time and what the actor
perceives; requests and receipts are bound to it by its number.

In `Trial`, `pc` says where control is: `loop` at the head, `provider` while the
model answers, `submit`, `close` when the turn is back in `run_trial`, `conclude`
before the decision is recorded, `npc`, `end`. `turn` holds what the controller and
the turn have gathered so far. `event_mode` tells the two protocols apart: one carries
an event memory and is judged by `assess_event_memory`, the other remembers nothing and
is judged by `assess_inclusion`. `phase` is the failure a decision is recorded with, by
which the latter tells the infrastructure from the model.

| code | action |
|---|---|
| `while` and the bounds | `Leave` |
| `observe`, `begin`, selection of the memory | `BeginTurn`, `ObserveFails` |
| provider, parser, `validate_candidate` | `Decide`, `DecideFails` |
| `submit` of `limited_port`, session and engine | `Submit` with `Submissions` |
| `close_event_trace` | `CloseTrace` |
| the decision record to the stop conditions | `Conclude` |
| the next NPC's turn | `ActNpc`, `NpcObserveFails` |
| `monotonic` passes the limit | `WallPasses` |

A submission has one of the outcomes that the session's and the kernel's code
give: refused before the session by the precheck, denied by the session without
the engine, rejected, completed or failed by the engine, or ended by an exception
after any part of the action's time. `HORIZON` is the stop reason of a trial whose
status is COMPLETED; every other one is TERMINATED. `LOST` is not a value of the
code: it stands for an exception of `close_event_trace`, which nothing catches, so
that the trial and its record would be gone; `RecordIsCorrect` says that this does
not happen. Within one tick the actor's perception differs by its last receipt
only, which is what `content` holds.

Left out: the scheduled inputs of the scenario, which change what is perceived and not
the control of the loop; the replay, the budget report and the export after the loop;
and of the admission the versions, configuration, digests, replay result and seal, in
which a record agrees with itself as the program wrote it.

### Places and PlacesAudit

A trial without event memory, of one model that moves and waits alone in the village.
`Ask` is a turn up to the reading of the answer, `Submit`, `Refuse` and `EngineFails`
the three ends of a submission.

| code | action |
|---|---|
| `while` and the bounds | `Leave`, or else `Turns` |
| `observe` that raises on a full observation | `ObserveFails` |
| provider, parser, identity and id of the response | `Ask` with `Accepted` and `UsesId` |
| `submit` of the trial's port with `protocol_precheck` | `Refuse` |
| session and engine | `Submit`, `EngineFails` |
| `monotonic` passes the limit | `WallPasses` |

An answer is its id, whether provider, version and model are the configured ones, the
action its text can be read as, and whether it nests deeper than the decoder's
recursion. `Summary` is `summarize` over the committed moves, `Inclusion` what
`assess_trial` makes of the record; the reading `Reading` holds the locals of its loop.
`fits` says whether the observation of the square is within its budget of bytes, which
depends on the fixture alone. `LOST` is an exception that leaves the audit, and
`run_trial` with it: the decoder's `RecursionError` on a text nested too deeply.

Left out: prompts and memory, which are those of `Trial`; a record that was altered
after the trial; and the older protocol, `alderwick-memory-horizon-offline-1`: only
`PROTOCOL_VERSION`, the default, is modelled, whose precheck alone refuses a WAIT of more
than one tick.

## 3. Runs

| run | cfg | question |
|---|---|---|
| `kernel_calls` | `MCKernel` | mixtures of scheduling, advancing and acting with callbacks that raise anywhere: deliveries, RNG, what a normal return means, and that every call ends |
| `kernel_timeline` | `MCKernelTimeline` | two inputs that compete by due time, priority and insertion, with timed and untimed actions: the log, the numbering, the abstract timeline and the contract `Engine`; before it, three modules registered one at a time with any dependencies, a boot tried at any point; and the draw from a range |
| `session_requests` | `MCSession` | one identity for two requests, retried over conflicts, knowledge failures and engine failures before and after the commit, with requests of a foreign run and on another actor's observation between them; every port call gives its guard back |
| `world_village` | `MCWorld` | crossings under way in both directions at every moment of the collapse, a second collapse, purchases while the offer is repriced and withdrawn, a baker buying from itself, meals and rests near the cap of hunger |
| `social_news` | `MCSocial` | a guard and a traveller who follow their script while a player asks, tells, requests and moves on the view of any moment, and the bridge falls before the script or during an action: who knows what, and whether the inquiry ends |
| `pilot_trial` | `MCPilot` | a trial with every answer, every lost append and a crash at every point, under bounds that differ: what is on disk, what the inspection and the audit make of it, stop reasons, horizon and denominator |
| `pilot_behaviour` | `MCPilotBehaviour` | whether a trial with nothing but behaviour in it counts: it does not (a finding, see below) |
| `cohort_histories` | `MCCohort` | three batches, in succession, forked or cut off at any write, with replacements in between: what may be handed out, what a directory tells, whether the audit verifies the whole story and nothing else, and whether all of it is a study as `Study` has it |
| `cohort_proceeds` | `MCCohortProceeds` | whether a batch comes to its end whatever the audit says of a trial: it does not (a finding, see below) |
| `trial_memory` | `MCTrial` | trials of up to four decisions in which provider, session, engine, NPCs and wall clock may fail at any point: what is remembered, what belongs together, why a trial stops, whose turn it is, and whether the audit of its protocol finds the record correct and admits exactly the trials that nothing but the model spoiled |
| `places_trial` | `MCPlaces` | trials of Distinct Places with every answer at every place: whether the metrics measure the task, and whether the audit's own run ends as the trial did |
| `places_included` | `MCPlacesIncluded` | whether every trial that no engine error cut off is included: it is not (a finding, see below) |

What each property says is the comment above its definition. A few things that follow
from a property that is run are proved and not run: the types of each model (`TypeOK`),
the order of execution (`EarliestFirst`, contained in the refinement of `Timeline`), the
order of the log (`LogInOrder`), the truth of the news (`NewsIsTrue`, contained in
the refinement of `Hearsay`) and that a study is sound (`StudiesAreSound` of `Study`,
contained in the refinement of it). Deadlock is not checked (`CHECK_DEADLOCK FALSE`) where the
modelled run really stops: a closed kernel with nothing left to do, a session or a world
at the end of its horizon, a script or a trial that is over.

### Bounds, and why they are enough

* `MaxTime` (1 to 9): the code compares times and adds durations; it never
  depends on their size. Two instants beside the present give every order of a
  due time, a target and a completion; the world has as many instants as its
  longest plan needs.
* `MaxScheduled` (2): two inputs tie at an instant by priority or by insertion, and one
  that failed stays before or behind the other. `MaxResults` (1 and 2): an action
  between inputs, and one after another. The kernel's properties are proved for every
  number of both, so these instances only have to reach every action.
* `MaxAttempts` (3): a first submission, a conflict or a failure that releases its
  reservation, and a retry after either.
* `MaxDrafts`, `MaxDraws` (1): one event and one draw in each of two commits;
  two subscribers with different wants, so that order within an event shows.
* `Width` (5): 32 words, every seed and every range; the ranges above half of the words
  are those in which nearly every second word is rejected. Three modules and a name that
  nobody registered: every registration, with cycles of one, two and three.
* Requests: the few that differ in what the code tells apart.
* World: five inputs put a change of price before, inside and after a purchase of one
  tick, ticks inside a rest of two, and the collapse at every moment of a crossing.
* Social: 13 activations let the traveller reach the guard, ask, wait and be answered
  with the collapse at tick three and with two actions of the player anywhere in
  between; two actions are an opinion told to each, a question and a false answer, or a
  move and something said there.
* Pilot: a horizon of four ticks with actions of one and two ticks ends on the horizon,
  short of it and past it; with three failures a row is complete, broken by an action,
  or cut by a bound; four calls and five decisions, so that the two bounds are told
  apart. One refusal stands for the four behavioural failures, which the loop treats
  alike.
* Cohort: two originals stand for twelve, so that one is executed before another;
  four rows hold two replacements, of two failures or of a replacement. Three
  batches are one after another, a fork, and an interruption between two others.
  The trials of these are a failure that may be replaced and one that may not;
  the run that looks at a single batch has every assessment.
* Trial: four decisions give a memory of two one more experience than it holds and a
  decision that sees the difference; four calls as well, so that both bounds are true at
  once; three stalled turns in a row are a full row of failures or one that a fourth
  decision breaks; four ticks with actions of zero, one and two end on the horizon,
  short of it and past it; two NPCs are a cycle.
* Places: two targets, moves of two ticks and a horizon of eleven, so that five moves fit:
  both targets and back from each, one target again after that, and a sixth that is
  refused for the horizon. The square can be observed or not. Among the answers two
  share an id, one has the empty one and one is nested too deeply. The two targets are
  interchangeable in the village and in what is stated of it, so that their symmetry is
  used.
* Two of the stops that bounds cause are not reached in every instance. With as many calls
  as decisions, `MAX_PROVIDER_CALLS` ends no trial of `MCTrial` and `MCPlaces`, and with
  fewer calls than decisions, `MAX_DECISIONS` none of `MCPilot`: the first bound tested
  gives the reason. The theorems about the stop reasons hold for every value of both.

### Fairness

`FairSpec` of `Kernel` assumes weak fairness of `Internal` alone: the program is
single-threaded, so once a call has begun nothing else runs until it ends, and
handlers and subscribers are assumed to return or raise. Nothing is assumed of
the callers. `CallsReturn` then says that `_advance_to` cannot loop for ever: the
interesting part is that every round consumes an input and no callback can add
one. `FairSpec` of `Session` assumes the same of contributors, of the checks,
and of the engine, the last being what `CallsReturn` shows.

`Fairness` of `Social` is that of the script: one caller goes through the activations,
and an action that has begun comes to its end, through the collapse if that falls due.
Players are under no obligation and the scheduled collapse outside an action is the
owner's choice. `InquiryEnds` names the two ways in which the inquiry is held up for
good, both of which the run reaches: who is asked holds more than one claim and
therefore abstains, or keeps answering the oldest question, whose asker has left.

### What the pilot_behaviour run shows

`docs/MEMORY_HORIZON_LIVE_PREFLIGHT.md` (80-82) counts parser failures as
behaviour that stays in the denominator, and
`tests/test_memory_horizon_pilot.py` (457) tests it for text that is not JSON. For
text nested too deeply `strict_json` raises `RecursionError`, which is not a
`ValueError`. The controller has already set its failure to `PARSER_FAILURE` and the
turn absorbs the exception, so the trial goes on and is exported complete; the
auditor, which parses the same text, catches only `ValueError`
(`experiments/memory_horizon_pilot_audit.py`, 216-223) and reports the untouched
trial as EXCLUDED. `PARSER_ERROR` among the outcomes is that answer. The same
happens when the program is run with such a text as `MockOutcome`. `AuditAgrees`
says what holds for all other answers.

### What the cohort_proceeds run shows

A trial that the audit excludes, without evidence of an infrastructure failure, has
the value `None` for `infrastructure_failure`: `docs/MEMORY_HORIZON_LIVE_PREFLIGHT.md`
(104-105) wants it so, and `inspect_trial` and `audit_export` do it
(`experiments/memory_horizon_pilot_audit.py`, 449 and 489). `run_preflight` copies the
value into the row of the allocation and announces the next one; `run_mock_trial`
validates the manifest, and `validate_cohort` demands a bool in a finished row
(`experiments/memory_horizon_study.py`, 313-326). The batch ends with an exception,
an announced allocation that was never executed and others that are not even
announced. If the trial was the last, `run_preflight` returns a manifest that
`validate_cohort` refuses. Running the program with the answer of the previous
section shows the same. `ManifestsStayValid` says what holds otherwise.

### What the places_included run shows

`docs/MEMORY_HORIZON_OFFLINE.md` (166-167) includes valid failed trials, and (169)
excludes interrupted engine calls only. `LLMController.decide` takes a response id for
used after the identity of the response was found consistent, and only when it is not
empty (`adapters/llm.py`, 383-397). The audit takes every string for used, also that of
a response which failed the identity check, and the empty one
(`experiments/memory_horizon_audit.py`, 263-265). After a response of another model with
the id "a", a consistent one with the same id is accepted by the trial and is a duplicate
for the audit, which then expects no action and excludes the untouched record at "action
binding". `AuditFollowsTrial` says what holds otherwise.

## 4. What is proved

The proofs are checked by TLAPS for every value of the constants that satisfies
the assumptions stated in the modules (`KernelAssumption`, `SessionAssumption`,
`WorldAssumption`, `SocialAssumption`, `PilotAssumption`, `CohortAssumption`,
`TrialAssumption`, `PlacesAssumption`, `RegistryAssumption`): horizons are natural
numbers, names that stand for "nothing" are not also real ones, records have their
fields. No bound is used as anything but a number. Three assumptions deserve a reason. A manifest has room for its
own originals (`Originals <= MaxRows`). What an assessment says of the infrastructure is a
Boolean when the trial is verified, and otherwise may be unknown, as `audit_export` has
it. The targets of Distinct Places are a finite set that does not contain the square, and
the action of an answer that waits is at least one tick, as the parser demands.

| module | theorem | says |
|---|---|---|
| `KernelProofs` | `Invariance`, `TypesKept` | the inductive invariant and the types it contains |
| | `KeepsInputs` | time never passes a pending input, and an input is executed at most once and never lost (`InputsKept`) |
| | `LogIsOrdered` | event numbers have no gaps and times do not fall (`LogInOrder`) |
| | `HeadIsStable` | nothing displaces the input under dispatch (`DispatchUndisturbed`) |
| | `ExecutesEarliest` | what is executed is the least due input (`EarliestFirst`) |
| | `RngIsTransactional` | draws are kept by commits only (`RngTransactional`) |
| | `RecordsFit` | time, outcomes, log, results and RNG fit one numbered sequence of transitions (`RecordsAccounted`) |
| | `PublishesOnce` | what the log owes its subscribers is delivered once and in order (`PublishedOnce`) |
| | `ReturnsComplete` | an advance that returns has done all it was called for (`ReturnedIsComplete`) |
| | `Refinement` | `Kernel` implements `Timeline` (`ImplementsTimeline`) |
| | `Serves` | `Kernel` implements `Engine` (`ImplementsEngine`) |
| | `OrderIsFound` | `validate_dependencies` returns an order that satisfies the dependencies if there is one, and raises otherwise |
| | `LaunchIsKernel` | a kernel with its registrations and boots is a kernel of `Spec`: the theorems above hold of it |
| | `BootFindsOrder` | a run starts only on modules that can be ordered, a boot is refused for dependencies only when they cannot, for a cycle for good (`BootIsOrdered`) |
| `SessionProofs` | `TypeCorrect` | types |
| | `ExecutesOnce` | one execution and one result per identity (`ExecutedOnce`) |
| | `ForgetsNothing` | what was committed is in the traces, and the answer to it can be had (`NothingForgotten`) |
| | `ShowsLastReceipt` | an observation repeats what was last said to its actor (`LastReceiptShown`) |
| | `EvidenceComesFirst` | what enters the engine is authorised by an observation made before it, and the history is ordered and not ahead of time (`EvidenceFirst`) |
| `WorldProofs` | `BridgeStaysClosed` | the bridge and its routes agree, and no crossing commits after the collapse (`BridgeClosed`) |
| | `QuotesAreHonoured` | a purchase is paid as it was quoted, or not made (`QuoteHonoured`) |
| | `WorldKeepsTime` | `World` implements `Timeline` (`ImplementsTimeline`) |
| | `TravelIsExplained` | positions and witnesses follow from the committed moves (`TravelExplained`) |
| | `PressureIsExplained` | hunger and fatigue are what the committed transitions tell (`PressureExplained`, the first half of `LivingExplained`) |
| | `LivingIsExplained` | so are the coins and goods of everybody: they are what the actor began with, and the sums of purchases, sales and meals (`LivingExplained`) |
| | `TypesKept` | types: no quantity or balance below zero, no pressure out of bounds |
| `SocialProofs` | `SocialImplementsHearsay` | `Social` implements `Hearsay` (`ImplementsHearsay`) |
| | `NewsIsAlwaysTrue` | nobody holds the news of a collapse that has not happened (`NewsIsTrue`) |
| | `AnswersOnce` | no NPC answers a question twice (`AnsweredOnce`) |
| | `KnowledgeHasSources` | whatever is held goes back to a witness or the author (`Traceable`) |
| | `RebuildSucceeds` | the projection of the log never fails and yields what the run has (`RebuildsAlike`) |
| | `TypeCorrect` | types |
| `PilotProofs` | `TypeCorrect` | types, and the bounds of the policy |
| | `WrittenAhead` | an intent on disk for every effect, at most one unanswered, in rows whose order the inspection takes at every moment (`WriteAhead`) |
| | `EndsAsTold` | what is not reported as interrupted is complete, no action passes the horizon, and HORIZON says that it was reached (`EndIsTold`) |
| | `EvidenceIsKept` | evidence on disk exactly of the decisions that failed (`EvidenceKept`) |
| | `EvidenceWhole` | what is verified is all that was sent and executed, and evidence and record agree (`EvidenceIsWhole`) |
| | `AuditRepeats` | the auditor's run of the record comes to the runner's end, and verifies every trial that can be repeated (`AuditAgrees`) |
| | `AnsweredCount` | a verified trial that was answered is in the denominator (`DenominatorKeepsAnswered`) |
| | `LossIsFinal` | nothing happens after a lost row (`NothingAfterLoss`) |
| `CohortProofs` | `ReturnsValid` | what can be handed out is valid, unknown assessments apart (`ManifestsStayValid`) |
| | `AnnouncesFirst` | no trial without its announcement, no report without its trial, one at a time (`AnnouncedFirst`) |
| | `EvidenceTold` | a directory tells how far its batch got, and what the audit of all directories verifies is the whole story (`EvidenceTells`) |
| | `OrderlyHistories` | completed batches of verified trials, each on what the one before returned, are verified (`OrderlyIsVerified`) |
| | `CohortImplementsStudy` | `Cohort` implements `Study` (`ImplementsStudy`) |
| | `StudiesAreSound` | an arm has at most one attempt that is no failure of the infrastructure, and every outcome is reported in some directory (`Allotted!StudiesAreSound`) |
| `TrialProofs` | `TypeCorrect` | types, and the bounds of the policy |
| | `StopsForItsReason` | the stop reason is true and time stays within the horizon (`StopExplained`) |
| | `AttemptsBelongTogether` | decisions are attempts of one opportunity when they saw the same and nothing was experienced in between (`Lineage`, the second half of `MemoryIsFaithful`) |
| | `MemoryNeverRefuses` | the archive refuses nothing that a trial brings to it (`NothingRefused`, of which `RecordIsCorrect` states that no trial is lost) |
| | `MemoryFaithful` | a decision is told the latest experiences that were over before it, and attempts belong together as they should (`MemoryIsFaithful`) |
| | `AdmittedClean` | a trial without memory is admitted exactly if it got to the horizon and the infrastructure did not fail (`AdmittedIsClean`) |
| | `RecordSound` | the audit of the memory finds every record correct, the admission is right, and the turns alternate (`RecordIsSound`) |
| `PlacesProofs` | `TypeCorrect` | types, and the bounds of the policy |
| | `AuditRepeatsTrial` | the audit's run of the record ends as the trial did (`AuditFollowsTrial`) |
| | `MetricsAreRight` | the one pass of `summarize` measures what the task asks for (`MetricsMeasure`) |

The inductive invariants. None of the properties is inductive as it stands.

* Kernel: what a property says of the log must also be known of the call in
  progress: the clock lies between `before` and the due time of `current` during a
  dispatch, nothing due before `target` is skipped, `current` is the head of the
  queue, insertion numbers in the queue and in the outcomes are below the counter.
  From these follow the refinement of `Timeline` (a dispatch is invisible until it
  commits because the abstract time is `CommittedTime`) and of `Engine`.
* Kernel, the records: the outcomes and results together are numbered without a gap, and
  time and draws are those of the last of them and of the action underway
  (`RecordsFit`). For the deliveries, nothing is owed while nothing is being published,
  and what is newly owed is later in the log than all that was delivered.
* Boot: each pass resolves a module more, or none ever again (`PassesSuffice`), so that
  of what is left when the passes are over each waits for another (`Stuck`), and the first
  of them in a supposed order would have to come after one of them. The layers, each listed
  as the sort lists it, join to an order of what is resolved, because a layer depends on
  earlier ones only (`OrderJoins`). Over a launch, a set of modules that wait for each other
  is what has to be remembered (`LaunchInv`): that there is no order is not inductive, since
  a registration can mend it, but such a set is never mended.
* Session: `ExecutedOnce` is about traces, but what prevents a second execution
  is the reservation. The invariant ties them: every trace that entered the
  engine and every result has an entry for its identity, the request now in
  `check` or `engine` has one and no trace that entered, and `record` has grown
  past `offset` exactly when the call is settled. Then a fresh submission, which
  needs the absence of an entry, cannot be a second one. Releasing the reservation
  is safe only because `FailKnowledge` happens in `check`.
* Authority is checked against observations that exist; the invariant adds that
  the history only grows and its times are below the present.
* Session, the books: every result has its trace and every answer its entry, each of the
  same request; and what a port has shown is the last of its actor's traces.
* World: `BridgeAgrees` is inductive with the fact that the map's domain does not
  change. `NoCrossingAfterCollapse` looks at the history, and needs the invariant
  that a collapse in the history means that the bridge is down and that a fragile
  route is then closed; completion demands an open route.
* Types of the world: quantities and balances stay natural numbers because
  `validate_completion` is evaluated on the world that `resolve` then changes, not
  on that of the start.
* World, its time: nothing happens before the plan is scheduled, an action implies that
  it was, and time does not pass a pending input. For the moves: a transition holds at
  most one, so the last one of every prefix exists and the next starts where it ended.
  For the quotes: buyer and seller differ, and completion compares the offer with the
  one that the action keeps. For the pressures: a transition changes a measure of an
  actor at most once, and from the value that the ones before it left (`PressureInv`),
  so that a fact which tells both values continues the chain.
* Social: what is being told is held by the teller for as long as the action lasts, and
  the bridge's truth is that of the log. Records are identified by event and learner; an
  answer under way is to a question that the log holds no answer of the teller to, and
  no other actor's turn can add one. Sources are earlier in the log, so the chain that
  `Traceable` describes step by step ends; that no later event changes the record of an
  earlier one is what makes it inductive.
* Pilot: a property of the disk is a property of where control stands. The
  invariant ties the last row to `pc` (`LastInv`), what the loop's head established
  to the turn that follows (`RoomInv`, `TurnInv`), and the stop reason to the time
  at which it was given (`StopInv`): a decision that ends the trial, other than by a
  failing engine, has not moved time, so the horizon cannot have been reached in
  it. For the counts, `CountInv` says that they are equal except in the one step
  between an intent and its effect, or its effect and its answer. A snapshot exists
  only when the trial is over and its last row is the sealed record; a row of evidence
  belongs to a decision that failed, or to the turn under way once it was answered.
* Cohort: the manifest a batch is working on is not yet handed out, and must be
  sound as well: a sequence of well-formed rows that is valid or has an unknown in
  it. While a trial runs, its allocation is still planned; so no row can be
  a replacement of it, and finishing it breaks no link. Appending a replacement
  keeps links because the parent is a finished failure with no other replacement.
  In the batch in progress the allocation under execution is the only one announced and
  not finished, and what is reported finished is FINISHED in its manifest; a batch that
  was left is never written again.
* Trial: a stop reason is about the past, so the invariant says of every point of a
  turn what is known there: nothing answered and no time passed until the
  submission (`Unanswered`), then one of three outcomes, each with what it says of
  time, and a row of `failures` decisions that stalled at the tick where the turn
  began (`RowInv`). A row that fills up ends before the horizon because its last
  turn began before it.
* Memory of a trial: `Lineage` compares any two decisions, the archive only ever looks at
  what it has open. The invariant ties the two: between turns the archive has the last
  decision's opportunity open and is closed exactly if that decision experienced
  something, during a turn it has the turn's (`TurnMemory`, `TurnAttempts`,
  `RestMemory`). That the turn continues the last decision then extends to all earlier
  ones, because time, the last receipt and the numbers of the opportunities never fall
  back, so that what is equal at both ends is equal in between. The same invariant has
  the traces of the archive older than what it has open (`Kept`), which is all that
  `begin` and `close` demand.
* Rebuilding the knowledge: what is held from the first `n` events is `Held(known, n)`,
  and `FoldInv` says of every event of the log that it fits what was held before it, adds
  what it should, and leaves a ledger. An action in progress that tells something is
  entitled to tell it at its end as well (`Permitted`), although the ledger has grown
  since it was checked. The rebuild of the whole log then goes through these stages.
* Accounts: a sum over transfers is the number of elements of a pile, with one element for
  each coin or item of each transfer, and adding a transfer adds a disjoint part to the
  pile (`SumIsPile`, `PileGrows`). A transition emits one transfer at most.
* The pilot's audit: the reconstruction of what is decided so far stands where the trial
  stood when the turn began, and the journal is its rows and those of the turn under way
  (`RowsInv`, `ReplayInv`); the ghosts `sent` and `entered` count what the record and the
  turn count (`GhostInv`). The former is conditional on a record that can be repeated, a
  condition that can only be lost.
* The histories of a cohort: a directory left at any write tells its journal up to there
  (`Running`, `Kept`). Every manifest has an origin: nothing in it is executed, or what is
  executed was returned together by one batch, whose snapshot the manifest extends
  (`Origin`). In an orderly history that is the snapshot of the last batch, so that the
  batches executed, between them and each row once, what the manifest shows.
* The study: an arm is tried again when *one* of its attempts is a failure that was not
  replaced, and `Study` demands that *all* of them are failures. What ties the two is that
  the allocations of an arm form a chain: each is replaced at most once, only a verified
  failure is, and of any two of one arm one is replaced (`ChainInv`). A page is compared
  with the manifest by `HistoryInv`: what is executed in the batch in progress is what its
  copy has a result for. Of `StudiesAreSound`, that an arm counts once is the
  chain again; that outcomes are backed is kept by each step of `Study`: an outcome in the
  copy is reported on a page, or executed on the last one and about to be reported
  (`BackedInv`), no step writes over a report, and a batch returns only when nothing is
  left open.
* The record of a trial: the audit of event memory folds an archive of its own, and
  `RecordInv` says that this fold is the trial's archive, with the turn's opportunity open
  in the one and not yet in the other. For the admission, every attempt of the actor has
  exactly one decision that holds it (`PlainInv`); for the alternation, who took the last
  turn and when depends on what comes next (`LastTurn`).
* Distinct Places: the audit's run over the decisions made so far agrees with the trial's
  state, or an answer on which the two differ came first (`RunInv`); and the replay of the
  submitted actions is in the same world (`ReplayInv`). For the metrics, `Measured` says of
  any sequence of moves what the locals of the pass then hold: the visits of each target,
  the target it is on its way back from, the first arrival by which all were done, and the
  repeats after that.

How what a loop computes is proved for data of any length. The prover has no induction
over data, but an invariant of the machine is one already: the data grow by one element in
a step, and what is needed is the value of a fold over a sequence with one element more,
from its value over the sequence. That equation (`FoldFollows` and its like) holds if the
recursion under the fold has a solution at every length; the lengths at which it has one
contain zero and the successor of each of their own, and no natural number is the least
one left out, because every nonempty set of them has a least element
(`WellFoundedInduction`).

## 5. What is only model-checked

* Liveness (`CallsReturn`, `PortsReturn`, `InquiryEnds`), which is outside what the prover
  does.
* `RunDrawsUniform`: the words of the generator are bitwise operations, for which there is
  no theory in the prover, and that the draws favour no number is a property of the
  constants of the generator and not of every choice of them. It is evaluated over every
  seed and every range at the configured width.

## 6. What is not modelled

* `adapters/sqlite.py` and `core/persistence.py` open and close a file; nothing is
  read back, so there is no recovery to model.
* Prompt text, HTTP and credentials of the language-model adapters.
* Layout of reports, the export of records and the example entry points.
* Perception: which facts an observation of the village carries, and its budget of bytes
  apart from whether one fits.
* The reports over several trials.
* Records that were altered after the trial: the audits are modelled on what the
  program itself can leave.
* The replay of scheduled inputs: `PlacesAudit` replays submitted actions in a village
  without inputs.

## 7. Reading order

`Timeline`, `Kernel`, `Registry`, `Boot`, `KernelProofs` for the engine and its boot; `Rng`
for its draws; `Engine`, `Session`, `SessionProofs` for the game; `World`, `WorldProofs`
for the village; `Hearsay`, `Knowledge`, `Social`, `SocialProofs` for its news; `Pilot`,
`PilotAudit`, `PilotProofs` for what a trial leaves on disk; `Study`, `Cohort`, `CohortProofs` for
the batches; `EventMemory`, `Trial`, `Inclusion`, `TrialAudit`, `TrialProofs` for the offline trial;
`Places`, `PlacesAudit`, `PlacesProofs` for the task of the distinct places. Each `MC` module is read
with its configurations.

## 8. Running

    tlc -config MCKernel.cfg MCKernel        # and likewise for each cfg
    tlapm KernelProofs.tla                   # and SessionProofs, WorldProofs, SocialProofs,
                                             # PilotProofs, CohortProofs, TrialProofs,
                                             # PlacesProofs

## 9. Plan

Done: every module of section 2, with the runs of section 3 and the theorems of
section 4. What is left: the replay of a record with scheduled inputs, as a composition of
`Kernel` with the inputs it recorded.

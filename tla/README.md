# Verification of the order bot

TLA+ modules, TLC instances and TLAPS proofs for the Telegram order bot: posts of
source channels become numbered orders in work groups, operators' replies and
reactions decide them, and the result is dispatched to result destinations and
acknowledged. Paths below are relative to the repository root; line numbers are
those of this commit.

## 1. The system

One asyncio process polls Telegram (aiogram runs every update in a task of its
own) over one PostgreSQL database. `session_scope` (app/database/engine.py) is a
transaction under READ COMMITTED; no transaction is held open across a Telegram
call. The work of one order is therefore a sequence of short transactions and
calls, and everything interesting happens between them.

| Component | State it keeps | Operations | Correct when |
|---|---|---|---|
| Intake and routing: app/orders, `IdempotencyMiddleware` | `processed_updates`, `daily_counters`, `orders`, `order_source_messages`, `order_deliveries`; album timers in memory | take in a post, refuse it, attach an album part, route, claim, send, startup delivery | numbers are dense, an album is one order, every order reaches every work group once |
| Signals and rules: app/rules, `SignalService`, `_decide_and_persist` | `order_signals`, `orders.status` | record, withdraw, evaluate, decide under a lock | a satisfied rule is applied once, only operators count, only administrators reverse |
| Result pipeline: `OrderFinalizer`, `DispatchService`, `AcknowledgementService` | `result_dispatches`, `orders.result_dispatch_status`, `orders.acknowledgement_status` | prepare, claim, send, summarise, arm, gate, react, override, re-open, retry, recover | every destination gets the result once, the reaction comes after delivery, a restart resumes |
| Follow-ups: `StoreDispatchService`, `SourceReactionService`, notifier | `woocommerce_calls`, `orders.source_reaction_stage`, throttle rows | update the store, react in the source channel, alert | the store is updated once, a later stage is never undone |
| Panel: app/bot/handlers/admin over the configuration repositories | rules, roster, sources, groups, routes, destinations, settings; the FSM of each administrator in memory | configuration by several administrators, whose buttons may be stale | rules can match, rights are only granted, no chat gets a result twice, what is switched on is complete |
| Gateway, composer, payload | none | Telegram calls with retry | see sections 5 and 6 |
| Startup, shutdown, health | none | recovery before polling, flush on shutdown | as above |

Components meet in the database: intake makes the messages operators answer,
signals change `orders.status`, the finalizer calls the pipeline after its own
commit, and the panel calls the pipeline for overrides and retries. There are no
callbacks between them other than these calls.

What is hard, everywhere: two tasks working on one order, a value read in one
transaction and used in the next, a crash between any two steps, a call that
took effect and reported failure, and sequences of overrides and re-openings.
`PROJECT.json` lists each such hazard at its line.

## 2. Modules

| Module | What it is |
|---|---|
| `ResultDelivery` | What the pipeline promises of an order: results go out after a final decision, to each destination at most once, and the reaction after delivery. |
| `AckPolicy` | `DispatchService.policy_satisfied` as an operator. |
| `ResultPipeline` | The pipeline of one order: finalizer, dispatch, acknowledgement, override, recovery. |
| `MCResultPipeline` | Its instances. |
| `ResultPipelineProofs` | Its theorems. |
| `Intake`, `MCIntake`, `IntakeProofs` | From a post to deliveries in the work groups; its instance and theorems. |
| `Decision`, `MCDecision`, `DecisionProofs` | From replies and reactions to the status of the order; its instance and theorems. |
| `FollowUps`, `MCFollowUps`, `FollowUpsProofs` | What follows the status: the update of the store and the reaction on the source message; its instances and theorems. |
| `PanelTasks` | A handler of the panel: filter, read, commit. |
| `RulePanel`, `RulePanelProofs` | The screens of the rules, and theorems about them. |
| `Roster`, `RosterProofs` | Administrators, operators and their work groups. |
| `Topology`, `TopologyProofs` | Sources, work groups, destinations and routes. |
| `Settings`, `SettingsProofs` | Settings, acknowledgements, source and progress reactions, result texts, the store. |
| `Panel`, `MCPanel` | The four screens, one at a time, and the properties of each; its instance. |

### ResultPipeline

A worker is a task; `job[w].pc` names its next step, and each step is one
transaction or one Telegram call. `order` is the orders row (status, dispatch
summary, acknowledgement, attempts), `row` the outbox, one row per destination.
`copies` and `reactions` are what Telegram's users see, which no column records.

* `SignalArrives`, `Decide`: an update decides the order. Which outcome it
  decides is open here and settled in `Decision`.
* `ReadOrder`, `PrepareDispatch`, `ArmAck`: `run_pipeline` reads once and acts on
  what it read (`arming`, and whether to prepare) in later transactions.
* `ListOutstanding`, `ClaimRow`, `Post`, `MarkRow`, `TallyRows`, `RefreshState`:
  `DispatchService.process`. The tally and the write of the summary are two steps
  because no lock is held between them.
* `CheckAck`, `AckSkipped`, `CheckGate`, `ClaimAck`, `React`, `AckApplied`,
  `AckFailed`: `AcknowledgementService.process`.
* `Override`, `Reopen`, `Retry`: the order panel. An override takes each
  combination of its two flags.
* `Crash`, `Restart`, `StartPolling`: `recover` runs before polling. A restart
  that comes soon (fault `quick_restart`) may find any of the claimed rows, or
  the acknowledgement, younger than the cutoff of two minutes, and leaves those
  claimed. `young` is a history variable: what the last restart left so.

`Implements` is the refinement: `ResultPipeline` implements `ResultDelivery` with
the delivered copies and reactions as its state.

### Intake

`number` and `partOf` are orders and their source messages, `counter` the daily
counter, `delivery` the delivery rows, `timer` the album tasks in memory.
`Receive` is the middleware, whose ledger row is committed before the handler
runs; `Lookup`, `Create`, `AttachAfterRace` are `ingest`, with the savepoint as
one step because the counter's row stays locked until the commit; `Schedule` and
`TimerFires` the album debounce; `Route` to `Fail` the delivery. A timer may fire
at any time, since two seconds bound nothing else. What the order number gate and
the backlog guard refuse is given by `Numbered` and, after a restart, by choice.

### Decision

`signal` maps each (outcome, key) to the actor of its active row; `shown` is what
the members show on the order message. `Reply` and `React` are the handlers up to
the signals they extract; the checks of `SignalService` are a step apart from its
writes because the order is read without a lock; `Decide` holds the lock.

### FollowUps

`call` is the row of `woocommerce_calls`, `stage` the column
`source_reaction_stage`; `store`, `notes` and `shown` are what the store and the
source channel show. `RunPipeline` reads the status once; `PrepareCall` to
`MarkCall` are `StoreDispatchService`, with the status and the note as two
requests each of which may be refused or lose its answer; `CheckStage`, `React`
and `WriteStage` are `SourceReactionService.apply`, started by the pipeline, a
delivery (`Deliver`) or an operator (`PickUp`). An outcome in `StoreOn` is one
with a status of the store set. `EditStore` completes or empties the credentials.

### The panel

`PanelTasks` is what all handlers share. A task is a handler: `Press` is the
filter that lets a button or text through, `Open` its start, where it reads rows
and FSM data (`seen`, `data`), and each handler one action that decides from
these and commits. Two tasks overlap as two transactions under READ COMMITTED
do: a column is overwritten if the handler found it different from what it
writes, an UPDATE of a row that is gone fails, and so does what a unique index
or a foreign key refuses. `Press` offers every button of a screen in every state
in which the screen could ever have shown it: chats keep old keyboards.

Three simplifications: the reads of a handler are one snapshot, `state.clear()`
goes with the commit (a handler that fails does neither, and its prompt stays),
and a row deleted and added again under its key while a
handler runs is taken for the row it read. There is one FSM: administrators with
prompts of their own do not meet in it.

`RulePanel` has the rules, signals, patterns and reactions; `Roster` the rows of
administrators and operators, and the bootstrap (`Restart`); `Topology` the four
tables with their indexes and cascades; `Settings` the rest, each text known by
what its handler tells apart.

## 3. Runs

Twelve runs; the violations are disagreements between a document and the code.

| Run | Shows | Instance |
|---|---|---|
| `races` | `Implements`, `TypeOK` | three tasks, three destinations, refused calls, retries; policies PRIMARY and ANY |
| `overrides` | `NeverDeliveredTwice`, `SentIsForGood` | two tasks, override with every flag, re-open, retry; only SUCCESS is acknowledged |
| `crashes` | `OneOwnerPerRow`, `SentMeansDelivered`, `NothingStuck`, `OutstandingIsRecoverable`, `ReactionOnlyAfterDelivery` | two tasks, two crashes, every fault, restarts within the cutoff |
| `recovery` | `SettledUnlessCrashed`, `QueuedIsSent`, `ArmedIsApplied` (liveness) | two tasks, two crashes, restarts within the cutoff, no fault of Telegram |
| `intake` | `TypeOK`, `NumbersAreDense`, `AlbumIsOneOrder`, `DeliveredOnce`, `DeliveredMeansReceived`, `NoOrderIsDropped`, `RoutedUnlessCrashed` (liveness) | two tasks, an album of two, two posts of which one has no number, two days, one crash, redelivery, every fault |
| `decision` | `TypeOK`, `NoMatchIsMissed`, `OnlyOperatorsSignal`, `OnlyAdminsReverse` | two tasks, an operator and a guest, an ALL rule and an ANY rule that share a key, one override, one crash |
| `followups` | `TypeOK`, `OneStoreCaller`, `NotedOnce`, `SentWasTold`, `OnlyDecisionsGoOut`, `UpdateIsInHand`, `CallSettles` (liveness) | two tasks, every fault (or all but a lost answer to the note), one override, one crash, one edit of the credentials |
| `panel` | `TypeOK`, `EnabledIsComplete`, `ResultsGoOnce`, `OnlyRacesStarve`, `OnlyAddingDemotes`, `AuthorityIsGranted`, `OnlyRacesDouble`, `PrimaryIsKept`, `WooNeedsNumber` | each of the four screens with two overlapping handlers and three presses; the chats screen starts with two or three destinations |
| `crash_before_outbox` | violation of `FinalIsSettled` | status and outbox are two transactions (finalizer.py:8-9 describes one) |
| `taken_back` | violation of `TakenBackIsInactive` | a withdrawal overtakes the reaction it withdraws (signals.py:114-118) |
| `late_received` | violation of `LaterStageStays` | RECEIVED, checked earlier, replaces SUCCESS (source_reactions.py:80) |
| `demoted` | violation of `EnvStaysSuper` | adding the user id of an environment administrator makes him an ADMIN (README.md:661) |

What the panel cannot prevent is said as a property of its own: a rule is starved
or a second destination primary only when a handler commits between the read and
the commit of another (`OnlyByRace`). Both races are in the run: two handlers that
each make another of three destinations primary take two presses, and TLC violates
"at most one destination is primary" there, as it does "an ALL rule has a signal",
when the exception for races is dropped.

`NothingStuck`, `NoOrderIsDropped` and `UpdateIsInHand` are what the liveness
properties rest on: what is unfinished is in the hands of a task or a timer, so
that the fairness of its next step is enough. Unlike liveness they can be proved.

What a restart leaves behind. docker-compose.yaml restarts the container at once,
and `recover` runs once, at startup, and releases only what last changed more
than two minutes ago (finalizer.py:322). So a row that was being sent when the
process died stays in SENDING, and an acknowledgement in APPLYING, until some
later restart finds it older, although README.md:147 says that "Startup releases
rows stuck in SENDING/APPLYING and resumes them". The runs `crashes` and
`recovery` allow such restarts, and their properties say exactly what is lost:
`NothingStuck` that nothing else is left claimed without a task; `QueuedIsSent`
that every other row is sent, those that were only queued included;
`ArmedIsApplied` that the acknowledgement is applied, unless it was itself left
in APPLYING or the policy waits for a row left in SENDING. With `young` struck
from them, TLC violates all three. After a restart that finds the rows old the
properties begin anew, so one late restart releases everything.

With the administrators' action `reopen`, `ReactionOnlyAfterDelivery` is false:
the outbox of the first outcome opens the gate of the second. The instance
`crashes` shows it when that is added.

Bounds. `CopyCap` is 2: every property about copies distinguishes none, one and
more. Two tasks suffice for every race of a claim, a stale read or a lost update,
each of which has two parties; `races` has a third, so that a task can act
between two others. Crashes are bounded by 1 or 2: a second crash meets the state
a first recovery left behind. `MaxAckRetry` is 2, the least number with a retry
and an exhaustion. Two business days give one change of day. `NoteCap` is 2, as `CopyCap`. In the
panel every race has two parties, and three presses are what a lost update needs
besides: one to bring a row into the state two handlers then meet in. Where more
would be needed `Init` starts from configured rows instead: three destinations of
one status, or two that share a chat, the first of one source; an operator with
any assignments; a connected store. One order is enough in `ResultPipeline` and `Decision`, where no
transaction but the recovery query reads rows of two orders; `Intake` has
several, which share the counter.

Where deadlock is not checked, the system may stop: everything is delivered and
every bounded event has happened.

Symmetry of workers, handlers and chats is used only in runs without liveness.

Fairness. Weak fairness of each task's next step: a Telegram call returns or
times out and a transaction commits or fails, and the event loop starves nobody.
Weak fairness of album timers, of polling, and of the restart: `asyncio.sleep`
ends, and docker-compose.yaml restarts the container. Nothing is assumed of
people: signals, overrides, re-openings and retries need never come, and no
crash is ever required. The panel needs no fairness: it promises nothing that
must happen. `CallSettles` excepts crashes, after which nothing releases the row
(`release_stale` has no caller). The fairness of `Restart` is that of
docker-compose: some restart comes, at once or late, and nothing obliges it to
wait for the cutoff. `QueuedIsSent` and `ArmedIsApplied` are checked
without faults of Telegram, since a refused call waits for the next retry or startup
(README.md, "Known project limitations", 8).

## 4. Proofs

`ResultPipelineProofs` proves, for any number of workers and destinations and
every configuration that meets `DestinationsAssumption`, `ConfigAssumption` and
`BoundsAssumption`:

| Theorem | Statement | Argument |
|---|---|---|
| `TypeCorrect` | `Spec => []TypeOK` | inductive as it stands, one step per action |
| `ClaimsExclude` | `Spec => []OneOwnerPerRow` | a task between claim and outcome holds a row in SENDING, and the claim of a row in SENDING fails; a crash ends all tasks before recovery releases rows |
| `SentIsDelivered` | `Spec => []SentMeansDelivered` | a task about to mark its row SENT holds a row with a copy; only such a task writes SENT |
| `SentForGood` | `Spec => SentIsForGood` | every write of a row finds it absent, claimable, or owned by the task that writes (`ClaimInv`) |
| `NothingIsStuck` | `Spec => []NothingStuck` | `StuckInv`: with `ClaimInv`; a crash takes the tasks and leaves the process down, and what recovery does not release before it is up is `young` |
| `DeliveredOnce` | without crashes and half-done sends, `[]NeverDeliveredTwice` | a row has as many copies as sends that succeeded, and is not claimed again after one: needs `ClaimsExclude` and that a claimed row not yet posted has none |
| `Recoverable` | without override and re-opening (`NoOverrides`), `[]OutstandingIsRecoverable` | the summary is written by racing tasks from rows read earlier: an outstanding row is owned by a task that will still tally, or the summary already shows it |
| `ReactionsFollowDelivery` | with `NoOverrides`, `ReactionOnlyAfterDelivery` | `GateInv`: the outcome is decided once, the rows are those of its destinations, and the gate, once open, stays open, since SENT rows stay SENT; so what `CheckGate` saw still holds when `React` acts |
| `PromiseKept` | with `NoOverrides` and `NoHalfSends`, `Spec => Implements` | `PromiseInv`, which is `GateInv` with the invariant of `DeliveredOnce`; each step maps to `Finalise`, `Deliver` or `Acknowledge` of `ResultDelivery` or to a stutter |

`IntakeProofs` proves, from `IntakeAssumption`:

| Theorem | Statement | Argument |
|---|---|---|
| `OneOrderPerAlbum` | `Spec => []AlbumIsOneOrder` | a post becomes a head only where its album has none, and a task or timer that routes holds a head (`OrderInv`) |
| `NumbersHaveNoGap` | `Spec => []NumbersAreDense` | a new head extends both the numbers of its day and the counter by one; nothing else touches either |
| `OrdersAreDeliveredOnce` | `Spec => []DeliveredOnce` | `OutboxInv`: the task between claim and outcome owns its row in SENDING, and a row that may still be claimed has no confirmed copy |
| `DeliveredIsReceived` | `Spec => []DeliveredMeansReceived` | `OutboxInv`: a head is a part of its own order, so it is in what the task sends |
| `NoneIsDropped` | `Spec => []NoOrderIsDropped` | `CarryInv`: while nothing crashed a row in SENDING has its owner, a task lists an order only when every group has a row, and a timer that is replaced was one for the same order, since an album is one order. A task that passes over a row taken by another leaves it with that one |
| `TypeCorrect` | `Spec => []TypeOK` | the bound of the counters follows from `NumbersHaveNoGap`, by cardinality |

`DecisionProofs` proves, from `DecisionAssumption`, `TypeCorrect`,
`NothingMissed` (`[]NoMatchIsMissed`: while the rule is satisfied and the order
pending, some task has yet to decide), `DecisionsStand`
(`[][...]`, `OnlyAdminsReverse`: `Decide` reads the status under the lock) and
`SignalsAreOperators` (`[]OnlyOperatorsSignal`).

`FollowUpsProofs` proves, from `FollowUpsAssumption`:

| Theorem | Statement | Argument |
|---|---|---|
| `TypeCorrect` | `Spec => []TypeOK` | with `CallExists` and `GoalReacts`: a task past `prepare` has a row, one that reacts has a stage with a reaction |
| `CallersExclude` | `Spec => []OneStoreCaller` | while no credentials are edited a caller holds the row in SENDING, which no other claims |
| `SentIsTold` | `Spec => []SentWasTold` | the row's outcome never changes, and after its PUT the store has it |
| `NoteIsAddedOnce` | `Spec => []NotedOnce` | a caller before the note finds none, and once there is one its row goes to SENT or stays in SENDING |
| `DecisionsGoOut` | `Spec => []OnlyDecisionsGoOut` | without an override a status that was read final is the status |
| `UpdatesAreInHand` | `Spec => []UpdateIsInHand` | a task prepares for a final status only, which without an override is that of the order; who loses the claim leaves the row to who won it |
| `LaterStaysOneAtATime` | one task at a time, no lost answer to a reaction, no crash: `Spec => LaterStageStays` | `Recorded`: the column is what the message shows or is about to be; the run `late_received` has two tasks, between whose check and reaction it is not |

The panel's theorems are about `Panel`'s specification, whose screens are the
instances `Rules`, `People`, `Chat` and `Config`, and hold for every number of
handlers, users, chats and rows.
Their hypotheses are in their statements: `EnvAreUsers` (SUPERADMIN_IDS are
users), `EmojisAreReal` (no reaction is the mark for none) and `WholeChats` (a
chat without a topic is allowed).

| Theorem | Statement | Argument |
|---|---|---|
| `RulesTypeCorrect`, `SettingsTypeCorrect` | `Spec => [](screen = ... => Rules!TypeOK)`, and `Config!TypeOK` | inductive, with what the handlers read typed too |
| `RosterTypeCorrect` | the same for `People!TypeOK` | every row of an environment administrator, read or written, carries `from_env`; no assignment outlives its group |
| `TopologyTypeCorrect` | the same for `Chat!TypeOK` | what is written is checked against keys and references when it is committed, and cascades remove what refers to the deleted |
| `PanelTypeCorrect` | `Spec => []TypeOK`, of all four screens | the four theorems before it; the screen never changes |
| `StarvedByRaceOnly` | `Spec => OnlyRacesStarve` | a handler that sees the rows as they are refuses the last signal |
| `EnabledAreComplete` | `Spec => []EnabledIsComplete` | `Lags`: what a handler read may be older than the rows, but a reaction or text once set is never unset |
| `WooOnlyWhenReady` | `Spec => WooNeedsNumber` | only the one button switches it on, after it looked |
| `DemotedByAddingOnly` | `Spec => OnlyAddingDemotes` | buttons find `from_env` in whatever version of the row they read |
| `AuthorityOnlyGranted` | `Spec => AuthorityIsGranted` | an operator's row alone decides, and only his own buttons widen it |
| `DestinationsAreDistinct` | `Spec => []ResultsGoOnce` | own and shared destinations never mix, and those of one source differ in chat or topic by their key |
| `DoubledByRaceOnly` | `Spec => OnlyRacesDouble` | a new destination is primary only without siblings, `set_primary` clears all others, and a deleted one has a single heir |
| `PrimaryKept` | `Spec => PrimaryIsKept` | what is left of a status after a deletion has a least position and, there, a least id (`HeirExists`, from the order of the naturals being well founded) |

Each invariant is proved through an inductive strengthening defined beside it;
the strengthenings relate what a task remembers (`queue`, `cur`, `seen`) to the
rows it will change, which is what the plain properties leave out.

`DeliveredOnce` says precisely under which faults "exactly once" holds: a crash
between Telegram's answer and `mark_dispatch_sent`, a lost answer and a failed
attachment each make a second copy possible, as one may see by adding
`NeverDeliveredTwice` to the run `crashes`.

The hypotheses are those under which the properties hold. `NoOverrides` and
`NoHalfSends` say which constants allow an administrator to reverse an order, a
crash, or a send that takes effect and fails; the runs `races` and `crashes` are
instances of the theorems about them, and section 3 says what happens without
them. `NoOrderIsDropped` and `UpdateIsInHand` except crashes themselves
(`crashes = 0`), since the code does: after one nothing takes up a row in SENDING.

Only model-checked: liveness (`SettledUnlessCrashed`, `QueuedIsSent`,
`ArmedIsApplied`, `RoutedUnlessCrashed`, `CallSettles`), which is beyond the
prover. Every other property of a passing run is a theorem.

## 5. Not modelled

* The text of anything: numbers as displayed, results, notes, screens.
* Which message the acknowledgement targets (one fault, `no_target`, covers that
  there may be none) and what a composed result contains.
* Waits: `with_retry` is its outcome, the debounce and cutoff are choices.
* The limits of 200 orders and 100 deliveries of one startup.
* The effect of the panel on running orders: what it configures are CONSTANTS of
  `ResultPipeline`, `Intake`, `Decision` and `FollowUps`. One update reads each
  setting once, and none of the properties relates two orders under different
  settings.
* In the panel: titles of chats, names of users, the tests of access, of the
  acknowledgement and of the store, which change nothing but a title, and the
  layout of the screens.
* Text matching, order number extraction, the composer: functions without state.
* Notifications, reports, audit log, health endpoint, migrations: nothing else
  reads what they write.

## 6. What is left

The components of section 1 are modelled as far as section 5 says, and every
safety property of the passing runs is proved. Worth adding, in this order:
`PromiseKept` over crashes, for an abstract order whose destinations may get the
result again after one; and `RulePanel` composed with `Decision`, for orders whose
signals satisfied a rule that was changed afterwards.

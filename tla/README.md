# OpenCAO control plane: TLA+ models, checks and proofs

OpenCAO (`src/src/cao_control_plane`) is a control plane for coding agents. A
supervising agent, the *CAO*, turns a requester's wishes into *Work*, assigns it to
*Workers* (provider processes such as Claude or Codex), and decides at every
*Boundary* (a report, a question, a failure) how the Work goes on. All state is
in one SQLite database. A *Dispatcher* inside the server delivers messages to
the Workers by launching their processes, and runs the recovery scans.

Paths below are relative to `src/src/cao_control_plane` unless they start with
`docs/` (`src/docs`). `service.py` is written `S`, `runtime.py` `R`.

## 1. Inventory

| Component | State it keeps | Hard behaviour | What makes it correct | Module |
| --- | --- | --- | --- | --- |
| Worker delivery lane and Dispatcher (R, `delivery_lane.py`) | `message_deliveries` (state, owner, generation, attempts, lease), jobs in memory | jobs of several transactions, a crash between them, lease expiry, late results, the Worker's own calls | one job per fence, order of the lane, no resubmission of an unknown outcome, nothing stays busy that nobody keeps alive | `WorkerDelivery`, `WorkerLease` |
| Enrollment, tickets, credentials (S, `runtime_enrollment.py`) | `worker_enrollments`, `runtime_enrollment_tickets`, `runtime_credentials`, `runtime_sessions` | two Dispatchers on one runtime, expiry against exchange | one authority at a time, none after the end | `WorkerDelivery`, `WorkerLease` |
| Supervision (S, `supervision_control.py`) | `boundaries`, `reasoner_turns`, `boundary_dispositions`, the `user_needed` pointer | leases that expire, two recovery paths, several Boundaries of one generation, a reply in two transactions, triggers that abort | exclusive, fenced decisions; no lost question; no Work without a cause for attention | `Supervision` |
| Work, Goal, Attempt, Directive (S, `models.py`) | `work_items`, `goal_revisions`, `attempts`, `directives`, `intents` | long sequences of legal calls, interrupters, repeated commands | Work and Attempt agree; one transition per intent; one Attempt per retry key | `Supervision`, `IntentLog`, `RetryCommand` |
| CAO conversations (S, `attachment_issuer.py`) | attachments, capabilities, connections, credentials, wake tickets, the catalog | a request authenticated before a close or a renewal and used after it | no write under an authority that has gone | `CaoSession` |
| Wake deliveries of a CAO (R, S) | the CAO's `message_deliveries`, routes, terminal proofs, retraction intents | an ended or lost provider turn, a repair beside a running wake, a lost route, a lost answer to a deletion | one live wake per Boundary, sent once, followed up | `CaoWake` |
| Managed Worker threads (S, `worker_purpose.py`) | threads, epochs, purposes | an instruction racing the end of a thread or the loss of its connection | one authority; nothing of an old epoch starts; nothing unknown is rewritten | `WorkerThread` |
| Provider rate-limit circuit (S) | `provider_runtime_circuits` | many rows and one probe, an old 429 seen again, the probe's runtime dies | one probe per epoch, older instructions wait | `ProviderCircuit` |
| Effect ledger (`effects.py`, S) | `effect_operations`, grants | a crash between start and result, recovery beside a living executor | no blind repetition, grants spent once | `EffectLedger`, `EffectGuard` |
| Work close (S, `close_contract.py`, `close_inventory_edge.py`) | registry, preparation, cleanup effects, receipt | failures between the file system and the database, concurrent executions | preserved before removed, a truthful receipt, every accepted Work is closed | `WorkClose` |
| Push outbox (R, S) | `a2a_push_configs`, `a2a_push_deliveries` | a job that outlives its lease, and writes its late result without it | every post is accounted for, a push given up stays so, every push settles | `PushOutbox` |
| Worker output capture (`worker_output.py`) | streams, items, `turn_end` receipts | crash before settlement, a late end of turn, reconciliation | the end is recorded once and reaches the supervisor | `OutputCapture` |
| Idempotency records (S) | `idempotency_results` | a repeated command after a lost answer, or after pruning | same key, same effect, same answer | `RetryCommand`, `IntentLog`, `WorkerThread` |
| State-read admission, notification queue | one row per conversation and resource | overlapping, failing and dying reads | one read per cause, none lost | `StateReads`, `CaoWake` |
| Retention (`database.py`, `prune`) | `events`, `messages` | pruning between any two commands | nothing that is still needed goes | `Retention` |
| Dashboard lifecycle (`dashboard_lifecycle.py`) | LaunchAgent jobs, process groups, the rollback backup, the Codex host | process ids are reused, launchd restarts services, the Desktop replaces its host | one Control Plane, a restorable backup, a reload to the attested host | `DashboardUpgrade`, `CodexRefresh` |
| stdio bridge (`mcp.py`, `serve_stdio_proxy`) | credential, attachment, request tasks, heartbeat | tasks beside the read loop share one credential that expires | every request answered once, under a proven credential | `ConversationBridge` |
| Database (`database.py`) | the schema, triggers | - | `BEGIN IMMEDIATE`, rolled back on any exception | assumed by all |
| Read models, HTTP, A2A and tool schemas, CLI, policy and preservation edges, memory, configuration | - | mostly I/O | - | none |

How they interact: every surface (HTTP, MCP, A2A) calls a method of
`ControlPlaneService`, which is one transaction or a few. A transaction that
must reach an agent inserts a `messages` row and its delivery. The Dispatcher's
background cycle wakes up after every commit, runs the scans (expired runtime
leases, expired reasoner turns, completed turns, terminal lanes, overdue
Assignments, pushes), claims deliveries and starts a job for each. A job
launches the Worker process with a one-use ticket, or queues a turn in the CAO's
Desktop thread; the process exchanges its ticket for a credential and calls the
service back through its bridge. What the Worker reports becomes a Boundary; the
CAO is woken, takes a leased turn on it and decides; the decision queues the next
message. When a runtime dies, recovery turns its Work into a failure Boundary.

## 2. Modules

One module per component, named in the table above. Most of those of sections 2.3
to 2.5 are checked in groups: an MC module declares the variables of a group,
instantiates each of its modules with small constants, once or several times, and
its initial state chooses one instance by the variable `instance`. The variables of
the modules that were not chosen stay constant (0, or an initial value of theirs),
so the reachable states are the disjoint union of the instances' and every property
is checked in the instance it names. `MCWorkerDelivery`, `MCWorkerLease`,
`MCSupervision` and `MCConversationBridge` just extend their modules; `MCRecords`, `MCDashboardUpgrade`,
`MCDispatch` and `MCCommands` extend those of their modules whose properties are also
proved (EffectLedger, WorkClose and RetryCommand; DashboardUpgrade and CodexRefresh;
StateReads and CaoWake; CaoSession, IntentLog and WorkerThread). Four instances of
CaoWake, and two of WorkerThread, differ in how far they go: each has its own bound on
the steps (`Extent`, `ThreadStep`). The theorems are in modules of their own, whose names
end in `Proofs` (section 5).

The **atomic unit** is the database transaction: `Database.transaction` takes
SQLite's write lock at once and rolls back on any exception, so two transactions
never interleave and an operation that raises is an action that is not enabled.
Everything between two transactions of a job or a call may be interleaved by
anyone. In the two lifecycle modules and the bridge it is the stretch between two
awaited or external calls.

The **clock** is free everywhere: a lease may be found expired at any time at which
it is held, renewed or not, and back-off delays nothing unless fairness needs it.
Digests, HMACs and path identities are equality of the values they are computed
from. `Topics`, `Ops`, `Faults` and `Relations` select which independent events an
instance includes; every one is included in some instance.

### 2.1 WorkerDelivery

State: `rows` is `message_deliveries` in sequence order (state, fencing
generation, attempts, owner token, replay policy, and whether `last_error` is
the rate-limit code); `rt`, `enr`, `tick`, `cred` are the runtime session, its
enrollment, its launch tickets and its active credential; `attempt` is the
latest Attempt together with its Work as far as the lane reads it; `last` is the
`last_dispatch_message_id` of a success; `up` are the running Dispatchers and
`jobs` the `_process_delivery` coroutines. `subs` and `retries` are history.

Actions: `ClaimDelivery` is `_claim_delivery` with its requeue of expired
leases. A job then goes through the phases of `_process_delivery`, one action
per transaction: provider gate (`ProviderDefer`), dependency checks
(`DependencyFailure`, `DependencyStale`), `ResolveRuntime`/`PrepareFailed`,
`IssueLaunchTicket` and its refusals, `Reserve` (the commit of `dispatched`) and
its refusals with the ticket revocation that follows each, the adapter call
(`BeginCapture`, `ExchangeLaunchTicket`, `Submit`, `ObserveTurnEnd`,
`DispatchReturns` with any typed result), `FenceTicket`, `CheckHandshake`, and
one settlement per result (`SettleSuccess`, `MarkUnknown`, `MarkNotSubmitted`,
`RateLimited`, `PrivateBlocked`, `FailAndRecover`). `CrashDispatcher` drops a
Dispatcher and its jobs at any step. `WorkerCall`, `SupervisorCall` and `Scan`
are the service calls of the Worker, of the CAO or operator, and of the
background cycle.

Abstractions. The clock is free, and `next_attempt_at` never delays anything, so
the model has more interleavings than the program. Discovery and heartbeat are
told apart; the heartbeat is folded into `enr.st = "ready"`. The provider
circuit answers as it likes. A crash needs another Dispatcher to remain, else
nothing happens any more. The metadata write before a settlement is merged into
it (nobody reads it in between). A `turn_end` that the Dispatcher makes up when the
adapter raises (R:5029) touches no delivery row; it is `TurnEnd` with a failed end in
OutputCapture. The refusal of a malformed dependency list (R:4536) is left out:
`models.py`:502 admits only `docker_api_ping`.

`WorkerLease` extends the module with the lease of the runtime, `lease`: held, or due.
A ticket begins it. The bridge of a launched Worker renews it with its periodic
heartbeat (`mcp.py`:6447, `heartbeat_runtime`, S:12568), which needs the active
credential and no Dispatcher; a CAO or an operator may renew it by hand
(`cli.py`:628, `api.py`:1198; `OperatorRenews`, with the default reported state). So a
Worker whose Dispatcher died may keep the runtime busy for as long as it lives, and the
two liveness properties except just that: the renewal, for ever, of a lease that was
running out (`Kept`). A turn whose Worker is silent ends (`SilentTurnEnds`, the activity
monitor, R:1452); one whose Worker is heard from is not bounded, since
`managed_worker_hard_timeout_seconds` is None by default (`config.py`:232).

### 2.2 Supervision

State: `work` (state, attention owner, generation, `user_needed_boundary_id`),
`att` (the latest Attempt), `rt` (whether that Attempt's runtime is usable),
`bnd` (the Boundaries in order: kind, whether open, disposed, waiting for the
requester, answered or superseded, generation, Attempt, recovery messages sent,
review), `turn` (the leased `reasoner_turn` of each Boundary, live or expired)
and `reply` (one reply between its two transactions).

Actions: the Worker's `StartAttempt`, `Report`, `ReportProgress`,
`SettleOutput`; `EndRuntime`, `RecoverAttempt` and `RateLimited` for the loss of
its runtime; the requester's `Augment`; `AcquireTurn`, `ExpireTurn`,
`RecoverExpiredTurn`, `RecoverIncompleteTurn`; one action per disposition of
`_dispose_boundary_tx`, with `DisposeDenied` for a command that an unsettled
execution turns into `wait_user`; `ReplyOpen`, and `BeginReply`/`FinishReply`
for the requester's answer (`OtherReply` is any further caller of the same
method: its first transaction writes nothing, so it is one step); `Review*`,
`Requester*`; `CreateAttempt`, `ResumeWork`, `ReplaceGoal`, `CancelWork`.

The triggers of `database.py` that guard the requester question are conjuncts:
`work.ptr = 0` stands for `work_items_user_needed_boundary_replace_update` in
`AskRequester` and for `work_items_user_needed_contract_update` wherever an
operation writes the state or owner of a Work and keeps its pointer.

Abstractions. Goal versions move only with generations and are left out.
A managed-command admission depends on deliveries and effects outside the
module, so a refusal is always possible (`DisposeDenied`, or the action simply
does not happen). Wake-ups are assumed deliverable; CaoWake drops that assumption. Kinds that are decided
alike are merged (question, blocker and idle; review and requester rejection).
Left out here: Works that interrupt others (IntentLog), Worker threads
(WorkerThread), replays under an idempotency key (RetryCommand), the always
refused `fail`, the capture-integrity and dependency Boundaries.

### 2.3 Commands: CaoSession, WorkerThread, IntentLog, RetryCommand

`CaoSession`: one attachment and its generation (`att`), bootstrap capabilities
(`cabs`), connections (`conns`), conversation credentials (`cscs`), wake tickets
with the runtime credentials they are exchanged for (`tickets`), the tool catalog, a
Work of the conversation (`ownWork`, moved by the delivery, the Worker's acknowledgement
and report, the disposition, the requester's decision and the close, each by its own
action), and HTTP requests (`caller`) that are authenticated in one step and run their
transaction in a later one. Actions: bootstrap, attach, renew, rollover, wake
issue, exchange and outcome, lease expiry, authenticated calls, close, reopen.

`WorkerThread`: the thread row, its connection epochs with runtime and
credential, its Works, Attempts and deliveries, and client requests by
idempotency key. Actions: New, Instruct, Finish, Resume, Delete, Purpose, each
with the admission of `_admit_managed_worker_command_tx` and the replacement of a
lost route; ticket, dispatch, loss and report of the Worker. The answer to a
request may be lost, and the request repeated under its key, for ever.

`IntentLog`: the receipt of an intent (`_receive_canonical_intent_for_compat`), its
one classification by any of several CAOs (`_classify_canonical_intent_for_compat`;
both are kept for imported and replayed audit records and absent from the public
surfaces), the Directives and Works it makes, and the chain of Works that interrupt each other
(`interrupt`, `replace`, `cancel`, `augment`, `independent`, `noop`), with the
resume of the suspended Work and its refusal.

`RetryCommand`: `create_attempt` with its result row, the proof of a historical
RETRY that left none, the Boundaries named `retry:<key>`, and pruning of what
the proof reads.

### 2.4 Dispatch: CaoWake, StateReads, PushOutbox, ProviderCircuit, OutputCapture

`CaoWake`: messages to one conversation with their delivery rows (`msg`), what
the Desktop thread has of each (`prov`, external), dispatch jobs, the Boundary
and its turn, the route, readiness, the terminal proof and the scans: dispatch,
settle, unknown outcome, repair after an ended turn, requester notices,
reactivation, route replacement, retraction with its durable intent.

`StateReads`: `StateReadAdmission.reserve` and `finish` for one conversation and
resource: causes (native input, notification), forward pages, overlapping and
failing calls, a daemon that dies while reading.

`PushOutbox`: configurations, `_event`'s enqueue, claim with the requeue of
expired leases, post, finish. A job may always outlive its lease: `callback_timeout_seconds`
bounds each phase of the request, not the request, and nothing ties it to
`dispatcher_lease_seconds`. It then writes its result like any other, by row id alone.
`tally` is history: by push, the leases granted, the leases that ran out under their job,
the jobs that died within their lease.

`ProviderCircuit`: the circuit row of one scope, Assignments, runtimes, 429
Boundaries; the eligibility read, the claim of the probe with the reservation,
release, unknown, progress, close of a conversation and its takeover proof, which is
never granted (section 4).

`OutputCapture`: the streams of one runtime's lane: reservation, items, end of
turn, settlement, interruption, `reconcile_abandoned_captures` composed of the
transactions it makes, and terminal recovery. `Ambiguous` admits histories with
two Works that claim the runtime.

### 2.5 Records and lifecycle: EffectLedger, WorkClose, Retention, DashboardUpgrade, CodexRefresh, ConversationBridge

`EffectLedger`: operations, grants, executors that die at any step, `effect
recover`, and resolutions that read the status in one step and write in another.
`EffectGuard` is what it promises: per target and action, a command starts only
from "free"; `ImplementsGuard` is the refinement, with `GuardOf` as its mapping.

`WorkClose`: adoption of resources, stop, preparation, one or two concurrent
executions of the cleanup, preservation of the final artifact, effects per
target, resolution, the close receipt; crashes, changes by others and a
reattached CAO are faults. A target may also be removed by an effect that the CAO
started outside a cleanup; the two properties about removals speak of the others
(`RemovedDirectly`, section 4).

`Retention`: `prune` with any two ages (`EventAges`, `MessageAges`) between any two commands, beside those
commands that later read events and messages: Boundaries and supersessions, the
circuit's source, pushes, closes of a conversation, chunk reads and reviews,
recovery notices.

`DashboardUpgrade`: the steps of `upgrade_dashboard_lifecycle`, launchd, both
services' executions with process ids and groups, the signals, which go to one captured
group after another, the database with its schema
and writes, the backup and the rollback. `Migrates` says whether the new executable
changes the schema. The history `late` has the services that launchd restarted
between the capture of their group and their bootout: nothing fences those
executions (section 4).

`CodexRefresh`: the steps of `refresh_codex_app_server_mcp`, the Desktop that
replaces its host or its executable, and the bridges under the host.

`ConversationBridge`: the read loop of `serve_stdio_proxy`, its tasks, the
daemon's answers, renewals and proofs, and the Worker's heartbeat, with another child of
the same enrollment that heartbeats too (`OtherBeat`). `setup` is how
one bridge is started and what its surroundings do (a CAO's or a Worker's bridge,
the requests, which of them run as tasks, faults, credentials issued, heartbeats);
it is chosen from the constant `Setups` and never changes. `Alone` says that no
operation of the setup runs as a task.

## 3. Runs

| Run | Modules and instances | Bounds | Result |
| --- | --- | --- | --- |
| `wd_fence` | WorkerDelivery | 1 message, 2 attempts, generations up to 3, 2 tickets, 2 jobs, 2 Dispatchers | holds, 2.5 M states |
| `wd_lane` | WorkerDelivery | 3 messages, 1 ticket, 2 jobs, 2 Dispatchers | holds, 0.8 M states |
| `wd_live` | WorkerLease, `LeaseSpec` | 2 messages, 2 tickets, 1 job, 2 Dispatchers | holds, 0.6 M states |
| `supervision` | Supervision with a split reply | 2 Boundaries, 4 generations | holds, 0.4 M states |
| `commands` | CaoSession `close`, `wake`, `catalog`; WorkerThread `life`, `purpose`; IntentLog `chain`, `once` | 2 connections, credentials and requests, 3 capabilities; 3 epochs, 2 Works, 3 keys; 3 Works in a chain, 2 CAOs | holds, 0.6 M states |
| `dispatch` | CaoWake `dispatch`, `repair`, `retract`, `route`; StateReads `reads`; PushOutbox `push`, `late`; ProviderCircuit `one`, `two`; OutputCapture `turn`, `pair` | 2 to 4 messages, 2 jobs, 1 fault; 2 readers, 4 reads, 3 pages; 2 configurations with 2 attempts, 1 with 3 and a crash, 2 jobs; 2 Workers, 2 or 3 Assignments; 2 or 3 messages and Boundaries | holds, 2.1 M states |
| `records` | EffectLedger `ledger`; WorkClose `cleanup`; Retention `boundary`, `close`, `read`, `message`; RetryCommand `key`, `works` | 2 operations, a one-time and a standing grant of which one is issued; 2 resources, 2 executions, 3 faults; 2 Works and Boundaries, up to 9 events, 3 generations; 3 Attempts, 1 lane | holds, 0.4 M states |
| `follow_up` | CaoWake `wake`, PushOutbox `push`, WorkClose `close`, all fair | 3 messages; 2 jobs; 2 resources | holds, 0.07 M states |
| `bridge` | ConversationBridge with the setups `Tasks`, `LoopAlone`, `WorkerBeats`, `Context` | 3 or 4 requests, up to 3 credentials, 4 heartbeats | holds, 0.8 M states |
| `upgrade` | DashboardUpgrade `upgrade`; CodexRefresh `refresh` | 3 process ids, 5 executions, 1 write, a migration; 4 hosts, 2 executables, 2 bridges | holds, 1.8 M states |
| `wd_rate_limit` | WorkerDelivery | 1 message, 2 attempts, 1 job | violated (finding 1) |
| `sv_expired` | Supervision, `FairSpec` | 2 Boundaries, 2 generations | violated (finding 2) |

Deadlock is not checked: with every counter at its bound, or the Work, the
conversation or the operation ended, the systems really may stop.

**Why the bounds are enough.** A delivery conflict needs a stale job and a current
one (2 jobs, 2 Dispatchers), a row that was requeued or retried (3 generations),
and a launch before and one after (2 tickets); order needs a message before and
one after the one that moves. A supervision conflict needs two Boundaries of one
generation, or one left behind by the next; what three of them do is covered by
the proofs, which hold for any number. A wake, its repair and the notices to the
requester are four messages, and the requester's question is always among them; for
liveness a wake, its repair and one other message are enough. A stale command needs
the object before, at and after the change: a capability issued before a close, one
at it and one after (3), an epoch lost, replaced and resumed (3), a chain of
interrupters (3 Works). A one-time grant needs two takers; two probes of one
epoch need three Assignments, the refused one and one more for each of two Workers. A process id
is reused when there are fewer ids than executions. The bounds that belong to the
model only are the `Max*` constants but `MaxAttempts`
of WorkerDelivery and PushOutbox (`settings.max_dispatch_attempts`) and
`Attempts` of CodexRefresh, `OneGrantIssued`, `OneWork`, `SecondWorkStays` and the steps that
an instance of Retention takes (`BoundarySteps`, `CloseSteps`, `ReadSteps`, `MessageSteps`) of
`MCRecords`, and in `MCCommands` what an instance leaves out: leases that lapse, wakes or
the second request or bridge (`NoLapse`, `NoWake`, `AtOnce`, `OnePeer`), the last
capability or credential (`TwoCabs`, `TwoCscs`), the operations that requests ask for
(`Asked`) with, in `purpose`, the effect and the last epoch, the relations that do not
chain (`ChainOnly`), the third Work (`TwoWorks`); in `MCDispatch` the messages and generations
(`Grown`), two jobs at once (`OneJob`), a second Worker that restarts (`OneRestarts`) and the topics that do not occur in an instance of
CaoWake (`Quiet`). Where a theorem states the property the bounds do not matter.

The safety runs use symmetry where it is sound: Dispatchers, keys, sources and requests,
jobs and readers, Boundaries and keys of chunk reads, request and process ids are only
compared, and no bound names one of them. What the code numbers is not permuted, and the
runs of liveness use no symmetry.

**Properties**, by what could go wrong. Each is stated, with the code it is
about, in its module.

The runs `dispatch`, `records`, `bridge`, `upgrade` and, for one module each,
`commands` check conjunctions of the properties below, under a name of their own:
`WakesKept` is `WakeSubmittedOnce`, `WakesInOrder`, `ObligationKept`, `OneLiveWake` and
`RemovalVisible` of CaoWake, `SentOnce` what PushOutbox promises of the posts of a push
and ProviderCircuit of the probes of an epoch.

- *Two at once*: `AuthorityInv`, `FenceUnique`, `LaunchExclusive`,
  `DecisionAuthority`, `OneAuthority`, `OneLiveWake`,
  `OneProbePerEpoch`, `OnlyThisWakeActs`, `OneControlPlane`.
- *Twice*: `SubmittedOnce`, `WakeSubmittedOnce`, `NoBlindRepeat`,
  `ImplementsGuard`, `OneTimeGrant`, `AppliedOnce`, `RetriedOnce`,
  `OneTransition`, `OneRepairWake`, `TerminalOnce`, `NoSecondAnswer`,
  `NoPolling`, `NothingRedispatched`, `PostsAccounted`, `SettledIsFinal`.
- *Late or stale*: `NoRegress`, `NoOvertaking`, `WakesInOrder`,
  `RepairAfterEnd`, `ReplyAnswersItsQuestion`, `WritesUnderCurrentAuthority`,
  `NoReopenByOldCapability`, `StaleCatalogFenced`, `PurposeRead`,
  `RetryOfCurrent`, `OldInstructionsWait`, `EpochsMoveForward`,
  `CaptureFenced`, `OutputBoundaryEarned`, `ReviewedAfterFullRead`,
  `ReloadToAttested`, `ForwardedUnderProof`, `RejectedGivenUp`,
  `BystanderUnharmed`, `FreshGeneration`, `OnlyTheAttested`.
- *Lost*: `AttentionHasCause`, `RequesterQuestionKept`, `ObligationKept`,
  `NoStrandedAttempt`, `SuspensionExplained`, `InterruptedWaits`,
  `TurnReachesSupervisor`, `RemovalVisible`, `RefusedOnlyAfterRead`,
  `UnknownKept`, `EveryRequestAnswered`, `SurvivesExpiry`, `ReadyHolds`, and
  what pruning must leave: `AuthorityAnchored`, `CloseProvable`,
  `OneReplyPerKey`, `ReadStaysRead`, `NoticeOfOpenRecovery`.
- *Inconsistent or untrue*: `WorkAgreesWithAttempt`, `FinishedIsSettled`,
  `ClosedIsQuiet`, `LedgerTruthful`, `PreservedBeforeRemoval`,
  `NoRemovalUnderWorker`, `ReceiptTruthful`, `AnsweredAsApplied`,
  `RollbackRestorable`, `RollbackComplete`, `OutcomeTrue`,
  `OldGenerationGone`, `BeatFailsClosed`, `DegradedWasProven`.
- *Never*: `BusyEventuallySettles`, `TerminalLaneDrains`,
  `EndedWakeFollowedUp`, `EveryPushSettles`, `AcceptedWorkCloses`.

Some hold only in part, and are stated for that part. `DecisionAuthority` does
not say the lease is of the current generation: `recover_terminal_worker_attempt`
advances the generation without fencing. `NoOvertaking` speaks of a message that
waits for its first offer; one that was offered before can be overtaken (section 4),
and so does `WakesInOrder`, for the same reason.
`EveryRequestAnswered`, `SurvivesExpiry` and `ReadyHolds` are stated for a read loop
without tasks (`Alone`): with them they fail (section 4). A push may be posted more often
than `max_dispatch_attempts`, and again after it was delivered, but `PostsAccounted` and
`SettledIsFinal` say how often and after what. `BusyEventuallySettles` and
`TerminalLaneDrains` except a lease that is renewed for ever (`Kept`). `NoBlindRepeat` and
`ImplementsGuard` say that the ledger repeats nothing whose outcome is open; that the
effect really did not happen rests on the CAO, which resolves an unknown outcome only once
the executor is gone, and truthfully: the code asks for evidence and cannot check it.
`OneControlPlane`, `BystanderUnharmed` and `FreshGeneration`
speak of services that are not in `late` (and `RollbackComplete` of those, when there
is no migration by which a late write can be told). `PreservedBeforeRemoval` and
`NoRemovalUnderWorker` except the targets `RemovedDirectly`.

**Fairness.** `WorkerLease!Fairness` (weak): jobs of live Dispatchers keep stepping,
because asyncio runs them; a turn ends when its Worker is silent, by the startup and
inactivity timeouts; time passes; a lease that ran out is found, because `run_once`
repeats the scan; so is `SettleTerminalLane`. Nothing is asked of the Worker, the
provider, the CAO or an operator, who may also renew the lease at any time: what they can
hold up in this way the properties except (`Kept`).
`Supervision!FairSpec` (weak): the scan of expired turns,
which every background cycle repeats. `MCFollowUp!Fairness`: the scans of
CaoWake are repeated by every cycle (weak), and the activation rounds visit every
pending message although others come and go, because
`_cao_supervision_activation_candidates` moves a cursor (strong, per message);
push jobs end, back-off passes, and the loop claims
while it has room (weak). `callback_timeout_seconds` ends a push job whose callback is
silent; one that sends its answer byte by byte could keep it for ever, and is excluded by
this assumption; for WorkClose, a CAO that keeps trying each command,
deliveries that settle and executions that end or die (weak).

## 4. Findings

1. **A repeated 429 is dropped** (`wd_rate_limit`, S:10094). A row the open
   circuit parked keeps the rate-limit error; the fence takes it for an already
   handled 429, and the launch stays unfenced until its lease runs out.
   Docstring S:10083.
2. **A recovery scan that aborts for ever** (`sv_expired`, S:14866). The second
   interruption of a turn escalates although a sibling Boundary is already the
   question; the trigger aborts the transaction of the whole scan, in every
   cycle. Docstring S:14814.

Further disagreements met while modelling. Each was seen as a counterexample to a
property that is not among the runs; the models contain the behaviour.

- A cancel between claim and reservation does not stop the launch of a canceled
  Assignment (R:4865; comment R:3956).
- The reservation looks at the row's own lease and not at the lane again (R:4848), so
  a heartbeat that re-arms an exhausted row (S:12568) may do it behind a claim already
  made, and the later message is sent first (`docs/supervisor-control-plane.md`:405:
  "A later recipient sequence MUST NOT be leased while an earlier delivery is
  `queued`"; the re-arming is `docs/cao-operator-runbook.md`:216).
- A launch that never exchanged its ticket can be settled through the handshake of
  the next one, which reuses its generation (R:5093; `docs/runtime-adapters.md`:331).
- After a rate limit behind the Worker's output, a Work in `user_needed` may accept
  nothing but cancellation (S:15706; docstring S:14720).
- Continuing a failed Worker, or resuming an interrupted Work, leaves an undecided
  directive behind in an older generation (S:24009, S:23182;
  `docs/supervisor-control-plane.md`:435).
- A second interrupter overwrites the first, so the target runs while the first is
  open (S:23047; `docs/supervisor-control-plane.md`:180). Compatibility path.
- `resolve_effect` tests a status read before its transaction, so two overlapping
  resolutions both succeed (S:21572; S:21577).
- A push of unknown outcome is posted again (R:6147; `docs/protocols.md`:234).
- A confirmed wake is not recorded when the job of an earlier one has set the
  shared runtime to waiting (R:5127; `docs/architecture.md`:65). If its lease has
  expired by then, it no longer holds back the next wake either, and when it turns out
  not to have started it is submitted behind it (R:5974; docstring `delivery_lane.py`:149).
- Effects can be resolved, and the Work closed, while a cleanup still removes
  (S:21581; `docs/explicit-close-contract.md`:177); `start_effect` starts a prepared
  cleanup target directly (S:21430; line 139 there); a file artifact without a
  staged copy cannot be preserved again after a crash, and its Work not be closed
  (S:13381; docstring S:13223).
- An instruction to a lost connection replaces a lane that is not quiescent
  (S:3657; docstring S:3482).
- An Assignment handled without a report leaves the circuit half open for good
  (S:7534; `projection.py`:5323); the takeover proof can never succeed, since
  nothing records the event it wants (S:6247; docstring S:5921).
- Reconciliation writes an Attempt state the audit does not allow
  (`worker_output.py`:969; `projection.py`:75), and can link an interrupted receipt
  behind a completed one, which blocks its review (`worker_output.py`:1016;
  `docs/cao-operator-runbook.md`:290).
- A service restarted between its capture and its bootout is in no captured group,
  and may still exist when the backup is taken (`dashboard_lifecycle.py`:3732;
  `docs/dashboard-operator-edge.md`:457).
- In the bridge, a progress task that learns of an expired credential first can
  leave a repeated `cao_start` unanswered (`mcp.py`:5844) or end the process at the
  read loop's own 401 (`mcp.py`:5955; comment 5956), and a close that runs as a task
  drops an attachment made after it (`mcp.py`:5660; comment 6042).

## 5. Proofs

A proof module extends the component's module, so its theorems are about the very
definitions that the runs check, for every value of the constants. All theorems are
of the specification without fairness, and rest only on the named assumptions of the
component's module: bounds are naturals (positive where zero would be an empty
system), and null values are not values. TLC checked each inductive invariant on a
small instance before it was proved.

| Module | Theorems | Property stated |
| --- | --- | --- |
| `WorkerDeliveryProofs` | `TypeCorrect`, `LaunchAuthority`, `FencesAreUnique`, `SubmittedAtMostOnce`, `LaunchIsExclusive`, `AcknowledgedStays`, `LaneOrder` | `TypeOK`, `AuthorityInv`, `FenceUnique`, `SubmittedOnce`, `LaunchExclusive`, `NoRegress`, `NoOvertaking` |
| `SupervisionProofs` | `TypeCorrect`, `AuthorityHolds`, `WorkAndAttemptAgree`, `AttentionIsJustified`, `QuestionIsKept`, `RepairedOnce`, `ReplyMatchesQuestion` | all seven of the run `supervision` |
| `RecordsProofs` | `EffectsAreAccounted`, `LedgerIsAGuard`, `RemovalIsSafe`, `RetryIsOnce` | `EffectsAccounted`, `ImplementsGuard` (EffectLedger), `RemovalSafe` (WorkClose), `RetriedOnce` (RetryCommand) |
| `ConversationBridgeProofs` | `CredentialIsProven`, `RequestsAreAnswered`, `AnsweredOnlyOnce` | all three of the run `bridge` |
| `LifecycleProofs` | `UpgradeIsFenced`, `RollbackIsRestorable`, `ReloadReachesAttested` | all three of the run `upgrade` |
| | `EvidenceIsKept` | `PruneKeepsEvidence` (Retention; the run `records` takes the commands of one kind of evidence at a time) |
| `CommandsProofs` | `AuthorityFenced`, `AuthorityStaysCurrent`, `IntentsAppliedOnce` | `SessionFenced`, `AuthorityCurrent` (CaoSession), `IntentsApplied` (IntentLog) |
| | `ThreadIsSettled`, `ThreadOnlyMovesOn` | `ThreadSettled`, `ThreadMovesOn` (WorkerThread) |
| `DispatchProofs` | `ReadOncePerCause` | `OneReadPerCause` (StateReads) |
| | `ProbedOnce`, `CircuitMovesForward` | `OneProbePerEpoch`; `OldInstructionsWait` and `EpochsMoveForward` (ProviderCircuit; parts of `SentOnce` and `LateIsFenced`) |
| | `EveryPostAccounted`, `GivenUpStaysGivenUp` | `PostsAccounted`; `SettledIsFinal` (PushOutbox; parts of `SentOnce` and `LateIsFenced`) |
| `WakeProofs` | `WakesAreKept`, `RepairAnswersEnd` | `WakesKept`; `RepairAfterEnd` (CaoWake; part of `LateIsFenced`) |

**WorkerDelivery.** `FenceUnique` is not inductive: nothing in it stops a claim from
handing out a generation that some forgotten job still holds. `FenceBound` adds what
the code relies on: a job's generation is one its row has had, and one the row has
left once the row is queued again. So the claim, which leases a queued row at its
current generation, makes a new fence. The inductive invariant is
`IndInv == TypeOK /\ FenceInv /\ AuthorityInv` with
`FenceInv == FenceUnique /\ FenceBound`. Every action but the claim is shown to
make a `StepOK` step: rows only advance (`RowsAdvance`: no generation is lowered
and a row is queued again only at a new one), jobs are dropped or keep their
fence (`JobsKeepFence`), and the launch authority is kept. `FenceStep` derives
the fences from that once, for all of them; the claim has its own lemma.

`SubmittedOnce` bounds a history counter that nothing in the program keeps. The
strengthening is a budget (`Budget`): the submissions made and those a job may still
make ("cocked": reserved, not started) are paid for by the operator's resolutions, and
the first one by the row itself, once it cannot be launched any more. A row can be
launched while it waits, is leased, or is exhausted and of the policy that a heartbeat
replays; the reservation ends that, and only a resolution as not delivered, which pays,
begins it again. `Policies` says that no open row has the replayed policy, so that
nothing else does. The inductive invariant
is `SubInv == IndInv /\ Budget`. `LaunchExclusive` and `NoRegress` are action
properties that follow from it step by step.

`NoOvertaking` is proved from `LaneInv`: the lane is filled without gaps, and an
earlier open row behind a lease was offered before. The claim sees the head of the
lane and the reservation does not look again; what saves the order of first offers is
that only a send opens a row for the first time, at the next free place, and that
whatever reopens a closed row moves its generation on.

**Supervision.** The state invariants of the module are inductive together
(`SupInv`). Each action is reduced to one of the few effects it can have: it records
a Boundary, decides one, starts a new Attempt, ends the Work, or touches neither the
state nor the generation of any Boundary. `ReplyAnswersItsQuestion` is an action
property about the second transaction of a reply.

**EffectLedger.** `LedgerInv` adds three facts to the checked invariants: a command
runs only while its operation is unresolved (`RunningIsOpen`), what a resolution read
still holds when it writes (`PendingSound`: one that will write a final outcome was
admitted when no command ran, and none can start), and a one-time grant an operation
names is not open any more (`GrantSpent`). The refinement maps the rows of a key to
the state of its guard (`GuardOf`); `GuardStep` shows that every step of the ledger is
a step of `EffectGuard` for one key and a stutter for all others.

**WorkClose.** `CloseInv` follows a removal back to what allowed it. The reservation is
the moment that counts (`ReservedOnce`: the artifacts are sealed, no Worker runs, every
effect is started); a call runs only under it, alone, and knows what it has removed
(`CallsAccounted`); and what is not there was removed under the reservation or by the
effect recorded for it (`RemovalsAccounted`). What the close receipt says then follows
from the effects.

**RetryCommand.** `RetriedOnce` says that one key makes one Attempt, and that a
repeated call is answered with it. The row that answers may have been pruned, or never
written, so the proof follows the Boundary named after the key: it is undecided only
while its generation is the Work's (`Numbered`, `BoundariesCurrent`), what decided it
made its successor with its goal and Worker (`DecidedBySuccessor`), and an Attempt that
a key made is the successor of that key's Boundary (`MadeByDecision`). `ResultsApplied`
then says that a result row, and the last answer, tell what was made.

**ConversationBridge.** The theorems hold for every setup in `Setups`, of which there
may be any number. `BridgeInv` has five parts: the shape of the read loop
(`ShapeInv`), the proofs of credentials (`ProofInv`), a budget of responses
(`AnswerInv`: responses given, and those the read loop and a task may still give,
are paid for by requests), the heartbeats (`WorkerInv`), and the read loop alone
(`AloneInv`: only the request it works on waits for a response, its attachment holds
while it awaits the daemon, and a credential that was refused is invalid).

**DashboardUpgrade.** `UpgradeInv` ties the step of the operation to the host. Executions
that share a process group are of one service, and so is what was captured of it,
although process ids are reused (`GroupsApart`); until the restart every root of the
Control Plane is captured, or was restarted late (`PhaseInv`, `RootInv`). So since the
backup only executions started after it serve the database, and every write it lacks is
theirs (`BackupInv`). The theorems hold with and without a migration, for any number of
process ids, executions and writes.

**CodexRefresh.** The operation compares paths and reads them again, and the Desktop
may put another host behind the path in between. Two reads that agree are enough
because the generations behind the path only grow, so the host that was connected to
lies between the one attested and the one at the path (`PeerSound`, `ConnSound`).

**StateReads.** The admission compares causes by the row it has stored for the
resource, while calls overlap, fail and die. `ReadInv` rests on causes that only grow:
whatever a call or the row knows is of a cause up to the present one (`CausesKnown`),
calls are told apart by their reservation ids and causes (`ReadsApart`), and the row of
the present cause belongs to the one call that reads it, or lost it with its process
(`ReadOfNow`, `PendingIsRead`). `PagesUnread`, `Continues` and `KeptForNow` say that the
row, and what a failed read puts back, agree with the pages that were really returned,
so that the next call reads what is missing and nothing else.

**ProviderCircuit.** What was handed over since a 429 is counted nowhere in the
program; it is bounded by the circuit's row (`HandedSound`): nothing while the
circuit is open, at most the probe while it has one. Every action is reduced to a
`CircuitMove`, one of the ways in which the writers change the row.

**PushOutbox.** `_finish_push` writes by row id alone, so a job that outlived its lease may
queue again a push that another job works on, or has delivered. The theorems assume
nothing of leases and callbacks. What bounds the posts is that a row which may be taken
has, for every lease granted on it, a failure that was counted, a lease that ran out or a
job that died (`Budget`): a late job is paid for by its own lost lease, once, whatever it
writes. While no lease of a push ran out there is at most one job on it, with a live
lease, on a row that is leased or was deleted (`Alone`); so a settled push is queued again
only after an overrun. Both are in `OutboxInv`.

**CaoWake.** The queue of the thread, the delivery rows, the jobs and five scans all
move the same few rows, so the proof first says what any step may do to a row
(`Calm`): its generation never falls, a closed row stays closed, and it does not become
a first offer again. All steps but the claim, the reservation and a retry are moreover
`Quieter`: no row becomes one that may be submitted. `WakeInv` adds to the checked
properties that a row which may be submitted was not, and that one job at most offers it
(`OfferedOnce`); that a claimed row has no earlier first offer left (`ClaimedInOrder`);
that a row under way did not fail, so that a supersession closes it (`RowsSound`); that
what is being removed stays obsolete until that is recorded (`RemovalSound`); and that a
turn which the scan saw end has ended (`ScanSound`). An open Boundary stays served
because no step takes the last wake that serves it away without a turn or a successor
(`ServedStep`); only the repair, the reactivation and the re-arming change which one it is.

**CaoSession.** A closed conversation is quiet only if nothing of it was left behind when
its connections were replaced, its leases lapsed or its catalog rolled over. `SessionInv`
says what may be active at all: a credential with its connection, a connection with the
attachment and the catalog of its bridge (`ConnectionsCurrent`), a wake with the busy
runtime of the present generation and no later wake (`WakeHoldsRuntime`); rows are
inserted in order (`ConnsNumbered`, `TicketsNumbered`). A reopening is by a capability of
its era because a close moves the generation that the older ones have seen
(`ClosedInItsEra`). `AuthorityCurrent` follows from it step by step.

**IntentLog.** `SuspensionExplained` and `InterruptedWaits` are about pairs of Works, and
are not inductive without knowing that Works are created in order, and that a Work is
suspended by a pause or by an interrupter, not both (`WorksNumbered`, `OneCause`). The
proof treats each operation as a change of one Work and of the one it waits for
(`WorkByWork`); an intent is applied once because an open one was not applied yet
(`AppliedWhenDone`).

**WorkerThread.** That a running Attempt is never stranded is a matter of four tables.
A command replaces the route when it is not ready, and may do so because nothing runs on
it: an Attempt that runs is of an active Work, on the unretired epoch, and is its Work's
latest (`WorksCurrent`, `AttsCurrent`), and that epoch is the only one and of the thread's
generation (`EpochsCurrent`). A lease outlives its Attempt when the thread is finished, but
gets a ticket, and is submitted, only on the current route (`MsgsCurrent`). Why an answer
or a lost outcome, which ends or parks its Attempt, leaves nothing behind: a runtime serves
one delivery at a time (`OneServing`), because a ticket is issued to a runtime that is not
busy, and a running Attempt has one delivery whose outcome is open (`OneOpen`), because an
instruction that reuses an Attempt passes the lane's blockers, which such a delivery is.
`ThreadInv` joins these with the order in which rows are numbered (`ThreadRowsBound`:
`Instruct`, `ContinueWork` and the rest take the first blank row, and references are to
rows that exist) and with `TookOnce`. Each handler is proved to keep it; the commands share
three lemmas: the route taken (`RouteTaken`), an Assignment given on it
(`AssignmentKeepsInv`), and the end of supervision (`TerminalizedKeepsInv`).
`ThreadMovesOn` follows step by step: commands rewrite only deliveries nobody claimed
(`OnlyUnclaimed`), and a ticket proves the lineage of what is submitted
(`SubmittedToCurrent`).

**Retention.** `PruneKeepsEvidence` counts events and asks how far reads reach, so
`RetentionInv` says instead what each event stands for. An event has a number of its
own (`EventsNumbered`) and a subject that is still there: a close that is done, an
output whose capture is readable, a Boundary that was recorded (`EventsHaveSubject`).
With `CloseOnce` nothing is added to the events of a generation after its close, so
their number stays the result's. A reply is the audit of its key (`RepliesAudited`), and
every byte that was shown has the audit of a read (`SeenAudited`), which is what makes
`Reached` equal to what was shown (`ReviewableWhenShown`). `Reached` takes a maximum:
`ReachedMeansCovered` proves by counting that it exists, since the naturals that the
spans reach are an initial segment. Every case of `EventKept` is used in
`PruneKeepsInv`; of the messages only `NoticeKept` is, since no command of the module
reads the others again. The theorem assumes what
`RetentionConstants` says of the constants: finitely many Works and Boundaries, and
bounds that leave room for one close.

**Only model-checked.** Of the run `dispatch` what is about OutputCapture: it folds its
transactions over sequences, which needs induction over data. The properties of `wd_live` and `follow_up` are liveness
under fairness, and `ENABLED`, which the prover does not handle. The two findings are counterexamples, which TLC finds.

## 6. Plan

Proved: EffectLedger, Supervision, WorkerDelivery, ConversationBridge, CodexRefresh,
ProviderCircuit, DashboardUpgrade, WorkClose, RetryCommand, StateReads, PushOutbox,
CaoSession, IntentLog, CaoWake, WorkerThread and Retention, with the invariants above.
What is left is liveness and OutputCapture, for the reasons given there.

## 7. Not modelled

Read models and projections, the dashboard pages, the HTTP and A2A routes and the
tool schemas, the Dashboard Edge and its access checks, the command line, the
owner-private policy and preservation edges, supervision memory and adaptation,
configuration and identities: they translate, format or check, and change no
state of their own that interleaves with anything; where they refuse, the modules
have the refusal. The adapters' process, JSON-RPC and stream handling is I/O; what
the Dispatcher sees of it is in WorkerDelivery and CaoWake. The schema and its
migrations are data, but the triggers that guard an operation are conjuncts of
its action. Goal packets, completion contracts and handover text are content.
Compositions of two modules are not checked as such: where one reads another's
state (Supervision and CaoWake, WorkerDelivery and ProviderCircuit, WorkerThread
and CaoSession), it has the other's outcomes as free choices, which admits more
behaviours than the composition.

# HostDeck in TLA+

HostDeck lets paired phones watch and steer the Codex sessions of a laptop. One
Node process per state directory holds a SQLite database, one connection to the
Codex app-server (a WebSocket over a Unix socket), and a Fastify HTTP/SSE
server behind Tailscale Serve; a command line installs it as a systemd user
service. This directory models the parts that decide whether it is correct:
what is stored of a session, how it reaches a browser, how a write is carried
out at most once and audited, how an approval Codex asks for is answered, how a
lost connection to Codex is recovered from, how a turn is started, steered and
interrupted, how a thread is started, archived and adopted, how a browser is
paired, when remote requests are admitted, and what an interrupted install or
upgrade leaves.

Paths below are relative to `packages/`. Commands, from this directory:

    tlc -workers 2 -config MCSelectedWrite.cfg MCSelectedWrite
    tlapm SelectedWriteProofs.tla

`PROJECT.json` lists the components, the runs with their properties, a mutant
for every property, the source lines each definition models, the hazards, the
findings and the theorems.

## 1. Inventory

| Component | State it keeps | Operations | Talks to |
| --- | --- | --- | --- |
| Selected-state repository (`storage/selected-state-repository.ts`, `projection-append-port.ts`) | per session: mapping, projection counters, event rows, start-recovery records | create, adopt, append (with retention), replace with boundary, replace, unmanage, list events | everything that writes a session; publishes committed events to the fan-out hub |
| Startup retention (`storage/startup-retention-maintenance.ts`) | none of its own | prune in batches until nothing remains | the repository, before the listener |
| Event pages, session detail (`server/projected-event-routes.ts`, `storage/selected-session-read-repository.ts`) | none | read a page, read the detail | the repository |
| Projection delivery (`server/projection-fanout-hub.ts`, `projection-replay-live-handoff.ts`, `projection-subscriber-stream.ts`, `fastify-sse-source.ts`) | subscribers per session; per stream a replay, a queue, a cursor | subscribe, publish, open (replay then live), next, terminate | the repository, the browser |
| Browser stream (`web/src/sse-client.ts`, `connection-state.ts`) | cursor, attempts, failure | connect, take an event, retry, give up | delivery |
| Selected write path (`server/selected-write-gate.ts`, `selected-write-admission-policy.ts`, `selected-write-audit-executor.ts`) | owners, retained results, slots, rate windows, waiting retries | admit, replay, resolve, accept, dispatch, settle, drain | audit repository, host health, lock, device authority, the control services |
| Audit trails (`storage/selected-audit-repository.ts`, `startup-audit-orphan-reconciliation.ts`) | accepted and terminal record per operation | record accepted, record terminal, close orphans, prune | write path, startup, gap, shutdown |
| Health, lock, device authority (`server/host-health.ts`, `storage/settings-repository.ts`, `server/device-authority-lifecycle.ts`) | readiness and its generation, the lock, the devices in use | update, lock, revoke | write path, routes |
| Approvals (`server/codex-approval-control-service.ts`, `codex-adapter/src/approval-client.ts`, `server/approval-routes.ts`) | a record, a timer and a tail of operations per request id; waiting users | register, respond, wait, observe, expire, disconnect, close | broker, event pipeline, write path |
| Protocol broker, transport (`codex-adapter/src/broker.ts`, `transport.ts`, `connection.ts`) | client requests, server requests, retired ids | request, answer, receive, fail on disconnect | Codex |
| Reconnect and reconciliation (`codex-adapter/src/reconnect-controller.ts`, `server/codex-runtime-reconciliation-lifecycle.ts`) | generation, phase, held inbound messages | connect, reconcile, resubscribe, admit, clean up | broker, approvals, audit, repository |
| Event pipeline, projection (`server/codex-event-pipeline.ts`, `codex-projection-service.ts`, `codex-projection-reducer.ts`) | a serial tail, a failure latch | consume, barrier, reconcile, change membership | normaliser, repository, control services |
| Managed threads, adoption (`server/managed-thread-service.ts`, `native-session-adoption-service.ts`) | a recovery row per start, the archives whose outcome is unknown | start, archive, adopt, unmanage, reconcile | Codex, repository, pipeline |
| Turn controls (`server/codex-*-control-service.ts`) | a prompt record and an interrupt record per session, active turns, waiters, pending settings, goals, plans | prompt, steer, interrupt, wait, observe; model, plan, goal, compact, usage, skills | Codex, pipeline |
| Pairing, authentication (`storage/selected-pairing-repository.ts`, `auth-repository.ts`, `server/device-authority-lifecycle.ts`) | codes, rate windows, devices, the requests that wait on a device | issue, claim, bootstrap, authenticate, revoke | routes, audit |
| Security mutations (`server/security-mutation-audit-executor.ts`) | audit trails, emergency lock | audited change, deferred lock | pairing, remote ingress, settings |
| Runtime supervision (`server/codex-runtime-supervisor.ts`) | the Codex child process | start, watch, stop | reconnect |
| Remote ingress (`server/remote-ingress-*.ts`, `storage/selected-remote-ingress-repository.ts`) | the selected mapping, the admission proof, an observation lease, a guard timer | enable, disable, status, admit, close | Tailscale, audit, the HTTP listener |
| Composition, shutdown (`server/production-application-composition.ts`, `application-shutdown.ts`, `fastify-host-lifecycle.ts`) | stage | start, drain, close in order | everything |
| Command line (`cli/src/service-lifecycle.ts`, `shell.ts`) | the transaction journal, releases, selector, unit links, environment file | install, upgrade, start, stop, restart, uninstall, recover | systemd |
| Contracts, core, web screens, generated protocol, fixtures, scripts | none that decides | | |

Hard behaviours, and what makes each component correct:

* **Store.** Several tasks read a session, await and write it back: a write
  must not land on a state its writer has not seen. Cursors must never be
  reused, because browsers resume by cursor. Whatever retention, adoption and
  runtime losses leave must satisfy the checks the next append and the next
  read apply, and dropped history must be visible as a boundary.
* **Delivery.** Commits fall between subscribing, reading replay pages and
  going live; retention may overtake a replay; a slow reader must harm itself
  only; a browser must miss nothing, see nothing twice and catch up.
* **Writes.** Clients retry; the process may stop between the accepted record,
  the dispatch and the terminal record; the audit write itself may be
  ambiguous; devices are revoked and the runtime is lost in the middle. An
  operation must have at most one effect, and trail and replies must not lie.
* **Approvals.** A user's decision, HostDeck's expiry, another client of the
  same Codex and the loss of the connection race for one request, while a send
  may be pending; request ids start again when Codex restarts.
* **Recovery.** A connection may be lost at any await of the cycle that follows
  the previous loss; notifications queued before a loss drain after it; a
  session shown as current must be one the open connection resumed, and the
  events kept behind a boundary must all be of one connection.
* **Turns.** The answer to a start, a steer or an interrupt and the
  notifications of the same turn come in any order, or not at all; a record must
  neither outlive its turn nor be dropped while it runs.
* **Threads.** A thread is made in one process and recorded in another: the
  answer may be lost, either may stop in between, and two operations that want
  one alias check it in different tables.
* **Pairing.** A guessable code, a clock that may be set back, and answers that
  are on their way when the device they are for is revoked.
* **Remote ingress.** Admission depends on a durable row, a durable proof and a
  lease in memory; the command that changes the mapping may hang, be carried
  out without an answer, or be undone by somebody else.
* **Service commands.** A command is killed, or the machine restarts, between
  any two file operations and calls of `systemctl`; the next command has the
  journal only.

## 2. Modules

| Module | Models | Extends |
| --- | --- | --- |
| `ProjectionTable` | the rows and counters of one session and what each operation and check makes of them | |
| `ProjectionStore` | every transaction on it, writers with revisions, startup retention | `ProjectionTable` |
| `EventPages` | the page route and the detail read over any table the store reaches | `ProjectionStore` |
| `GapFreeFeed` | abstract: readers that receive each event once, in order, and skip only with a boundary that tells them what | |
| `EventDelivery` | hub, handoff, streams, SSE source and browsers over a table | `ProjectionTable`; refines `GapFreeFeed` |
| `WriteAdmission` | the admission policy as operators on its state | |
| `SelectedWrite` | gate, executor, audit trails, host, process | `WriteAdmission` |
| `ApprovalControl` | approval service, server-request table, connection, Codex | |
| `RuntimeRecovery` | reconnect controller, reconciliation lifecycle, event pipeline and stored sessions, composed | |
| `TurnControl` | prompt and interrupt services of a session, their observers, the pipeline's turns, a reconnection, Codex | |
| `ThreadStart` | the start saga, archive and adoption against HostDeck's tables and Codex | |
| `DevicePairing` | codes, claims and their limits, devices, CSRF rotation, revocation | |
| `RemoteIngress` | ingress control, lifecycle, admission, streams, Tailscale | |
| `ServiceLifecycle` | the service commands, their journal, systemd and kills | |
| `ProjectionStoreProofs`, `SelectedWriteProofs`, `ApprovalControlProofs`, `RuntimeRecoveryProofs`, `TurnControlProofs`, `ThreadStartProofs`, `DevicePairingProofs`, `HostOperationsProofs` | theorems (section 4) | their component; `ProjectionStoreProofs` extends `EventPages` and `EventDelivery`, `HostOperationsProofs` extends `RemoteIngress` and `ServiceLifecycle` |
| `MC*` | instances for TLC | |

### ProjectionStore

`tbl` is a function from cursors to rows (`"real"` or a boundary with its
reason) with the persisted counters beside it: `count`, `earliest`, `last` and
the retention floor. `Create`, `Adopt`, `AppendEvent`, `ReplaceWithBoundary`,
`Replace`, `Unmanage` are the repository's transactions; SQLite is synchronous
here, so each is one step. `Read` gives a writer the revision it will present
(`Revision` is selectedStateRevision), and `StaleWrite` is the refusal when it
has changed. `AppendRefused` is an append whose retention check throws: the
transaction is rolled back. `MaintainBatch` and `FinishStartup` are the startup
pass. Byte limits are a Boolean the environment chooses: `ByteChoices` says
whether the table may exceed the byte limit whatever its count. `writes` is a
ghost that counts commits, so that "the revision names one state" can be said.

### EventDelivery

`Event` and `RuntimeLost` commit to the table and publish in the same step, as
`projection-append-port` does in one turn of the event loop. A stream goes
through `Open`, `Capture` (subscribe paused), `ReplayPage`, `Check`, `Activate`
and then `Pull`s; commits in between meet `OnCommitted`, which holds, checks
or queues them. In production the open is one synchronous turn; the handoff's
tests let commits fall between its storage calls
(`projection-replay-live-handoff.test.ts:306-341`), and the model follows the
tests, an over-approximation. `Receive`, `NoticeEnd`, `Connect` and `Retrying`
are the browser; `Drop` and `Crash` cut connections. Archived sessions, bytes,
device-wide and global limits, abort reasons and heartbeat timers are left
out. `ImplementsFeed` maps the table's last cursor, each browser's position and
the cursors a boundary told it are gone to `GapFreeFeed`. Only a boundary adds
to those (`Took`), so an event taken beyond a hole is no step of the feed; nor is
an objection of the browser to the order of what it was sent (`Place`), so a
handoff that sends a hole, a duplicate or a reordering does not implement the
feed whether the browser notices or not.

### SelectedWrite

One step is one turn of the event loop. A request is `Claimed` (owner),
`Retried` (waits for the owner or is given the retained result) or
`TurnedAway`; the owner resolves its target, takes a target slot (`Bound`),
writes the accepted record (`AcceptedThenSent`, `AcceptedThenStopped`,
`AuditRefused`, `AuditUnproven`), dispatches, prepares the response and
settles. `effect` and `sent` are ghosts of what reached Codex. The process may
stop anywhere (`Ends`, `Start`); on start the gap is prepared, then orphan
trails are closed and old ones dropped (`Maintains`), and only a complete pass
lets the listener up. `PreparesGap`, `RuntimeReturns`, `RuntimeLost` are the
lifecycle around a lost runtime, `Drains` and `Barrier` the shutdown.
Targets double as intents (the fingerprint of an operation is its actor and
its target); parsing, CSRF, canonicalisation, clock failures and the routes
that do not require an unlocked host are left out; the executor's terminal
record and the gate's settlement are one step because nothing awaits between
them. That the rate window is no longer than the admission TTL is enforced by
`contracts/src/resource-policy.ts:343`.

### ApprovalControl

Each request id has a record, a tail of queued operations and at most one send
under way. Operations are microtasks: `Settled` keeps timers, requests,
messages and send completions from running before the queue has emptied, as
JavaScript does. `Register`/`Overloaded` receive an ask; `Respond`,
`DeclinesInstead`, `Refuses`, `RespondTooLate` are `respond`'s paths;
`Expire`, `ExpireDue` decline; `Observe` applies a notification; `Writes` and
`SendEnds` are the broker's send with its three outcomes; `LinkLost`,
`Disconnect`, `Reconnects`, `Admits` are the connection: the next one begins
when the cleanup and the pipeline are done, and answers are refused as not
sent until it is admitted. Codex (`Hears`, `AnsweredElsewhere`, `Tells`) is
external: it takes the first answer and tells that the request is resolved,
the item completed and the turn ended. Each id stands for one ask with its own
turn and item, asked at most once per connection; archived sessions, storage
failures, several requests of one turn, timestamps and unmanaged threads are
left out. Which ended record makes room for a new one is left open, and so is
how many places requests of other sessions take (`Elsewhere`).

### RuntimeRecovery

`ctl` is the reconnect controller (`run`, `runConnectionCycle`, `waitForWake`,
`fail`), `life` and `step` the reconciliation lifecycle it calls with the
sessions still to do, `pipe` the event pipeline with its queue, `held` the
notifications of a generation that is not admitted yet, `sess` what the
repository has of each session. An action is what runs between two awaits:
`PrepareGap`, `Mark`, `CleanupDone` are `disconnected`; `Observe`,
`CommitBoundary`, `ReconcileDone` are `reconcile`, with `PipeFence` the fence
it puts on the pipeline; `Resume`, `ResubscribeDone` are `resubscribe`;
`Barrier`, `Publish`, `ReadyDone` are `ready`; `Arm` drains what was held and
admits. `Notify` is an inbound notification, held or direct; `AskUnmanage`,
`QueueUnmanage`, `PipeUnmanage` are the membership change of an adopted
session. `sess[s].since` and `fence` are what the events behind a session's
boundary and the boundary itself came from. A step whose connection is lost is
abandoned at its next await before the next step starts: every adapter call it
waits for rejects when its generation ends. Left out: delays, deadlines' values
(a step may fail at any await), the controller's `close`, event contents.

### TurnControl

`prompt` and `intr` are the two services (`rec` the record, `call` the request
that holds the service's place, `early` and `ended` what an observer noted while
it waits, `active` and `waiting` of the interrupt), `pipe`, `norm` and `proj`
the pipeline, the normalizer's turns and the stored projection, `line` the
connection, `codex` the turns Codex runs. `Dispatch` is a prompt with its
choice of start or steer, `PromptAnswered` and `PromptUnanswered` what its
`catch` and its end make of the answer; `Interrupt`, `AwaitTerminal` and
`GiveUpWaiting` are the interrupt's. The pipeline takes one notification at a
time through `Project`, `HearInterrupt`, `ApplyInterrupt` and `ApplyPrompt`; the
observers wait for the place of their service, so a notification waits for the
answer of a request, and what is noted before that wait is what the request
finds. `Lose` to `Publish` are one reconnection at the grain the services see
(`RuntimeRecovery` has its steps): what Codex tells before the thread is resumed
is not heard. Left out: the archive of a thread, the number of tracked turns,
pending model and plan settings, items of a turn, a resolved approval's or
input's own notifications.

### ThreadStart

`row` is the recovery row of a start, `sess` its session, `req` where the start
in progress is (`cwd`, `sent`, `find`, `read`, `goal`, `clear`, `verify`),
`thread` and `wire` are Codex. A start reserves its alias, sends
`thread/start`, records the thread, materialises it (a paused goal, set and
cleared), stores the session and drops the row; each request may be rejected,
or go unanswered before or after Codex has carried it out. `arch` is the
archive with its verification, `notice` the `thread/archived` notification that
races its response. All starts and one native thread, whose adoption runs
through the pipeline, ask for one alias. HostDeck or Codex may stop anywhere.
Retrying a start goes through the write gate, whose trail (`audit`) refuses an
operation id twice: only one that is still held is taken up again.

### DevicePairing

One tick is the coarsest time that tells the windows apart. `Issue` makes a
code; `Arrive` to `SendClaim` are a claim: the in-flight limits, the counted
attempt (`ClaimLimited` when a window is full), the transaction that spends
the code and makes the device, the terminal record, the answer. `Authenticate`
to `SendBoot` are a bootstrap: a device's cookie, the CSRF rotation, the lease
that `Revoke`, `IngressWithdrawn` end, checked again in the `onSend` hook.
`ClockSetBack` moves the wall clock back, `Restart` loses what is in memory and
closes orphan trails. Hashes are equality of codes; a wrong guess is one value.

### RemoteIngress

`row`, `proof`, `trail` and `latest` are durable, `lease`, `busy`, `phase`,
`guard`, `stream` are the process, `serve` is Tailscale's published mapping.
`EnableBegin` and `DisableBegin` run the preflight observation, `Refuse`,
`EnableRejected`, `EnableAccepted` and `ManagerRuns` the accepted record and
the command, `EnableApplied`/`DisableApplied` the write of what was observed
after it, `Terminal` the terminal record, `EnableProven` the proof;
`StatusBegin` to `StatusEnd` are one poll, which renews or drops the lease.
`ObserverReads` and `ManagerRuns` may also fail, hang or have their effect
without an answer. `Open` is `readAdmissionLease`; `GuardFires` closes streams
at the end of the lease, `LifecycleFails` for good. One origin; draining,
requests that do not stay open and the content of an observation are left out.

### ServiceLifecycle

`disk` is what the lifecycle owns (releases whole, torn or absent; selector;
unit links; environment file; staging and temporary files; enablement link),
`manager` the systemd user manager (loaded release, running host, Codex),
`journal` the transaction file, `run` the command in progress with the names of
its steps. `Close` removes the journal and `ReadResult` asks the manager for the
reply, in the same `try` of the code, so that the undoing of an install
(`Undo*`) or the rollback of an upgrade (`Back*`) can start when there is no
journal any more. A call may fail at every step (`CallFails`): a call to
`systemctl` without its effect or after it (`LateUnits`), a file operation
after part of its effect (`LateFiles`: a file created and not written, a link
renamed into place whose directory is not flushed), the journal's too
(`LateJournal`). A failed step takes the code's own path: `Discard` before the
release is prepared, then `Undo*` or `Back*`, `Rec*` when a later command finds a
journal. `run.created` and `run.published` are the flags by which the undoing
knows what to take back; they are set when a publication returns, so a failed one
that left its file is not taken back. `slips` is a history of the two ways in
which a failure escapes the undoing: such a file (`"kept"`), and a failure
after the journal was removed (`"unjournalled"`). `Kill` stops a command between
steps, `Tears` and `TempLinks` say what a file operation killed inside leaves,
`Reboot` starts the enabled unit, and an operator may disable, stop or reload by
hand. The lifecycle lock is the model's one command at a time.

## 3. Runs

| Run | Instance | States | Shows |
| --- | --- | --- | --- |
| `store` | 2 writers, limits 3 and 2, 5 cursors, 2 timestamps, pages of 1, 2, 5 | 89,188 | `RevisionNamesOneState`, `PagesReadableWithoutDisconnect`, `CursorNeverReused`, `DroppedHistoryIsMarked` |
| `delivery` | 2 browsers for 1 place, limit 2, 5 cursors, queue 2, 1 fault, fair | 412,169 | `PlacesMatchStreams`, `ImplementsFeed`, `EveryBrowserCatchesUp` |
| `write` | 1 operation, 2 targets, 2 requests, 2 faults, fair | 218,051 | `AtMostOnce`, `RepliesTrue`, `TrailTrue`, `ReadyMeansClosed`, `DispatchStillAuthorised`, `EveryRequestAnswered` |
| `approvals` | 1 id, 2 users, 2 connections, a place that others may take, fair | 991,713 | `OneResponse`, `DecisionKept`, `ResolutionIsReal`, `DueExpires` |
| `recovery` | 1 started and 1 adopted session, 1 loss after the first connection, 2 notifications, 1 place, 1 fault, fair | 831,204 | `CurrentIsConnected`, `BoundarySeparates`, `AdmittedIsReconciled`, `NoneSkipped`, `LossIsAnswered` |
| `turns` | 2 turns, 2 prompts, 1 interrupt, 1 loss, 1 turn or wait of another client, fair | 506,642 | `VerdictTrue`, `OwnTurnKept`, `EndOfTurnSettles` |
| `threads` | 2 starts and an adoption for 1 alias, 4 faults, 3 stops | 203,364 | `OneThreadPerStart`, `ThreadIsTraceable`, `AliasHasOneOwner`, `ArchivedIsArchived` |
| `pairing` | 1 code, 2 browsers, 2 claims, 2 bootstraps, windows of 2, 4 ticks, 1 fault | 787,632 | `CodeSpentOnce`, `GuessesBounded`, `TrailsTrue`, `NoStaleAnswer` |
| `remote` | 3 operations, 1 stream, lease of 2, 2 faults, 2 drifts, fair timers | 1,165,668 | `AdmissionEarned`, `MappingRemembered`, `StreamsEnd` |
| `service` | 2 releases, 2 kills, 2 failing calls, 1 restart of the machine, fair | 624,319 | `AllOrNothing`, `SameRelease`, `RollbackTrue`, `JournalResolves` |

Two more runs show a disagreement between the code and what the repository says
of it (section 6). The type invariants are stated in the modules that have
one and belong to no run; they are proved (section 4), of that of `SelectedWrite`
the types without the budgets' ranges, and that of `ServiceLifecycle` as the
part `ServiceTyped` of its invariant.

**Why the bounds are enough.** A retention limit of 3 (2 at startup) with 5
cursors lets a table be pruned, bounded, pruned again and refilled, with every
order of boundary reasons; 2 is the smallest limit the policy accepts. Two
writers suffice for a lost update. A queue of 2 is empty, half full and full
within a few events, and with 5 cursors and a limit of 2 retention overtakes a
replay in progress. Faults are budgeted (crashes, ambiguous writes, losses):
two allow one during the first attempt and one during its retry. One operation
with two requests is the retry race; two operations that contend for the slots
of a device or a target are in the module but in no run. One request id over
two connections is the reuse of ids, and a place another session may hold is
the capacity. In `recovery` one loss beyond the first connection lets the loss
fall into every step of the cycle it interrupts, and one fault makes a step of
the recovery fail; a pipeline and a hold of one place overflow with two
notifications. In `turns` two turns let a late answer or notification of one
meet the other, two prompts are a start and a steer or a second start, and one
loss may fall anywhere between them; one turn of another client is the smallest
that makes a record wrong. Two starts with one alias collide at both tables,
and three stops are one before, one inside and one after a retry. In `pairing`
a window of 2 in a time of 4 ticks lets attempts fall on both sides of a
window's edge, with one step of the clock back. In `remote` three operations
are an enable, what follows it, and the explicit enable that mends it. In
`service` two releases are a previous and a next one, or one that an undone
install left and the next install prunes; two kills with two failing calls
interrupt a command, its undoing and the recovery of what that left. That more
releases change nothing for the safety properties is proved (section 4).
The code's own numbers (retention 10,000; replay 2,000; queue 256; 32
subscribers; 2 writes per device, 1 per target, 16 in all, 1,024 keys, 60 per
minute, TTL 600 s; 16 server requests; expiry 300 s) differ from these in size
only. Deadlock checking is off where a budget (cursors, faults, attempts,
connections, decisions) can be used up.

**Fairness.** `EventDelivery`: the event loop runs opens and pulls, and the
browser keeps reading and retrying; nothing is assumed of commits or of the
network. `SelectedWrite`: every await of a request is bounded by its
`OperationDeadline`, so its next step comes; nothing is assumed of the runtime,
of the process or of clients. `ApprovalControl`: timers fire, queued
operations, the pipeline and the cleanup run, a send ends (its timeout bounds
it), a connection that was made is admitted; nothing is assumed of Codex, the
users or the network. `RuntimeRecovery`: the controller, the lifecycle and the
pipeline are promises that settle, since every await of theirs ends by an
answer, an abort or its deadline; a connection attempt may be refused for as
long as the budget lasts; nothing is assumed of notifications or losses.
`TurnControl`: the pipeline, the recovery and the two services are promises
that settle, and every request ends at its deadline; nothing is assumed of
Codex, its other clients, users or losses. `RemoteIngress`: only timers are
fair; every Tailscale command may hang. `ServiceLifecycle`: a command that is
not killed goes on, and an operator who sees a pending journal keeps trying a
command, and the stop or reload by hand that `recovery_required` asks for.
`ProjectionStore`, `ThreadStart` and `DevicePairing` state no fairness.

## 4. Proofs

Eight modules hold the theorems, each of them for every value of the constants
the assumptions allow. `ProjectionStoreProofs` is about the store and its two
readers, `HostOperationsProofs` about the two parts that work on the host, each
other module about one component. `PROJECT.json` lists the theorems. Every
safety property of section 3 is one of them, the refinement included. In each
module a lemma per action says that it keeps the invariant (`...Preserves`,
`...Step`), other lemmas say what the model's operators return, and one theorem
combines them; a theorem per property follows from it. TLC checked every
inductive invariant on a small instance before it was proved. The types are part
of every invariant (`TypeCorrect`; `Typed` in `SelectedWriteProofs`, where the
budgets may be any integers).

| Module | Obligations | Theorems |
| --- | --- | --- |
| `ProjectionStoreProofs` | 3,377 | `TablesStayShaped`, `LayoutAlways`, `CursorsNeverReused`, `CompareAndSwapSound`, `DroppedHistoryMarked`, `PagesStayReadable`; `PlacesAlwaysMatch`, `NeverOutOfOrder`, `DeliveryImplementsFeed`, `HubNeverFails` |
| `SelectedWriteProofs` | 1,491 | `OperationsDispatchedOnce`, `AuditTellsTruth`, `RepliesTellTruth`, `DispatchesStayAuthorised`, `ReadyMeansClosedHolds` |
| `ApprovalControlProofs` | 2,928 | `OneResponseHolds`, `DecisionKeptHolds`, `ResolutionIsRealHolds` |
| `RuntimeRecoveryProofs` | 3,071 | `CurrentIsConnectedHolds`, `BoundarySeparatesHolds`, `AdmittedIsReconciledHolds`, `NoneSkippedHolds` |
| `TurnControlProofs` | 2,854 | `VerdictTrueHolds`, `OwnInvariantHolds`, `OwnTurnKeptHolds` |
| `ThreadStartProofs` | 797 | `OneThreadPerStartHolds`, `ThreadIsTraceableHolds`, `AliasHasOneOwnerHolds`, `ArchivedIsArchivedHolds` |
| `DevicePairingProofs` | 2,044 | `CodeSpentOnceHolds`, `TrailsTrueHolds`, `NoStaleAnswerHolds`, `GuessesBoundedHolds` |
| `HostOperationsProofs` | 3,776 | `AdmissionEarnedHolds`, `MappingRememberedHolds`, `StreamsGuardedHolds`; `InstalledWholeOrNotAtAll`, `RunsWhatIsSelected`, `RollbackIsTrue` |

**ProjectionStore**, for every limit of at least two, every batch size and any
set of writers. `LayoutInv` alone is not inductive: that the counters describe
the rows survives a prune only if the rows are shaped as the prune expects
(contiguous above the floor, a boundary only where history was dropped);
`Shaped` says that, and lemmas say what `Appended`, `Pruned`,
`BoundaryReplaced` and `Adopted` do to both. `CursorsNeverReused` is an action
property, from the layout: a new row lies above `last` and above the floor.
`CompareAndSwapSound` is `RevisionNamesOneState`: a commit advances the cursor
or a timestamp, so an equal revision means no commit. A page is an interval of a
shaped table (`PageIsRange`), so each read is answered as long as a boundary
that is no disconnect's stands at its head only (`Marked`, which every
transaction of a session without a disconnect keeps): `PagesStayReadable`.

**EventDelivery**, for any browsers, queue, replay and page sizes, retries,
limits of at least two and any load of commits and faults. `DeliveryInv` relates
each stream to the newest committed event. While a stream opens (`AtOpen`,
`AtRead`), its paused queue is an unbroken run that ends at the newest event and
reaches down to the high-water cursor, and its replay is an unbroken run from
the browser's cursor, or from a boundary beyond it; when both are read to the
end they meet. A live stream (`AtLive`) leads from the browser's cursor through
wire, replay and queue to the newest event. A commit that overtakes an open is
harmless only because the table is `Shaped` (the store's invariant): a replay
page is then an unbroken run, and pruning leaves a boundary above whatever it
removes. `NeverOutOfOrder` follows: the next event a browser takes is its next
cursor or a boundary; it states in every state (`NothingOutOfOrder`) what the run
checks in the end (`EveryBrowserCatchesUp`). `HubInStep` says that the hub has seen every commit since
its session got a subscriber, so that the failure which would stop all streams
for good is not reachable (`HubNeverFails`). `DeliveryImplementsFeed` is a
refinement: `Event` and `RuntimeLost` grow the feed, `Connect` begins a reader, a
`Receive` that takes an event delivers the next one, or is a boundary and skips
to it with what it tells (`Delivered`, `Skipped`), and every other step is a
stutter (`StepIsFeedStep`). It rests on the invariant: what is on the wire of a
live stream is the browser's next cursor or a boundary, so no browser objects to
an order, which the feed has no step for (`PlaceOfBrowser`).

**SelectedWrite**, for any operations, devices, targets, requests and budgets.
`OwnersOpen` says that an owner's admission entry is open and that an operation
has one owner; `CarriedTrue` that what an owner carries to its settlement agrees
with the effect; `OperationTrue(o)` relates, per operation, the trail, the
number of dispatches, the effect, the retained result and what clients were
told. A retry is harmless only because the trail of a dispatched operation is
not absent, and that is so only because an owner dispatches after its accepted
record. `DispatchesStayAuthorised` is from `Steady`: an owner whose health proof
has the current generation has seen no interruption. `ReadyMeansClosedHolds`
needs `GapPrepared`: from the moment the gap is prepared, whatever is pending
was accepted since.

**ApprovalControl**, for any number of request ids (finitely many), users,
connections and any capacity. The invariant follows one ask through five
places: what Codex was sent and took (`AsksOK`), the service's record
(`RecordsOK`), the send under way with the broker's place of it (`SendsOK`), the
queued operations and the users who wait for them (`TailsOK`, `SendersOK`,
`UsersOK`, `FromOK`), and the notifications not yet applied (`ToldOK`). A second
response is excluded only by all of them: the broker's place is free again when
a connection ends, and then the record must be closed, or its send have ended,
before the id comes back. The conjunct on the outcome of a record whose frame
was sent is what lets a failed send be reported as failed.

**RuntimeRecovery**, for any sessions (finitely many), limit, losses,
notifications and faults. `LossInPlace`, `EndingInPlace` and `PassingInPlace`
say where the controller can be while the connection is open, lost or
abandoned; `FenceHolds` and `EventsBelong` which entries the pipeline's tail may
hold at each stage of a reconciliation; `BoundaryWritten` and `CleanupMarks` how
far a pass over the sessions has come. `BoundarySeparates` is not inductive
without the tail: an event of the previous connection must have left the queue
before the boundary is committed, and that is what the fence is for.

**TurnControl**, for any number of turns, prompts, interrupts, losses and other
clients. Each turn ends once (`EndsOnce`), a notification of an end is true
wherever it waits (`ToldTruly`), and the interrupt service knows of no end that
was not one (`InterruptOnRecord`). `OwnTurnKeptHolds` is an action property and
needs a second invariant, `OwnInv`, about what is under way of a turn (`Coming`:
told, and not yet projected). While HostDeck's starts are the only ones
answered (`Alone`), what is under way is in order for the projection
(`Orderly`): a turn begins once and its end is the last of it. So a record whose
turn was seen running may go when the projection has ended (`RecordInPlace`):
nothing of the turn can follow. A lost connection may drop the end of a turn,
and then the recovery reads that the turn is over before the connection is used
again (`AheadInPlace`). Without `Alone` this fails: another client's turn moves
the projection that the record is compared with.

**ThreadStart**, for any finite set of starts, faults and stops. A start in
progress knows what its row says (`StepMatchesRow`), a request on its way to
Codex is for a start without a thread (`SentOnce`), and `OneOwner` is
`AliasHasOneOwner` without counting; `ArchiveIsFresh` and `ArchiveIsUnderWay`
are the compare-and-set of the archive's writes and what a lost answer leaves.

**DevicePairing**, for any codes, browsers, claims, bootstraps, limits and
lifetimes. Claims, bootstraps, cookies and rotations are each related to their
trail (`ClaimsOnRecord`, `BootsOnRecord`, `CookiesOnRecord`,
`RotationsOnRecord`); that a device's generation is bounded by the rotations on
record is what makes its type inductive. `NoStaleAnswerHolds` is an action
property, from `LeasesPaired` and `TokensMove`. `GuessesBoundedHolds` needs an
invariant of its own. A row of the rate tables tells the truth about the attempts
it counts (`RowTrue`): those since its window began are no more than its count,
all but those at its first tick fewer, and what was left within reach of that
window when it began is less than the allowance. A stretch of one window's
length meets the row's window and that rest only, so it holds less than twice
the allowance (`StretchBounded`), and a new attempt is never behind the last one
(`Regresses`), though the clock may be. A source without a row made its last
attempt a window before the latest of all (`Idle`), and this is where pruning
matters: the theorem assumes that a source's row is kept for nearly two windows
(`StateOutlivesWindows`, 2 * `Window` <= `StateTtl` + 1). The default budget has
600 s for windows of 60 s; section 6 says what the policy also permits.

**RemoteIngress**, for any operations, streams, lease and drifts. An operation
in progress agrees with its trail (`OperationOnRecord`), a proof names the last
granted operation (`ProofEarned`), and the manager runs only with a selected
mapping (`ManagerOwnsMapping`). `StreamsGuardedHolds` is the safety half of
`StreamsEnd`.

**ServiceLifecycle**, for any releases, kills, failing calls and restarts of the
machine. `ServiceInv` says of every step of every command, its recovery path
included, which journal it runs under and when it may run without one
(`JournalOfCommand`: after its close, and then only if a call has failed since),
what is on the disk by then (`FilesOfStep`) and, for the steps of a rollback,
which release the manager has loaded and runs (`UnitsGoBack`). The undoing of an
install takes back only what its flags name, so `FilesOfStep` carries that they
name all there is (`Undoable`) and how far it has come (`UndoneSoFar`), or that a
publication slipped. `AllOrNothing` is the case of no journal and no slip. What
the manager knows can be said in general only until the machine is restarted,
the manager reloaded by others, or a call fails after the journal was removed
(`Undisturbed`), which `SameRelease` excepts too. `RollbackIsTrue` is an action
property: the steps that report a rollback are those at which `UndoneSoFar` or
`UnitsGoBack` has everything in place (`OnlyUndoingReports`). Without the
exceptions the three are false (section 6).

**Assumptions.** They are the named `ASSUME`s of the modules, which TLC
evaluates on every run: the ranges of limits and budgets, the orderings of the
policy's numbers (`contracts/src/resource-policy.ts`), that the sets of requests,
sessions and ids are finite (each is bounded by memory or a table), and that
operation ids of different kinds are different and a wrong guess is no code
(`NamesAssumption`). One theorem has a hypothesis besides:
`StateOutlivesWindows`, above.

**What stays with TLC.** Liveness needs `ENABLED` of fair actions and is
model-checked only: `EveryBrowserCatchesUp`, `EveryRequestAnswered`,
`DueExpires`, `LossIsAnswered`, `EndOfTurnSettles`, `StreamsEnd`,
`JournalResolves`. Nothing else does; the four runs of section 6 show violations.

**What the proofs changed in the models.** A proof that fails for a good reason
is about the model; these were corrected and every run repeated. A restart of
the process closed the remote trails of the latest operation only, while the
startup pass closes every accepted one (`RemoteIngress`). An adopted session
that had been unmanaged came back when its removal was carried out twice, and
`NoneSkipped` compared counts where it meant positions (`RuntimeRecovery`).
`CASE`s whose guards overlapped were made disjoint (`ThreadStart`,
`DevicePairing`, `TurnControl`, `ServiceLifecycle`), and `SelectSeq` and folds
gave way to indexed sequences where something had to be proved of the result
(`Lose`, `Without`, the replay of `EventDelivery`, the attempts of
`DevicePairing`). The bound on the events of `EventDelivery` must be positive: a bound of
zero let the first one through. `GuessesBounded` turned out to hold for every budget
but those whose rows are dropped within two windows (section 6). `EventDelivery`
and `ServiceLifecycle` share no name with the component that is proved in the
same module.

## 5. Plan

Done: the store, its pages, delivery, writes, approvals (first), then recovery
with the pipeline, threads, pairing, remote ingress, the service commands and the
two turn controls that share the turns' notifications.
What is left, in this order:

1. The other controls (`codex-model-control-service.ts`, then plan, goal,
   compact) beside `TurnControl`: pending settings that a start consumes or
   gives back, and the archive of a thread.
2. **Shutdown** (`application-shutdown.ts`, `fastify-host-lifecycle.ts`) with
   `codex-runtime-supervisor.ts`: stages with deadlines over the modules above.
3. The client half of `broker.ts`: ids of requests, late responses, retired
   ids.
4. Proofs of what these add; all safety properties of the present modules are
   proved.

## 6. Findings

`PROJECT.json` quotes the line of the repository each contradicts. The first two
are runs with `expect: violation`; the two of the service commands are the named
exceptions (`slips`) of the properties of `service`, and the unconditional forms
`RollbackComplete` and `RunsSelectedOrRecorded` in `ServiceLifecycle` are what
TLC finds false when the cfg of `service` asks for one of them instead.

* `append_refused`: a session whose first row is a boundary without a floor
  (an adoption; a runtime loss before the first event) refuses the append that
  should have pruned it.
* `turns_reconnect`: a turn that ends while the connection is lost leaves the
  prompt's record and the interrupt's active turn behind. The reconciled, idle
  session refuses prompts, and the next turn stops the pipeline until HostDeck
  restarts.
* `RollbackComplete` (slip `"kept"`): a failed install reports its rollback as
  succeeded and has left the environment file, possibly torn, or the selector,
  because the publication that failed had made it
  (`cli/src/service-lifecycle.ts:2387`, `2558`) and the undoing goes by a flag that is set when it returns. The
  journal is gone; a later install is refused, with a torn file uninstall too.
* `RunsSelectedOrRecorded` (slip `"unjournalled"`): a call that fails when the
  journal is removed already (the flush of its directory, or `manager.show` for the reply, lines 656-663
  and 865-872) starts a rollback without one. If that fails as well, an upgrade
  leaves the given-up release running beside the restored selector, an install
  half an installation, with nothing for a later command to recover.

Observed while modelling, without a run or a definition.

*Store and delivery.* A boundary that reaches a browser live ends its stream for
good: `validateEventContinuity` takes one only as the first event of a
connection (`web/src/sse-client.ts:1708`), and
`storage/projection-append-port.ts:203` publishes the boundary of a runtime loss
to live subscribers (against FR-013; `EventDelivery` has the failure,
`invalid_event`). The diagnostics page accepts retention boundaries only; a
page that crosses the boundary of a disconnect is a storage error
(`server/projected-event-routes.ts:375`, against FR-010), which is why the
property of the pages excepts disconnects. The append port uses the default
retention policy, the startup pass the configured one (`AppendLimit` and
`StartupLimit` differ for that reason).

*Writes and audit.* The lock is read once, before the target is resolved; a
write in that window is dispatched on a locked host
(`server/selected-write-gate.ts:585`, against SFR-004). The gap's audit pass
closes the trails of writes the same process is still carrying out, so that
their own terminal record fails
(`codex-runtime-reconciliation-lifecycle.ts:618`; trail and replies stay true,
the reply is an error). The shutdown's audit barrier runs even if the drain
timed out. Once both the admission entry and the trail of an operation are gone
its id could be dispatched again (`dropped` excepts this from `AtMostOnce`). A
wall clock that steps back across a restart keeps dead trails out of the orphan
pass.

*Approvals.* A user whose decision came after another client's is told that it
became final (`codex-approval-control-service.ts:564`; `DecisionKept` says so).
A server request beyond the capacity fails the reconnect controller for good
(`broker.ts:347`, `reconnect-controller.ts:735`), although the policy says
`reject_operation` (`contracts/src/resource-policy.ts:128`). A write deadline
that passes between the two checks of `respond` (line 314) leaves the request
"responding", without timer or send; a decline proven not sent (line 534) is
not tried again until a client lists, reads or answers the request; a server
request resolved by another client keeps its place in the broker
(`broker.ts:358`) until the connection ends.

*Recovery.* A pipeline that stopped, for an event it cannot store or at its
capacity, rejects the next reconciliation too, so that the controller ends
instead of starting a generation with a fresh one
(`codex-event-pipeline.ts:178`). Audit timestamps are kept increasing, so after
a step back of the wall clock they are ahead of it and the projection refuses
what carries them as too late (`codex-projection-service.ts:112`,
`production-application-composition.ts:1651`). A `notLoaded`, `systemError` or
`archived` notification between the resume of a session and its publication
makes `ready` a state conflict, and an adopted session that is unmanaged
between the listing and its mark or boundary fails the step; both are terminal.
A cleanup that failed leaves sessions shown as current. When a first handshake
is incompatible `disconnected` has already run, so `sealStartupUnavailable`
refuses and the start fails (`production-application-composition.ts:856`).

*Turns.* A turn that ends or begins between the read of the thread and its resume
is told to nobody: the normalizer then takes a turn to be active that is not, or
meets one it does not know, and the pipeline stops at the next notification. With
another client's turn the projection can be idle while HostDeck's own turn runs,
and a snapshot or dispatch in that moment drops the record of a running turn
(`reconcileTerminalProjection`; why `OwnTurnKept` is about turns HostDeck alone
drives). A start whose outcome is unknown has no turn id, so nothing but an
archive, an unmanage or a restart clears it. The capacity of tracked turns is
checked in the observer, where its error stops the pipeline
(`codex-interrupt-control-service.ts:674`).

*Threads.* No production caller reconciles `reserved` and `thread_created`
rows, and the operation id that could resume one is refused by the write gate
once its trail is closed: the alias stays blocked
(`managed-thread-service.ts:122`). A `thread/start` response that cannot be read
is answered "failed" although a thread exists. An archive whose outcome is
unknown is refused until a restart; a `thread/archived` notification before the
archive's response leaves the session in recovery.

*Pairing.* After a step back of the clock a device used since cannot be
authenticated or revoked until the clock catches up; an attempt with the right
code before its creation time is not counted; a device whose claim was answered
in vain stays active, and a code whose terminal record failed is stored but
never shown. A claim that is refused at its limit still prunes, so with a state
TTL under two windows (the policy asks only that it outlive a code, which must
outlive one window: `contracts/src/resource-policy.ts:335`) it may drop a source
whose attempts come back into reach when the clock is then set back, and one
window sees twice the allowance from that browser; a rotation dated before the device's last use takes place and is
reported incomplete.

*Remote ingress.* A new generation of the same origin does not abort the
streams of the old one (`remote-ingress-request-authority.ts:169`). An enable
rejected in its preflight becomes the latest remote record, so that the proof
can no longer be carried and admission stays closed until an explicit enable; a
disable that is refused leaves admission to the next poll. Streams stay up while
the manager's disable runs, until the guard, a poll or a request. The lease
counts from its renewal, not from the observation; a step back of the wall clock
fails the remote lifecycle until a restart.

*Service commands.* An upgrade killed before its journal says that the manager
may know the next release, on a machine that restarts, leaves the given-up
release running after two recoveries (`cli/src/service-lifecycle.ts:2057`; the
first puts the selector back and fails its inactive check, the second takes the
manager to have seen nothing; `SameRelease` excepts restarts).
`writeTransaction` creates the journal and then fills it; a kill in between
leaves a file no command accepts, and so does a kill inside the writing of the
environment file. A temporary file in the data root refuses `uninstall`, a
release half removed by a prune refuses upgrade and uninstall (`Damaged` names
these). A kill between the removal of the unit links and the phase that says so
may need a `daemon-reload` by hand; an install on an enabled host killed
between `enable` and the canonical link leaves "corrupt", which only uninstall
clears; an install interrupted by a restart of the machine after `enable`
leaves a host running without its files.

## 7. Not modelled

`PROJECT.json` says per component what is left out. The other turn controls, the
runtime supervisor, shutdown stages and the client half of the broker are left
to the plan. The web screens, CLI parsing and rendering, schemas, generated
protocol code, migrations, platform path adapters, fixtures and packaging keep
no state that decides, or are pure data transformation. Most lines of the
repository are of that kind: tests, smoke scripts, schemas, screens and
generated bindings make up far more of it than the services that decide, so the
share of lines the models stand for stays small, and is not raised by naming
lines a definition does not translate.

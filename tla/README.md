# TLA+ verification of the trstctl control plane

trstctl is a control plane for machine identities: it issues, deploys, renews and revokes
credentials. Its design is event-sourced. Every change is an event appended to a log;
relational tables are projected from the log; calls to the outside world are rows of a
transactional outbox; every client mutation carries an idempotency key; several replicas run
at once and elect a leader for the background work. This directory models that core in TLA+,
checks it with TLC on small instances and proves its central invariants with TLAPS.

Paths below are relative to `src/internal/` unless they start with `src/`.

## 1. Inventory

### Modelled

| Part | State it keeps | Operations | What makes it correct |
|---|---|---|---|
| Lifecycle state machine (`orchestrator/lifecycle.go`) | none (tables of edges and side effects) | `CanTransition`, `EventTypeFor`, `sideEffectFor` | only listed edges are taken; `retired` has no successor |
| Transition path (`orchestrator/orchestrator.go`) | the event log, `identities`, `identity_transitions`, `outbox`, `idempotency_keys` | `transition`: load state, append event, then project and enqueue in one transaction, then record the answer | an answered request has its effect; status and history agree with the log |
| Boot reconciliation (`orchestrator.go` `ReconcileOutbox`) | `outbox_reconciliation_checkpoint` | replay, `EnqueueIfAbsent`, advance | every effect the checkpoint passed is enqueued or done |
| Projections (`projections/projections.go`, `tail.go`) | `projection_checkpoint`, the tail's durable cursor | `ProjectCatchUp`, `Rebuild`, `TailWorker.Run` | a watermark never covers an unapplied event; never moves back; the read model is a function of the log |
| Outbox dispatcher (`orchestrator/outbox.go`) | `outbox` rows (status, attempts, lease, worker), per-process circuit breakers | enqueue, claim, deliver, finalise, lease recovery, backoff, half-open probes | one deliverer at a time; outcomes recorded are real; settled rows stay settled; every row settles |
| Outbox and idempotency GC (`outboxgc/`, `idemgc/`) | deletes delivered rows / completed keys | `Sweep` | deletes nothing that is still needed |
| Idempotency (`orchestrator/idempotency.go`) on the pool of `store/store.go` | `idempotency_keys`, pooled connections | `Do` | one runner and one answer per key; re-runs only after failures; every call ends |
| Bulkhead pools (`bulkhead/bulkhead.go`, `server/resilience.go`) | a bounded channel, workers, counters | `Submit`, `worker`, `run`, `Close`, `bulkheadHandler` | nothing accepted is lost or counted twice; `Close` returns on a drained pool; every accepted request is answered |
| Leader election (`leader/leader.go`, `store/leader.go`, `server/run.go`) | the advisory lock, lease connections, worker groups | campaign, health check, step-down, release | exclusive handover; overlaps end; a leader is always found again |
| ACME server (`protocols/acme/acme.go`, `state.go`) | an in-memory view of the tenant's ACME events | accounts, key change, orders, challenges, finalize, revocation, janitor, replay | a replay finds what clients were answered; ids are given out once; nothing is minted for an unvalidated order |
| Dynamic secret leases (`dynsecret/`, `leaseworker/`, `server/secrets.go`, `api/secrets_leases.go`) | leases and keys in memory, `dynsecret.revoke` rows in the outbox | issue, renew, revoke, expiry tick, drain | the credential of an active lease is not taken away; a revoked lease has its row; a due lease expires and its credential is revoked |
| Dual control (`store/approvals.go`, `server/approval_gate.go`, `api/gate.go`, and what `store/privacy.go` does to its tables) | approval requests and approvals | open, approve, count, perform; retention run, erasure | nobody acts on their own approval |
| SSH trust on the agent (`agent/sshtrust/sshtrust.go`) | `TrustedUserCAKeys`, `sshd_config`, the configuration sshd runs | add, remove, validate, reload, health check, roll back | a rollback reported is one; adding a CA keeps the others; sshd serves what is reported |

How they interact: a request is a task of a bulkhead pool; its handler runs under
`Idempotency.Do`; the body calls the orchestrator, which appends to the log, then projects
the event and enqueues the effect in one database transaction. The leader runs the
dispatcher (performs outbox rows), the projection tail, the lease worker and the garbage
collectors. Privacy retention runs and erasures rewrite the names in the gate's tables. A
starting replica first catches its read model up, then reconciles the outbox against the
log, then serves. All replicas share PostgreSQL (tables, row locks, advisory lock) and the
event stream; circuit breakers, worker ids, pools, ACME views and lease engines live in the
memory of one process. The lease engine keeps its revocations in the same outbox table the
dispatcher sweeps. The gate's approvals are rows read and written by separate transactions
of concurrent requests.

What is hard: the append and the transaction are two steps, so every crash, error or
overtaking between them is visible; the tail re-applies what requests have already applied;
a booting replica reconciles while others have open transactions; leases race late
finalisations; breakers are marked before the claim that uses them; `Do` holds one
connection and needs another; a leader learns late that it lost its lock; ACME and lease
handlers look at their state, let go of the mutex for an external call, and act on what they
saw; pseudonyms are compared with the names they replaced; the agent changes two files and a
daemon one after the other. `PROJECT.json` lists these hazards at their lines.

### Not modelled

The repository has some 176,000 lines of implementation; most of it is request decoding, SQL
for independent tables, provider and protocol I/O, encodings and the web UI, where there is
no interleaving to check and a model would only restate the code. The models cover the parts
that keep state across steps, processes or failures; their share of all lines is small and
will stay small.

* Next in the plan: CA ceremonies and CRL numbers, the signer's key store and supervisor,
  the audit chain under retention, snapshots.
* The other event kinds of the orchestrator and the other appliers of the projections:
  the same append, project, enqueue and reconcile steps as the lifecycle events, on
  tables of their own.
* Issuance handlers: calls to a CA, a signer or a connector between two writes of the
  modelled spine. What they do outside is the environment of `Outbox`.
* ACME nonces, source budgets, external account binding, DNS-01 automation and renewal
  info; the other enrolment protocols, which keep nothing between requests.
* `internal/approval`, which no served path calls; rotation, broker, ephemeral credentials,
  secret storage and sharing (single-statement records behind the store).
* Policy, graph, risk and compliance queries (pure reads); authentication and
  authorisation decisions; connectors, discovery and notifications (external I/O);
  cryptography and encodings (out of TLC's reach); backup (external tools);
  configuration; web UI, SDKs, CLI; `src/ee`.

`PROJECT.json` gives each component its reason.

## 2. Modules

| Module | Models | Used by |
|---|---|---|
| `Lifecycle` | transition and side-effect tables | `EventSpine` |
| `EventSpine` | log, read model, outbox rows, request threads, boot threads, tail | `MCEventSpine`, `EventSpineProofs` |
| `Delivery` | what the outbox promises a producer | `Outbox` (as `Promise`) |
| `Outbox` | the dispatcher in detail, with time; implements `Delivery` | `MCOutbox`, `OutboxProofs` |
| `Idempotency` | `Do` and the connection pool | `Serving`, `ServingProofs` |
| `Bulkhead` | one worker pool | `Serving` |
| `Serving` | requests through a pool and `Do`: the composition of the two | `MCServing`, `ServingProofs` |
| `Leader` | electors, advisory lock, lease connections, leader workers | `LeaderProofs` |
| `Acme` | the ACME server of one tenant | `MCAcme`, `AcmeProofs` |
| `Leases` | lease engines, their outbox rows, the lease worker, the dispatcher beside it | `LeasesProofs` |
| `Approvals` | the dual-control gate | `MCApprovals`, `ApprovalsProofs` |
| `SshTrust` | the agent's rewrite of sshd's trust | `MCSshTrust`, `SshTrustProofs` |
| `MC*` | values of the constants for TLC, and claims TLC refutes (section 6) | the runs |
| `*Proofs` | theorems and their lemmas | |

A definition whose comment begins "Mutant of" is a plausible bug in the definition below it.
It is not part of any specification; substituted for that definition it must break the
property it is listed with in `PROJECT.json`.

### EventSpine

An event's sequence is its index in `log`. `status` is `identities.status`, `transitions`
the set of sequences in `identity_transitions` (its upsert is keyed by sequence), `projCkpt`
and `reconCkpt` the two checkpoint tables, `tailAck` the durable cursor of the tail
consumer. Outbox rows are counted per key and payload kind (`pending`, `delivered`) because
nothing in the schema makes them unique; `performed` counts external calls. A payload is
either the bare event or the credential that `TransitionWithSideEffectPayload` carries.

A request is five steps: `TransitionLoad` (read the state, check the edge),
`TransitionAppend`, `TransitionExec` (the transaction's statements: it takes the row lock on
the identity and evaluates `WHERE NOT EXISTS` against committed rows), `TransitionCommit`,
`TransitionAnswer` (the idempotency row commits). Any of them can be followed by `Crash` of
its replica, or, after the append, by `TransitionAbort` (an error return, also one after the
commit, such as a failed read of the identity). The split of the transaction into its
statements and its commit is what lets two transactions overlap, at PostgreSQL's
read-committed isolation. A boot thread runs `CatchUp*` or `Rebuild`, then `Reconcile*`,
then `Serve`. The tail is apply, advance, acknowledge. `Perform`, `DeadLetter` and `Sweep`
are the dispatcher and the GC reduced to their outcome for one row; `Outbox` has the retries
in between.

Abstracted: one tenant; event payloads, encryption and schema versions; the other event
kinds, which follow the same steps; the order in which the tail is moved between replicas
(any serving replica may start it when it is off).

### Outbox

Every sweep (`Dispatch` call) is a process with a program counter; `workerOf` says which
server process, hence which worker id and breakers, it belongs to. The claim is three steps,
as in the code: reserve half-open probes under the mutex (`ClaimBegin`), the transaction's
statements (`ClaimExec`, which recovers expired leases and picks a candidate from what is
committed and not locked: `SKIP LOCKED`), commit. `Deliver` ends with any answer before its
deadline; finalisation is a step of its own that can succeed, find its lease lost, stall, or
fail with or without effect on the database. Times are kept as time left; `Tick` lowers
them. `done` is a history variable: the rows for which some handler call succeeded.

Assumed: handlers honour the context deadline they are given (`deliver` cannot stop one that
does not). Merged: `FinalizeFailure` is the UPDATE, its commit and the circuit's bookkeeping
after it, and the circuit's open time counts from there; the code reads the clock before the
UPDATE, so its circuit may close earlier by the duration of the statement.

`Delivery` is the specification a producer relies on: a row is absent, open, delivered, dead
or reclaimed; it is delivered only after a handler call for it succeeded; only a delivered
row is reclaimed; nothing leaves delivered, dead or reclaimed for open. The refinement
mapping forgets leases, attempts, workers and time: pending and processing rows are open.

### Idempotency

A call holds a connection from `Begin` to its end and a second one while `fn` has a
transaction open. The effects of `fn` commit on their own (`FnCommit`), before the claim
does (`Record`). The result of a run is its number, so that two runs of one key are told
apart. `Fail` is any error, at any step; `landed` is the commit whose answer was lost.

### Bulkhead and Serving

`Submit` is two steps under the pool's mutex: the send, and the count of what was sent
(`SubmitCounted`). Workers do not take the mutex, so a task may run, and end, before it is
counted. The send goes to a worker blocked in its receive if there is one, to the buffer if
there is room, and is refused otherwise, which is what a Go channel of capacity `Queue`
does; a worker that has not reached its receive is not blocked in it (`loop` and `receive`
are different states). A task ends by returning or by panicking, and either way
`close(done)` has run. `Serving` makes the pool's workers the callers of `Do`: `Serve` and
`Return` tie a task to its call; every other step is a step of one component that leaves the
other alone.

### Leader

`lock` is what PostgreSQL believes, `elector` and `workers` what the replica does, `conn`
the state of the connection in between. `LoseConnection` is noticed by each side in its own
time: `SessionEnds` by PostgreSQL, `HealthCheck` by the replica. Tasks that the leader's
loops have submitted to bulkhead pools are not joined when the loops stop; they are outside
this model; the theorems about `Outbox` hold for sweeps of any processes. With leader
election disabled there is one replica and no elector.

### Acme

`view` is the server's maps and counter; the log is represented by `durable`, the view its
replay gives, so a restart is `view' = durable`. Each handler is split where it lets go of
the mutex: around the validator, `ca.Issue` and the revocation hook. `Append` has three
outcomes: the event is logged, it is not, or it is and the caller is told it is not.
`Pruned` is the janitor every request runs first; it changes the view and not the log. A
certificate is identified with its CSR. The platform's revocation hook is configured, as
`server/protocol_mounts.go:253` does; a server without one is not modelled. One id stands
for an order and its authorizations; the CA, the validator and the platform's revocation are
history variables (`minted`, `proved`, `platform`).

### Leases

Each process has an engine in memory, lost in a crash. A request (`api`) and the leader's
worker (`worker`) are two jobs per process that interleave: `Issue` and `Revoke` hold the
engine's mutex for a lookup or a flip, and generate, enqueue or revoke outside it. `row` is
the `dynsecret.revoke` row of a lease. `Deliver` is the dispatcher reaching that row: it has
no case for the destination and its default branch reports success. Every backend and
database call may fail or succeed unanswered, `Pending` included. `Lapse` is a credential
ending by itself, as the shipped backends' do (`providers_real.go:118-120` and `426`):
`Renew` extends the lease and does not touch the backend, so a lease may be active with a
lapsed credential. `BackendGenerates` and `BackendRevokes` are the backend's answers, which
have no deadline in the code and which `FairSpec` does not schedule.

### Approvals

A handler is an attempt (open the request, count, perform) or an approval (open, read the
requester, insert), each store call a transaction of its own; any error ends it (`Abort`).
Rights, policy and ABAC are decided before and leave no state.

A name in the tables is a record: the person, and whether the name is the one they sign in
with, the placeholder of an erasure, a retention pseudonym, or the pseudonym of a
placeholder. `Retain` and `Erase` are the projections of the privacy events: they rewrite
requester and approver, of any requests and approvals a cutoff or a scan may have found. Two
rows of one target that would get one name break the primary key and the transaction fails:
`Rewrite` is not enabled then. The code compares names; the properties speak of persons. A
principal goes on under its own name after an erasure, because a session keeps the roles its
identity provider gave it (`api/api.go:1316-1329`).

### SshTrust

One operation at a time, as the agent runs them. The two files are sets of keys and a
reference; `running` is the configuration sshd has loaded. Each read, write, validation,
reload and health check may fail; the agent may die between any two of them.

## 3. Runs

| Run | Instance | Shows |
|---|---|---|
| `spine_threads` | 1 replica, 2 request threads, 1 client key, 2 events, 2 crashes, 1 failed request, fair | watermarks sound, reconciled and answered transitions have their effect, history converges, every logged effect is performed or dead-lettered, or waits for the next boot after a failed request |
| `outbox_sweeps` | 2 sweeps of 1 process, 1 row, 2 faults, fair | dead-lettered means tried; one half-open probe; the dispatcher implements `Delivery`; every row settles unless an error left its circuit half-open |
| `leader_replicas` | 3 replicas, 4 faults, fair | exclusive handover, a lost leader stops, re-election |
| `serving` | 2 workers, queue of 1, 3 requests (2 with one key), 2 connections, 1 fault, 1 sweep per key, shutdown, fair | conserved tasks, drained close, one runner and one answer per key, every request is answered unless callers of `Do` hold the whole connection pool |
| `acme_orders` | 2 handlers, 3 ids, faults, 2 restarts | view and replay agree, ids are fresh, issuance needs validation, keys identify accounts, revocations reach the platform |
| `leases` | 1 process, 2 leases, 2 keys, faults, elections, fair | no active lease is being revoked, no revocation is forgotten, one lease per key, due leases expire unless the backend hangs |
| `approvals` | 3 principals, 1 target, 2 approvals required, 2 concurrent handlers, 2 privacy rewrites | dual control, up to two named effects of the rewrites |
| `sshtrust` | 2 CAs, faults, 1 crash, several operations | rollbacks restore, additions keep, reports are true |
| `spine_rows`, `spine_status`, `outbox_shared`, `leases_lost` | smallest that shows it | section 5 |

Bounds. Two events, two threads and two crashes are enough for the crossings the spine is
exposed to: one append overtaken by another, a crash between any two steps of a transition,
a reconciler meeting an open transaction; the theorems cover the invariants for all sizes,
several replicas included, and three events without failed requests (3.4 million states)
were checked by hand. In the outbox, `leaseTTL` exceeds claim plus delivery by one tick, as
30 s exceeds 25 s by a small margin, so the boundary is exercised; a failure threshold of
one makes every failure open a circuit; `outbox_sweeps` keeps `circuitOpenDuration >
claimLatency + deliveryTimeout` like the defaults. Three sweeps in two processes (776
thousand states) and two rows with instant deliveries (1.3 million) were checked by hand.
The pool of `serving` has as many connections as workers, so the state in which calls wait
for one another is reached; with one more the properties hold as well. Three requests on two
workers and one queue slot fill the pool and shed. In `acme_orders` three ids are an
account, an order and its certificate, or two accounts and an order; four ids with one
restart (1.6 million states) were checked by hand. Two processes with a lease each were
checked by hand for `leases`; the run keeps one process with two leases, because engines
share nothing but the outbox. In `approvals` two rewrites are what an erased name that a
retention run then finds, and a clash of two names, need; targets do not influence one
another. Symmetry is used only in runs without liveness.

Deadlock checking is off where the system may stop: the bounds on events, ids, requests,
operations or faults end every behaviour of the spine, ACME, lease, approval and SSH runs; a
pool that was closed and a stable leader are at rest.

Fairness. `EventSpine`: started threads keep being scheduled, a supervisor restarts a
crashed process, the dispatcher keeps sweeping and ends each row one way or the other;
clients, failures and the GC owe nothing. `Outbox`: the dispatcher ticks for ever, time
passes, handlers answer or time out. `Leader`: the ticker of `Elector.Run` and of the health
check keep firing, cancelled workers return, TCP keepalives end dead sessions, replicas are
restarted. `Serving`: workers and handlers are scheduled, with strong fairness of the steps
of `Do`, because pgxpool and PostgreSQL queue their waiters; a shutdown need not come.
`Leases`: started requests and drains go on and the leader's ticker keeps firing, while the
backend need not answer (`FairSpec`); `SteadySpec`, for `leases_lost`, grants the documented
claim a backend that answers, re-elections and a leader that lasts for a tick often enough.
Faults are never fair.

## 4. Theorems

All hold for every value of the constants that satisfies the named assumptions.

* `EventSpineProofs!TypeCorrect`: `Spec => []TypeOK`. `TypeOK` alone is not
  inductive: `TypeInv` adds that boot threads stay within the log they saw, that a
  request past its append knows its own event, and that the tail works on an event
  that exists.
* `EventSpineProofs!WatermarksAreSound`: `Spec => []CheckpointSound`.
  `WatermarkInv` adds that a catch-up has applied everything below its position and
  that the tail, between apply and acknowledge, has applied the next event.
* `EventSpineProofs!ReconciliationIsComplete`: `Spec => []ReconciledEffectsRecorded`.
  `ReconcileInv` adds that a delivered row was performed (so the GC may delete it) and
  that a reconciler past an event has seen or inserted its row.
* `EventSpineProofs!AnswersHaveEffects`: `Spec => []AnsweredHasEffect`. A retried key may
  have several events; the property asks that the row of the key is there for all of them.
  `AnswerInv` adds `KeysAgree` (the events of a key have one target, so one retry's
  row serves for the others), `ClaimsExclude` (a key under way in `Do` belongs to one request
  and is not completed) and `WriterRecorded` (a committed transaction, and an open one whose
  `NOT EXISTS` found a row, has the effect recorded). It rests on `ReconcileInv`, because the
  GC deletes rows.
* `EventSpineProofs!HistoryConverges`: `Spec => []HistoryMatchesLog`. From
  `WatermarkInv` an acknowledged head means every event is applied, so `State` takes the
  last event of the identity, which exists (`HistoryEnds`).
* `EventSpineProofs!RowsAreUniqueIfReconcilersAreAlone`:
  `Spec => ([]ReconcilesAlone => []OneRowPerKey)`. Run `spine_rows` refutes `OneRowPerKey`; the
  theorem says that a reconciler beside another replica's reconciler or requests is the only way:
  for any number of replicas, requests, crashes and retries, the inline inserts never repeat a
  key among themselves. `InsertsAbsent`: what `NOT EXISTS` answered when its statement ran
  still holds when the transaction commits. That is true because requests start only on a
  replica that is up (`ServedByUp`), after its reconciler, and requests under way have different
  events and keys (`SeqsDiffer`, `ClaimsExclude`).
* `OutboxProofs!LeaseExcludes`: `Spec => ([]NoLateFinalizer => []SingleDeliverer)`, from
  `LeaseOutlivesDelivery`. Run `outbox_shared` refutes `SingleDeliverer`; the theorem says that a
  finalisation that comes after another sweep of the same process has claimed its row again is
  the only way, whatever crashes, lost answers, expired leases and sweeps of other processes do.
  `ExclusionInv`: rows a claim transaction has written stay as it found them (row locks), locks
  are disjoint, and a delivery in progress owns its row with a lease longer than its deadline.
* `OutboxProofs!DeliveredEffectsHappened` (`Spec => []DeliveredWasPerformed`) and
  `OutboxProofs!Implementation` (`Spec => ImplementsDelivery`), without that hypothesis. The
  invariant: a sweep past a successful delivery, or finalising one, has its row in `done`,
  and delivered rows are in `done`. For the refinement each action is shown to change at
  most one row's phase, and how (`OnePhase`); row locks are what keeps a commit from
  writing over a row another sweep has settled.
* `OutboxProofs!DeadLettersAreEarned`: `Spec => []DeadLetteredAfterMaxAttempts`. The
  finalisation compares the count that the claim returned; `AttemptsCounted`: these attempts
  are ones its row has had, because a row's attempts never fall.
* `OutboxProofs!ProbesAreSingle`: if a circuit stays open longer than a claim and a delivery
  together take (`CircuitOutlivesProbe`), `Spec => []OneProbe`. `NewOutbox` sets 30 and 25
  seconds, which leaves five for the claim; `WithDeliveryTimeout` and `WithCircuitBreaker` do
  not keep to it. `ProbeTimed`: whoever opens the circuit
  while a probe is out keeps it open past the probe's end, so the next half-open state finds
  no probe (`ProbeAlone`).
* `ServingProofs!KeyExcludes` and `RerunsAreAccounted`: `Spec => []OneRunner`,
  `Spec => []RerunNeedsFailure`. Each effect of a key is covered by its row, by the one
  run about to record it, or by a failure or a sweep (`EffectsCovered`); this needs that
  a key being claimed has no committed row.
* `ServingProofs!AnswersAgree`: `Spec => []OneAnswerPerKey`. `AnswersBounded` counts the
  answers given, about to be given, and in the row: one for each time a sweep removed
  the key, and one more while it has a row. `ServedAnswersAgree` and `ServingTypeCorrect` carry
  it and the type invariant to the composition.
* `OutboxProofs!TypeCorrect` and `LeaderProofs!TypeCorrect`: `Spec => []TypeOK`.
* `LeaderProofs!HandoverIsExclusive`: `Spec => []OverlapNeedsLoss`. A live lease
  connection is the session that holds the lock, and workers run only under an
  unreleased lease; so a winner finds no other live lease.
* `ServingProofs!ServingImplements`: `ServingSpec => PoolSpec /\ Spec`: a step of the
  composition is a step or a stutter of each component. `TasksAreConserved`
  (up to the one task a `Submit` has sent and not counted), `CloseDrains` and
  `ServedKeyExcludes` follow from the components' invariants. `PoolInv` adds to
  `Conserved` that a running worker has a task, and `DrainOrder`: a worker is gone only
  from a closed and empty channel, and `Close` has returned only after all are.
  `CallsBelongToRequests` needs both components: a worker takes no task while its call runs.
* `ApprovalsProofs`: `TypeCorrect`, `DualControlHolds`, `RequestersStay`
  (`Spec => RequesterKept`: a bound requester is never replaced by another person). A handler
  that is allowed has counted enough names other than its own (`AllowedCounted`). If neither
  `Hidden` nor `Doubled` holds, other names are other persons, one each (`NamesArePersons`, an
  injection), so enough persons have approved; no step takes the approval of a person away or
  undoes `Hidden` or `Doubled` (`ApprovalsStay`), because a rewrite renames the rows and joins
  no two (`RewritesAreRenamings`), so the count still holds when the handler performs
  (`EnoughStays`).
* `SshTrustProofs`: `TypeCorrect`, `RollbacksRestore`, `AdditionsKeepTrust`,
  `ReportsAreTrue`. The properties speak of the end of an operation, so the invariant follows
  its steps: the backups are the files as they were (`OperationSound`), how far each file has
  been written or restored (`FilesSound`), when the reload that a rollback owes may be skipped
  (`ReloadSound`), and what sshd runs meanwhile (`RunningSound`).
* `LeasesProofs`: `TypeCorrect`, `ActiveLeasesAreNotRevoked`, `RevocationsAreKept`,
  `IssuesAreIdempotent`. `LeaseSound` relates engine, backend and queue: only a revoked or
  lost lease is queued, only a revoked credential or an acknowledged row is delivered. `JobsSound`
  is what each handler or worker still knows when it goes on after a call that released the
  mutex, and `OpeningDistinct` that two of them never open one lease.
* `AcmeProofs`: `TypeCorrect`, `ReplaysFindOrders`, `RestartsKeepAnswers`, `IdsAreFresh`,
  `IssuesAreValidated`, `KeysIdentify`, `RevocationsAreOnPlatform`. Each handler applies one
  event to the log and, if the append is answered, the same event to the view. The invariant
  says what a view satisfies (`ViewSound`, of both), how far the log may be ahead (`Behind`: only
  by appends whose answer was lost and orders the janitor dropped), and what a handler
  between two critical sections relies on (`ThreadSound`). An order that is settled stays so in
  both, which is why a finalize that took the lock again may mint.

The strengthened invariants hold in TLC on the instances of the runs (the lemmas `Init =>
IInv` and `IInv /\ [Next]_vars => IInv'` are in the modules). The theorems about `Leases`
are of `Spec`; `FairSpec`, which the run checks, implies it. The same goes for the other
fair specifications.

Three theorems have a hypothesis beside the assumptions on the constants. `ReconcilesAlone`
and `NoLateFinalizer` are predicates on states that the code can leave, and section 5 shows
what happens then: these theorems locate two defects, they do not exclude them.
`CircuitOutlivesProbe` is what the default configuration satisfies.

Only model-checked: liveness (`EffectEventuallySettled`, `EveryRowSettles`, `RequestsEnd`,
`LostLeaderStops`, `AlwaysReelected`, `DueLeaseExpires`), because fairness and `ENABLED` are
out of the prover's reach. Every invariant and action property of a passing run has a
theorem. Only proved, and in no run: the type invariants of `EventSpine`, `Outbox`,
`Leader`, `Leases`, `Approvals` and `SshTrust`, `DeliveredWasPerformed`, `RequesterKept` and
`CallsAreRequests`; TLC finds no violation of them on these instances (`RequesterKept` with
one rewrite).

## 5. Disagreements between the code and what it says

Each is a run TLC ends with a counterexample; `PROJECT.json` quotes the lines.

1. `spine_status`: two transitions append in one order and project in the other;
   `identities.status` keeps the older target, and only a rebuild repairs it. History
   (`Orchestrator.State`), which is ordered by sequence, stays right.
2. `leases_lost`: the dispatcher reaches a `dynsecret.revoke` row before the lease worker
   drains it; `issuanceDispatcher.Deliver` has no case for the destination and returns nil,
   the row is marked delivered, `Pending` no longer lists it, and the credential is never
   revoked.
3. `spine_rows`: a replica boots while another one's request has its transaction open; its
   reconciler and the request both find no row and both insert one. `EnqueueIfAbsent` runs at
   read committed, without a lock or a unique index, although `orchestrator/outbox.go:328-330`
   says "two concurrent reconcilers cannot both insert the same key". `ReconcilesAlone` above
   is the condition under which it holds.
4. `outbox_shared`: the worker id belongs to the process, so a late finalisation of one sweep
   matches the lease another sweep of that process has taken since, releases it, and a further
   claim delivers the row concurrently, although `server/server.go:1607-1608` says "Concurrent sweeps are
   safe". The default pool runs four sweeps. `NoLateFinalizer` above is the condition.

## 6. Claims the models refute that have no run

Stated in the `MC` modules; each can be named in a cfg in place of a run's property.

* `EffectPerformedOnce`: the reconciliation checkpoint moves only at boot, so a row
  delivered and collected between two boots is enqueued again.
* `RetiredIsTerminal`: the tail re-applies an older event over a newer status.
* `CredentialPayloadKept`: a reconciler that inserts the bare event first makes the
  request drop its credential payload.
* `AttemptsBounded`: lease recovery does not look at the attempt cap.
* `InFlightCap`: two open claims do not count each other.
* `ValidOrderKeepsCertificate` (`MCAcme`, four ids): two finalizes of one ready order, or a
  challenge accepted again on a valid order, give a valid order a second certificate.
  `protocols/acme/acme_test.go:291` expects a replayed finalize to answer with the original.
* `NoSelfApprovalOnRecord` (`MCApprovals`): an approval that read the target before its
  requester was bound is recorded although the approver is the requester. The count leaves
  it out, so dual control is not affected.
* `DualControlAlways` (`MCApprovals`): dual control without the exceptions of `DualControl`. After
  a retention run or an erasure, the count takes an approval of the performer's own for somebody
  else's (`Hidden`), or counts an approver twice who approved again (`Doubled`), although
  `store/approvals.go:127-128` speaks of "DISTINCT-approver approvals on record, NONE of which is
  the requester".
* `EveryRowSettlesAlways` (`MCOutbox`): an error while finalising a half-open probe leaves the
  circuit half-open in memory and its rows undelivered until the process restarts;
  `server/server.go:1589-1591` says that failures "are recorded on the row for retry" and that
  after a store fault "the next tick retries".
* `RequestsEndAlways` (`MCServing`): calls of `Do` that hold the whole pool wait for one another.
  The default bulkheads admit more callers (36 over API, protocols, agents and outbox) than the
  pool's 16 connections, one of which the leader lease keeps.
* `AdditiveAlways`, `UnchangedIsEnabled`, `OnlyValidLoaded` (`MCSshTrust`): a read error is
  taken for a missing file; after a crash the files say what sshd has not loaded; a failed
  restore is reloaded.

Also: `OverlapNeedsLoss` cannot be strengthened to exclusion: after a lost connection two
replicas do run leader workers for up to one health-check interval and the time the workers
take to stop, although `store/leader.go:113` says "two replicas never run them at once".

And by reading: `api/handlers.go:416-418` says that "a denial is the recorded result for the
key (a replay re-denies"; `Do` rolls its claim back when `fn` errs, so a replay asks the
gate again and, once approvals have arrived, is allowed.

Known, and without a property because the repository makes no claim about it: a row in
backoff is passed by later rows of its destination (`orchestrator/outbox.go:463`); an event
that cannot be decoded stops the tail at its sequence (`projections/tail.go:81`); the ACME
quota counts the orders of one replica's view (`acme.go:860`), and ids are given out from it
(`acme.go:892`), so a second replica would repeat them; an approval is not used up by the
action it allowed; a principal who approves again after its first approval was pseudonymised
makes the next retention run or erasure that would give both rows one name fail on the
primary key; a renewed lease outlives its credential.

## 7. Plan

1. Extend the model: CA ceremonies and CRL numbers; the signer's key store and supervisor;
   the audit chain under retention; snapshot and restore; the issuance handlers between
   `Outbox` and `EventSpine`; an abstract specification of the spine ("each logged effect is
   performed") that `EventSpine` implements.
2. Prove more: that `EventSpine` implements that abstract specification, and the invariants
   of the components added under 1.

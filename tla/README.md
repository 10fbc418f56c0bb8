# A TLA+ model of the code interpreter

This directory models the parts of the code interpreter in which several
processes act on shared state: API replicas, queue workers, remote bridge
workers and their machines, MicroVMs, and the sandbox runners in them.  They
coordinate through Redis keys and Lua scripts, object stores, file systems and
channels between processes.  TLC checks every model on small instances.  The
six protocols that the rest depends on are proved with TLAPS, for every number
of processes.

`PROJECT.json` gives, for every definition, the source lines it models, the
components of the system, and the hazards that the properties are there to catch.

## The system and its models

A request to `/exec` or `/exec/programmatic` becomes a BullMQ job.  The attempt
that wins the execution claim hands it to a sandbox backend: a sandbox runner, a
remote worker reached through the bridge, or a MicroVM.

| Module | Part | Where |
|---|---|---|
| `JobExecution`, `JobContract` | A job, its request, its Stop endpoint, its deliveries | `service/src/job-cancellation.ts`, `workers.ts`, `queue-wait.ts`, `service/router.ts` |
| `ReplayExecution` | Programmatic runs that are replayed | `service/src/service/replay-state.ts`, `programmatic-router.ts` |
| `BlockingExecution` | Programmatic runs that wait for tool results | `service/src/tool-call-server.ts`, `service/blocking-poll.ts` |
| `EgressGateway` | Budgets and revocation of an egress grant | `service/src/egress-*.ts` |
| `BridgeAssignment` | Assignments of a serial bridge worker | `service/src/bridge/store.ts`, `packages/code/src/worker.ts` |
| `WorkspaceSlots` | Admission to a worker with several slots | `service/src/bridge/slots.ts`, `admission.ts` |
| `WorkspaceRequests` | Durable workspace requests | `service/src/workspace-tools/requests.ts`, `bridge/store.ts` |
| `Pairing`, `PairingScan` | Credentials of workers, and the scan for old codes | `service/src/bridge/pairing.ts`, `router.ts` |
| `RuntimeSession` | Stateful sessions on MicroVMs, and checkpoints | `service/src/runtime-session/`, `sandbox-backend/lambda-microvm.ts` |
| `HostedApp`, `HostedRunner` | Hosted applications: control plane, and supervisor in the guest | `service/src/hosted-app/`, `api/src/hosted-app.ts` |
| `SandboxJob` | Jobs and user ids of a runner | `api/src/job.ts`, `workspace-isolation.ts`, `nsjail-setup-gate.ts` |
| `SessionFiles` | Files of a session over several turns | `api/src/job.ts`, `session-workspace.ts`, `session-checkpoint.ts` |
| `InputCache` | Cached inputs and shared downloads | `api/src/session-inputs.ts`, `http-input-cache.ts` |
| `ArtifactWalk` | Collection of outputs | `api/src/job.ts`, `delivery.ts` |
| `WorkerProcess` | Lanes of a worker and its durable guards | `packages/code/src/worker.ts`, `workspace-guards.ts` |
| `NativeExecutor`, `NativeSandbox` | Executor processes, and the programs in them | `packages/code/src/native-*.ts` |
| `WorkspaceEdits`, `TextEdits` | Mutations of files, and the text of edits | `packages/code/src/workspace.ts`, `edits.ts` |
| `WorkspaceReads` | Listing, reading and searching page by page | `packages/code/src/workspace.ts`, `protocol.ts` |
| `Provisioning`, `LaneRetirement`, `Snapshots` | Worktrees, their retirement, dependency snapshots | `packages/code/src/worktrees.ts`, `worktree-retirement.ts`, `dependency-snapshots.ts` |
| `WorkerCredential`, `MachineSetup` | The stored credential and how a machine becomes a worker | `packages/code/src/worker.ts`, `setup.ts`, `browser-setup.ts`, `storage.ts` |

The models meet at their boundaries.  The lock, the in-flight marker and the
settlement of `BridgeAssignment` appear in `WorkspaceSlots` and
`WorkspaceRequests` with the part of their behaviour that concerns these.
`ReplayExecution` and `BlockingExecution` take a job (`JobExecution`) for one
awaited step.  `WorkerProcess` assumes nothing of the order in which the server
hands out assignments, so it holds next to `BridgeAssignment` as it is.
`RuntimeSession` and `HostedApp` see the provider as an operation that is carried
out, or not, whatever its answer.  `Pairing` (server) and `WorkerCredential`,
`MachineSetup` (machine) each leave the other side's answers open.

## Conventions

* A Lua script, and any other single Redis command, is one atomic step.  A reply
  may be lost after the script ran.  The caller then sees an error or sends the
  script again, as its code does.
* Between two awaits a Node process is not interrupted; every await ends a step.
* A process may die at any step and does not run its `finally` blocks.
* A key with a time to live may disappear when the code allows it to: as a phase
  of time (`JobExecution`), after a deadline (`BridgeAssignment`,
  `WorkspaceRequests`), with explicit clocks where the length matters
  (`WorkspaceSlots`), and as a fault where the code renews it (`RuntimeSession`,
  `HostedApp`).
* `None` is an absent key or an unknown value.
* Operators that are named after another one with a suffix, and mentioned in
  parentheses in its comment, are wrong variants that the properties have to tell
  apart from the code.  They are used nowhere.

## State and actions of the larger modules

**JobExecution.**  One job, from request to result.  The API request reserves
and attaches (programmatic runs), adds the job and waits; when its wait fails it
fences the job.  Every BullMQ delivery is an attempt: it subscribes, checks the
marker, claims, executes, finalizes, revokes its grant, commits and settles.
`decision`, `result` and `execution` are the three Redis keys.  The history
variable `committed` remembers whose commit won.  `JobContract` is what callers
see: started once, then one result or cancelled, and the request is told that
result.

**BridgeAssignment.**  One worker id with several incarnations, and one
workspace of a fixed kind: none (`plain`), a runtime session (`session`) or a
native workspace (`native`).  Dispatchers acquire the worker lock, enqueue
(setting the in-flight marker), wait, commit or quarantine, and clean up.  Worker
processes lease, acknowledge, execute and settle.  `dirty` is the history of
executions whose effects nothing accounts for yet.  A worker that gives up on its
lease request leaves a return behind (`Abandon`, `returning`), which
`ReturnAbandoned` carries out.  `Returns = "prompt"` says that this happens before
the next lease of that process, `"late"` that it may happen at any time.

**WorkspaceSlots.**  The admission queue, the slot hash and the shared lock, with
remaining times that `Tick` counts down.  A request names one of its `Keys`;
`Parent` is the checkout of a lane.  `older` says which waiting requests came
first.  `ReserveLater` is the scan that grants nothing but still drops stale
entries, and `ReserveAgain` a request that asks after a lost reply.

**WorkspaceRequests.**  One durable request and overlapping attempts to advance
it.  The 8 s deadline of a transition leaves the transition running as a zombie
while the claim passes on.  `pushed` counts the commands sent to the worker;
`reason` records why the request ended.

**RuntimeSession.**  One session: its lock, record and counters, the machines
named by client tokens `<<generation, retry>>`, and the checkpoint store.  An
attempt is one call of `executeSession`.  Faults are counted, and a
configuration chooses which kinds are considered.

The comments of the other modules say the same of theirs.  `TextEdits` and
`WorkspaceReads` are algorithms: operators on sequences, compared with reference
definitions on every small input.

## Runs

`MCJobExecution`, `MCBridgeAssignment`, `MCWorkspaceSlots`, `MCWorkspaceRequests`
and `MCRuntimeSession` extend one model.  `MCExecutions`, `MCMicroVm` and
`MCWorkerHost` check several components, one after the other: a behaviour is one
of the component that `which` names.  Components taken with `INSTANCE` share the
variables `y1`, `y2`, ...; each of the three extends one component
(`BridgeAssignment`, `RuntimeSession` and `WorkerProcess`), whose variables rest
while another is examined.  No step mixes two components, so every property there is one of a
component by itself.

| Run | Instance | Shows |
|---|---|---|
| `job_execution` | 2 attempts | at most one execution, one result, cancellation is final and not lost; implements `JobContract` |
| `bridge_native` | 2 dispatchers, 2 processes, native workspace, prompt returns | marker kept, results committed, exclusion, clean start |
| `bridge_late_return` | 1 dispatcher, 1 process, late returns | **violation**: marker cleared while in use |
| `workspace_slots` | 3 requests for a checkout and 2 lanes, 1 execution without workspace, 2 incarnations, 2 slots | exclusion, lock coverage, no overtaking |
| `workspace_slots_liveness` | 3 requests, 1 incarnation | no starvation |
| `workspace_requests` | 2 attempts, 2 faults | one command, true and final outcome, nothing left behind |
| `workspace_requests_liveness` | 2 attempts, 1 fault | every request is retired |
| `runtime_session` | 2 attempts, any 2 faults; a hosted application with 2 calls, 2 revisions, 1 fault | no orphan, unfinalized changes not built upon, checkpoints consistent; the application's machines and revision |
| `runtime_liveness` | 2 attempts, any 2 faults | the session serves again |
| `runtime_retire` | 2 attempts, 3 faults | **violation**: intent retired with a live machine |
| `executions` | an assignment of every kind with late returns and 2 processes; 8 components of an execution | an expiry is final; replay, blocking runs, grants, guest supervisor, runner, session files, input cache, outputs |
| `worker_host` | 13 components of a worker and of its pairing | executors, worktrees, snapshots, guards, edits, reads, pairing, credentials, set-up |

*Bounds.*  Two attempts (dispatchers, processes, replicas) are enough for every
race of the code, because each guards its steps against *an* other holder of the
same key.  A third call is there where two must be under way while a third waits
or comes late: the queue of the executor pool, the requests for slots, the
waiters of a download, overlapping set-ups.  Two faults let a fault happen during
the recovery from another; one fault is enough where nothing is retried.
`MaxGen` = 5 leaves a generation for every fault and each attempt.  `MaxSeq` = 2
lets a stale upload and its successor meet.  Holds of 1 and 2 ticks let a short
reservation follow a long one, and the queue limit is reached.  Limits of the
code (output files, cache size, pool capacity, depth, page size) are set to 1 or
2, so that they are reached and exceeded.  Texts have up to five characters, and
search lines up to six units, so that a pair of units can straddle a limit.

*Deadlock* is checked for `RuntimeSession` in `runtime_liveness` and
`runtime_retire`: a session always goes on.  The other systems rightly stop: a
job, an assignment or a request ends, and a component whose bounded calls are
spent rests.

*Fairness.*  Weak fairness of the steps that Node carries out once the awaited
reply is there, of expiry by Redis, and of deadlines.  Nothing is assumed of
clients, workers or the provider.  `workspace_slots_liveness` has no executions
without workspace: these do not queue, and the code does not promise that they
leave a waiting request its turn.

*Scope of some properties.*

* `CancellationReaches`: the run that a cancellation is meant for has been
  aborted, has the notification on its way, or is about to reconnect and read
  the marker.
* `MutationNotReused` is about attempts that live to finalize their run.  After a
  crash or a lost lock the record still offers the machine, and the code lets the
  next execution build on what it finds there.
* `NoOrphanVm` leaves out strays, the machines that an attempt launched as a retry
  after it had lost the lock (see *Observations*).
* `SetupSafe` promises that identities survive only for set-ups of one kind.
* `HostedApp` is checked with `Late = FALSE`: a replayed launch of an expired
  client token does not create its machine hours later.

## What the violations show

* `bridge_late_return`: a return of a lease (`returnLeaseById`) checks only that
  the delivery claim names its assignment.  If the request that carried it is
  delayed until the assignment has been delivered again and acknowledged, it
  deletes that acknowledgement.  The dispatcher's cleanup then clears the marker
  during the execution.
* `runtime_retire`: an intent is retired after the failure of its first token
  alone when the caller is aborted at that moment, although a predecessor may
  have launched the second.

## Proofs

All theorems hold for every value of the constants that satisfies the modules'
assumptions.  These say that sets of processes are finite where the code counts
them, that bounds are natural numbers, that `None` and other markers are no
processes, and that lanes nest beneath checkouts only (`ParentAssumption` of
`WorkspaceSlots`, from `workspaceIsolationKey`; `WorkerProcess` asks only that a
parent is a key).  Every proof is by induction over the steps: an
inductive invariant holds initially, each action keeps each of its conjuncts, and
it implies the property.

| Module | Theorem | Property |
|---|---|---|
| `JobExecutionProofs` | `SingleExecution`, `OneResult`, `CancellationWins`, `CancellationArrives` | `AtMostOneExecution`, `ResultAgreement`, `CancellationIsFinal`, `CancellationReaches` |
| | `ContractKept` | `Implements`: the job refines `JobContract` |
| | `TypeCorrect` | types |
| `BridgeAssignmentProofs` | `ExpiryFinal`, `TypeCorrect` | `ExpiredStaysUnfulfilled`, and types, also with late returns |
| | `HonestResults` | `ResultsHonest`, prompt returns |
| | `MarkerKept`, `Exclusion`, `StartsOnlyClean` | `FenceHolds`, `ExclusiveExecution`, `CleanStart`, prompt returns |
| `WorkerProcessProofs` | `WorkerKept` | `WorkerSafe` |
| `WorkspaceSlotsProofs` | `SlotsKept` | `SlotsSafe` |
| `WorkspaceRequestsProofs` | `RequestsKept` | `RequestsSafe` |
| `RuntimeSessionProofs` | `CheckpointsKept` | `CheckpointsSafe` |
| | `NoOrphans` | `NoOrphanVm`, if no caller aborts a boot |
| | `ChangesNotReused` | `MutationNotReused`, with at most two faults |

*JobExecution.*  None of the properties is inductive alone.  `ExecutionInv` adds
that whoever may still start is protected by the execution key, or, once the key
may have expired, has been aborted.  `EnqueueInv` says that attempts exist only
after `queue.add` was issued; `DecisionInv` that an acknowledged decision is in
the key, or the retention has passed and nobody who could still commit is left;
`ResultInv` that every result under way is the committed one; `SubscriptionInv`
that every attempt past its subscription has a line.  For the refinement the
contract's `started`, `result`, `cancelled` and `told` are read off `ran`,
`committed`, the answers to Stop and to the request.  `ControlInv` is needed to
see that an attempt that commits has run, and that a request is answered once.
Every step is then a start, a completion, a cancellation or an answer that the
contract allows, or changes none of the four.

*BridgeAssignment.*  The invariant is built in layers: `TypeInv`, `ExpiryInv`
(an expiry closes an assignment for good), `PlaceInv` (an assignment is in one
place, and only with the incarnation it was enqueued for), `SettledInv` (what is
settled is not delivered again), `DirtyInv` (what may have had effects is
acknowledged and out of the queue) and `MarkerInv` (the marker names the one
assignment in flight).  The first two hold however late a lease return takes
effect; the run `bridge_late_return` shows that the others need the premise.

*WorkerProcess.*  `Exclusive` and `Guarded` are part of the invariant; what
they rest on is who owns a guard file.  `ActiveInv` says that whoever has
entered is the active assignment of its key, `OwnInv` which file it has found or
written there, `FamilyInv` that the family it has inspected stays available until
it leaves.  `LateInv` is about a removal that outlived its timeout: it meets the
file of its owner or none, because the key stays quarantined in that process.
`DirtyInv` says that no such removal is under way for effects not accounted for,
and `OffInv` that a process that ended has left no step behind.

*WorkspaceSlots.*  `HashInv` relates the hash to the lock: every live slot is one
of the lock's incarnation, and both keys outlast it.  `ApartInv` says that live
slots are for workspaces that do not overlap, `KnownInv` that a dispatcher that
counts on a reservation has it for at least as long as it thinks, `FifoOrder` that
the queue is an order.  The difficult steps are a grant after a lost reply and
`Tick`, which makes slots, lock and hash expire together.

*WorkspaceRequests.*  `DecidedInv` says that an attempt about to write has decided
on an outcome and, for a completion, keeps the settlement it rests on.
`ClaimInv` says that nothing is queued before the admission and that only the
holder of the claim admits or ends a request.  `FinishInv` follows the steps of
`finishDurableWorkspaceTool`, each of which leaves behind what it has dealt with
although zombies of earlier attempts act in between.

*RuntimeSession* (`RuntimeSessionInvariant`, `RuntimeSessionSteps` and
`RuntimeSessionProofs`, by the steps of an attempt).  Machines: `RecInv` (the
record names a machine that was launched), `RetryInv` (a retry follows a launch
that died), `TokInv`, `LaunchInv` and `MineInv` (what an attempt knows, with or
without the lock), `HolderInv` (what only the holder may rely on), `OrphanInv` and
`SiblingInv` (a record is changed only when the machines it gives up are dead),
`FailedInv` (a machine whose result was not kept is dead, or recorded as
terminating, or about to be).  Checkpoints: `KeptInv` (next to a marker, an
archive at least as new is retained), `CkptInv` (the holder writes back only what is
good, and a new one only above everything marked) and `SeqInv` (an allocated
sequence belongs to one attempt, even after its counter expired).  With a third
fault a machine may keep changes that were not finalized, because its
quarantine and its termination can fail as well: that is the reason for the
premise of `ChangesNotReused`.  An abort during a boot loses
a machine for the reason shown by `runtime_retire`: hence that of `NoOrphans`.

*Only model-checked.*  Liveness (`NoStarvation`, `EventuallyRetired`,
`EventuallyServed`), which needs fairness and `ENABLED`.  What the recursive
functions of `TextEdits` and `WorkspaceReads` compute, which needs induction over
data.  And the safety of the components that are examined in `executions`,
`worker_host` and (`HostedApp`) `runtime_session` other than the three that have
proofs: for these TLC's instances are all that is claimed.

## Observations

Not settled by a run, but met while modelling:

* An attempt that lost the lock during a boot may still launch the retry of its
  token (`lambda-microvm.ts:1475-1500`); the new holder does not know of it.
* `job.ts:1904-1989` against `2198-2206`: a changed `.dirkeep` that is too large,
  or was surfaced before, is emitted again.  A file that cannot be hashed counts as
  unchanged or new, and a failed write of a marker is not reported.
* `storage.ts:427-442`: the release of a reserved path looks at it and removes it
  in two steps; the comment at 431-433 speaks of one.
* A crash between reserving and saving the journal of a browser set-up leaves an
  empty journal that every later browser set-up refuses.  A resumed one passes
  over the placeholder of a running manual set-up (`browser-setup.ts:268-270`).
* `pair` replaces an identity by design, and the rotation of a running worker then
  overwrites the new one.  `assertIdentityPathIsPrivate` removes the path after any
  failure that follows its creation.
* The push route's last prune runs outside `storeTail`; a session reset releases
  its user id without waking `jobQueue`.

## Not modelled

Within the modules: cancellation marks and readiness confirmation of
assignments; queue entries without workspace in front of slot requests, workers
whose number of slots changes, and `refreshOwned`; durable requests on workers
with several slots and their 24 h retention; records written by earlier releases,
throttling and input delivery of runtime sessions; the time the provider takes to
end a machine; the limit on removals of one retirement pass; glob syntax, encodings
and permission bits.  The parts without a module (proxies, authentication,
generated preambles, file streaming, telemetry, command lines, the launcher) are
listed with reasons in `PROJECT.json`: they have no state of their own, or none
that another process acts on.

# A verification project for KiroCrew on Amazon Bedrock AgentCore

The repository runs one user's KiroCrew gateway in an AgentCore microVM that may be
reclaimed at any time. Everything the user has is kept in three places: one DynamoDB
item per sandbox (who owns it and how far it has been saved), encrypted write-once
objects in S3 (the checkpoint generations), and the workspace of whatever microVM is
alive. Several programs write the item without holding a lock, the platform may run two
microVMs of one session, and answers get lost; the protocol that keeps the user's work
through all this is what this project models, checks and proves. Around it are the
programs that use the sandbox: the adapter that carries a browser's requests to the
gateway, the waker that runs scheduled jobs while nobody watches, and the sync that
installs a team's files among the user's own.

## The system

| Part | State | Operations |
| --- | --- | --- |
| Control plane (`infrastructure/functions/control`) | none of its own; reads the item, writes it whole on `stateVersion` | `POST /sandbox/start`, `POST /sandbox/stop`, `schedulerStart`, `schedulerStop`, deletion, status and history |
| Persistence broker (`.../persistence/lambda_handler.py`) | none; conditional `UpdateItem`s | `readRecord`, `acquireInit`, `heartbeatInit`, `heartbeatLease`, `healReady`, `markReady`, `markError`, `checkpointReceipt`, `presign`, `list`, `dataKey`, `toolToken` |
| Runtime initializer (`runtime/.../aws_runtime.py`) | session it is bound to, its instance id, last served, readiness | `initialize`, init beat (10 s), lease beat (30 s), supersession exit |
| Runtime backend (same file) | checkpoint lock, engine, gateway restarts | `prepare_stop`, durability checkpoints, `checkpoint_on_shutdown`, `ensure_gateway`, `background_busy` |
| Supervisor (`supervisor.py`) | the gateway process | start, pause, resume, terminate, mirror the state home |
| Checkpoint engine, journal (`persistence/checkpoint.py`, `journal.py`) | dirty events, read-only flag, local generation | `checkpoint`, `enforce_rpo`, `mark`, `clear_through` |
| Checkpoint store and client (`durability.py`, `remote.py`) | base generation, chunk index, grants | `next_generation`, `upload_manifest`, `commit_generation`, `checkpoint_receipt` |
| Restore engine (`restore.py`) | staging directory, backup, report | choose a generation, verify, install, roll back, fall back |
| Retention (`durability.py`; wired to nothing yet) | marks | mark, sweep, audit |
| Adapter (`adapter/.../transport.py`, `loopback.py`) | request digests, event buffer, tunnels | `/ping`, `/invocations`, `/ws` |
| Waker (`infrastructure/functions/waker`) | none; plans from the record | wake, dwell, catch up, hold, relay, stop again |
| Team context (`team_context.py`) | mirror, steering files, manifest | sync before a gateway start and every refresh interval |
| Page (`frontend-shell`) | lifecycle store, receipt, channel with reconnects | start, stop safely, resume an interrupted stop, retry |

They interact through the item (every writer), through S3 (containers, with URLs the
broker signs), through invocations (page and waker to container) and through the receipt
that travels from the container over the page to the control plane.

What is hard here: the control plane's read-then-replace against the broker's partial
updates; two containers of one session; leases that expire while their owner is slow;
S3 writes that outlive the authority under which they were granted; answers that are
lost after the update was made; a record that must never get into a state nobody can
leave; a workspace that is swapped entry by entry on a mount that cannot be renamed;
requests that are repeated while their first copy still runs; and a job whose minute
must be met by a sandbox that takes an unknown time to restore. `PROJECT.json` lists these
under `hazards`, each at its line, with the properties that watch it.

## Modules

| Module | Models |
| --- | --- |
| `SandboxLifecycle` | the sandbox item, control-plane starts and stops, the broker's record operations, microVMs from cold to reclaimed, time |
| `SandboxLifecycleProofs` | TLAPS proofs about it |
| `CheckpointChain` | S3 manifests and commits, the recorded pointer, restore, checkpoint and receipt steps of several containers |
| `CheckpointChainProofs` | TLAPS proofs about it: what holds under any faults; one history, without takeovers and fallbacks |
| `CheckpointEngine` | one container's gateway, freeze and restart, checkpoint threads, chunk index, builder baseline, fingerprint loop, shutdown |
| `CheckpointEngineProofs`, `CheckpointSavedProofs` | TLAPS proofs about it: what is committed can be restored; what is saved, skipped and atomic |
| `AcknowledgedHistory` | the abstract specification: acknowledged saves form one history and whoever serves next starts from all of it |
| `RestoreEngine` | one container's workspace and the bucket: restore, install, rollback, staged state home, checkpoint, and the collector |
| `RestoreEngineProofs` | TLAPS proofs about it |
| `AdapterTransport` | the adapter process: idempotency, event buffer, live streams, retries, tunnels, cancel, gateway restarts |
| `AdapterTransportProofs` | TLAPS proofs about it |
| `Waker` | legs of the waker, the owner, the container and the job's schedule, over the record's planning fields |
| `WakerProofs` | TLAPS proofs about it |
| `TeamContext` | two callers inside `TeamContextSync.sync`, the user, the repository, checkpoints and restores |
| `TeamContextProofs` | TLAPS proofs about it |
| `MC...` | symmetry, names and request scripts for the TLC runs |

The modules are views of one system, cut where the coupling is a value rather than an
interleaving: `SandboxLifecycle` decides who holds the sandbox, `CheckpointChain` takes
holders as given and follows generations, `CheckpointEngine` takes the generation number
as given and follows contents, `RestoreEngine` takes a generation's content and follows
the disk. `Waker` uses the record's states, leases and claim conditions once more,
reduced to what its plan reads.

### SandboxLifecycle

`rec` is the METADATA item, `ctl[c]` one control-plane Lambda invocation, `ins[i]` one
microVM process, `receipt` the final receipt some page still holds. Each broker operation
is one action (the conditional update is atomic in DynamoDB); a control-plane request is
several (`StartBegin`, `StartRead`, `StartPut`; `StopBegin`, `StopRuntime...`, `StopPut`),
because other writers come between its read and its `PutItem`.

- Timestamps are kept as time left, from their length down to -1; 0 is the instant where
  neither `expiresAt > now` nor `expiresAt < now` holds, which the code's mixture of
  comparisons tells apart. `Tick` lets time pass; nothing else depends on real durations.
- `stateVersion` is kept as `seen`, the set of requests whose read is still current:
  `Bump` empties it, `Touch` (the heartbeats) does not.
- `PutItem` writes back what was read, so `StartPut` installs the snapshot (with the
  heartbeats' effect in between lost), without `initOwner`, which `_record_item` never
  writes.
- A container bound to the session answers invocations from a 15 s cache of its lease, so
  `Invoke` has no condition on the record.
- An initialization that fails leaves a container without session and gateway. Its
  `markError` may apply (`MarkError`) or be lost with the claim left standing
  (`MarkErrorLost`). `markReady` may apply and only its answer be lost: the record is READY
  and the container tears itself down all the same (`pc = "unheard"`, as good as cold to its
  own code; the name keeps apart who has published READY and who has not).
- Not in the record: `BUSY` and `CHECKPOINTING`, which no code writes.
- `RequestDeletion` only adds to `stateVersion`; no other operation reads `deletionState`.

### CheckpointChain

Here a start may rotate the session at any time and a container of the current session
may claim whenever the holder is dead (or, with the fault `takeover`, alive). A working
copy is the set of generations whose work it contains, so a restore copies a generation's
set and a checkpoint stores its own. Numbering, the grant for the manifest, its PUT, the
grant for the commit, its PUT and the receipt are separate steps; a PUT needs no authority
any more once granted. `Faults` selects what may go wrong in a run.

`ImplementsHistory` is `AcknowledgedHistory!Spec` under the mapping: the history is the
set of generations whose receipt was applied, `saved` what their manifests hold, the
server the live holder of the current session once it is restored, its work the working
copy's set. It says what no invariant of the chain says alone: that each opening has all
acknowledged saves, and that nothing between two receipts takes one away. Of each state it
implies `AcknowledgedWorkKept`, the form the proof uses.

### CheckpointEngine

The inside of one container, where `CheckpointChain` takes a checkpoint's content for
granted. `past` is every state the gateway's files have been in; `disk` and `stamp` are
the workspace's copy and its `_FileStamp`; `thr[t]` is a thread inside
`CheckpointEngine.checkpoint`, `lock` the thread whose caller holds `_checkpoint_lock`,
and the two differ only after `on_shutdown` has cancelled the periodic task. `chunks`,
`manifests` and `commits` are the bucket, `known` the cached index and `baseline` the
builder's committed entries.

- A checkpoint is freeze, flush, one step per file, end of the build (thaw unless final),
  one step per missing chunk, manifest, commit with `remember`, receipt. Every step may
  fail (`RequestFails`, `LocalStateFails`), an object may be stored and its answer lost
  (`AnswerLost`), and the engine refuses on its own a dead gateway or a taken number
  (`Refused`); each ends with the `finally` clause's thaw and the release of the lock.
- A content is the number of its write and names its chunk. One file is read in one step:
  the gateway is frozen then, or the run is about it not being so.
- Time is counted in timestamp granules: two writes in one granule leave the same stamp,
  which is what `_RACY_WINDOW_NS` is for.
- `workspace_fingerprint` hashes path, mode, mtime and size, never a content. What a write
  leaves of these is its `mark`: its own number, or the mark of any earlier write to the
  file (a copy that restores times, a second write of one size in one granule). `Seen` is
  the fingerprint; a content is `Visible` if its mark is its own. The loop's decision
  (`PeriodicWake`) sees only marks. A file that vanishes under the fingerprint ends the
  loop's task (`FingerprintFails`).
- `torn` is a history variable: the numbers whose walk met a write of a gateway that was
  not frozen (`Walking`), because `ensure_gateway` restarted it or another checkpoint
  thawed it.
- With `StagedFiles` the gateway's own files live outside the workspace: `Write` leaves
  `disk` alone, `Flush` copies them back, `GatewayStart` mirrors the older copy over them.
- Left out: the runtime's own writes to the workspace (layout, team context), the journal
  (nothing in the deployed runtime marks it) and with it `enforce_rpo`, and a workspace
  fingerprint that is absent.

### RestoreEngine

`store` is the bucket (manifests, commits, chunks, damaged generations), `disk` the
workspace (top-level entries, state file, a left-over backup), `box` the container's
place in a restore or a checkpoint, `gc` the collector's marks and what its sweep is about
to remove; `truth` is a history variable, what the workspace should hold while it is
served. `_install` is one step per move: state file out, each entry out, each staged entry
in, state file in. A move may fail (`MoveFails`), half-done across mounts (`disk.torn`);
the rollback is step by step and may fail too; the process may end anywhere (`End`) and
the next attempt finds what is there. With `StateHome` the gateway works on a copy that
`Flush` mirrors back in two steps, as `_mirror_directory` does. An entry's content is one
value and one chunk. `Collectable` is the docs' rule that a sweep does not begin while a
container holds the lease; no code enforces it yet, because no code calls the collector.
Failing start-up paths of a sandbox that is recorded as existing but has no commits are
left out.

### AdapterTransport

A connection (`conn[c]`) carries one invocation and drives one generator of
`LoopbackKiroCrewBackend.execute`; `stage` is how far the generator has come, `mode` how
the reply is delivered (live events, one JSON document, WebSocket frames). `digest`,
`buffer` and `nextSeq` are the idempotency window and the event buffer, `tunnels`, `sock`
and `fed` the upstream WebSockets and what they received, `gateway` the process and the
back-off of its restart. A client leaves (`Vanish`) without the handler knowing; a handler
that leaves its generator makes it an orphan that the event loop closes later
(`Finalise`). `Scripts` bounds what arrives: a set of short sequences of requests whose
interleaving is free. What `EventBuffer.after` returns (`After`) is the suffix of the
buffer above an id: the code filters by id, and ids only grow along the buffer.

### Waker

One tick is a minute of the schedule; every timestamp is kept relative to now. A leg is
one run of the handler: plan, start, first request, dwell, catch-up, hold with polls,
relay to the next leg, commit, stop. The owner starts, uses and stops the same sandbox
through the other door. `job` counts minutes since the job last ran, in the live tree and
in the saved one, so that a restore of a tree from before the run forgets it, as the
container does. The gateway starts a due job at any moment of its minute, and a final
checkpoint takes any of `CommitTicks` minutes. Disturbances (`Faults`) are refused starts
and calls, reclaims, failed commits, stops and restores, unreadable schedules, records, idle
probes and job lists, a run request that fails, records of older runtimes, steps a minute
late, and the owner. Turns are assumed to outlast a poll interval.

Three history variables mark the cases in which the code does less than one would like, so
that the properties can say that there are no others: `cut` (a stop was in the way of an
occurrence that had not run), `raced` (legs whose reading of the job list a run has
overtaken), `blind` (legs that count an idle probe which was no answer). The run contains
each of them: without its exception, each property fails in it.

### TeamContext

`sync[t]` is a thread inside `sync`: fetch, listing, loading the manifest, one step per
file (`Consider`, then `Replace` of the shared temporary name), removals, manifest. The
supervisor's call and the refresh may be there at once. A git that fails leaves the
mirror somewhere between the old and the new tree (`PartlyReset`); one that is killed by
its timeout (`GitKilled`), or that a checkpoint or the container's end catches at work
(`Locks`), leaves its lock behind in the persisted `.git` (`locked`), and every later
fetch fails. A steering file records who made it: `team`, `user` (under a name the
manifest did not have, while no sync ran) or `race` (by the user during a sync). A
checkpoint copies the home directory in one step; a restore brings the copy back. A
user's file under a name the manifest has is the sync's: ownership is by name.

## Runs

| Run | Question | Result |
| --- | --- | --- |
| `lifecycle` | Can two microVMs and a start/stop, with late beats, crashes and lost answers, break ownership? | no |
| `recovery` | Do live leases protect their owner if beats keep their schedule, and is a user who keeps asking always served again? | yes |
| `chain_holder` | Does the fork check ever refuse the lawful holder? | no, with takeovers, corruption and transient failures |
| `chain_kept` | Is acknowledged work ever lost by rotation, crash, late PUT or lost answer; is the chain an acknowledged history? | no; yes |
| `chain_takeover` | ... by a takeover within a session? | yes: the fenced container's commit is restored |
| `engine` | With staged state, two threads, a shutdown and a failure: can anything the engine skips commit what cannot be restored, can the loop skip what it could see is unsaved, can the gateway stay frozen with unsaved work? | no |
| `engine_saved` | With staged state, reuse, failures, a gateway that dies and files that vanish: is a committed tree a state of one moment, and is every write saved in the end? | yes, unless the gateway wrote under the walk; yes, unless the fingerprint cannot see the write or the loop has died |
| `restore` | Is what is served one whole generation, is a failed install undone, do sweeps take nothing a restore needs, does a restore succeed in the end? | yes, but for an entry whose move or mirroring broke half way |
| `restore_staged` | ... also for such an entry? | no: the next container finds the state file current and serves without the state home |
| `transport` | Under repeats, cancels, lost clients and a dying gateway: no holes, no splices, one execution per id, no leaked tunnel, no doubled frame; do executions end and the gateway come back? | yes |
| `waker` | Does an undisturbed cycle run every occurrence in time, can catch-up repeat one, is a crew's pause taken for its end, and does the schedule survive any one disturbance? | yes, unless a stop is in the way; only by losing a race; only if a probe could not be read; yes, unless a receipt of the due minute says there is none |
| `team` | Are the user's files left alone, and do owned names end as the repository has them? | yes; yes, unless git left its lock in the mirror |

`RestoreEngine`, `AdapterTransport` and `Waker` have a `TypeOK` that documents their
variables; their runs spend no property on it.

The two `violation` runs each state a sentence of the repository (quoted under
`findings`) and TLC's trace is the history in which the code does otherwise.

### Sentences of the repository that do not describe the code

The model has the behaviour; no run of its own is spent on it.

Ownership and checkpoints:

- A holder is taken over once `lastServedAt` is 60 s old, and `lastServedAt` is the
  arrival of its latest request: one that streams for longer is taken over while it
  serves (`lambda_handler.py:34`, "a holder that is still serving anyone is never taken
  over").
- A lease renewed between `acquire_start`'s read and its put is rotated away, because a
  beat leaves `stateVersion` alone. `LiveLeasesProtect` therefore needs `OnTime`
  (`aws_runtime.py:305`).
- A durability checkpoint queued behind the final one thaws the gateway while the record
  is STOPPING; if StopRuntimeSession is refused, the record becomes STOPPED with the
  gateway working (`docs/persistence.md:35`).
- A pointer ahead of the base is taken for another container's (`lambda_handler.py:830`);
  after a lost answer (`remote.py:148`) it is the container's own, and every later receipt
  of it is refused.
- A restore falls back after any broker, network or clean-up failure, not "only when the
  latest is corrupt" (`docs/persistence.md:31`).
- A lost answer to `markReady` leaves a READY record with a holder that has torn itself
  down (`aws_runtime.py:987`); it can claim again once the lease has run out, another
  container once `lastServedAt` has (`ReadyFollowsRestore`, `NeverSelfLocks`).
- With staged gateway state the fingerprint does not see what the gateway writes, so
  intervals with unsaved changes are skipped (`aws_runtime.py:810`, "bounded by
  *interval_seconds*"). `SkipMeansSaved` is about the workspace's own copies, and
  `WorkGetsSaved` about files that are not staged. Neither is about a write that keeps mode,
  mtime and size, which the fingerprint misses as `manifest.py:105` says.
- A file that vanishes under the fingerprint ends the periodic loop (`aws_runtime.py:823`),
  and with it the saving of anything until a stop (`WorkGetsSaved` excepts it).
- A shutdown cancels the periodic task, not the thread inside the engine
  (`aws_runtime.py:1406`), so two checkpoints run at once and the first to end thaws the
  gateway under the other (`checkpoint.py:173`). So does a gateway that dies during a build
  and is restarted. What is then committed may mix two moments; `CommitsAtomic` excepts the
  numbers in `torn`, and only these.
- A move across mounts that fails half way is not undone itself, and the rollback still
  puts the state file back (`restore.py`, `_install`).
- `docs/operations.md:118` draws a state machine without READY to RESTORING (a claim by a
  container of the session) and without the rotation to STARTING.

Adapter:

- `_stream_live` reports only `TransientBackendError` in the stream
  (`transport.py:783`, "report the failure in-band"); any other exception after the 200,
  and a reset of the upstream socket in `_tunnel_send`, which it takes for its own client
  leaving (`transport.py:804`), end the stream with neither completion nor error.
- A request refused with 503 and repeated under its id gets an empty replay; a repeat
  during or after an aborted live stream gets the part that was buffered, and an end.
- JSON and frame replies may join the beginning of one attempt to another one
  (`OneAttemptPerStream` is about live streams).

Waker:

- A final checkpoint that spans the due minute (92 s were measured,
  `lambda_handler.py:176`) ends with a receipt newer than the due time, and the plan takes
  the occurrence for handled (`:589`): nothing runs it. So it is with a gateway that is
  stopped within the due minute before it has started the job. `NoOccurrenceDropped`
  excepts these two (`cut`).
- A receipt written in the due minute before the gateway starts the job publishes 0
  (`aws_runtime.py:628`), "nothing scheduled", and no scan ever wakes the sandbox again;
  `ScheduleResumes` excepts it.
- The catch-up asks whether the job has run (`lambda_handler.py:649`) and posts later
  (`:665`): if the gateway's own timer or another leg starts the job in between, it runs
  twice (`:644`, "is triggered once"). `RepeatsOnlyByRace` says that this is the only way.
- A probe that cannot be read counts as idle (`:716`, on purpose); one of them next to a
  pause between two turns stops a crew at work. `WorkNotCutOff` excepts it.
- A recovery wake may run an occurrence older than the catch-up grace. A refused wake does
  not touch `updatedAt` and is tried every minute; with the dispatcher's cap
  (`lambda_handler.py:396`) it can starve the sandboxes behind it.
- A job that starts between the second idle poll and `prepare_stop` is cut off.

Team context:

- An install that ends between a replaced file and the manifest, and the loser of two
  concurrent syncs, leave files that no manifest names. They count as the user's
  (`team_context.py:285`) and are never updated or removed, while
  `docs/design-team-context.md:64` has the sync "remove files it installed that upstream
  deleted". `OwnedFollows` is therefore about names the manifest has, or nobody.
- A git killed by its 60 s timeout (`team_context.py:140`) or by the container's end leaves
  `.git/index.lock` or `shallow.lock`, which is persisted with the home; `_fetch` (216-262)
  neither removes it nor clones anew, so that every later sync fails, while
  `docs/design-team-context.md:78` says "Steering changes reach new sessions after the next
  refresh". `OwnedFollows` excepts a locked mirror.
- A file the user creates between the check that nobody has the name
  (`team_context.py:285`) and the replacement (`:295`) is overwritten, against "a file the
  sync did not install is never overwritten or deleted". `UsersFilesKept` is about files
  that were there before the sync began; those made during one are `by = "race"`.

### Bounds

Two microVMs are what the takeover logic is about; three sessions let a rotation happen
while two containers still carry older ids (`FreshSessions` never reuses an id anyone
refers to); `recovery`, with liveness over the whole graph, has two. One control-plane
request suffices for TLC, because the theorems about racing requests hold for any number.
Timer lengths of one or two ticks give every order of expiry of two leases. `MaxGen` of
three or four generations covers a base, a stale commit and its successor;
`chain_takeover` needs three containers (superseded, holder, next start). Deadlock is
checked in these runs.

The engine runs have two files (one moment against another needs two), two threads (an
orphan and a successor; one where no shutdown happens), two writes, and two generations
beyond the restored one; five for `engine_saved`, where each fault may use up a number.
One of the files is staged and one is not. `engine` has a shutdown and one failure besides,
`engine_saved` two failures, lost answers among them. In `engine` threads are symmetric, and the view
leaves out `torn`, which no step reads and no property of that run is about.
One or two granules let a file be inside and outside the racy window. They do not check
deadlock: a sandbox in which nothing changed takes no step.

`restore` has two entries, one of them the staged state home, three generations (one to
fall back from, one to fall back to, one to collect) and two faults, so that a rollback
can fail after a failed move. `transport` has thirteen scripts of up to three connections,
a buffer of three events with payloads of up to two chunks (so that it overflows), two
attempts and one death of the gateway. `waker` has two legs, a period of eight ticks,
restores that are instant or longer than the minimal lead, final checkpoints of no time and
of two minutes, one relay and one disturbance of any of the fourteen kinds. `team` has two
names of which the sync takes one, one content, and three events of any of seven kinds.

`OnTime` is the assumption that a live owner's beats (10 s and 30 s) are not later than
their 90 s lease, and that a first claim comes within the start grace; `recovery` and
the theorem `LeasesProtect` need it; `lifecycle` and the other theorems do without.

### Fairness

`recovery`: weak fairness of time; of Lambda steps (they finish or time out); of a page or
waker that keeps asking for a start and sending traffic (`StartBegin`, `Route`); of a
container's own loops (claim, beats, markReady, exit); of the expiry of receipts; and of
the platform's reclaim of a container that serves nobody. Not of stops, checkpoints or
successful restores after failures: `NeverSelfLocks` speaks only of behaviours in which
containers that are needed are eventually left alone (`Disturbance` stops). What it shows
is that no reachable state is a trap: from each of them the leases, rotations and claims
lead back to a serving container.

`engine_saved`: weak fairness of the loop's wake-up (`asyncio.sleep` returns), of every
step a worker thread can take and of the lock passing on (asyncio.Lock is first come,
first served; a thread that cannot go on fails, which is a fault), and of the restart of a
dead gateway. Writes, faults, clock ticks, stops and shutdowns are not fair. A gateway that
dies takes its staged files back to their older copy, which is one reason why
`WorkGetsSaved` is about the files that are not staged.

`restore`: weak fairness of a restore that has begun, invocations that arrive again at a
container whose restore failed included. Faults, edits, checkpoints and sweeps are not
fair.

`transport`: the event loop runs every handler and finaliser, and every upstream call but
an event stream's has a deadline (weak fairness of each connection's steps); the back-off
elapses; and the platform polls `/ping`, of whose restarts one succeeds if they are tried
for ever (strong fairness). Nothing is assumed of the gateway's answers or of clients.

`waker`: time passes and the schedule fires, Lambda and AgentCore run what was called, a
restore ends, the gateway starts a due job, a pause between two turns ends, and the
platform reclaims a container nobody invokes. Nothing is assumed of the owner, of periodic
checkpoints, or of the end of the job's work.

`team`: threads are scheduled and the refresh timer fires. Failures and pushes are
bounded, not fair.

## Proofs

All for any sets of sessions, microVMs, requests, connections, containers, entries, files
and threads and any lease lengths, buffer sizes, retries and numbers of faults. The named
assumptions on constants (`ConstantsAssumption`, `ChainAssumption`, `EngineAssumption`,
`TeamAssumption`) say that lengths and bounds are numbers of the right sign and that markers
such as `None` are none of the values they are told apart from; `Waker`'s also that times
saturate past everything they are compared with, that the job does not recur every minute and
that there is a leg at all. A hypothesis that a theorem has beyond them is in its statement
and named below.

### The sandbox record

`SandboxLifecycleProofs` proves the type invariant and then

    IInv == TypeOK, LeaseFollowsSession, ReadyFollowsRestore, RestoringHasOneOwner,
            StartingIsUnclaimed, PutClobbersNothing, RotationStillAllowed

inductive. No conjunct is inductive alone. `ReadyFollowsRestore` (READY is said only of a
container that restored and published it itself, though it may be gone since) needs
`StartingIsUnclaimed`, because a heal makes READY out of STARTING, and
`RestoringHasOneOwner`, because a claimant must be the holder for its READY to be true;
`StartingIsUnclaimed` rests on the session of a rotation being fresh; and the put of a
start keeps them only because `PutClobbersNothing` says that what it writes back is still
the record. `RotationStillAllowed` carries the start grace from the read to the put. The
action properties `OnceFencedAlwaysFenced` and `ProvisioningNotRotated` follow from what
each action does to session and holder.

`LiveLeasesProtect` does not follow: a beat leaves `stateVersion` alone, so a lease that a
start saw run out could be renewed before its put. Under `OnTime` the invariant
`LeasesLive` excludes it: a lease that a container can still renew, and an initialization
its claimant can still renew, have not run out, so a lease that a pending start saw run out
has nobody left to renew it. A tick keeps this because no beat is overdue; a claim, a READY
and a rotation because each leaves the earlier holder unable to renew.

A consequence worth knowing: by
`StartingIsUnclaimed` no initialized container is ever bound to the session of a STARTING
record, so `healReady` finds nothing to heal since starts rotate the session; it is kept
in the model as it is in the code.

### Generations

`CheckpointChainProofs` proves the type invariant, that the pointer names a commit the
store has and that no container finds the store behind (`StoreInv`, any faults), that the
holder's base is at or past the pointer as long as no answer is lost (`HolderInv`: only
the holder moves the pointer, and a restore bases itself on the newest commit, which is
at or past the pointer by `StoreInv`), and that the pointer only advances.

The module then proves `OneChain`, `AcknowledgedWorkKept` and, step by step, that
`CheckpointChain` implements `AcknowledgedHistory`. The hypothesis `NoFork` leaves out three
of the faults: a takeover of a live holder within its session, which breaks the chain (run
`chain_takeover`), and corrupt commits and transient read failures, after which a restore
falls back to an older generation by design and later work does not have what was skipped.
Rotations, crashes, PUTs that outlive their authority and lost answers stay. The invariant

    ChainInv == TypeOK, OneOwner, StoreInOrder, DraftOK(k), OwnerOK(k) for every container

has four parts because a manifest outlives its writer's authority. `StoreInOrder` says that
a manifest has all work acknowledged under a smaller number, which a container that lost the
record can only keep if its draft had it (`DraftOK`) and if nothing is acknowledged below its
number any more: the container of the current session has the largest number in progress
(`OwnerOK`), and there is one such container (`OneOwner`). In the refinement a claim maps to
nothing, an install of the newest commit to an opening with all acknowledged work (the newest
commit is at or past the pointer), and a receipt to an acknowledgement.

### Checkpoints

`CheckpointEngineProofs` proves, for any number of files, threads, writes and failures and
with a shutdown that leaves two threads in the engine, the type invariant and that every
committed generation can be restored. `CommitsRestorable` is not inductive: a commit
checks only that its manifest exists. The invariant

    IInv == TypeOK, IndexStored, BaselineStored, BuildCovered(t) for every thread,
            ManifestsStored, CommitsHaveManifests

says why skipping is safe: an indexed chunk and a baseline entry's content are in the
bucket, and what a thread's build names is in the bucket or among the chunks it has yet
to upload, so that once the manifest is written everything it names is stored.

`CheckpointSavedProofs` is about what those generations contain. Each theorem adds to
`IInv` what its property needs:

- `ClockInv`: an entry of the baseline, or one noted by a build, whose stamp is still the
  file's has the file's content. This is what `_RACY_WINDOW_NS` buys: an entry is only
  remembered when its stamp is older than the build's clock.
- `OrderInv`: a thread's number follows a manifest that exists, the lock's holder has the
  largest, and only a periodic thread is ever in the engine without the lock.
- `FrozenIsSaved` (no further hypothesis) adds `FrozenInv`: while only final checkpoints
  hold the gateway, what they have read is what it holds; once none holds it any more, the
  newest generation has everything and no thread commits above it.
- `SkippedIsSaved` (no further hypothesis) adds `SkipInv`, which follows the fingerprint
  from the loop to the commit: what the loop remembers was taken before the build that it
  is remembered for, so a file that changed since has a younger content, and one whose mark
  is its own cannot have the remembered mark.
- `GenerationsAtomic` (no further hypothesis) adds `AtomicInv`: as long as a walk's number
  is not torn, what the walk has read is the present.
- `WalksAreFrozen` says when that exception is empty: under `Undisturbed` (no gateway dies
  and no shutdown orphans a thread) the gateway never writes while a checkpoint reads, so
  `torn` stays empty and every generation is of one moment.

### Restores, sweeps and checkpoints over one bucket

`RestoreEngineProofs` proves `ServedIsWhole`, `RollbackRestores` and `RetainedReadable` from

    RestoreInv == TypeOK, BoxInv, RetainInv, SaveInv, ClaimInv, InstallInv

`RetainInv` says of every generation the collector keeps that its manifest and chunks are
stored and not about to be removed. It is about the latest `Retain` commits, not two: a sweep
frees chunks by comparing with what is retained, and removing an old commit makes no other
one retained (`TopKept`, by counting the commits above it). A commit adds to the retained ones,
so `SaveInv` carries from the chunk index (listed once, only growing, true because nothing
is swept while a container runs, `BoxInv`) to the commit that its chunks are stored and its
number is the largest. `ClaimInv` is why `_install` moves the state file out first and in
last: a workspace with a state file agrees with what was served of that generation, but for
torn entries. An install that fails puts the state file back, so `InstallInv` follows, step
by step, where each old entry is: in the workspace, in the backup, or torn; `Undone` then has
the prior tree, and that tree agreed with the claim that returns with it. A rollback that
fails leaves no state file unless nothing had been moved.

### Requests, streams and tunnels

`AdapterTransportProofs` proves the five safety properties of the run. `TransportInv` says
that a buffer is a window of what was appended, that an id nobody brought has left no trace,
how attempts and calls are counted in each place of a generator (`Admitted`), that an id has
one generator (`Alone`), and what each connection has been told (`Told`): a live stream has
everything after its client's last event and its cursor is at the newest event, so what the
next round takes from the window joins on, also when the window has dropped its beginning;
and one that began at the first event has been told nothing when another attempt begins.
`TunnelInv` gives every registered tunnel the generator that opened it and is still reading
it. `FrameInv` says that only the generator of a send feeds a tunnel and that it has put in
exactly its first `n` frames; a retry starts over only when none went in.

### Team files

`TeamContextProofs` proves the type invariant, which includes that two threads sharing one
temporary name never install a missing file, and `UsersFilesKept`, for any names and
contents and any number of events. The property is about steps; what it needs of states is
`OwnershipOK`: a file the user made is under a name that neither the manifest nor any
thread's copy of it (`owned`), list of installed names or pending target claims, and the
same holds inside the last checkpoint. A restore then brings back a state in which it
holds, and a thread that returns forgets its claims.

### Waking

`WakerProofs` proves the three safety properties of the run, for any number of legs, any
period, leads, leases, restore lengths, relays and disturbances. All three rest on

    BaseInv == TypeOK, DuesOnSchedule, RecordFollowsBox, StartingIsEarly, FirstLegsDwell,
               UnrunIsNewer

which needs no hypothesis. `DuesOnSchedule` is what lets two clocks be compared: a due time,
wherever it was copied to (record, receipt, plan of a leg), is the next occurrence's or that
of one no later than the latest, also after it has saturated. `RecordFollowsBox` ties a
container to a record state with a live lease, so that no start rotates it away;
`UnrunIsNewer` ties what is owed to what both trees remember of the job's last run.

- `WorkIsNotCutOff` (no hypothesis) adds `QuietIsYoung`: a leg that heard a readable idle
  answer finds the crew idle, or at a turn too young to have reached its next pause, so a
  pause is never the second idle answer.
- `CatchUpRepeatsOnlyByRace` (no hypothesis) adds `SavedIsOlder` and `PostsAreDue`: the due
  time a leg was woken for is of an occurrence no later than the latest, so that at its
  reading the job has not run since it was last due (`CatchUpIsDue`); afterwards time, a
  restore (of a tree whose last run is no younger) and a checkpoint leave that so, and a run
  makes the leg one of `raced`. A failed post, lateness and rotations are included.
- `CycleDropsNothing` adds `CycleInv`: as long as nothing has gone wrong one leg is at work
  (`Solo`) and at a `Stage` that says what is still ahead of it: in the cold start that what
  is owed, the rest of the restore and the dwell stay within the grace; in the dwell that the
  due time in hand is the owed occurrence's, so that the catch-up will post it; in the hold
  that nothing is owed but in its very minute; in the stop that nothing is owed and the due
  time published is the next one; between legs that an occurrence due now is still to be rung
  for (`DueNowWakes`). Each stage says this of what no stop was in the way of (`cut`), and
  holds for final checkpoints of any length. Hypothesis `CycleFits`: the longest restore and
  the dwell fit within the grace, or the run would come too late by the code's own rule. It
  does not bound the lead: an occurrence that comes due in a cold start is caught up.

### Only model-checked

The liveness properties (`NeverSelfLocks`, `WorkGetsSaved`, `RestoreSucceeds`,
`GatewayServesAgain`, `ExecutionsEnd`, `ScheduleResumes`, `OwnedFollows`), which are out of
the prover's reach.

Neither proved nor checked is what the hypotheses leave out. `NoFork`: acknowledged work
under a takeover within a session is shown to be lost (`chain_takeover`), and nothing is said
of a chain after a fallback from a corrupt generation, but that its pointer advances and its
holder is not refused. `OnTime`: leases of owners whose beats come late. `CycleFits`: restores
longer than the grace. `lifecycle` and `recovery` have one control-plane request, so that
racing requests are covered by the theorems alone. And the guards of `background_busy` for
a held checkpoint lock and for a cache time of zero (`aws_runtime.py:723-729`) are left out
of `PingWatches`.

## Not modelled

`PROJECT.json` lists every component with what is left out. The larger omissions:

- **The page** (`frontend-shell`). Its state is a lifecycle store, a connection
  generation, a socket, a pending and a queued stop, a receipt and five timers, changed
  from callbacks that all may interleave. A model of them, one action per callback,
  exceeds fifteen million states before any fault is added, and cutting callbacks out of
  it removes the very races it would be about. Reading the code for it showed: a failed
  stop stream raises `AgentCoreConnectionError`, which is not a `BrowserApplicationError`,
  and so ends in an error without the retry its comment promises; `#connect` does not look
  at its generation after its await; a status answer that arrives after a sign-out changes
  the view; a poll that answers STOPPING between a socket's close and its reconnect makes
  the reconnect timer give up, against `lifecycle.ts:205`; and each failed retry of that
  timer uses two of its five attempts.
- **The Kiro sign-in** (`identity.py`). It drives a CLI process known only through its
  output. Read only: a login that supersedes another one starts its process before the old
  generator is closed, whose `finally` (line 348) then forgets the new process, so that a
  later logout cannot end it (`aws_runtime.py`, "A new explicit login supersedes any
  stalled or abandoned flow"); a sign-in whose client has left is not checkpointed, against
  `docs/persistence.md:41`.
- **The dispatcher over several sandboxes**: one sandbox is modelled; the cap and its
  order are described above.
- **The dirty journal** and `enforce_rpo`: nothing in the deployed runtime marks the
  journal.
- **The auth function, tool token, MCP proxies, log shipper, deployment**: no state of
  their own that outlives a call.
- **Data**: encryption, hashing, path rules, schema validation, header filtering.

## Next

Every safety property of the runs is proved. What a further step would add: the page, if a
smaller state for its callbacks is found; the dispatcher over several sandboxes, with the
cap; and a bound on how many occurrences stops that span their minutes can lose.

------------------------- MODULE SandboxLifecycle -------------------------
(***************************************************************************)
(* The lifecycle of one sandbox: the DynamoDB record that says who owns   *)
(* it, the control plane that starts and stops it, the persistence broker *)
(* that applies conditional updates for the containers, and the microVMs  *)
(* that claim, restore, serve and are reclaimed.                          *)
(*                                                                         *)
(* Time.  Every timestamp of the record is kept as the time that is left  *)
(* until the comparison with it turns, in abstract ticks, from its full   *)
(* length down to -1:  t > 0  is "expiresAt > now",  t < 0 is             *)
(* "expiresAt < now", and t = 0 the instant where both are false.  An     *)
(* absent attribute compares like one long past, so it is -1 too.  grace  *)
(* is what start_in_progress computes from updatedAt: it runs while the    *)
(* state is STARTING, and is -1 in every other state.                      *)
(*                                                                         *)
(* stateVersion.  It only grows and is only ever compared for equality    *)
(* with the version a control-plane request read, so the model keeps, in  *)
(* place of the number, the set `seen' of requests whose read version is  *)
(* still the current one: ADD stateVersion 1 empties it.                  *)
(***************************************************************************)
EXTENDS Integers

CONSTANTS
    Sessions,       \* AgentCore runtime session ids
    Instances,      \* microVM processes, each with its own initOwner uuid
    Requests,       \* concurrent control-plane Lambda invocations
    None,           \* an absent attribute
    LeaseTTL,       \* 90 s start lease
    InitTTL,        \* 90 s initialization lease
    TakeoverIdle,   \* _TAKEOVER_IDLE, 60 s
    StartGrace,     \* START_GRACE, 5 min
    OnTime          \* TRUE: no beat is later than its lease (see Tick)

ASSUME ConstantsAssumption ==
    /\ None \notin Sessions \cup Instances
    /\ LeaseTTL \in Nat \ {0}
    /\ InitTTL \in Nat \ {0}
    /\ TakeoverIdle \in Nat \ {0}
    /\ StartGrace \in Nat \ {0}
    /\ OnTime \in BOOLEAN

VARIABLES
    rec,        \* the sandbox's METADATA item
    seen,       \* requests whose read of stateVersion is still current
    ctl,        \* per request: where it is, and what it has read
    ins,        \* per microVM: what its process is doing
    receipt     \* session of the latest final receipt some client holds

vars == <<rec, seen, ctl, ins, receipt>>

\* The values of `state' that some writer of the item ever stores.
States == {"STOPPED", "STARTING", "RESTORING", "READY", "STOPPING", "ERROR"}

LiveStates == {"STARTING", "RESTORING", "READY", "STOPPING"}

Timer(ttl) == -1 .. ttl

Record ==
    [state : States, session : Sessions, leaseOwner : Sessions \cup {None},
     lease : Timer(LeaseTTL), initOwner : Instances \cup {None},
     init : Timer(InitTTL), holder : Instances \cup {None},
     idle : Timer(TakeoverIdle), grace : Timer(StartGrace)]

(***************************************************************************)
(* A request is idle; has read its session id (begun); is about to put a  *)
(* rotated record (put); has verified a receipt (stop); or has called     *)
(* StopRuntimeSession and will finalize STOPPED (fin).                    *)
(***************************************************************************)
Request ==
    [pc : {"idle", "begun", "put", "stop", "fin"},
     owner : Sessions \cup {None}, snap : Record \cup {None}]

Idle == [pc |-> "idle", owner |-> None, snap |-> None]

(***************************************************************************)
(* A microVM is off; up but unclaimed (cold); restoring under a claim;    *)
(* serving; frozen by a final checkpoint with its beats going on          *)
(* (frozen); published READY but failed before its first beat (zombie);   *)
(* torn down because the answer to the READY it published was lost        *)
(* (unheard), as good as cold to its own code; or told to shut down       *)
(* (dying).  idle is its own _last_served, open whether a request or      *)
(* WebSocket it accepted is still in progress, readOnly its readiness     *)
(* flag.                                                                   *)
(***************************************************************************)
Instance ==
    [pc : {"off", "cold", "restoring", "serving", "frozen", "zombie", "unheard", "dying"},
     sess : Sessions \cup {None}, idle : Timer(TakeoverIdle),
     open : BOOLEAN, readOnly : BOOLEAN]

Off == [pc |-> "off", sess |-> None, idle |-> -1, open |-> FALSE, readOnly |-> FALSE]

\* SIGTERM: connections and background loops end, the final checkpoint is left.
Dying(m) == [Off EXCEPT !.pc = "dying", !.sess = m.sess]

---------------------------------------------------------------------------
(* The record's own conditions.                                            *)

\* _authorize: the record names the caller's session and is live, or an
\* initialization lease is unexpired.
Authorized(s) ==
    /\ rec.session = s
    /\ rec.state \in LiveStates \/ rec.init > 0

\* acquireInit: READY is claimable once the start lease is dead, or from a
\* holder that published no recent invocation.
ReadyClaimable(i) ==
    /\ rec.state = "READY"
    /\ \/ rec.lease < 0
       \/ rec.holder \notin {None, i} /\ rec.idle < 0

\* Variant: acquireInit without its condition on the initialization lease.
InitAlwaysClaimable(i) == i \in Instances

InitClaimable(i) == rec.initOwner \in {None, i} \/ rec.init < 0

Claimable(i) ==
    /\ Authorized(ins[i].sess)
    /\ rec.state \in {"STARTING", "RESTORING"} \/ ReadyClaimable(i)
    /\ InitClaimable(i)

OwnsInit(i) == Authorized(ins[i].sess) /\ rec.initOwner = i

HoldsLease(i) ==
    /\ Authorized(ins[i].sess)
    /\ rec.leaseOwner = ins[i].sess
    /\ rec.holder \in {None, i}

\* checkpointReceipt's conditions on the owner; its condition on the
\* generation belongs to CheckpointChain and may refuse at any time here.
ReceiptOk(i, states) ==
    /\ Authorized(ins[i].sess)
    /\ rec.holder \in {None, i}
    /\ rec.state \in states

\* initialize() has no session yet, or has none again: the next invocation
\* makes it claim.
Unbound(i) == ins[i].pc \in {"cold", "unheard"}

\* initialize() has returned: lease beats, checkpoints and invocations go on.
Running(i) == ins[i].pc \in {"serving", "frozen"}

\* The checkpoint engine is configured, so SIGTERM ends in a final checkpoint.
HasEngine(i) == Running(i) \/ ins[i].pc = "zombie"

\* An update that leaves stateVersion alone (the heartbeats).
Touch(r) == rec' = r /\ UNCHANGED seen

\* An update that does ADD stateVersion 1.
Bump(r) == rec' = r /\ seen' = {}

---------------------------------------------------------------------------
Init ==
    /\ \E s \in Sessions :
          rec = [state |-> "STOPPED", session |-> s, leaseOwner |-> None,
                 lease |-> -1, initOwner |-> None, init |-> -1,
                 holder |-> None, idle |-> -1, grace |-> -1]
    /\ seen = {}
    /\ ctl = [c \in Requests |-> Idle]
    /\ ins = [i \in Instances |-> Off]
    /\ receipt = None

---------------------------------------------------------------------------
(* Control plane: start (POST /sandbox/start and the waker's schedulerStart). *)

\* A session id nothing refers to: new_runtime_session_id().
FreshSessions ==
    Sessions \ ({rec.session, receipt}
                   \cup {ins[i].sess : i \in Instances}
                   \cup {ctl[c].owner : c \in Requests})

\* get_or_create: the caller remembers the session it saw.
StartBegin(c) ==
    /\ ctl[c].pc = "idle"
    /\ ctl' = [ctl EXCEPT ![c] = [pc |-> "begun", owner |-> rec.session, snap |-> None]]
    /\ UNCHANGED <<rec, seen, ins, receipt>>

\* Variant: acquire_start without the start grace.
MayRotateWithinGrace(owner) ==
    rec.lease <= 0 /\ rec.init <= 0 /\ rec.leaseOwner \in {None, owner}

\* acquire_start's second read rotates only if no live lease, no running
\* initialization, no other owner and no start still being provisioned.
MayRotate(owner) ==
    /\ rec.lease <= 0
    /\ rec.init <= 0
    /\ rec.leaseOwner \in {None, owner} \/ rec.state = "STOPPED"
    /\ ~(rec.state = "STARTING" /\ rec.grace > 0)

StartRead(c) ==
    /\ ctl[c].pc = "begun"
    /\ IF MayRotate(ctl[c].owner)
          THEN \* `now' is taken here: the new lease and grace run from here.
               /\ ctl' = [ctl EXCEPT ![c] = [@ EXCEPT !.pc = "put",
                             !.snap = [rec EXCEPT !.lease = LeaseTTL, !.grace = StartGrace]]]
               /\ seen' = seen \cup {c}
          ELSE \* The existing session is returned, or LeaseConflictError.
               /\ ctl' = [ctl EXCEPT ![c] = Idle]
               /\ UNCHANGED seen
    /\ UNCHANGED <<rec, ins, receipt>>

\* Variants: a rotation that forgets the new owner, or the new session id.
RotatedKeepingOwner(snap, s) ==
    [snap EXCEPT !.state = "STARTING", !.session = s, !.initOwner = None]

RotatedKeepingSession(snap, s) ==
    [snap EXCEPT !.state = "STARTING", !.initOwner = None, !.grace = StartGrace]

\* replace(record, ...) over what was read, without initOwner: _record_item
\* never writes that attribute back.
Rotated(snap, s) ==
    [snap EXCEPT !.state = "STARTING", !.session = s, !.leaseOwner = s, !.initOwner = None]

\* PutItem on condition stateVersion = the version read.
StartPut(c) ==
    /\ ctl[c].pc = "put"
    /\ c \in seen
    /\ \E s \in FreshSessions : Bump(Rotated(ctl[c].snap, s))
    /\ ctl' = [ctl EXCEPT ![c] = Idle]
    /\ UNCHANGED <<ins, receipt>>

---------------------------------------------------------------------------
(* Control plane: stop (POST /sandbox/stop and schedulerStop).              *)

\* What _stop keeps of its read: it never looks at a timestamp again.
Untimed(r) == [r EXCEPT !.lease = -1, !.init = -1, !.idle = -1, !.grace = -1]

\* _stop: the receipt names the record's session and the record is STOPPING
\* at the receipt's generation.
StopBegin(c) ==
    /\ ctl[c].pc = "idle"
    /\ receipt = rec.session
    /\ rec.state = "STOPPING"
    /\ ctl' = [ctl EXCEPT ![c] = [pc |-> "stop", owner |-> rec.session, snap |-> Untimed(rec)]]
    /\ seen' = seen \cup {c}
    /\ UNCHANGED <<rec, ins, receipt>>

\* StopRuntimeSession reaches the session's microVMs with SIGTERM.
StopRuntime(c) ==
    /\ ctl[c].pc = "stop"
    /\ ctl' = [ctl EXCEPT ![c].pc = "fin"]
    /\ ins' = [i \in Instances |->
                  IF ins[i].sess # ctl[c].owner THEN ins[i]
                  ELSE IF HasEngine(i) THEN Dying(ins[i]) ELSE Off]
    /\ UNCHANGED <<rec, seen, receipt>>

\* A refusal that is not retryable finalizes STOPPED without the teardown.
StopRuntimeRejected(c) ==
    /\ ctl[c].pc = "stop"
    /\ ctl' = [ctl EXCEPT ![c].pc = "fin"]
    /\ UNCHANGED <<rec, seen, ins, receipt>>

\* Retryable refusals until max_stop_attempts: 503 THROTTLED.
StopRuntimeThrottled(c) ==
    /\ ctl[c].pc = "stop"
    /\ ctl' = [ctl EXCEPT ![c] = Idle]
    /\ UNCHANGED <<rec, seen, ins, receipt>>

\* transition(STOPPED): same version, same lease owner, state STOPPING.
Stopped(r) ==
    [r EXCEPT !.state = "STOPPED", !.leaseOwner = None, !.lease = -1,
              !.initOwner = None, !.grace = -1]

StopPut(c) ==
    /\ ctl[c].pc = "fin"
    /\ c \in seen
    /\ rec.leaseOwner = ctl[c].snap.leaseOwner
    /\ rec.state = "STOPPING"
    /\ Bump(Stopped(rec))
    /\ ctl' = [ctl EXCEPT ![c] = Idle]
    /\ UNCHANGED <<ins, receipt>>

\* request_deletion by an administrator marks a stopped record: everything the
\* model keeps stays, and a start that has read the record loses its put.
RequestDeletion ==
    /\ rec.state = "STOPPED"
    /\ Bump(rec)
    /\ UNCHANGED <<ctl, ins, receipt>>

\* StateConflictError: another writer moved the record since the read.
PutConflict(c) ==
    /\ ctl[c].pc \in {"put", "fin"}
    /\ c \notin seen
    /\ ctl' = [ctl EXCEPT ![c] = Idle]
    /\ UNCHANGED <<rec, seen, ins, receipt>>

---------------------------------------------------------------------------
(* The platform, and a microVM up to READY.                                 *)

\* AgentCore starts a microVM for an invocation of the record's session; it
\* may start a second one while the first is still alive.
Route(i) ==
    /\ ins[i].pc = "off"
    /\ i \notin {rec.holder, rec.initOwner}
    /\ Authorized(rec.session)
    /\ ins' = [ins EXCEPT ![i] =
                 [pc |-> "cold", sess |-> rec.session, idle |-> -1,
                  open |-> FALSE, readOnly |-> TRUE]]
    /\ UNCHANGED <<rec, seen, ctl, receipt>>

\* initialize() stamps _last_served and acquireInit applies; a refused claim
\* leaves the container as it was.
Claim(i) ==
    /\ Unbound(i)
    /\ Claimable(i)
    /\ Bump([rec EXCEPT !.state = "RESTORING", !.initOwner = i,
                        !.init = InitTTL, !.holder = i, !.grace = -1])
    /\ ins' = [ins EXCEPT ![i] = [@ EXCEPT !.pc = "restoring", !.idle = TakeoverIdle]]
    /\ UNCHANGED <<ctl, receipt>>

HeartbeatInit(i) ==
    /\ ins[i].pc = "restoring"
    /\ OwnsInit(i)
    /\ Touch([rec EXCEPT !.init = InitTTL])
    /\ UNCHANGED <<ctl, ins, receipt>>

\* Variant: markReady without REMOVE initOwner.
ReadyKeepingClaim(r, i) ==
    [r EXCEPT !.state = "READY", !.leaseOwner = r.session, !.lease = LeaseTTL,
              !.holder = i, !.idle = TakeoverIdle, !.init = -1]

Ready(r, i) ==
    [r EXCEPT !.state = "READY", !.leaseOwner = r.session, !.lease = LeaseTTL,
              !.holder = i, !.idle = TakeoverIdle, !.initOwner = None, !.init = -1]

\* What initialize()'s handler leaves of a container whose initialization
\* failed: no session, no gateway, read-only.
TornDown(m, pc) == [m EXCEPT !.pc = pc, !.idle = -1, !.readOnly = TRUE]

MarkReady(i) ==
    /\ ins[i].pc = "restoring"
    /\ OwnsInit(i)
    /\ Bump(Ready(rec, i))
    /\ \/ ins' = [ins EXCEPT ![i] = [@ EXCEPT !.pc = "serving", !.readOnly = FALSE]]
       \/ \* The gateway died again before initialize() returned: markError no
          \* longer owns the record and no lease beat is ever started.
          ins' = [ins EXCEPT ![i].pc = "zombie"]
       \/ \* The broker applied markReady and its answer was lost: markError no
          \* longer owns the record, the gateway is terminated, and the record
          \* says READY of a container that holds no session.
          ins' = [ins EXCEPT ![i] = TornDown(@, "unheard")]
    /\ UNCHANGED <<ctl, receipt>>

\* Restore, gateway start-up or a call of the broker failed, and markError
\* applied.
MarkError(i) ==
    /\ ins[i].pc = "restoring"
    /\ OwnsInit(i)
    /\ Bump([rec EXCEPT !.state = "ERROR", !.initOwner = None, !.init = -1])
    /\ ins' = [ins EXCEPT ![i] = TornDown(@, "cold")]
    /\ UNCHANGED <<ctl, receipt>>

\* It failed and markError did not reach the broker either: the claim stays.
MarkErrorLost(i) ==
    /\ ins[i].pc = "restoring"
    /\ OwnsInit(i)
    /\ ins' = [ins EXCEPT ![i] = TornDown(@, "cold")]
    /\ UNCHANGED <<rec, seen, ctl, receipt>>

\* The claim was lost during the restore: markReady and markError are refused.
LoseClaim(i) ==
    /\ ins[i].pc = "restoring"
    /\ ~OwnsInit(i)
    /\ ins' = [ins EXCEPT ![i] = TornDown(@, "cold")]
    /\ UNCHANGED <<rec, seen, ctl, receipt>>

---------------------------------------------------------------------------
(* A microVM that has initialized.                                          *)

\* The process m accepts an invocation, unless it is read-only.
Accepting(m) ==
    [m EXCEPT !.idle = TakeoverIdle, !.open = IF m.readOnly THEN m.open ELSE TRUE]

\* Variant: a heal that is not conditional on STARTING.
HealsRestoring(i) ==
    ~ins[i].readOnly /\ rec.session = ins[i].sess /\ rec.state \in {"STARTING", "RESTORING"}

\* healReady's condition, asked for by a container that admits an invocation.
Heals(i) ==
    ~ins[i].readOnly /\ rec.session = ins[i].sess /\ rec.state = "STARTING"

\* A new request or WebSocket: stamps _last_served, republishes READY over a
\* STARTING record (healReady), and is served unless the process is read-only.
\* One that arrives during the restore waits for it.  A lease answer cached
\* for 15 s may admit it after the record has moved on.
Invoke(i) ==
    /\ Running(i) \/ ins[i].pc = "restoring"
    /\ ins' = [ins EXCEPT ![i] = Accepting(@)]
    /\ IF Heals(i)
          THEN Bump([rec EXCEPT !.state = "READY", !.grace = -1])
          ELSE UNCHANGED <<rec, seen>>
    /\ UNCHANGED <<ctl, receipt>>

Finish(i) ==
    /\ ins[i].open
    /\ ins' = [ins EXCEPT ![i].open = FALSE]
    /\ UNCHANGED <<rec, seen, ctl, receipt>>

\* Variant: a beat that writes holderInstance instead of checking it.
HeartbeatLeaseReclaiming(i) ==
    /\ Running(i)
    /\ Authorized(ins[i].sess)
    /\ rec.leaseOwner = ins[i].sess
    /\ Touch([rec EXCEPT !.lease = LeaseTTL, !.idle = ins[i].idle, !.holder = i])
    /\ UNCHANGED <<ctl, ins, receipt>>

HeartbeatLease(i) ==
    /\ Running(i)
    /\ HoldsLease(i)
    /\ Touch([rec EXCEPT !.lease = LeaseTTL, !.idle = ins[i].idle])
    /\ UNCHANGED <<ctl, ins, receipt>>

\* A refused beat, or an invocation for another session than the one this
\* process serves: it is superseded, kills its gateway and exits.
Exit(i) ==
    /\ Running(i)
    /\ ~HoldsLease(i)
    /\ ins' = [ins EXCEPT ![i] = Off]
    /\ UNCHANGED <<rec, seen, ctl, receipt>>

\* A durability checkpoint, whose first listing the broker authorized.  It
\* resumes the gateway, also one that a final checkpoint had left frozen; its
\* receipt moves the pointer, not the state.
DurabilityCheckpoint(i) ==
    /\ HasEngine(i)
    /\ Authorized(ins[i].sess)
    /\ ins' = [ins EXCEPT ![i].pc = IF @ = "zombie" THEN @ ELSE "serving"]
    /\ \/ ReceiptOk(i, {"READY"}) /\ Bump(rec)
       \/ UNCHANGED <<rec, seen>>
    /\ UNCHANGED <<ctl, receipt>>

\* sandbox.prepare_stop: the gateway stays frozen and the record is STOPPING.
FinalStates == {"READY", "STOPPING"}

PrepareStop(i) ==
    /\ Running(i)
    /\ ins[i].open
    /\ ReceiptOk(i, FinalStates)
    /\ Bump([rec EXCEPT !.state = "STOPPING"])
    /\ \/ /\ ins' = [ins EXCEPT ![i].pc = "frozen"]
          /\ receipt' = rec.session
       \/ \* The broker's answer is lost: CHECKPOINT_FAILED for a commit that
          \* happened, and no client holds its receipt.
          /\ ins' = [ins EXCEPT ![i] = [@ EXCEPT !.pc = "frozen", !.readOnly = TRUE]]
          /\ receipt' = None
    /\ UNCHANGED ctl

\* The final checkpoint fails (before its pause, or after it and the gateway is
\* resumed) or its receipt is refused (the gateway stays frozen):
\* CHECKPOINT_FAILED, and the process is read-only.
PrepareStopFails(i) ==
    /\ Running(i)
    /\ ins[i].open
    /\ \/ ins' = [ins EXCEPT ![i].readOnly = TRUE]
       \/ /\ Authorized(ins[i].sess)
          /\ ins' = [ins EXCEPT ![i] = [@ EXCEPT !.pc = "serving", !.readOnly = TRUE]]
       \/ /\ ~ReceiptOk(i, FinalStates)
          /\ ins' = [ins EXCEPT ![i] = [@ EXCEPT !.pc = "frozen", !.readOnly = TRUE]]
    /\ UNCHANGED <<rec, seen, ctl, receipt>>

\* SIGTERM from the platform: background tasks stop, then checkpoint_on_shutdown.
Reclaim(i) ==
    /\ HasEngine(i)
    /\ ins' = [ins EXCEPT ![i] = Dying(@)]
    /\ UNCHANGED <<rec, seen, ctl, receipt>>

\* checkpoint_on_shutdown commits a final generation whose receipt nobody gets.
ShutdownCheckpoint(i) ==
    /\ ins[i].pc = "dying"
    /\ ReceiptOk(i, FinalStates)
    /\ Bump([rec EXCEPT !.state = "STOPPING"])
    /\ ins' = [ins EXCEPT ![i] = Off]
    /\ receipt' = None
    /\ UNCHANGED ctl

\* The process is gone, with or without a chance to say anything.
Die(i) ==
    /\ ins[i].pc # "off"
    /\ ins' = [ins EXCEPT ![i] = Off]
    /\ UNCHANGED <<rec, seen, ctl, receipt>>

\* The page that held the receipt reloads, or the receipt expires.
LoseReceipt ==
    /\ receipt # None
    /\ receipt' = None
    /\ UNCHANGED <<rec, seen, ctl, ins>>

---------------------------------------------------------------------------
(* Time.                                                                    *)

\* Variant: a timer without a floor.
LessUnclamped(t) == t - 1

Less(t) == IF t < 0 THEN t ELSE t - 1

Aged(r) ==
    [r EXCEPT !.lease = Less(@), !.init = Less(@), !.idle = Less(@), !.grace = Less(@)]

\* Something that is due within every lease: the beats of a live owner
\* (every 10 s and 30 s against 90 s), and the first claim of a start.
Due ==
    \/ \E i \in Instances :
          \/ ins[i].pc = "restoring" /\ OwnsInit(i) /\ rec.init <= 1
          \/ Running(i) /\ HoldsLease(i) /\ rec.lease <= 1
          \/ Running(i) /\ ~HoldsLease(i)
    \/ rec.state = "STARTING" /\ rec.grace <= 1

Tick ==
    /\ OnTime => ~Due
    /\ rec' = Aged(rec)
    /\ ctl' = [c \in Requests |->
                  IF ctl[c].pc = "put" THEN [ctl[c] EXCEPT !.snap = Aged(@)] ELSE ctl[c]]
    /\ ins' = [i \in Instances |-> [ins[i] EXCEPT !.idle = Less(@)]]
    /\ UNCHANGED <<seen, receipt>>

---------------------------------------------------------------------------
RequestStep(c) ==
    \/ StartBegin(c) \/ StartRead(c) \/ StartPut(c)
    \/ StopBegin(c) \/ StopRuntime(c) \/ StopRuntimeRejected(c)
    \/ StopRuntimeThrottled(c) \/ StopPut(c) \/ PutConflict(c)

InstanceStep(i) ==
    \/ Route(i) \/ Claim(i) \/ HeartbeatInit(i) \/ MarkReady(i)
    \/ MarkError(i) \/ MarkErrorLost(i) \/ LoseClaim(i) \/ Invoke(i) \/ Finish(i)
    \/ HeartbeatLease(i) \/ Exit(i) \/ DurabilityCheckpoint(i) \/ PrepareStop(i)
    \/ PrepareStopFails(i) \/ Reclaim(i) \/ ShutdownCheckpoint(i) \/ Die(i)

Next ==
    \/ \E c \in Requests : RequestStep(c)
    \/ \E i \in Instances : InstanceStep(i)
    \/ RequestDeletion
    \/ LoseReceipt
    \/ Tick

Spec == Init /\ [][Next]_vars

(***************************************************************************)
(* Fairness.  Lambda invocations run to completion or time out, a page or *)
(* waker that wants the sandbox keeps asking for a start and keeps its    *)
(* session's traffic coming, the containers' own loops go on, receipts    *)
(* expire, and AgentCore reclaims what serves nobody (idle timeout and    *)
(* maximum lifetime).                                                      *)
(***************************************************************************)

\* A container the platform has a reason to keep: one that may still become
\* or is the working holder of the record's session.  A page that finds
\* STOPPING only asks for the stop again, so no traffic keeps that one.
Useful(i) ==
    /\ ins[i].sess = rec.session
    /\ rec.state # "STOPPING"
    /\ \/ Unbound(i)
       \/ rec.holder = i /\ ins[i].pc = "restoring"
       \/ rec.holder = i /\ ins[i].pc = "serving" /\ ~ins[i].readOnly

IdleReclaim(i) == ~Useful(i) /\ Die(i)

Fairness ==
    /\ WF_vars(Tick)
    /\ WF_vars(LoseReceipt)
    /\ \A c \in Requests :
          /\ WF_vars(StartBegin(c))
          /\ WF_vars(StartRead(c))
          /\ WF_vars(StartPut(c))
          /\ WF_vars(StopRuntime(c) \/ StopRuntimeRejected(c) \/ StopRuntimeThrottled(c))
          /\ WF_vars(StopPut(c))
          /\ WF_vars(PutConflict(c))
    /\ \A i \in Instances :
          /\ WF_vars(Route(i))
          /\ WF_vars(Claim(i))
          /\ WF_vars(HeartbeatInit(i))
          /\ WF_vars(MarkReady(i))
          /\ WF_vars(LoseClaim(i))
          /\ WF_vars(HeartbeatLease(i))
          /\ WF_vars(Exit(i))
          /\ WF_vars(IdleReclaim(i))

FairSpec == Spec /\ Fairness

---------------------------------------------------------------------------
(* Invariants.                                                              *)

\* Every variable holds a value of its kind, and a request that is about to
\* write has the record it read.
TypeOK ==
    /\ rec \in Record
    /\ seen \subseteq Requests
    /\ ctl \in [Requests -> Request]
    /\ \A c \in Requests : ctl[c].pc \in {"put", "stop", "fin"} => ctl[c].snap \in Record
    /\ ins \in [Instances -> Instance]
    /\ receipt \in Sessions \cup {None}

\* The lease owner is the record's own session from the moment a start rotates
\* it until a stop clears it, whoever wrote the record in between: a start that
\* met another owner would be answered 409 for ever (acquire_start's rotation).
LeaseFollowsSession ==
    rec.leaseOwner = IF rec.state = "STOPPED" THEN None ELSE rec.session

\* The record says READY or STOPPING only of a container that finished its own
\* restore and published READY itself, also when two containers of one session
\* claim, lose and regain the initialization.  The container may be gone again:
\* dead, failed, or torn down because markReady's answer was lost (unheard).
\* Such a container never gets as far as STOPPING.
ReadyFollowsRestore ==
    /\ rec.state \in {"READY", "STOPPING"} =>
          /\ rec.holder \in Instances
          /\ ins[rec.holder].pc \notin {"cold", "restoring"}
    /\ rec.state = "STOPPING" => ins[rec.holder].pc # "unheard"

\* There is a claimant exactly while the record says RESTORING, and it is the
\* fenced-in holder, so the container that publishes READY is the one whose
\* receipts and beats will be accepted (acquireInit and markReady).
RestoringHasOneOwner ==
    /\ rec.state = "RESTORING" <=> rec.initOwner # None
    /\ rec.initOwner # None => rec.initOwner = rec.holder

\* A container bound to the record's session has not initialized while the
\* record says STARTING: every rotation leaves all earlier containers behind,
\* so no warm container can publish READY over a start it did not restore for
\* (rotation in acquire_start, healReady).
StartingIsUnclaimed ==
    rec.state = "STARTING" =>
        \A i \in Instances : ins[i].sess = rec.session => ins[i].pc = "cold"

\* A control-plane request whose version check would still pass holds the
\* record's current state, session, owners and holder: its full PutItem cannot
\* undo a claim, a READY, a receipt or a stop that happened after its read.
PutClobbersNothing ==
    \A c \in seen : ctl[c].pc \in {"put", "stop", "fin"} =>
        /\ ctl[c].snap.state = rec.state
        /\ ctl[c].snap.session = rec.session
        /\ ctl[c].snap.leaseOwner = rec.leaseOwner
        /\ ctl[c].snap.initOwner = rec.initOwner
        /\ ctl[c].snap.holder = rec.holder

---------------------------------------------------------------------------
(* Action properties.                                                       *)

Owner(i) == rec.session = ins[i].sess /\ rec.holder = i

\* A running container that has been superseded, by a rotation or by another
\* container of its session, never becomes the record's holder again.
OnceFencedAlwaysFenced ==
    [][\A i \in Instances :
          Running(i) /\ ~Owner(i) /\ Running(i)' => ~Owner(i)']_vars

\* "Within this grace a repeated start returns the session already being
\* provisioned": however many starts, retries and wakes overlap, none rotates
\* away a start whose microVM may still be on its way (START_GRACE).
ProvisioningNotRotated ==
    [][rec'.session # rec.session => ~(rec.state = "STARTING" /\ rec.grace > 0)]_vars

\* A live lease protects its owner from everybody else.  "A live lease is the
\* signal that lets the control plane renew binding tokens WITHOUT rotating the
\* runtime session id": the session is not rotated away while the start lease
\* is live (acquire_start).  "Nothing else may reset the record underneath a
\* live owner": while the initialization lease is live only the initializing
\* container itself ends its claim (_acquire_init).
LiveLeasesProtect ==
    [][/\ rec'.session # rec.session => rec.lease <= 0
       /\ rec.initOwner # None /\ rec.init > 0 /\ rec'.initOwner # rec.initOwner
             => ins[rec.initOwner].pc = "restoring" /\ ins'[rec.initOwner].pc # "restoring"]_vars

---------------------------------------------------------------------------
(* Liveness.                                                                *)

Served ==
    /\ rec.state = "READY"
    /\ rec.holder # None
    /\ ins[rec.holder].pc = "serving" /\ ~ins[rec.holder].readOnly

\* A container with a reason to live fails, is reclaimed, or is asked to stop;
\* or an administrator asks for the deletion.
Disturbance ==
    \/ RequestDeletion
    \/ \E i \in Instances :
          /\ Useful(i)
          /\ \/ ins'[i].pc \notin {"cold", "restoring", "serving", "unheard"}
             \/ ins[i].pc = "restoring" /\ Unbound(i)'
             \/ ins[i].pc = "serving" /\ ins'[i].readOnly

\* No state self-locks the sandbox: whatever crashes, failed restores, lost
\* answers, interrupted stops and takeovers came before, once containers are
\* left to work a user who keeps asking gets a serving container again and
\* again (acquireInit's READY clause, acquire_start's rotation, the leases).
NeverSelfLocks == <>[][~Disturbance]_vars => []<>Served

==========================================================================

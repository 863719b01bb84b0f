---------------------- MODULE SandboxLifecycleProofs ----------------------
(* Theorems about SandboxLifecycle, for every value of its constants. *)
EXTENDS SandboxLifecycle, TLAPS

\* Timers hold what the actions set them to, and ageing keeps them timers.
LEMMA TimerFacts ==
    /\ \A t \in Timer(LeaseTTL) : Less(t) \in Timer(LeaseTTL)
    /\ \A t \in Timer(InitTTL) : Less(t) \in Timer(InitTTL)
    /\ \A t \in Timer(TakeoverIdle) : Less(t) \in Timer(TakeoverIdle)
    /\ \A t \in Timer(StartGrace) : Less(t) \in Timer(StartGrace)
    /\ LeaseTTL \in Timer(LeaseTTL) /\ -1 \in Timer(LeaseTTL)
    /\ InitTTL \in Timer(InitTTL) /\ -1 \in Timer(InitTTL)
    /\ TakeoverIdle \in Timer(TakeoverIdle) /\ -1 \in Timer(TakeoverIdle)
    /\ StartGrace \in Timer(StartGrace) /\ -1 \in Timer(StartGrace)
BY ConstantsAssumption DEF Timer, Less

\* A record that ages is still a record.
LEMMA AgedType == ASSUME NEW r \in Record PROVE Aged(r) \in Record
BY TimerFacts DEF Record, Aged

\* The state of a microVM that is off is a microVM state.
LEMMA OffType == Off \in Instance
BY TimerFacts DEF Off, Instance

\* So is that of one that was told to shut down.
LEMMA DyingType == ASSUME NEW m \in Instance PROVE Dying(m) \in Instance
BY OffType DEF Dying, Off, Instance

\* The initial state has the type.
LEMMA TypeInit == Init => TypeOK
BY ConstantsAssumption, TimerFacts
DEF Init, TypeOK, Record, States, Request, Idle, Instance, Off

\* A request's state with the snapshot its step needs.
GoodRequest(q) == q \in Request /\ (q.pc \in {"put", "stop", "fin"} => q.snap \in Record)

\* The type of the requests survives the change of one of them.
LEMMA RequestChange ==
    ASSUME TypeOK, NEW c \in Requests, NEW q, GoodRequest(q), ctl' = [ctl EXCEPT ![c] = q]
    PROVE  /\ ctl' \in [Requests -> Request]
           /\ \A d \in Requests : ctl'[d].pc \in {"put", "stop", "fin"} => ctl'[d].snap \in Record
BY DEF TypeOK, GoodRequest

\* What the steps make of a request's state.
LEMMA RequestEdits ==
    /\ GoodRequest(Idle)
    /\ \A q \in Request : \A r \in Record :
          GoodRequest([q EXCEPT !.pc = "put", !.snap = r])
    /\ \A q \in Request : q.snap \in Record => GoodRequest([q EXCEPT !.pc = "fin"])
BY DEF GoodRequest, Request, Idle

\* The type of the microVMs survives the change of one of them.
LEMMA InstanceChange ==
    ASSUME TypeOK, NEW i \in Instances, NEW m \in Instance, ins' = [ins EXCEPT ![i] = m]
    PROVE  ins' \in [Instances -> Instance]
BY DEF TypeOK

\* What the steps make of a microVM's state.
LEMMA InstanceEdits ==
    ASSUME NEW m \in Instance
    PROVE  /\ [m EXCEPT !.pc = "restoring", !.idle = TakeoverIdle] \in Instance
           /\ [m EXCEPT !.pc = "serving", !.readOnly = FALSE] \in Instance
           /\ [m EXCEPT !.pc = "zombie"] \in Instance
           /\ TornDown(m, "cold") \in Instance /\ TornDown(m, "unheard") \in Instance
           /\ [m EXCEPT !.open = FALSE] \in Instance
           /\ [m EXCEPT !.pc = IF @ = "zombie" THEN @ ELSE "serving"] \in Instance
           /\ [m EXCEPT !.pc = "frozen"] \in Instance
           /\ [m EXCEPT !.pc = "frozen", !.readOnly = TRUE] \in Instance
           /\ [m EXCEPT !.pc = "serving", !.readOnly = TRUE] \in Instance
           /\ [m EXCEPT !.readOnly = TRUE] \in Instance
           /\ [m EXCEPT !.idle = Less(m.idle)] \in Instance
           /\ Accepting(m) \in Instance
<1>1. TakeoverIdle \in Timer(TakeoverIdle) /\ -1 \in Timer(TakeoverIdle)
      /\ Less(m.idle) \in Timer(TakeoverIdle)
  BY TimerFacts DEF Instance
<1> QED
  BY <1>1 DEF Instance, Accepting, TornDown

\* Every step of the control plane keeps the type.
LEMMA TypeRequest ==
    ASSUME TypeOK, NEW c \in Requests, RequestStep(c) PROVE TypeOK'
<1> USE ConstantsAssumption
<1>0. ctl[c] \in Request /\ (ctl[c].pc \in {"put", "stop", "fin"} => ctl[c].snap \in Record)
  BY DEF TypeOK
<1>1. CASE StartBegin(c)
  <2>1. GoodRequest([pc |-> "begun", owner |-> rec.session, snap |-> None])
    BY DEF GoodRequest, Request, TypeOK, Record
  <2> QED
    BY <1>1, <2>1, RequestChange DEF StartBegin, TypeOK
<1>2. CASE StartRead(c)
  <2>1. [rec EXCEPT !.lease = LeaseTTL, !.grace = StartGrace] \in Record
    BY TimerFacts DEF TypeOK, Record
  <2> DEFINE put == [ctl[c] EXCEPT !.pc = "put",
                         !.snap = [rec EXCEPT !.lease = LeaseTTL, !.grace = StartGrace]]
  <2>2. GoodRequest(put) /\ GoodRequest(Idle)
    BY <1>0, <2>1, RequestEdits
  <2>3. ctl' = [ctl EXCEPT ![c] = put] \/ ctl' = [ctl EXCEPT ![c] = Idle]
    BY <1>2 DEF StartRead
  <2> QED
    BY <1>2, <2>2, <2>3, RequestChange DEF StartRead, TypeOK
<1>3. CASE StartPut(c)
  <2>1. PICK s \in Sessions : rec' = Rotated(ctl[c].snap, s)
    BY <1>3 DEF StartPut, Bump, FreshSessions
  <2>2. ctl[c].snap \in Record
    BY <1>0, <1>3 DEF StartPut
  <2>3. rec' \in Record
    BY <2>1, <2>2 DEF Record, Rotated, States
  <2>4. ctl' = [ctl EXCEPT ![c] = Idle] /\ seen' = {} /\ UNCHANGED <<ins, receipt>>
    BY <1>3 DEF StartPut, Bump
  <2> QED
    BY <2>3, <2>4, RequestEdits, RequestChange DEF TypeOK
<1>4. CASE StopBegin(c)
  <2>1. Untimed(rec) \in Record
    BY TimerFacts DEF Untimed, TypeOK, Record
  <2>2. GoodRequest([pc |-> "stop", owner |-> rec.session, snap |-> Untimed(rec)])
    BY <2>1 DEF GoodRequest, Request, TypeOK, Record
  <2> QED
    BY <1>4, <2>2, RequestChange DEF StopBegin, TypeOK
<1>5. CASE StopRuntime(c) \/ StopRuntimeRejected(c)
  <2>1. ins' \in [Instances -> Instance]
    BY <1>5, OffType, DyingType DEF StopRuntime, StopRuntimeRejected, TypeOK
  <2>2. GoodRequest([ctl[c] EXCEPT !.pc = "fin"]) /\ ctl' = [ctl EXCEPT ![c].pc = "fin"]
    BY <1>0, <1>5, RequestEdits DEF StopRuntime, StopRuntimeRejected
  <2>3. UNCHANGED <<rec, seen, receipt>>
    BY <1>5 DEF StopRuntime, StopRuntimeRejected
  <2> QED
    BY <2>1, <2>2, <2>3, RequestChange DEF TypeOK
<1>6. CASE StopRuntimeThrottled(c) \/ PutConflict(c)
  <2>1. ctl' = [ctl EXCEPT ![c] = Idle] /\ UNCHANGED <<rec, seen, ins, receipt>>
    BY <1>6 DEF StopRuntimeThrottled, PutConflict
  <2> QED
    BY <2>1, RequestEdits, RequestChange DEF TypeOK
<1>7. CASE StopPut(c)
  <2>1. rec' \in Record
    BY <1>7, TimerFacts DEF StopPut, Bump, Stopped, TypeOK, Record, States
  <2>2. ctl' = [ctl EXCEPT ![c] = Idle] /\ seen' = {} /\ UNCHANGED <<ins, receipt>>
    BY <1>7 DEF StopPut, Bump
  <2> QED
    BY <2>1, <2>2, RequestEdits, RequestChange DEF TypeOK
<1> QED
  BY <1>1, <1>2, <1>3, <1>4, <1>5, <1>6, <1>7 DEF RequestStep

\* Every step of a microVM keeps the type.
LEMMA TypeInstance ==
    ASSUME TypeOK, NEW i \in Instances, InstanceStep(i) PROVE TypeOK'
<1>0. /\ rec \in Record /\ ins[i] \in Instance /\ seen \subseteq Requests
      /\ ctl \in [Requests -> Request] /\ receipt \in Sessions \cup {None}
      /\ \A c \in Requests : ctl[c].pc \in {"put", "stop", "fin"} => ctl[c].snap \in Record
  BY DEF TypeOK
<1>1. ctl' = ctl
  BY DEF InstanceStep, Route, Claim, HeartbeatInit, MarkReady, MarkError, MarkErrorLost, LoseClaim, Invoke,
     Finish, HeartbeatLease, Exit, DurabilityCheckpoint, PrepareStop, PrepareStopFails, Reclaim,
     ShutdownCheckpoint, Die
<1>2. seen' \subseteq Requests
  BY <1>0 DEF InstanceStep, Route, Claim, HeartbeatInit, MarkReady, MarkError, MarkErrorLost, LoseClaim, Invoke,
     Finish, HeartbeatLease, Exit, DurabilityCheckpoint, PrepareStop, PrepareStopFails, Reclaim,
     ShutdownCheckpoint, Die, Bump, Touch
<1>3. receipt' \in Sessions \cup {None}
  <2>1. rec.session \in Sessions
    BY <1>0 DEF Record
  <2> QED
    BY <1>0, <2>1 DEF InstanceStep, Route, Claim, HeartbeatInit, MarkReady, MarkError, MarkErrorLost, LoseClaim,
       Invoke, Finish, HeartbeatLease, Exit, DurabilityCheckpoint, PrepareStop, PrepareStopFails,
       Reclaim, ShutdownCheckpoint, Die
<1>4. rec' \in Record
  <2> USE ConstantsAssumption, TimerFacts
  <2>1. CASE Claim(i)
    BY <1>0, <2>1 DEF Claim, Bump, Record, States
  <2>2. CASE HeartbeatInit(i)
    BY <1>0, <2>2 DEF HeartbeatInit, Touch, Record
  <2>3. CASE MarkReady(i)
    BY <1>0, <2>3 DEF MarkReady, Bump, Ready, Record, States
  <2>4. CASE MarkError(i)
    BY <1>0, <2>4 DEF MarkError, Bump, Record, States
  <2>5. CASE Invoke(i)
    <3>1. [rec EXCEPT !.state = "READY", !.grace = -1] \in Record
      BY <1>0 DEF Record, States
    <3> QED
      BY <1>0, <2>5, <3>1 DEF Invoke, Bump
  <2>6. CASE HeartbeatLease(i)
    <3>1. ins[i].idle \in Timer(TakeoverIdle)
      BY <1>0 DEF Instance
    <3> QED
      BY <1>0, <2>6, <3>1 DEF HeartbeatLease, Touch, Record
  <2>7. CASE PrepareStop(i) \/ ShutdownCheckpoint(i)
    <3>1. rec' = [rec EXCEPT !.state = "STOPPING"]
      BY <2>7 DEF PrepareStop, ShutdownCheckpoint, Bump
    <3> QED
      BY <1>0, <3>1 DEF Record, States
  <2>8. CASE Route(i) \/ MarkErrorLost(i) \/ LoseClaim(i) \/ Finish(i) \/ Exit(i)
             \/ DurabilityCheckpoint(i) \/ PrepareStopFails(i) \/ Reclaim(i) \/ Die(i)
    BY <1>0, <2>8 DEF Route, MarkErrorLost, LoseClaim, Finish, Exit, DurabilityCheckpoint, Bump,
       PrepareStopFails, Reclaim, Die
  <2> QED
    BY <2>1, <2>2, <2>3, <2>4, <2>5, <2>6, <2>7, <2>8 DEF InstanceStep
<1>5. ins' \in [Instances -> Instance]
  <2>1. CASE Route(i)
    <3>1. [pc |-> "cold", sess |-> rec.session, idle |-> -1, open |-> FALSE, readOnly |-> TRUE]
             \in Instance
      BY <1>0, TimerFacts DEF Instance, Record
    <3> QED
      BY <2>1, <3>1, InstanceChange DEF Route
  <2>2. CASE Claim(i) \/ MarkError(i) \/ MarkErrorLost(i) \/ LoseClaim(i)
    BY <1>0, <2>2, InstanceEdits, InstanceChange DEF Claim, MarkError, MarkErrorLost, LoseClaim
  <2>3. CASE MarkReady(i) \/ Invoke(i) \/ Finish(i)
    BY <1>0, <2>3, InstanceEdits, InstanceChange DEF MarkReady, Invoke, Finish
  <2>4. CASE DurabilityCheckpoint(i) \/ PrepareStop(i) \/ PrepareStopFails(i)
    BY <1>0, <2>4, InstanceEdits, InstanceChange
    DEF DurabilityCheckpoint, PrepareStop, PrepareStopFails
  <2>5. CASE Exit(i) \/ Reclaim(i) \/ ShutdownCheckpoint(i) \/ Die(i)
    BY <1>0, <2>5, OffType, DyingType, InstanceChange DEF Exit, Reclaim, ShutdownCheckpoint, Die
  <2>6. CASE HeartbeatInit(i) \/ HeartbeatLease(i)
    BY <2>6 DEF HeartbeatInit, HeartbeatLease, TypeOK
  <2> QED
    BY <2>1, <2>2, <2>3, <2>4, <2>5, <2>6 DEF InstanceStep
<1> QED
  BY <1>0, <1>1, <1>2, <1>3, <1>4, <1>5 DEF TypeOK

\* The passage of time keeps the type.
LEMMA TypeTick == TypeOK /\ Tick => TypeOK'
<1> SUFFICES ASSUME TypeOK, Tick PROVE TypeOK'
  OBVIOUS
<1>1. rec' \in Record
  BY AgedType DEF TypeOK, Tick
<1>2. ASSUME NEW c \in Requests PROVE GoodRequest(ctl'[c])
  <2>1. CASE ctl[c].pc = "put"
    <3>1. Aged(ctl[c].snap) \in Record
      BY <2>1, AgedType DEF TypeOK
    <3>2. ctl'[c] = [ctl[c] EXCEPT !.snap = Aged(ctl[c].snap)]
      BY <2>1 DEF Tick
    <3>3. ctl[c] \in Request
      BY DEF TypeOK
    <3> QED
      BY <3>1, <3>2, <3>3 DEF GoodRequest, Request
  <2>2. CASE ctl[c].pc # "put"
    BY <2>2 DEF Tick, TypeOK, GoodRequest
  <2> QED
    BY <2>1, <2>2
<1>3. /\ ctl' \in [Requests -> Request]
      /\ \A c \in Requests : ctl'[c].pc \in {"put", "stop", "fin"} => ctl'[c].snap \in Record
  BY <1>2 DEF Tick, GoodRequest
<1>4. ins' \in [Instances -> Instance]
  BY InstanceEdits DEF TypeOK, Tick
<1> QED
  BY <1>1, <1>3, <1>4 DEF TypeOK, Tick

\* Every step keeps the type.
LEMMA TypeNext == TypeOK /\ [Next]_vars => TypeOK'
<1> SUFFICES ASSUME TypeOK, [Next]_vars PROVE TypeOK'
  OBVIOUS
<1>1. CASE \E c \in Requests : RequestStep(c)
  BY <1>1, TypeRequest
<1>2. CASE \E i \in Instances : InstanceStep(i)
  BY <1>2, TypeInstance
<1>3. CASE LoseReceipt \/ RequestDeletion
  BY <1>3 DEF LoseReceipt, RequestDeletion, Bump, TypeOK
<1>4. CASE Tick
  BY <1>4, TypeTick
<1>5. CASE UNCHANGED vars
  BY <1>5 DEF vars, TypeOK
<1> QED
  BY <1>1, <1>2, <1>3, <1>4, <1>5 DEF Next

\* Every reachable state has the type, for any number of sessions, microVMs and
\* requests and any lengths of the leases.
THEOREM TypeCorrect == Spec => []TypeOK
<1>1. Init => TypeOK
  BY TypeInit
<1>2. TypeOK /\ [Next]_vars => TypeOK'
  BY TypeNext
<1> QED
  BY <1>1, <1>2, PTL DEF Spec

---------------------------------------------------------------------------
(* Safety.                                                                  *)

\* A start that would still win its version check read a record whose start
\* grace was over, and it still is: nothing extends it without a new version.
RotationStillAllowed ==
    \A c \in seen : ctl[c].pc = "put" => ~(rec.state = "STARTING" /\ rec.grace > 0)

\* The inductive invariant.
IInv ==
    /\ TypeOK
    /\ LeaseFollowsSession
    /\ ReadyFollowsRestore
    /\ RestoringHasOneOwner
    /\ StartingIsUnclaimed
    /\ PutClobbersNothing
    /\ RotationStillAllowed

\* What a step may do to container j without disturbing what the record says.
Settles(j) ==
    /\ ins'[j].sess \in {ins[j].sess, None}
    /\ ins'[j].sess # None /\ ins[j].pc = "cold" => ins'[j].pc = "cold"
    /\ ins'[j].pc \in {"cold", "restoring"} => ins[j].pc \in {"cold", "restoring"}
    /\ ins'[j].pc = "unheard" => ins[j].pc = "unheard"

\* The conjuncts about the record and the containers survive a step that keeps
\* the record's state, session and holder and lets every container settle.
LEMMA ContainersSettle ==
    ASSUME IInv, TypeOK', rec'.state = rec.state, rec'.session = rec.session,
           rec'.holder = rec.holder, \A j \in Instances : Settles(j)
    PROVE  ReadyFollowsRestore' /\ StartingIsUnclaimed'
<1>1. ReadyFollowsRestore'
  BY DEF IInv, ReadyFollowsRestore, Settles
<1>2. rec'.session # None
  BY ConstantsAssumption DEF TypeOK, Record
<1>3. StartingIsUnclaimed'
  BY <1>2 DEF IInv, StartingIsUnclaimed, Settles
<1> QED
  BY <1>1, <1>3

\* The conjuncts about the record and the requests survive a step of the
\* containers alone.
LEMMA RecordKept ==
    ASSUME IInv, UNCHANGED <<rec, seen, ctl>>
    PROVE  /\ LeaseFollowsSession' /\ RestoringHasOneOwner'
           /\ PutClobbersNothing' /\ RotationStillAllowed'
BY DEF IInv, LeaseFollowsSession, RestoringHasOneOwner, PutClobbersNothing, RotationStillAllowed

\* After an update that adds to stateVersion no pending put can win.
LEMMA VersionMoved ==
    ASSUME seen' = {} PROVE PutClobbersNothing' /\ RotationStillAllowed'
BY DEF PutClobbersNothing, RotationStillAllowed

\* A step of the containers alone.
LEMMA ContainersOnly ==
    ASSUME IInv, TypeOK', UNCHANGED <<rec, seen, ctl>>, \A j \in Instances : Settles(j)
    PROVE  IInv'
BY ContainersSettle, RecordKept DEF IInv

\* A step of one request that leaves the record and the containers alone, and
\* whose read, if it keeps one, is of the record as it is.
LEMMA RequestOnly ==
    ASSUME IInv, TypeOK', NEW c \in Requests, UNCHANGED <<rec, ins>>,
           \A d \in Requests \ {c} : ctl'[d] = ctl[d],
           seen' \ {c} \subseteq seen,
           c \in seen' /\ ctl'[c].pc \in {"put", "stop", "fin"} =>
              /\ ctl'[c].snap.state = rec.state
              /\ ctl'[c].snap.session = rec.session
              /\ ctl'[c].snap.leaseOwner = rec.leaseOwner
              /\ ctl'[c].snap.initOwner = rec.initOwner
              /\ ctl'[c].snap.holder = rec.holder,
           c \in seen' /\ ctl'[c].pc = "put" => ~(rec.state = "STARTING" /\ rec.grace > 0)
    PROVE  IInv'
<1>1. LeaseFollowsSession' /\ RestoringHasOneOwner' /\ ReadyFollowsRestore' /\ StartingIsUnclaimed'
  BY DEF IInv, LeaseFollowsSession, RestoringHasOneOwner, ReadyFollowsRestore, StartingIsUnclaimed
<1>2. seen' \subseteq Requests
  BY DEF TypeOK
<1>3. PutClobbersNothing'
  BY <1>2 DEF IInv, PutClobbersNothing
<1>4. RotationStillAllowed'
  BY <1>2 DEF IInv, RotationStillAllowed
<1> QED
  BY <1>1, <1>3, <1>4 DEF IInv

\* Every step of the control plane keeps the inductive invariant.
LEMMA SafeRequest ==
    ASSUME IInv, TypeOK', NEW c \in Requests, RequestStep(c) PROVE IInv'
<1> USE DEF IInv, TypeOK
<1>1. CASE StartBegin(c)
  BY <1>1, RequestOnly DEF StartBegin
<1>2. CASE StartRead(c)
  <2>1. CASE MayRotate(ctl[c].owner)
    <3>1. ctl'[c].pc = "put" /\ ctl'[c].snap = [rec EXCEPT !.lease = LeaseTTL, !.grace = StartGrace]
      <4>1. ctl'[c] = [ctl[c] EXCEPT !.pc = "put",
                          !.snap = [rec EXCEPT !.lease = LeaseTTL, !.grace = StartGrace]]
        BY <1>2, <2>1 DEF StartRead
      <4>2. ctl[c] \in Request
        OBVIOUS
      <4> HIDE DEF IInv, TypeOK
      <4> QED
        BY <4>1, <4>2 DEF Request
    <3>2. \A d \in Requests \ {c} : ctl'[d] = ctl[d]
      BY <1>2, <2>1 DEF StartRead
    <3>3. ~(rec.state = "STARTING" /\ rec.grace > 0)
      BY <2>1 DEF MayRotate
    <3>4. seen' \ {c} \subseteq seen /\ UNCHANGED <<rec, ins>>
      BY <1>2, <2>1 DEF StartRead
    <3> QED
      BY <3>1, <3>2, <3>3, <3>4, RequestOnly DEF Record
  <2>2. CASE ~MayRotate(ctl[c].owner)
    BY <1>2, <2>2, RequestOnly DEF StartRead, Idle
  <2> QED
    BY <2>1, <2>2
<1>3. CASE StartPut(c)
  <2>1. PICK s \in FreshSessions : rec' = Rotated(ctl[c].snap, s) /\ seen' = {}
    BY <1>3 DEF StartPut, Bump
  <2>2. /\ rec'.state = "STARTING" /\ rec'.session = s /\ rec'.leaseOwner = s
        /\ rec'.initOwner = None
    BY <1>3, <2>1 DEF StartPut, Rotated, Record
  <2>3. StartingIsUnclaimed'
    BY <1>3, <2>2 DEF StartPut, StartingIsUnclaimed, FreshSessions
  <2> QED
    BY <2>1, <2>2, <2>3, VersionMoved
    DEF LeaseFollowsSession, ReadyFollowsRestore, RestoringHasOneOwner
<1>4. CASE StopBegin(c)
  BY <1>4, RequestOnly DEF StopBegin, Untimed, Record
<1>5. CASE StopRuntime(c)
  <2>1. \A j \in Instances : Settles(j)
    BY <1>5 DEF StopRuntime, Settles, HasEngine, Running, Dying, Off
  <2>2. ReadyFollowsRestore' /\ StartingIsUnclaimed'
    BY <1>5, <2>1, ContainersSettle DEF StopRuntime
  <2>3. LeaseFollowsSession' /\ RestoringHasOneOwner'
    BY <1>5 DEF StopRuntime, LeaseFollowsSession, RestoringHasOneOwner
  <2>4. \A d \in Requests : ctl'[d].snap = ctl[d].snap /\ ctl'[d].pc \in {ctl[d].pc, "fin"}
    BY <1>5 DEF StopRuntime, Request
  <2>5. \A d \in Requests : ctl'[d].pc = "fin" => ctl[d].pc \in {"stop", "fin"}
    BY <1>5 DEF StopRuntime, Request
  <2>6. PutClobbersNothing' /\ RotationStillAllowed'
    BY <1>5, <2>4, <2>5 DEF StopRuntime, PutClobbersNothing, RotationStillAllowed
  <2> QED
    BY <2>2, <2>3, <2>6
<1>6. CASE StopRuntimeRejected(c)
  BY <1>6, RequestOnly DEF StopRuntimeRejected, Request, PutClobbersNothing
<1>7. CASE StopRuntimeThrottled(c)
  BY <1>7, RequestOnly DEF StopRuntimeThrottled, Idle
<1>8. CASE StopPut(c)
  <2>1. rec' = Stopped(rec) /\ seen' = {}
    BY <1>8 DEF StopPut, Bump
  <2>2. rec'.state = "STOPPED" /\ rec'.leaseOwner = None /\ rec'.initOwner = None
    BY <2>1 DEF Stopped, Record
  <2> QED
    BY <2>1, <2>2, VersionMoved
    DEF LeaseFollowsSession, ReadyFollowsRestore, RestoringHasOneOwner, StartingIsUnclaimed
<1>9. CASE PutConflict(c)
  BY <1>9, RequestOnly DEF PutConflict, Idle
<1> QED
  BY <1>1, <1>2, <1>3, <1>4, <1>5, <1>6, <1>7, <1>8, <1>9 DEF RequestStep

\* Every step of a microVM keeps the inductive invariant.
LEMMA SafeInstance ==
    ASSUME IInv, TypeOK', NEW i \in Instances, InstanceStep(i) PROVE IInv'
<1> USE ConstantsAssumption DEF IInv, TypeOK
<1>1. CASE Route(i)
  <2>1. LeaseFollowsSession' /\ RestoringHasOneOwner' /\ PutClobbersNothing' /\ RotationStillAllowed'
    BY <1>1, RecordKept DEF Route
  <2>2. ReadyFollowsRestore' /\ StartingIsUnclaimed'
    BY <1>1 DEF Route, ReadyFollowsRestore, StartingIsUnclaimed
  <2> QED
    BY <2>1, <2>2
<1>2. CASE Claim(i)
  <2>1. /\ rec'.state = "RESTORING" /\ rec'.initOwner = i /\ rec'.holder = i
        /\ rec'.session = rec.session /\ rec'.leaseOwner = rec.leaseOwner /\ seen' = {}
    BY <1>2 DEF Claim, Bump, Record
  <2>2. rec.state # "STOPPED"
    BY <1>2 DEF Claim, Claimable, ReadyClaimable
  <2> QED
    BY <2>1, <2>2, VersionMoved
    DEF LeaseFollowsSession, ReadyFollowsRestore, RestoringHasOneOwner, StartingIsUnclaimed
<1>3. CASE HeartbeatInit(i)
  <2>1. \A f \in {"state", "session", "leaseOwner", "initOwner", "holder", "grace"} : rec'[f] = rec[f]
    BY <1>3 DEF HeartbeatInit, Touch, Record
  <2> QED
    BY <1>3, <2>1 DEF HeartbeatInit, Touch, LeaseFollowsSession, ReadyFollowsRestore,
       RestoringHasOneOwner, StartingIsUnclaimed, PutClobbersNothing, RotationStillAllowed
<1>4. CASE MarkReady(i)
  <2>1. /\ rec'.state = "READY" /\ rec'.initOwner = None /\ rec'.holder = i
        /\ rec'.session = rec.session /\ rec'.leaseOwner = rec.session /\ seen' = {}
    BY <1>4 DEF MarkReady, Bump, Ready, Record
  <2>2. ins'[i].pc \in {"serving", "zombie", "unheard"}
    <3>1. /\ [ins[i] EXCEPT !.pc = "serving", !.readOnly = FALSE].pc = "serving"
          /\ [ins[i] EXCEPT !.pc = "zombie"].pc = "zombie"
          /\ TornDown(ins[i], "unheard").pc = "unheard"
      BY DEF Instance, TornDown
    <3> QED
      BY <1>4, <3>1 DEF MarkReady
  <2> QED
    BY <2>1, <2>2, VersionMoved
    DEF LeaseFollowsSession, ReadyFollowsRestore, RestoringHasOneOwner, StartingIsUnclaimed
<1>5. CASE MarkError(i)
  <2>1. /\ rec'.state = "ERROR" /\ rec'.initOwner = None
        /\ rec'.session = rec.session /\ rec'.leaseOwner = rec.leaseOwner /\ seen' = {}
    BY <1>5 DEF MarkError, Bump, Record
  <2>2. rec.state = "RESTORING"
    BY <1>5 DEF MarkError, OwnsInit, RestoringHasOneOwner
  <2> QED
    BY <2>1, <2>2, VersionMoved
    DEF LeaseFollowsSession, ReadyFollowsRestore, RestoringHasOneOwner, StartingIsUnclaimed
<1>6. CASE LoseClaim(i) \/ MarkErrorLost(i)
  <2>1. ins' = [ins EXCEPT ![i] = TornDown(ins[i], "cold")] /\ ins[i].pc = "restoring"
    BY <1>6 DEF LoseClaim, MarkErrorLost
  <2>2. TornDown(ins[i], "cold").pc = "cold" /\ TornDown(ins[i], "cold").sess = ins[i].sess
    BY DEF TornDown, Instance
  <2>3. \A j \in Instances : Settles(j)
    BY <2>1, <2>2 DEF Settles
  <2> QED
    BY <1>6, <2>3, ContainersOnly DEF LoseClaim, MarkErrorLost
<1>7. CASE Invoke(i)
  <2>1. \A j \in Instances : ins'[j].pc = ins[j].pc /\ ins'[j].sess = ins[j].sess
    BY <1>7 DEF Invoke, Accepting, Instance
  <2>2. ~(rec.session = ins[i].sess /\ rec.state = "STARTING")
    \* The container is restoring or running: it is not one of this start's.
    BY <1>7 DEF Invoke, Running, StartingIsUnclaimed
  <2>3. UNCHANGED <<rec, seen, ctl>>
    BY <1>7, <2>2 DEF Invoke, Heals
  <2> QED
    BY <2>1, <2>3, ContainersOnly DEF Settles
<1>8. CASE Finish(i)
  BY <1>8, ContainersOnly DEF Finish, Settles, Instance
<1>9. CASE HeartbeatLease(i)
  <2>1. \A f \in {"state", "session", "leaseOwner", "initOwner", "holder", "grace"} : rec'[f] = rec[f]
    BY <1>9 DEF HeartbeatLease, Touch, Record
  <2> QED
    BY <1>9, <2>1 DEF HeartbeatLease, Touch, LeaseFollowsSession, ReadyFollowsRestore,
       RestoringHasOneOwner, StartingIsUnclaimed, PutClobbersNothing, RotationStillAllowed
<1>10. CASE Exit(i)
  BY <1>10, ContainersOnly DEF Exit, Settles, Off
<1>11. CASE DurabilityCheckpoint(i)
  <2>1. \A j \in Instances : Settles(j)
    BY <1>11 DEF DurabilityCheckpoint, HasEngine, Running, Settles, Instance
  <2>2. UNCHANGED <<rec, ctl>> /\ seen' \in {seen, {}}
    BY <1>11 DEF DurabilityCheckpoint, Bump
  <2>3. ReadyFollowsRestore' /\ StartingIsUnclaimed'
    BY <2>1, <2>2, ContainersSettle
  <2> QED
    BY <2>2, <2>3 DEF LeaseFollowsSession, RestoringHasOneOwner, PutClobbersNothing,
       RotationStillAllowed
<1>12. CASE PrepareStop(i)
  <2>1. /\ rec'.state = "STOPPING" /\ rec'.initOwner = rec.initOwner /\ rec'.holder = rec.holder
        /\ rec'.session = rec.session /\ rec'.leaseOwner = rec.leaseOwner /\ seen' = {}
    BY <1>12 DEF PrepareStop, Bump, Record
  <2>2. rec.state \in {"READY", "STOPPING"} /\ rec.holder = i
    BY <1>12 DEF PrepareStop, ReceiptOk, FinalStates, ReadyFollowsRestore
  <2>3. ins'[i].pc = "frozen" /\ \A j \in Instances : ins'[j].pc \in {ins[j].pc, "frozen"}
    <3>1. /\ [ins[i] EXCEPT !.pc = "frozen"].pc = "frozen"
          /\ [ins[i] EXCEPT !.pc = "frozen", !.readOnly = TRUE].pc = "frozen"
      BY DEF Instance
    <3> QED
      BY <1>12, <3>1 DEF PrepareStop
  <2> QED
    BY <2>1, <2>2, <2>3, VersionMoved
    DEF LeaseFollowsSession, ReadyFollowsRestore, RestoringHasOneOwner, StartingIsUnclaimed
<1>13. CASE PrepareStopFails(i)
  <2>1. \A j \in Instances : Settles(j)
    <3>1. /\ [ins[i] EXCEPT !.readOnly = TRUE].pc = ins[i].pc
          /\ [ins[i] EXCEPT !.readOnly = TRUE].sess = ins[i].sess
          /\ [ins[i] EXCEPT !.pc = "serving", !.readOnly = TRUE].pc = "serving"
          /\ [ins[i] EXCEPT !.pc = "serving", !.readOnly = TRUE].sess = ins[i].sess
          /\ [ins[i] EXCEPT !.pc = "frozen", !.readOnly = TRUE].pc = "frozen"
          /\ [ins[i] EXCEPT !.pc = "frozen", !.readOnly = TRUE].sess = ins[i].sess
      BY DEF Instance
    <3> QED
      BY <1>13, <3>1 DEF PrepareStopFails, Running, Settles
  <2> QED
    BY <1>13, <2>1, ContainersOnly DEF PrepareStopFails
<1>14. CASE Reclaim(i)
  <2>1. \A j \in Instances : Settles(j)
    BY <1>14 DEF Reclaim, HasEngine, Running, Dying, Off, Settles
  <2> QED
    BY <1>14, <2>1, ContainersOnly DEF Reclaim
<1>15. CASE ShutdownCheckpoint(i)
  <2>1. /\ rec'.state = "STOPPING" /\ rec'.initOwner = rec.initOwner /\ rec'.holder = rec.holder
        /\ rec'.session = rec.session /\ rec'.leaseOwner = rec.leaseOwner /\ seen' = {}
    BY <1>15 DEF ShutdownCheckpoint, Bump, Record
  <2>2. rec.state \in {"READY", "STOPPING"} /\ rec.holder = i
    BY <1>15 DEF ShutdownCheckpoint, ReceiptOk, FinalStates, ReadyFollowsRestore
  <2>3. ins'[i].pc = "off" /\ \A j \in Instances : ins'[j].pc \in {ins[j].pc, "off"}
    BY <1>15 DEF ShutdownCheckpoint, Off
  <2> QED
    BY <2>1, <2>2, <2>3, VersionMoved
    DEF LeaseFollowsSession, ReadyFollowsRestore, RestoringHasOneOwner, StartingIsUnclaimed
<1>16. CASE Die(i)
  BY <1>16, ContainersOnly DEF Die, Settles, Off
<1> QED
  BY <1>1, <1>2, <1>3, <1>4, <1>5, <1>6, <1>7, <1>8, <1>9, <1>10, <1>11, <1>12, <1>13,
     <1>14, <1>15, <1>16 DEF InstanceStep

\* The passage of time keeps the inductive invariant.
LEMMA SafeTick == ASSUME IInv, TypeOK', Tick PROVE IInv'
<1> USE DEF IInv, TypeOK
<1>1. \A r \in Record : \A f \in {"state", "session", "leaseOwner", "initOwner", "holder"} :
         Aged(r)[f] = r[f]
  BY DEF Aged, Record
<1>2. rec' = Aged(rec) /\ UNCHANGED seen
  BY DEF Tick
<1>3. rec.grace <= 0 => rec'.grace <= 0
  BY <1>2, ConstantsAssumption DEF Aged, Less, Record, Timer
<1>4. \A j \in Instances : Settles(j)
  BY DEF Tick, Settles, Instance
<1>5. ReadyFollowsRestore' /\ StartingIsUnclaimed'
  BY <1>1, <1>2, <1>4, ContainersSettle
<1>6. LeaseFollowsSession' /\ RestoringHasOneOwner'
  BY <1>1, <1>2 DEF LeaseFollowsSession, RestoringHasOneOwner
<1>7. \A c \in Requests : ctl'[c].pc = ctl[c].pc /\ ctl'[c].snap \in {ctl[c].snap, Aged(ctl[c].snap)}
  BY DEF Tick, Request
<1>8. PutClobbersNothing'
  BY <1>1, <1>2, <1>7 DEF PutClobbersNothing
<1>9. RotationStillAllowed'
  <2>1. rec.grace \in Int /\ rec'.grace \in Int
    BY ConstantsAssumption DEF Record, Timer
  <2> QED
    BY <1>1, <1>2, <1>3, <1>7, <2>1 DEF RotationStillAllowed
<1> QED
  BY <1>5, <1>6, <1>8, <1>9

\* The initial state satisfies the inductive invariant.
LEMMA SafeInit == Init => IInv
<1> SUFFICES ASSUME Init PROVE IInv
  OBVIOUS
<1>1. TypeOK
  BY TypeInit
<1>2. rec.state = "STOPPED" /\ rec.leaseOwner = None /\ rec.initOwner = None /\ seen = {}
  BY DEF Init
<1> QED
  BY <1>1, <1>2 DEF IInv, LeaseFollowsSession, ReadyFollowsRestore, RestoringHasOneOwner,
     StartingIsUnclaimed, PutClobbersNothing, RotationStillAllowed

\* Every step keeps the inductive invariant.
LEMMA SafeNext == IInv /\ [Next]_vars => IInv'
<1> SUFFICES ASSUME IInv, [Next]_vars PROVE IInv'
  OBVIOUS
<1>1. TypeOK'
  BY TypeNext DEF IInv
<1>2. CASE \E c \in Requests : RequestStep(c)
  BY <1>1, <1>2, SafeRequest
<1>3. CASE \E i \in Instances : InstanceStep(i)
  BY <1>1, <1>3, SafeInstance
<1>4. CASE LoseReceipt
  BY <1>1, <1>4, ContainersOnly DEF LoseReceipt, Settles
<1>5. CASE Tick
  BY <1>1, <1>5, SafeTick
<1>6. CASE UNCHANGED vars
  BY <1>1, <1>6, ContainersOnly DEF vars, Settles
<1>7. CASE RequestDeletion
  <2>1. seen' = {} /\ UNCHANGED <<rec, ins>>
    BY <1>7 DEF RequestDeletion, Bump
  <2> QED
    BY <1>1, <2>1, VersionMoved
    DEF IInv, LeaseFollowsSession, ReadyFollowsRestore, RestoringHasOneOwner, StartingIsUnclaimed
<1> QED
  BY <1>2, <1>3, <1>4, <1>5, <1>6, <1>7 DEF Next

\* The inductive invariant holds in every reachable state, with or without the
\* assumption that beats are on time.
THEOREM Invariance == Spec => []IInv
<1>1. Init => IInv
  BY SafeInit
<1>2. IInv /\ [Next]_vars => IInv'
  BY SafeNext
<1> QED
  BY <1>1, <1>2, PTL DEF Spec

\* LeaseFollowsSession holds in every reachable state: no sequence of starts,
\* stops, claims and crashes leaves a lease owner that makes acquire_start
\* answer 409 to every later start.
THEOREM LeaseFollowsSessionAlways == Spec => []LeaseFollowsSession
BY Invariance, PTL DEF IInv

\* ReadyFollowsRestore holds in every reachable state, lost answers included:
\* markReady, healReady and the receipts never publish READY or STOPPING for a
\* container that has not finished its restore, nor STOPPING for one that never
\* heard of its READY.
THEOREM ReadyFollowsRestoreAlways == Spec => []ReadyFollowsRestore
BY Invariance, PTL DEF IInv

\* RestoringHasOneOwner holds in every reachable state: the initialization
\* claim and the fence of acquireInit never name two containers.
THEOREM RestoringHasOneOwnerAlways == Spec => []RestoringHasOneOwner
BY Invariance, PTL DEF IInv

\* PutClobbersNothing holds in every reachable state: the control plane's full
\* PutItem on stateVersion never undoes a broker update made after its read.
THEOREM PutClobbersNothingAlways == Spec => []PutClobbersNothing
BY Invariance, PTL DEF IInv

\* StartingIsUnclaimed holds in every reachable state: a rotation leaves every
\* earlier container behind, so healReady never finds its own session STARTING.
THEOREM StartingIsUnclaimedAlways == Spec => []StartingIsUnclaimed
BY Invariance, PTL DEF IInv

---------------------------------------------------------------------------
(* Action properties.                                                       *)

\* What an instance's step does to the record's session and holder.
LEMMA HolderMoves ==
    ASSUME TypeOK, NEW j \in Instances, InstanceStep(j)
    PROVE  /\ rec'.session = rec.session
           /\ rec'.holder = rec.holder \/ (rec'.holder = j /\ ~Running(j))
<1>0. rec \in Record
  BY DEF TypeOK
<1>1. CASE Claim(j)
  <2>1. rec'.session = rec.session /\ rec'.holder = j
    BY <1>0, <1>1 DEF Claim, Bump, Record
  <2> QED
    BY <1>1, <2>1 DEF Claim, Unbound, Running
<1>2. CASE MarkReady(j)
  <2>1. rec'.session = rec.session /\ rec'.holder = j
    BY <1>0, <1>2 DEF MarkReady, Bump, Ready, Record
  <2> QED
    BY <1>2, <2>1 DEF MarkReady, Running
<1>3. CASE HeartbeatInit(j)
  BY <1>0, <1>3 DEF HeartbeatInit, Touch, Record
<1>4. CASE HeartbeatLease(j)
  <2>1. rec' = [rec EXCEPT !.lease = LeaseTTL, !.idle = ins[j].idle]
    BY <1>4 DEF HeartbeatLease, Touch
  <2> QED
    BY <1>0, <2>1 DEF Record
<1>5. CASE MarkError(j)
  BY <1>0, <1>5 DEF MarkError, Bump, Record
<1>6. CASE Invoke(j)
  <2>1. rec' = rec \/ rec' = [rec EXCEPT !.state = "READY", !.grace = -1]
    BY <1>6 DEF Invoke, Bump
  <2> QED
    BY <1>0, <2>1 DEF Record
<1>7. CASE PrepareStop(j) \/ ShutdownCheckpoint(j)
  <2>1. rec' = [rec EXCEPT !.state = "STOPPING"]
    BY <1>7 DEF PrepareStop, ShutdownCheckpoint, Bump
  <2> QED
    BY <1>0, <2>1 DEF Record
<1>8. CASE DurabilityCheckpoint(j)
  BY <1>8 DEF DurabilityCheckpoint, Bump
<1>9. CASE Route(j) \/ MarkErrorLost(j) \/ LoseClaim(j) \/ Finish(j) \/ Exit(j)
           \/ PrepareStopFails(j) \/ Reclaim(j) \/ Die(j)
  BY <1>9 DEF Route, MarkErrorLost, LoseClaim, Finish, Exit, PrepareStopFails, Reclaim, Die
<1> QED
  BY <1>1, <1>2, <1>3, <1>4, <1>5, <1>6, <1>7, <1>8, <1>9 DEF InstanceStep

\* A container that goes on running goes on serving the session it served.
LEMMA SessionKept ==
    ASSUME TypeOK, NEW i \in Instances, NEW j \in Instances, InstanceStep(j),
           Running(i), Running(i)'
    PROVE  ins'[i].sess = ins[i].sess
<1> USE DEF TypeOK, Running
<1>1. CASE i # j
  BY <1>1 DEF InstanceStep, Route, Claim, HeartbeatInit, MarkReady, MarkError, MarkErrorLost, LoseClaim, Invoke,
     Finish, HeartbeatLease, Exit, DurabilityCheckpoint, PrepareStop, PrepareStopFails, Reclaim,
     ShutdownCheckpoint, Die
<1>2. CASE i = j
  <2>1. CASE Invoke(i)
    BY <2>1 DEF Invoke, Accepting, Instance
  <2>2. CASE Finish(i) \/ DurabilityCheckpoint(i)
    BY <2>2 DEF Finish, DurabilityCheckpoint, Instance
  <2>3. CASE HeartbeatInit(i) \/ HeartbeatLease(i)
    BY <2>3 DEF HeartbeatInit, HeartbeatLease
  <2>4. /\ [ins[i] EXCEPT !.readOnly = TRUE].sess = ins[i].sess
        /\ [ins[i] EXCEPT !.pc = "serving", !.readOnly = TRUE].sess = ins[i].sess
        /\ [ins[i] EXCEPT !.pc = "frozen", !.readOnly = TRUE].sess = ins[i].sess
        /\ [ins[i] EXCEPT !.pc = "frozen"].sess = ins[i].sess
    BY DEF Instance
  <2>5. CASE PrepareStop(i)
    BY <2>4, <2>5 DEF PrepareStop
  <2>6. CASE PrepareStopFails(i)
    BY <2>4, <2>6 DEF PrepareStopFails
  <2>7. CASE Reclaim(i) \/ Exit(i) \/ Die(i) \/ ShutdownCheckpoint(i)
    <3>1. Off.pc = "off" /\ Dying(ins[i]).pc = "dying"
      BY DEF Off, Dying
    <3>2. ins'[i] \in {Off, Dying(ins[i])}
      BY <2>7 DEF Reclaim, Exit, Die, ShutdownCheckpoint
    <3> QED
      BY <3>1, <3>2
  <2>8. CASE Route(i) \/ Claim(i) \/ MarkReady(i) \/ MarkError(i) \/ MarkErrorLost(i) \/ LoseClaim(i)
    BY <2>8 DEF Route, Claim, Unbound, MarkReady, MarkError, MarkErrorLost, LoseClaim
  <2> QED
    BY <1>2, <2>1, <2>2, <2>3, <2>5, <2>6, <2>7, <2>8 DEF InstanceStep
<1> QED
  BY <1>1, <1>2

\* No step makes a running container the owner again.
LEMMA FencedStep ==
    ASSUME IInv, [Next]_vars, NEW i \in Instances, Running(i), Running(i)', Owner(i)'
    PROVE  Owner(i)
<1> USE DEF IInv, TypeOK, Owner
<1>1. ASSUME NEW c \in Requests, RequestStep(c) PROVE Owner(i)
  <2>1. CASE StartPut(c)
    BY <1>1, <2>1 DEF StartPut, Bump, FreshSessions, Rotated, Record
  <2>2. CASE StopPut(c)
    BY <1>1, <2>2 DEF StopPut, Bump, Stopped, Record
  <2>3. CASE StopRuntime(c)
    BY <1>1, <2>3 DEF StopRuntime, Running, Off, Dying
  <2>4. CASE StartBegin(c) \/ StartRead(c) \/ StopBegin(c) \/ StopRuntimeRejected(c)
             \/ StopRuntimeThrottled(c) \/ PutConflict(c)
    BY <2>4 DEF StartBegin, StartRead, StopBegin, StopRuntimeRejected, StopRuntimeThrottled,
       PutConflict
  <2> QED
    BY <1>1, <2>1, <2>2, <2>3, <2>4 DEF RequestStep
<1>2. ASSUME NEW j \in Instances, InstanceStep(j) PROVE Owner(i)
  BY <1>2, HolderMoves, SessionKept
<1>3. CASE Tick
  <2>1. rec'.session = rec.session /\ rec'.holder = rec.holder
    BY <1>3 DEF Tick, Aged, Record
  <2>2. ins'[i] = [ins[i] EXCEPT !.idle = Less(@)]
    BY <1>3 DEF Tick
  <2>3. ins'[i].sess = ins[i].sess
    BY <2>2 DEF Instance
  <2> QED
    BY <2>1, <2>3
<1>4. CASE LoseReceipt \/ RequestDeletion \/ UNCHANGED vars
  BY <1>4 DEF LoseReceipt, RequestDeletion, Bump, vars
<1> QED
  BY <1>1, <1>2, <1>3, <1>4 DEF Next

\* A container superseded by a rotation or by another container of its session
\* never becomes the holder again (holderInstance in acquireInit, heartbeatLease
\* and checkpointReceipt).
THEOREM FencingIsFinal == Spec => OnceFencedAlwaysFenced
<1>1. IInv /\ [Next]_vars
        => [\A i \in Instances : Running(i) /\ ~Owner(i) /\ Running(i)' => ~Owner(i)']_vars
  BY FencedStep
<1> QED
  BY <1>1, Invariance, PTL DEF Spec, OnceFencedAlwaysFenced

\* Only acquire_start's PutItem changes the record's session, and it does not
\* while a start is still within its grace.
LEMMA RotationStep ==
    ASSUME IInv, [Next]_vars, rec'.session # rec.session
    PROVE  ~(rec.state = "STARTING" /\ rec.grace > 0)
<1> USE DEF IInv, TypeOK
<1>1. ASSUME NEW c \in Requests, RequestStep(c)
      PROVE  ~(rec.state = "STARTING" /\ rec.grace > 0)
  <2>1. CASE StartPut(c)
    <3>1. c \in seen /\ ctl[c].pc = "put"
      BY <2>1 DEF StartPut
    <3>2. rec.grace \in Int
      BY ConstantsAssumption DEF Record, Timer
    <3> QED
      BY <3>1, <3>2 DEF RotationStillAllowed
  <2>2. CASE StopPut(c)
    BY <2>2 DEF StopPut, Bump, Stopped, Record
  <2>3. CASE StartBegin(c) \/ StartRead(c) \/ StopBegin(c) \/ StopRuntime(c)
             \/ StopRuntimeRejected(c) \/ StopRuntimeThrottled(c) \/ PutConflict(c)
    BY <2>3 DEF StartBegin, StartRead, StopBegin, StopRuntime, StopRuntimeRejected,
       StopRuntimeThrottled, PutConflict
  <2> QED
    BY <1>1, <2>1, <2>2, <2>3 DEF RequestStep
<1>2. ASSUME NEW j \in Instances, InstanceStep(j) PROVE FALSE
  BY <1>2, HolderMoves
<1>3. CASE Tick
  BY <1>3 DEF Tick, Aged, Record
<1>4. CASE LoseReceipt \/ RequestDeletion \/ UNCHANGED vars
  BY <1>4 DEF LoseReceipt, RequestDeletion, Bump, vars
<1> QED
  BY <1>1, <1>2, <1>3, <1>4 DEF Next

\* However many starts, retries and wakes overlap, none rotates away a session
\* whose microVM may still be on its way (START_GRACE and the version check of
\* acquire_start).
THEOREM ProvisioningIsSafe == Spec => ProvisioningNotRotated
<1>1. IInv /\ [Next]_vars
        => [rec'.session # rec.session => ~(rec.state = "STARTING" /\ rec.grace > 0)]_vars
  BY RotationStep
<1> QED
  BY <1>1, Invariance, PTL DEF Spec, ProvisioningNotRotated


---------------------------------------------------------------------------
(* Leases, while every beat is on time.                                     *)

\* The containers whose beats the record accepts, and those whose claim it has.
Beating(i) == Running(i) /\ HoldsLease(i)

Initializing(i) == ins[i].pc = "restoring" /\ OwnsInit(i)

\* What beats on time add to the inductive invariant: a lease that somebody can
\* still renew has not run out, so none that a start saw run out comes back.
LeasesLive ==
    /\ \A i \in Instances : Beating(i) => rec.lease > 0
    /\ \A i \in Instances : Initializing(i) => rec.init > 0
    /\ \A c \in seen : ctl[c].pc = "put" => rec.lease <= 0 /\ rec.init <= 0

\* A step that lets nobody in keeps it if it moves no lease.
LEMMA NobodyNew ==
    ASSUME LeasesLive, rec'.lease = rec.lease, rec'.init = rec.init,
           \A i \in Instances : Beating(i)' => Beating(i),
           \A i \in Instances : Initializing(i)' => Initializing(i),
           \A c \in seen' : ctl'[c].pc = "put" => rec.lease <= 0 /\ rec.init <= 0
    PROVE  LeasesLive'
BY DEF LeasesLive

\* Every step of the control plane keeps it.
LEMMA LiveRequest ==
    ASSUME IInv, LeasesLive, NEW c \in Requests, RequestStep(c) PROVE LeasesLive'
<1> USE DEF IInv, TypeOK
<1>1. CASE StartBegin(c) \/ StartRead(c) \/ StopBegin(c) \/ StopRuntimeRejected(c)
           \/ StopRuntimeThrottled(c) \/ PutConflict(c)
  <2>1. rec' = rec /\ ins' = ins
    BY <1>1 DEF StartBegin, StartRead, StopBegin, StopRuntimeRejected, StopRuntimeThrottled, PutConflict
  <2>2. \A i \in Instances : Beating(i)' = Beating(i) /\ Initializing(i)' = Initializing(i)
    BY <2>1 DEF Beating, Initializing, Running, HoldsLease, OwnsInit, Authorized
  <2>3. ASSUME NEW d \in seen', ctl'[d].pc = "put" PROVE rec.lease <= 0 /\ rec.init <= 0
    <3>1. CASE d # c
      <4>1. d \in seen /\ ctl'[d] = ctl[d]
        BY <1>1, <2>3, <3>1 DEF StartBegin, StartRead, StopBegin, StopRuntimeRejected,
           StopRuntimeThrottled, PutConflict
      <4> QED
        BY <2>3, <4>1 DEF LeasesLive
    <3>2. CASE d = c
      <4>1. StartRead(c) /\ MayRotate(ctl[c].owner)
        BY <1>1, <2>3, <3>2 DEF StartBegin, StartRead, StopBegin, StopRuntimeRejected,
           StopRuntimeThrottled, PutConflict, Idle, Request
      <4> QED
        BY <4>1 DEF MayRotate
    <3> QED
      BY <3>1, <3>2
  <2> QED
    BY <2>1, <2>2, <2>3, NobodyNew
<1>2. CASE StartPut(c)
  <2>1. PICK s \in FreshSessions : rec' = Rotated(ctl[c].snap, s) /\ seen' = {}
    BY <1>2 DEF StartPut, Bump
  <2>2. rec'.session = s
    BY <1>2, <2>1 DEF StartPut, Rotated, Record
  <2>3. \A i \in Instances : ins'[i].sess # s
    BY <1>2 DEF StartPut, FreshSessions
  <2> QED
    BY <2>1, <2>2, <2>3 DEF LeasesLive, Beating, Initializing, HoldsLease, OwnsInit, Authorized
<1>3. CASE StopRuntime(c)
  <2>1. rec' = rec /\ seen' = seen
    BY <1>3 DEF StopRuntime
  <2>2. \A i \in Instances : ins'[i] = ins[i] \/ ins'[i].pc \in {"off", "dying"}
    BY <1>3 DEF StopRuntime, Off, Dying
  <2>3. \A i \in Instances : (Beating(i)' => Beating(i)) /\ (Initializing(i)' => Initializing(i))
    BY <2>1, <2>2 DEF Beating, Initializing, Running, HoldsLease, OwnsInit, Authorized
  <2>4. \A d \in seen : ctl'[d].pc = "put" => ctl[d].pc = "put"
    BY <1>3 DEF StopRuntime, Request
  <2> QED
    BY <2>1, <2>3, <2>4, NobodyNew DEF LeasesLive
<1>4. CASE StopPut(c)
  <2>1. rec'.leaseOwner = None /\ rec'.initOwner = None /\ rec'.session = rec.session /\ seen' = {}
    BY <1>4 DEF StopPut, Bump, Stopped, Record
  <2>2. rec.session # None
    BY ConstantsAssumption DEF Record
  <2> QED
    BY <2>1, <2>2, ConstantsAssumption
       DEF LeasesLive, Beating, Initializing, HoldsLease, OwnsInit, Authorized
<1> QED
  BY <1>1, <1>2, <1>3, <1>4 DEF RequestStep

\* Every step of a microVM keeps it.
LEMMA LiveInstance ==
    ASSUME IInv, LeasesLive, NEW j \in Instances, InstanceStep(j) PROVE LeasesLive'
<1> USE DEF IInv, TypeOK
<1>1. /\ rec \in Record /\ rec.lease \in Int /\ rec.init \in Int /\ LeaseTTL > 0 /\ InitTTL > 0
      /\ None \notin Instances
  BY ConstantsAssumption DEF Record, Timer
<1>2. CASE Claim(j)
  <2>1. /\ rec'.holder = j /\ rec'.initOwner = j /\ rec'.init = InitTTL /\ seen' = {}
        /\ ins'[j].pc = "restoring"
    BY <1>1, <1>2 DEF Claim, Bump, Record, Instance
  <2> QED
    BY <1>1, <2>1 DEF LeasesLive, Beating, Initializing, Running, HoldsLease, OwnsInit
<1>3. CASE MarkReady(j)
  <2>1. rec'.lease = LeaseTTL /\ rec'.initOwner = None /\ seen' = {}
    BY <1>1, <1>3 DEF MarkReady, Bump, Ready, Record
  <2> QED
    BY <1>1, <2>1 DEF LeasesLive, Initializing, OwnsInit
<1>4. CASE MarkError(j)
  <2>1. rec'.holder = rec.holder /\ rec'.initOwner = None /\ seen' = {} /\ ins'[j].pc = "cold"
    BY <1>1, <1>4 DEF MarkError, TornDown, Bump, Record, Instance
  <2>2. rec.holder = j
    BY <1>1, <1>4 DEF MarkError, OwnsInit, RestoringHasOneOwner
  <2> QED
    BY <1>1, <2>1, <2>2 DEF LeasesLive, Beating, Initializing, Running, HoldsLease, OwnsInit
<1>5. CASE HeartbeatInit(j)
  <2>1. Initializing(j)
    BY <1>5 DEF HeartbeatInit, Initializing
  <2>2. rec.init > 0 /\ rec.state = "RESTORING"
    BY <1>1, <2>1 DEF LeasesLive, Initializing, OwnsInit, RestoringHasOneOwner
  <2>3. /\ rec'.init = InitTTL /\ rec'.lease = rec.lease /\ rec'.session = rec.session
        /\ rec'.state = rec.state /\ rec'.leaseOwner = rec.leaseOwner /\ rec'.holder = rec.holder
        /\ rec'.initOwner = rec.initOwner /\ seen' = seen /\ ctl' = ctl /\ ins' = ins
    BY <1>1, <1>5 DEF HeartbeatInit, Touch, Record
  <2>4. \A i \in Instances : Beating(i)' => Beating(i)
    BY <2>2, <2>3 DEF Beating, Running, HoldsLease, Authorized
  <2>5. \A d \in seen : ctl[d].pc # "put"
    BY <1>1, <2>2 DEF LeasesLive
  <2> QED
    BY <1>1, <2>3, <2>4, <2>5 DEF LeasesLive
<1>6. CASE HeartbeatLease(j)
  <2>1. rec.lease > 0
    BY <1>6 DEF HeartbeatLease, LeasesLive, Beating
  <2>2. rec' = [rec EXCEPT !.lease = LeaseTTL, !.idle = ins[j].idle]
    BY <1>6 DEF HeartbeatLease, Touch
  <2>3. /\ rec'.lease = LeaseTTL /\ rec'.init = rec.init /\ rec'.session = rec.session
        /\ rec'.state = rec.state /\ rec'.initOwner = rec.initOwner
    BY <1>1, <2>2 DEF Record
  <2>4. seen' = seen /\ ctl' = ctl /\ ins' = ins
    BY <1>6 DEF HeartbeatLease, Touch
  <2>5. \A i \in Instances : Initializing(i)' => Initializing(i)
    BY <2>3, <2>4 DEF Initializing, OwnsInit, Authorized
  <2>6. \A d \in seen : ctl[d].pc # "put"
    BY <1>1, <2>1 DEF LeasesLive
  <2> QED
    BY <1>1, <2>3, <2>4, <2>5, <2>6 DEF LeasesLive
<1>7. CASE Invoke(j)
  <2>1. ~Heals(j)
    BY <1>7 DEF Invoke, Heals, StartingIsUnclaimed, Running
  <2>2. rec' = rec /\ seen' = seen /\ ctl' = ctl /\ ins' = [ins EXCEPT ![j] = Accepting(ins[j])]
    BY <1>7, <2>1 DEF Invoke
  <2>3. \A i \in Instances : ins'[i].pc = ins[i].pc /\ ins'[i].sess = ins[i].sess
    BY <2>2 DEF Accepting, Instance
  <2>4. \A i \in Instances : (Beating(i)' => Beating(i)) /\ (Initializing(i)' => Initializing(i))
    BY <2>2, <2>3 DEF Beating, Initializing, Running, HoldsLease, OwnsInit, Authorized
  <2> QED
    BY <2>2, <2>4, NobodyNew DEF LeasesLive
<1>8. CASE PrepareStop(j) \/ ShutdownCheckpoint(j)
  <2>1. rec' = [rec EXCEPT !.state = "STOPPING"] /\ seen' = {} /\ rec.state \in FinalStates
    BY <1>8 DEF PrepareStop, ShutdownCheckpoint, Bump, ReceiptOk
  <2>2. /\ rec'.lease = rec.lease /\ rec'.init = rec.init /\ rec'.session = rec.session
        /\ rec'.leaseOwner = rec.leaseOwner /\ rec'.holder = rec.holder /\ rec'.initOwner = rec.initOwner
    BY <1>1, <2>1 DEF Record
  <2>3. rec.initOwner = None
    BY <2>1 DEF RestoringHasOneOwner, FinalStates
  <2>4. \A i \in Instances : Running(i)' => Running(i) /\ ins'[i].sess = ins[i].sess
    <3>1. \/ Running(j) /\ ins' = [ins EXCEPT ![j].pc = "frozen"]
          \/ Running(j) /\ ins' = [ins EXCEPT ![j] = [ins[j] EXCEPT !.pc = "frozen", !.readOnly = TRUE]]
          \/ ins' = [ins EXCEPT ![j] = Off]
      BY <1>8 DEF PrepareStop, ShutdownCheckpoint
    <3>2. /\ [ins[j] EXCEPT !.pc = "frozen"].sess = ins[j].sess
          /\ [ins[j] EXCEPT !.pc = "frozen", !.readOnly = TRUE].sess = ins[j].sess /\ Off.pc = "off"
      BY DEF Instance, Off
    <3> QED
      BY <3>1, <3>2 DEF Running
  <2>5. \A i \in Instances : Beating(i)' => Beating(i)
    BY <2>1, <2>2, <2>4 DEF Beating, HoldsLease, Authorized, FinalStates, LiveStates
  <2> QED
    BY <1>1, <2>1, <2>2, <2>3, <2>5 DEF LeasesLive, Initializing, OwnsInit
<1>9. CASE DurabilityCheckpoint(j)
  <2>1. rec' = rec /\ seen' \subseteq seen /\ ctl' = ctl
    BY <1>9 DEF DurabilityCheckpoint, Bump
  <2>2. \A i \in Instances : /\ Running(i)' => Running(i) /\ ins'[i].sess = ins[i].sess
                             /\ ins'[i].pc = "restoring" => ins'[i] = ins[i]
    BY <1>9 DEF DurabilityCheckpoint, HasEngine, Running, Instance
  <2>3. \A i \in Instances : (Beating(i)' => Beating(i)) /\ (Initializing(i)' => Initializing(i))
    BY <2>1, <2>2 DEF Beating, Initializing, HoldsLease, OwnsInit, Authorized
  <2> QED
    BY <2>1, <2>3, NobodyNew DEF LeasesLive
<1>10. CASE Route(j) \/ MarkErrorLost(j) \/ LoseClaim(j) \/ Finish(j) \/ Exit(j)
            \/ PrepareStopFails(j) \/ Reclaim(j) \/ Die(j)
  <2>1. rec' = rec /\ seen' = seen /\ ctl' = ctl
    BY <1>10 DEF Route, MarkErrorLost, LoseClaim, Finish, Exit, PrepareStopFails, Reclaim, Die
  <2>2. ASSUME NEW i \in Instances
        PROVE  /\ Running(i)' => Running(i) /\ ins'[i].sess = ins[i].sess
               /\ ins'[i].pc = "restoring" => ins[i].pc = "restoring" /\ ins'[i].sess = ins[i].sess
    <3>1. CASE i # j
      BY <1>10, <3>1 DEF Route, MarkErrorLost, LoseClaim, Finish, Exit, PrepareStopFails, Reclaim, Die, Running
    <3>2. CASE i = j /\ (Route(j) \/ MarkErrorLost(j) \/ LoseClaim(j) \/ Exit(j) \/ Reclaim(j) \/ Die(j))
      <4>1. ins'[j].pc \in {"cold", "off", "dying"}
        <5>1. Off.pc = "off" /\ Dying(ins[j]).pc = "dying"
          BY DEF Off, Dying
        <5>2. CASE Route(j) \/ MarkErrorLost(j) \/ LoseClaim(j)
          <6>1. CASE Route(j)
            <7>1. ins'[j] = [pc |-> "cold", sess |-> rec.session, idle |-> -1, open |-> FALSE, readOnly |-> TRUE]
              BY <6>1 DEF Route
            <7> QED
              BY <7>1
          <6>2. CASE MarkErrorLost(j) \/ LoseClaim(j)
            <7>1. ins'[j] = TornDown(ins[j], "cold") /\ ins[j] \in Instance
              BY <6>2 DEF MarkErrorLost, LoseClaim
            <7> QED
              BY <7>1 DEF TornDown, Instance
          <6> QED
            BY <5>2, <6>1, <6>2
        <5>3. CASE Exit(j) \/ Reclaim(j) \/ Die(j)
          BY <5>1, <5>3 DEF Exit, Reclaim, Die
        <5> QED
          BY <3>2, <5>2, <5>3
      <4> QED
        BY <3>2, <4>1 DEF Running
    <3>3. CASE i = j /\ Finish(j)
      BY <3>3 DEF Finish, Running, Instance
    <3>4. CASE i = j /\ PrepareStopFails(j)
      <4>1. Running(j) /\ \/ ins' = [ins EXCEPT ![j].readOnly = TRUE]
                          \/ ins' = [ins EXCEPT ![j] = [ins[j] EXCEPT !.pc = "serving", !.readOnly = TRUE]]
                          \/ ins' = [ins EXCEPT ![j] = [ins[j] EXCEPT !.pc = "frozen", !.readOnly = TRUE]]
        BY <3>4 DEF PrepareStopFails
      <4>2. /\ [ins[j] EXCEPT !.readOnly = TRUE].sess = ins[j].sess
            /\ [ins[j] EXCEPT !.readOnly = TRUE].pc = ins[j].pc
            /\ [ins[j] EXCEPT !.pc = "serving", !.readOnly = TRUE].sess = ins[j].sess
            /\ [ins[j] EXCEPT !.pc = "serving", !.readOnly = TRUE].pc = "serving"
            /\ [ins[j] EXCEPT !.pc = "frozen", !.readOnly = TRUE].sess = ins[j].sess
            /\ [ins[j] EXCEPT !.pc = "frozen", !.readOnly = TRUE].pc = "frozen"
        BY DEF Instance
      <4> QED
        BY <3>4, <4>1, <4>2 DEF Running
    <3> QED
      BY <1>10, <3>1, <3>2, <3>3, <3>4
  <2>3. \A i \in Instances : (Beating(i)' => Beating(i)) /\ (Initializing(i)' => Initializing(i))
    BY <2>1, <2>2 DEF Beating, Initializing, HoldsLease, OwnsInit, Authorized
  <2> QED
    BY <2>1, <2>3, NobodyNew DEF LeasesLive
<1> QED
  BY <1>2, <1>3, <1>4, <1>5, <1>6, <1>7, <1>8, <1>9, <1>10 DEF InstanceStep

\* So does a tick, for which no beat is overdue.
LEMMA LiveTick == ASSUME OnTime, IInv, LeasesLive, Tick PROVE LeasesLive'
<1> USE DEF IInv, TypeOK
<1>1. rec \in Record /\ rec.lease \in Int /\ rec.init \in Int /\ rec' = Aged(rec) /\ seen' = seen /\ ~Due
  BY ConstantsAssumption DEF Record, Timer, Tick
<1>2. /\ rec'.lease = Less(rec.lease) /\ rec'.init = Less(rec.init) /\ rec'.session = rec.session
      /\ rec'.state = rec.state /\ rec'.leaseOwner = rec.leaseOwner /\ rec'.holder = rec.holder
      /\ rec'.initOwner = rec.initOwner
  BY <1>1 DEF Aged, Record
<1>3. \A i \in Instances : ins'[i].pc = ins[i].pc /\ ins'[i].sess = ins[i].sess
  BY DEF Tick, Instance
<1>4. rec'.init > 0 => rec.init > 0
  BY <1>1, <1>2 DEF Less
<1>5. \A i \in Instances : Beating(i)' => Beating(i)
  BY <1>2, <1>3, <1>4 DEF Beating, Running, HoldsLease, Authorized
<1>6. \A i \in Instances : Initializing(i)' => Initializing(i)
  BY <1>2, <1>3, <1>4 DEF Initializing, OwnsInit, Authorized
<1>7. \A i \in Instances : Beating(i) => rec'.lease > 0
  BY <1>1, <1>2 DEF Due, Beating, Less
<1>8. \A i \in Instances : Initializing(i) => rec'.init > 0
  BY <1>1, <1>2 DEF Due, Initializing, Less
<1>9. \A c \in Requests : ctl'[c].pc = ctl[c].pc
  BY DEF Tick, Request
<1>10. \A c \in seen : ctl[c].pc = "put" => rec'.lease <= 0 /\ rec'.init <= 0
  BY <1>1, <1>2 DEF LeasesLive, Less
<1> QED
  BY <1>1, <1>5, <1>6, <1>7, <1>8, <1>9, <1>10 DEF LeasesLive

LEMMA LiveNext == ASSUME OnTime PROVE IInv /\ LeasesLive /\ [Next]_vars => LeasesLive'
<1> SUFFICES ASSUME IInv, LeasesLive, [Next]_vars PROVE LeasesLive'
  OBVIOUS
<1>1. CASE RequestDeletion \/ LoseReceipt \/ UNCHANGED vars
  <2>1. rec' = rec /\ seen' \subseteq seen /\ ctl' = ctl /\ ins' = ins
    BY <1>1 DEF RequestDeletion, Bump, LoseReceipt, vars
  <2>2. \A i \in Instances : Beating(i)' = Beating(i) /\ Initializing(i)' = Initializing(i)
    BY <2>1 DEF Beating, Initializing, Running, HoldsLease, OwnsInit, Authorized
  <2> QED
    BY <2>1, <2>2, NobodyNew DEF LeasesLive
<1> QED
  BY <1>1, LiveRequest, LiveInstance, LiveTick DEF Next

\* The session moves only under a dead start lease, and a live claim is ended
\* only by its own container.
LEMMA LeaseStep ==
    ASSUME IInv, LeasesLive, [Next]_vars
    PROVE  /\ rec'.session # rec.session => rec.lease <= 0
           /\ rec.initOwner # None /\ rec.init > 0 /\ rec'.initOwner # rec.initOwner
                => ins[rec.initOwner].pc = "restoring" /\ ins'[rec.initOwner].pc # "restoring"
<1> USE DEF IInv, TypeOK
<1>1. rec \in Record /\ rec.lease \in Int /\ rec.init \in Int
  BY ConstantsAssumption DEF Record, Timer
<1>2. ASSUME NEW c \in Requests, RequestStep(c)
      PROVE  \/ rec.lease <= 0 /\ rec.init <= 0
             \/ rec'.session = rec.session /\ (rec.initOwner # None => rec'.initOwner = rec.initOwner)
  <2>1. CASE StartPut(c)
    BY <2>1 DEF StartPut, LeasesLive
  <2>2. CASE StopPut(c)
    <3>1. rec.initOwner = None
      BY <2>2 DEF StopPut, RestoringHasOneOwner
    <3> QED
      BY <1>1, <2>2, <3>1 DEF StopPut, Bump, Stopped, Record
  <2>3. CASE StartBegin(c) \/ StartRead(c) \/ StopBegin(c) \/ StopRuntime(c)
             \/ StopRuntimeRejected(c) \/ StopRuntimeThrottled(c) \/ PutConflict(c)
    BY <2>3 DEF StartBegin, StartRead, StopBegin, StopRuntime, StopRuntimeRejected,
       StopRuntimeThrottled, PutConflict
  <2> QED
    BY <1>2, <2>1, <2>2, <2>3 DEF RequestStep
<1>3. ASSUME NEW j \in Instances, InstanceStep(j)
      PROVE  /\ rec'.session = rec.session
             /\ \/ rec'.initOwner = rec.initOwner
                \/ rec.initOwner = None \/ rec.init < 0
                \/ rec.initOwner = j /\ ins[j].pc = "restoring" /\ ins'[j].pc # "restoring"
  <2>1. rec'.session = rec.session
    BY <1>3, HolderMoves
  <2>2. CASE Claim(j)
    <3>1. rec'.initOwner = j
      BY <1>1, <2>2 DEF Claim, Bump, Record
    <3> QED
      BY <2>1, <2>2, <3>1 DEF Claim, Claimable, InitClaimable
  <2>3. CASE MarkReady(j) \/ MarkError(j)
    BY <2>1, <2>3 DEF MarkReady, MarkError, TornDown, OwnsInit, Instance
  <2>4. CASE HeartbeatInit(j)
    BY <1>1, <2>1, <2>4 DEF HeartbeatInit, Touch, Record
  <2>5. CASE HeartbeatLease(j)
    <3>1. rec' = [rec EXCEPT !.lease = LeaseTTL, !.idle = ins[j].idle]
      BY <2>5 DEF HeartbeatLease, Touch
    <3> QED
      BY <1>1, <2>1, <3>1 DEF Record
  <2>6. CASE Invoke(j) \/ PrepareStop(j) \/ ShutdownCheckpoint(j) \/ DurabilityCheckpoint(j)
    <3>1. rec' \in {rec, [rec EXCEPT !.state = "READY", !.grace = -1], [rec EXCEPT !.state = "STOPPING"]}
      BY <2>6 DEF Invoke, PrepareStop, ShutdownCheckpoint, DurabilityCheckpoint, Bump
    <3> QED
      BY <1>1, <2>1, <3>1 DEF Record
  <2>7. CASE Route(j) \/ MarkErrorLost(j) \/ LoseClaim(j) \/ Finish(j) \/ Exit(j)
             \/ PrepareStopFails(j) \/ Reclaim(j) \/ Die(j)
    BY <2>1, <2>7 DEF Route, MarkErrorLost, LoseClaim, Finish, Exit, PrepareStopFails, Reclaim, Die
  <2> QED
    BY <1>3, <2>2, <2>3, <2>4, <2>5, <2>6, <2>7 DEF InstanceStep
<1>4. CASE Tick
  BY <1>1, <1>4 DEF Tick, Aged, Record
<1>5. CASE LoseReceipt \/ RequestDeletion \/ UNCHANGED vars
  BY <1>5 DEF LoseReceipt, RequestDeletion, Bump, vars
<1> QED
  BY <1>1, <1>2, <1>3, <1>4, <1>5 DEF Next

\* While beats are on time, a live lease protects its owner from everybody
\* else: no start rotates the session away from it (acquire_start), and no other
\* container or start takes its initialization (_acquire_init).
THEOREM LeasesProtect == ASSUME OnTime PROVE Spec => LiveLeasesProtect
<1>1. Init => LeasesLive
  BY DEF Init, LeasesLive, Beating, Initializing, Running, Off
<1>2. IInv /\ LeasesLive /\ [Next]_vars => LeasesLive'
  BY LiveNext
<1>3. IInv /\ LeasesLive /\ [Next]_vars =>
        [/\ rec'.session # rec.session => rec.lease <= 0
         /\ rec.initOwner # None /\ rec.init > 0 /\ rec'.initOwner # rec.initOwner
               => ins[rec.initOwner].pc = "restoring" /\ ins'[rec.initOwner].pc # "restoring"]_vars
  BY LeaseStep
<1> QED
  BY <1>1, <1>2, <1>3, Invariance, PTL DEF Spec, LiveLeasesProtect
===========================================================================

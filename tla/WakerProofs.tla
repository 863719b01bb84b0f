---------------------------- MODULE WakerProofs ----------------------------
(***************************************************************************)
(* Proofs about Waker for any number of legs, any period, lead, lease and  *)
(* restore lengths and any number of disturbances: its types, that a       *)
(* catch-up repeats a run only by losing a race, that a leg cuts off work  *)
(* only unseen, and that an undisturbed cycle drops an occurrence only     *)
(* where a stop is in its way.                                             *)
(***************************************************************************)
EXTENDS Waker, TLAPS

USE DEF history

---------------------------------------------------------------------------
(* What holds under any disturbance.                                       *)

\* A due time that is not saturated is that of the next occurrence, or of one
\* no later than the latest.
OnSchedule(d) == d \in {None, Never} \/ d + since <= 0 \/ d + since = Period

DuesOnSchedule ==
    OnSchedule(rec.due) /\ OnSchedule(box.pub) /\ \A c \in Clients : OnSchedule(cli[c].due)

\* The record says what the container does, and a container's lease is live.
RecordFollowsBox ==
    /\ box.pc = "restoring" => rec.state = "RESTORING" /\ rec.init > 0 /\ box.work = "none"
    /\ box.pc \in {"up", "closing"} => rec.state = "READY" /\ rec.lease > 0
    /\ box.pc = "frozen" => rec.state \in {"READY", "STOPPING"} /\ rec.lease > 0
    /\ rec.state # "RESTORING" => rec.init = 0
    /\ rec.state = "STOPPED" => rec.lease = 0

\* Nobody has got past a request to a session that is still being provisioned.
StartingIsEarly ==
    rec.state = "STARTING" => \A c \in Clients : cli[c].own => cli[c].pc \in {"queued", "invoke"}

\* Relays go back to the hold, not to the dwell.
Walks(m) ==
    /\ m.pc \in {"idle", "dwell", "run"} => m.relay = 0
    /\ m.pc \in {"idle", "queued", "invoke", "dwell", "run"} => m.quiet = 0
    /\ m.pc = "run" => m.due \in Int
    /\ m.pc = "idle" => ~m.own

FirstLegsDwell == \A c \in Clients : Walks(cli[c])

\* An occurrence that nothing has run is newer than the last run of either tree.
UnrunIsNewer == owed # None => owed < job.live /\ owed < job.saved

BaseInv ==
    /\ TypeOK /\ DuesOnSchedule /\ RecordFollowsBox /\ StartingIsEarly /\ FirstLegsDwell
    /\ UnrunIsNewer

---------------------------------------------------------------------------
(* Work is not cut off.                                                    *)

\* A leg whose last probe saw the gateway idle finds it idle or at a turn too
\* young to have reached its pause.
QuietLeg(l) ==
    cli[l].quiet = 1 /\ Answers(l) /\ l \notin blind =>
        /\ cli[l].pc = "polled" => box.work \in {"none", "gap", "young"}
        /\ cli[l].pc = "hold" => box.work \in {"none", "young", "mid"}

QuietIsYoung == \A l \in Legs : QuietLeg(l)

---------------------------------------------------------------------------
(* Catch-up.                                                               *)

\* The tree last saved has run the job no later than the one being served.
SavedIsOlder == job.saved >= job.live

\* While a leg is about to post and no run has overtaken its reading, the job
\* has not run since it was last due.
PostsAreDue == \A l \in Posting \ raced : job.live > since

CatchUpInv == BaseInv /\ SavedIsOlder /\ PostsAreDue

---------------------------------------------------------------------------
(* An undisturbed cycle.                                                   *)

\* A cold start and its dwell are over before a late run is unwanted.
CycleFits == \A r \in RestoreTicks : r + DwellTicks <= Grace

\* An occurrence is owed that no stop was in the way of.
Owes == owed # None /\ ~cut

\* A due time as planned: of the next occurrence, or of the oldest unrun one.
Planned(d) ==
    cut \/ (d \in Int /\ IF owed = None THEN d = Period - since ELSE d <= 0 /\ -d <= owed)

\* A running gateway owes an occurrence only in its very minute.
FiresNow == Owes => owed = 0 /\ since = 0

AtRest ==
    /\ box.pc = "off" /\ rec.state = "STOPPED" /\ Planned(rec.due)
    /\ Owes => owed = 0 /\ rec.age > 0

UpFor == box.pc = "up" /\ box.door = "waker"

\* The catch-up will see what a running gateway owes.
WillCatchUp(l, left) ==
    /\ left <= Grace
    /\ Owes => /\ owed + left <= Grace
               /\ (owed = 0 /\ since = 0) \/ Planned(cli[l].due)

\* Where a leg is in an undisturbed cycle, with what it relies on there.
Queued(l) == cli[l].pc = "queued" /\ cli[l].relay = 0 /\ AtRest /\ rung /\ Wake(rec)

Invokes(l) == cli[l].pc = "invoke" /\ cli[l].relay = 0 /\ cli[l].own

Provisions(l) ==
    /\ Invokes(l) /\ Planned(cli[l].due) /\ (Owes => owed = 0)
    /\ box.pc = "off" /\ rec.state = "STARTING" /\ rec.lease > 0

Restores(l) ==
    /\ Invokes(l) /\ Planned(cli[l].due)
    /\ box.pc = "restoring" /\ box.door = "waker" /\ box.left + DwellTicks <= Grace
    /\ Owes => owed + box.left + DwellTicks <= Grace

Reaches(l) == Invokes(l) /\ UpFor /\ WillCatchUp(l, DwellTicks)

Dwells(l) == cli[l].pc = "dwell" /\ cli[l].own /\ UpFor /\ WillCatchUp(l, cli[l].left)

Posts(l) == cli[l].pc = "run" /\ cli[l].own /\ UpFor /\ (Owes => owed <= Grace)

Relays(l) ==
    /\ cli[l].pc \in {"queued", "invoke"} /\ cli[l].relay > 0
    /\ cli[l].own /\ UpFor /\ FiresNow

Holds(l) == cli[l].pc \in {"hold", "polled", "commit"} /\ cli[l].own /\ UpFor /\ FiresNow

\* A stop that no occurrence has come in the way of yet.
Closes(l) ==
    /\ cli[l].pc = "closing" /\ cli[l].own
    /\ box.pc = "closing" /\ box.door = "waker"
    /\ cut \/ (owed = None /\ box.pub = Period - since)

Finishes(l) ==
    /\ cli[l].pc = "finish" /\ cli[l].own
    /\ box.pc = "frozen" /\ box.door = "waker" /\ rec.state = "STOPPING"
    /\ cut \/ (owed = None /\ rec.due = Period - since)

\* Between two legs the sandbox is stopped with its next occurrence planned; one
\* that is due now is still to be rung for.
Waits(l) == cli[l].pc = "idle" /\ AtRest /\ (Owes => ~rung)

Stage(l) ==
    \/ Waits(l) \/ Queued(l) \/ Provisions(l) \/ Restores(l) \/ Reaches(l) \/ Dwells(l)
    \/ Posts(l) \/ Relays(l) \/ Holds(l) \/ Closes(l) \/ Finishes(l)

\* One leg at a time.
Solo(l) == Stage(l) /\ \A x \in Clients \ {l} : cli[x].pc = "idle"

Cycle == \E l \in Legs : Solo(l)

CycleInv == BaseInv /\ (faults = 0 => Cycle)

---------------------------------------------------------------------------
(* Constants and helpers.                                                  *)

\* The constants, as the proofs use them.
LEMMA Constants ==
    /\ User \notin Legs /\ Legs # {} /\ User \in Clients /\ Legs \subseteq Clients
    /\ None \notin Int /\ Never \notin Int /\ None # Never
    /\ LeaseTTL \in Nat /\ LeaseTTL > 0 /\ StartGrace \in Nat /\ Legacy \in Nat /\ Legacy > 0
    /\ Period \in Nat /\ Period > 1 /\ Horizon \in Nat
    /\ Horizon > Period /\ Horizon > Grace /\ Horizon > Legacy
    /\ Pad \in Nat /\ MinLead \in Nat /\ MaxLead \in Nat /\ DefaultLead \in Nat
    /\ Grace \in Nat /\ DwellTicks \in Nat /\ Budget \in Nat /\ MaxRelays \in Nat
    /\ CommitTicks \subseteq Nat /\ MaxFaults \in Nat
    /\ RestoreTicks \subseteq Nat
BY ConstantsAssumption DEF Clients

\* A minute earlier is still a due time.
LEMMA EarlierType ==
    ASSUME NEW d \in Dues
    PROVE  /\ Earlier(d) \in Dues
           /\ d \in {None, Never} => Earlier(d) = d
           /\ d \notin {None, Never} =>
                 d \in Int /\ Earlier(d) \in Int /\ Earlier(d) \in {d - 1, -Horizon}
                 /\ Earlier(d) >= d - 1 /\ d >= -Horizon /\ (d > -Horizon => Earlier(d) = d - 1)
BY Constants DEF Earlier, Dues, Max

\* What a gateway publishes.
LEMMA NextDueType ==
    ASSUME since \in 0 .. Period - 1
    PROVE  /\ NextDue \in Dues
           /\ ~FireDue => NextDue = Period - since
           /\ FireDue => NextDue = Never
BY Constants DEF NextDue, Dues

\* An absent due time and "never" are due times.
LEMMA DuesMarkers == None \in Dues /\ Never \in Dues
BY DEF Dues

---------------------------------------------------------------------------
(* Types.                                                                  *)

\* A client whose run is over.
LEMMA GoneType == Gone \in Client
BY Constants, DuesMarkers DEF Gone, Client

\* The types hold at first.
LEMMA InitType == Init => TypeOK
<1> SUFFICES ASSUME Init PROVE TypeOK
  OBVIOUS
<1>1. Period - 1 \in Dues /\ None \in Dues
  BY Constants DEF Dues
<1>2. rec \in Record /\ box \in Box /\ cli \in [Clients -> Client]
  BY <1>1, Constants, GoneType DEF Init, Record, Box
<1>3. job \in [live : 0 .. Horizon + 1, saved : 0 .. Horizon + 1] /\ since \in 0 .. Period - 1
  BY Constants DEF Init
<1>4. faults \in 0 .. MaxFaults
  BY Constants DEF Init
<1> QED
  BY <1>2, <1>3, <1>4 DEF Init, TypeOK

\* A disturbance is counted.
LEMMA FaultType == ASSUME TypeOK, NEW k, Fault(k) PROVE faults' \in 0 .. MaxFaults /\ faults' > 0
BY Constants DEF Fault, TypeOK

States == {"STOPPED", "STARTING", "RESTORING", "READY", "STOPPING", "ERROR"}

\* The edits that the steps make of the record.
LEMMA RecordEdits ==
    ASSUME NEW r \in Record, NEW s \in States, NEW n \in 0 .. LeaseTTL, NEW i \in 0 .. LeaseTTL
    PROVE  /\ [r EXCEPT !.state = s, !.init = n, !.age = 0] \in Record
           /\ [r EXCEPT !.state = s, !.lease = n, !.age = 0] \in Record
           /\ [r EXCEPT !.state = s, !.lease = n, !.init = i, !.age = 0] \in Record
           /\ \A d \in Dues, t \in RestoreTicks :
                 [r EXCEPT !.state = s, !.age = 0, !.restore = t, !.due = d] \in Record
           /\ \A d \in Dues, a \in 0 .. Legacy :
                 [r EXCEPT !.due = d, !.age = a, !.lease = n, !.init = i] \in Record
<1> DEFINE Ticks == 0 .. LeaseTTL
           Ages == 0 .. Legacy
           RestoreTimes == RestoreTicks \cup {None}
<1>0. 0 \in Ages /\ RestoreTicks \subseteq RestoreTimes
  BY Constants
<1>1. Record = [state : States, lease : Ticks, init : Ticks, age : Ages, due : Dues,
                restore : RestoreTimes]
  BY DEF Record, States
<1>2. n \in Ticks /\ i \in Ticks
  OBVIOUS
<1> HIDE DEF Ticks, Ages, RestoreTimes
<1>3. [r EXCEPT !.state = s, !.init = n, !.age = 0] \in Record
  BY <1>0, <1>1, <1>2
<1>4. [r EXCEPT !.state = s, !.lease = n, !.age = 0] \in Record
  BY <1>0, <1>1, <1>2
<1>5. [r EXCEPT !.state = s, !.lease = n, !.init = i, !.age = 0] \in Record
  BY <1>0, <1>1, <1>2
<1>6. \A d \in Dues, t \in RestoreTicks :
         [r EXCEPT !.state = s, !.age = 0, !.restore = t, !.due = d] \in Record
  BY <1>0, <1>1, <1>2
<1>7. \A d \in Dues, a \in Ages : [r EXCEPT !.due = d, !.age = a, !.lease = n, !.init = i] \in Record
  BY <1>0, <1>1, <1>2
<1> QED
  BY <1>3, <1>4, <1>5, <1>6, <1>7 DEF Ages

\* A record has its fields.
LEMMA RecordFields ==
    ASSUME NEW r \in Record
    PROVE  /\ r.state \in States /\ r.lease \in Nat /\ r.init \in Nat /\ r.age \in Nat
           /\ r.lease \in 0 .. LeaseTTL /\ r.init \in 0 .. LeaseTTL /\ r.age \in 0 .. Legacy
           /\ r.due \in Dues /\ r.restore \in RestoreTicks \cup {None}
BY Constants DEF Record, States

\* A receipt keeps the record's type.
LEMMA ReceiptType ==
    ASSUME TypeOK, NEW b \in Box, NEW s \in {"READY", "STOPPING"}
    PROVE  /\ Receipt(b, s) \in Record
           /\ Receipt(b, s).state = s /\ Receipt(b, s).age = 0
           /\ Receipt(b, s).lease = rec.lease /\ Receipt(b, s).init = rec.init
           /\ Receipt(b, s).due = IF b.pub = None THEN rec.due ELSE b.pub
<1>1. rec \in Record /\ rec.due \in Dues /\ b.pub \in Dues /\ b.took \in RestoreTicks
      /\ s \in States /\ 0 \in 0 .. LeaseTTL
  BY Constants, RecordFields DEF TypeOK, Box, States
<1>2. Receipt(b, s) \in Record
  BY <1>1, RecordEdits DEF Receipt
<1> QED
  BY <1>1, <1>2 DEF Receipt, Record

\* The container's steps keep the types.
LEMMA ContainerType ==
    ASSUME TypeOK, Restored \/ RestoreFails \/ Fire \/ WorkMoves \/ Checkpoint \/ Reclaim
    PROVE  TypeOK'
<1>0. 0 \in 0 .. LeaseTTL /\ LeaseTTL \in 0 .. LeaseTTL /\ rec \in Record
  BY Constants DEF TypeOK
<1>1. CASE Restored
  <2>1. rec' \in Record
    BY <1>0, <1>1, RecordEdits DEF Restored, States
  <2> QED
    BY <1>1, <2>1, Constants DEF Restored, TypeOK, Box
<1>2. CASE RestoreFails
  <2>1. rec' \in Record
    BY <1>0, <1>2, RecordEdits DEF RestoreFails, States
  <2> QED
    BY <1>2, <2>1, Constants, FaultType DEF RestoreFails, TypeOK, Box
<1>3. CASE Fire
  <2>1. raced' \subseteq Legs /\ cut' \in BOOLEAN /\ blind' \subseteq Legs
    BY <1>3 DEF Fire, JobRuns, Posting, TypeOK
  <2>2. box' \in Box /\ job' \in [live : 0 .. Horizon + 1, saved : 0 .. Horizon + 1] /\ owed' = None
    BY <1>3, Constants DEF Fire, JobRuns, TypeOK, Box
  <2> QED
    BY <1>3, <2>1, <2>2 DEF Fire, TypeOK
<1>4. CASE WorkMoves
  BY <1>4 DEF WorkMoves, TypeOK, Box
<1>5. CASE Checkpoint
  <2>1. box' \in Box /\ faults' \in 0 .. MaxFaults
    BY <1>5, FaultType, NextDueType DEF Checkpoint, Published, TypeOK, Box
  <2>2. rec' \in Record
    BY <1>5, <2>1, ReceiptType DEF Checkpoint
  <2> QED
    BY <1>5, <2>1, <2>2 DEF Checkpoint, TypeOK
<1>6. CASE Reclaim
  <2>1. box' \in Box /\ faults' \in 0 .. MaxFaults
    BY <1>6, FaultType DEF Reclaim, TypeOK, Box
  <2>2. [box EXCEPT !.pub = NextDue] \in Box
    BY NextDueType DEF TypeOK, Box
  <2>3. rec' \in Record /\ job' \in [live : 0 .. Horizon + 1, saved : 0 .. Horizon + 1]
    BY <1>6, <2>2, ReceiptType DEF Reclaim, TypeOK
  <2> QED
    BY <1>6, <2>1, <2>3 DEF Reclaim, TypeOK
<1> QED
  BY <1>1, <1>2, <1>3, <1>4, <1>5, <1>6

\* A start of client c, into what it makes of the record and of each client.
LEMMA StartDoes ==
    ASSUME TypeOK, NEW c \in Clients, NEW d \in Dues, AcquireStart(c, d)
    PROVE  /\ rec' \in Record /\ cli' \in [Clients -> Client]
           /\ cli'[c] = [cli[c] EXCEPT !.pc = "invoke", !.own = TRUE, !.due = d]
           /\ \/ /\ MayRotate
                 /\ rec' = [rec EXCEPT !.state = "STARTING", !.lease = LeaseTTL, !.age = 0]
                 /\ \A x \in Clients \ {c} : cli'[x] = [cli[x] EXCEPT !.own = FALSE]
              \/ /\ ~MayRotate /\ rec' = rec
                 /\ \A x \in Clients \ {c} : cli'[x] = cli[x]
<1> DEFINE self == [cli[c] EXCEPT !.pc = "invoke", !.own = TRUE, !.due = d]
<1>1. self \in Client
  BY DEF TypeOK, Client
<1>2. CASE MayRotate
  <2>1. /\ rec' = [rec EXCEPT !.state = "STARTING", !.lease = LeaseTTL, !.age = 0]
        /\ cli' = [x \in Clients |-> IF x = c THEN self ELSE [cli[x] EXCEPT !.own = FALSE]]
    BY <1>2 DEF AcquireStart
  <2>2. rec' \in Record
    <3>1. 0 \in 0 .. LeaseTTL /\ LeaseTTL \in 0 .. LeaseTTL /\ rec \in Record
      BY Constants DEF TypeOK
    <3> QED
      BY <2>1, <3>1, RecordEdits DEF States
  <2>3. \A x \in Clients : [cli[x] EXCEPT !.own = FALSE] \in Client
    BY DEF TypeOK, Client
  <2> HIDE DEF self
  <2>4. cli' \in [Clients -> Client] /\ cli'[c] = self
        /\ \A x \in Clients \ {c} : cli'[x] = [cli[x] EXCEPT !.own = FALSE]
    BY <1>1, <2>1, <2>3
  <2> QED
    BY <1>2, <2>1, <2>2, <2>4 DEF self
<1>3. CASE ~MayRotate
  <2>1. rec' = rec /\ cli' = [cli EXCEPT ![c] = self]
    BY <1>3 DEF AcquireStart
  <2> HIDE DEF self
  <2>2. cli' \in [Clients -> Client] /\ cli'[c] = self
        /\ \A x \in Clients \ {c} : cli'[x] = cli[x]
    BY <1>1, <2>1 DEF TypeOK
  <2> QED
    BY <1>3, <2>1, <2>2 DEF self, TypeOK
<1> QED
  BY <1>2, <1>3

Places == {"idle", "queued", "invoke", "dwell", "run", "hold", "polled", "use", "commit",
           "closing", "finish"}

\* The edits that the steps make of a client.
LEMMA ClientEdits ==
    ASSUME NEW m \in Client, NEW p \in Places, NEW n \in Nat, NEW q \in 0 .. 1
    PROVE  /\ [m EXCEPT !.pc = p, !.left = n] \in Client
           /\ [m EXCEPT !.pc = p, !.left = n, !.quiet = q] \in Client
           /\ m.relay < MaxRelays =>
                 [m EXCEPT !.pc = p, !.relay = m.relay + 1, !.quiet = q] \in Client
           /\ \A d \in Dues : [m EXCEPT !.due = d, !.pc = p, !.left = n] \in Client
<1> DEFINE RelayCounts == 0 .. MaxRelays
           Quiets == 0 .. 1
<1>1. Client = [pc : Places, own : BOOLEAN, relay : RelayCounts, left : Nat, quiet : Quiets, due : Dues]
  BY DEF Client, Places
<1>2. q \in Quiets /\ m.relay \in RelayCounts
  BY <1>1
<1>3. m.relay < MaxRelays => m.relay + 1 \in RelayCounts
  BY <1>2, Constants
<1> HIDE DEF RelayCounts, Quiets
<1> QED
  BY <1>1, <1>2, <1>3

\* A client has its fields.
LEMMA ClientFields ==
    ASSUME NEW m \in Client
    PROVE  /\ m.pc \in Places /\ m.own \in BOOLEAN /\ m.relay \in Nat /\ m.relay <= MaxRelays
           /\ m.left \in Nat /\ m.quiet \in {0, 1} /\ m.due \in Dues
BY Constants DEF Client, Places

\* A step that makes m of client c and leaves the other clients alone.
Edited(c, m) ==
    cli' \in [Clients -> Client] /\ cli'[c] = m /\ \A x \in Clients \ {c} : cli'[x] = cli[x]

\* How a leg moves: to its hold, to a relay, on from a poll.
LEMMA HoldDoes ==
    ASSUME TypeOK, NEW l \in Clients, Hold(l)
    PROVE  Edited(l, [cli[l] EXCEPT !.pc = "hold", !.left = Budget])
<1>1. cli[l] \in Client /\ cli \in [Clients -> Client]
  BY DEF TypeOK
<1>2. [cli[l] EXCEPT !.pc = "hold", !.left = Budget] \in Client
  <2>1. "hold" \in Places /\ Budget \in Nat /\ 0 \in 0 .. 1
    BY Constants DEF Places
  <2> QED
    BY <1>1, <2>1, ClientEdits
<1> QED
  BY <1>1, <1>2 DEF Hold, Edited

LEMMA GotoDoes ==
    ASSUME TypeOK, NEW c \in Clients, NEW p \in Places, Goto(c, p)
    PROVE  Edited(c, [cli[c] EXCEPT !.pc = p])
BY DEF TypeOK, Client, Goto, Places, Edited

LEMMA LeaveDoes ==
    ASSUME TypeOK, NEW c \in Clients, Leave(c)
    PROVE  Edited(c, Gone)
BY GoneType DEF TypeOK, Leave, Edited

\* A probe: the leg goes to stop the sandbox, relays, or polls again.
LEMMA ProbedDoes ==
    ASSUME TypeOK, NEW l \in Clients, NEW busy \in BOOLEAN, Probed(l, busy)
    PROVE  \/ ~busy /\ cli[l].quiet = 1 /\ Edited(l, [cli[l] EXCEPT !.pc = "commit"])
           \/ /\ cli[l].left = 0 /\ cli[l].relay = MaxRelays
              /\ Edited(l, [cli[l] EXCEPT !.pc = "commit"])
           \/ /\ cli[l].left = 0 /\ cli[l].relay < MaxRelays
              /\ Edited(l, [cli[l] EXCEPT !.pc = "queued", !.relay = cli[l].relay + 1, !.quiet = 0])
           \/ /\ cli[l].left > 0
              /\ Edited(l, [cli[l] EXCEPT !.pc = "polled", !.left = cli[l].left - 1,
                                          !.quiet = IF busy THEN 0 ELSE 1])
<1>0. {"queued", "polled"} \subseteq Places /\ 0 \in 0 .. 1 /\ 1 \in 0 .. 1 /\ 0 \in Nat
  BY DEF Places
<1>1. cli[l] \in Client /\ cli \in [Clients -> Client]
  BY DEF TypeOK
<1>2. cli[l].relay \in Nat /\ cli[l].relay <= MaxRelays /\ cli[l].left \in Nat
      /\ cli[l].quiet \in {0, 1} /\ MaxRelays \in Nat
  BY <1>1, ClientFields, Constants
<1>3. CASE ~busy /\ QuietEnough(cli[l].quiet)
  <2>1. Goto(l, "commit") /\ cli[l].quiet = 1
    BY <1>2, <1>3 DEF Probed, QuietEnough
  <2> QED
    BY <1>3, <2>1, GotoDoes DEF Places
<1>4. CASE ~(~busy /\ QuietEnough(cli[l].quiet)) /\ cli[l].left = 0
  <2>1. Deadline(l)
    BY <1>4 DEF Probed
  <2>2. CASE cli[l].relay < MaxRelays
    <3>1. [cli[l] EXCEPT !.pc = "queued", !.relay = cli[l].relay + 1, !.quiet = 0] \in Client
      BY <1>0, <1>1, <2>2, ClientEdits
    <3>2. cli' = [cli EXCEPT ![l] =
                    [cli[l] EXCEPT !.pc = "queued", !.relay = cli[l].relay + 1, !.quiet = 0]]
      BY <1>1, <2>1, <2>2 DEF Deadline, Relay
    <3> QED
      BY <1>1, <1>4, <2>2, <3>1, <3>2 DEF Edited
  <2>3. CASE ~(cli[l].relay < MaxRelays)
    <3>1. Goto(l, "commit") /\ cli[l].relay = MaxRelays
      BY <1>2, <2>1, <2>3 DEF Deadline
    <3> QED
      BY <1>4, <3>1, GotoDoes DEF Places
  <2> QED
    BY <2>2, <2>3
<1>5. CASE ~(~busy /\ QuietEnough(cli[l].quiet)) /\ cli[l].left # 0
  <2> DEFINE new == [cli[l] EXCEPT !.pc = "polled", !.left = cli[l].left - 1,
                                   !.quiet = IF busy THEN 0 ELSE 1]
  <2>1. cli[l].left > 0 /\ cli[l].left - 1 \in Nat
    BY <1>2, <1>5
  <2>2. new \in Client
    BY <1>0, <1>1, <2>1, ClientEdits
  <2>3. cli' = [cli EXCEPT ![l] = new]
    BY <1>1, <1>5 DEF Probed
  <2> HIDE DEF new
  <2>4. Edited(l, new)
    BY <1>1, <2>2, <2>3 DEF Edited
  <2> QED
    BY <2>1, <2>4 DEF new
<1> QED
  BY <1>3, <1>4, <1>5

\* What each step of a leg makes of it; the steps that start a session are in
\* StartDoes.
LEMMA LegDoes ==
    ASSUME TypeOK, NEW l \in Legs
    PROVE  /\ NotDue(l) => Edited(l, Gone)
           /\ StartRefused(l) => Edited(l, Gone) \/ cli' = cli
           /\ InvokeRaises(l) => Edited(l, Gone) \/ Edited(l, [cli[l] EXCEPT !.pc = "queued"])
           /\ CatchUp(l) => \/ Edited(l, [cli[l] EXCEPT !.pc = "run"])
                            \/ Edited(l, [cli[l] EXCEPT !.pc = "hold", !.left = Budget])
           /\ RunJob(l) => Edited(l, [cli[l] EXCEPT !.pc = "hold", !.left = Budget])
<1> USE Constants
<1>1. NotDue(l) => Edited(l, Gone)
  BY LeaveDoes DEF NotDue
<1>2. StartRefused(l) => Edited(l, Gone) \/ cli' = cli
  BY LeaveDoes DEF StartRefused
<1>3. InvokeRaises(l) => Edited(l, Gone) \/ Edited(l, [cli[l] EXCEPT !.pc = "queued"])
  BY LeaveDoes, GotoDoes DEF InvokeRaises, Places
<1>4. CatchUp(l) => \/ Edited(l, [cli[l] EXCEPT !.pc = "run"])
                    \/ Edited(l, [cli[l] EXCEPT !.pc = "hold", !.left = Budget])
  BY HoldDoes, GotoDoes DEF CatchUp, Places
<1>5. RunJob(l) => Edited(l, [cli[l] EXCEPT !.pc = "hold", !.left = Budget])
  BY HoldDoes DEF RunJob
<1> QED
  BY <1>1, <1>2, <1>3, <1>4, <1>5

\* The first answer takes a client to its use of the sandbox.
LEMMA InvokeDoes ==
    ASSUME TypeOK, NEW c \in Clients, Invoke(c)
    PROVE  \/ c = User /\ Edited(c, [cli[c] EXCEPT !.pc = "use"])
           \/ /\ c \in Legs /\ cli[c].relay = 0
              /\ Edited(c, [cli[c] EXCEPT !.pc = "dwell", !.left = DwellTicks])
           \/ /\ c \in Legs /\ cli[c].relay > 0
              /\ Edited(c, [cli[c] EXCEPT !.pc = "hold", !.left = Budget])
<1>0. cli[c] \in Client /\ cli \in [Clients -> Client]
  BY DEF TypeOK
<1>1. cli[c].relay \in Nat /\ (c # User => c \in Legs)
  BY <1>0, ClientFields DEF Clients
<1>2. {"use", "dwell", "hold"} \subseteq Places /\ Budget \in Nat /\ DwellTicks \in Nat
      /\ 0 \in 0 .. 1 /\ cli[c].left \in Nat
  BY <1>0, Constants, ClientFields DEF Places
<1>3. CASE c = User
  <2>1. cli' = [cli EXCEPT ![c] = [cli[c] EXCEPT !.pc = "use"]]
    BY <1>3 DEF Invoke
  <2>2. [cli[c] EXCEPT !.pc = "use"] \in Client
    BY <1>0 DEF Client
  <2> QED
    BY <1>0, <1>3, <2>1, <2>2 DEF Edited
<1>4. CASE c # User /\ cli[c].relay = 0
  <2>1. cli' = [cli EXCEPT ![c] = [cli[c] EXCEPT !.pc = "dwell", !.left = DwellTicks]]
    BY <1>4 DEF Invoke
  <2>2. [cli[c] EXCEPT !.pc = "dwell", !.left = DwellTicks] \in Client
    BY <1>0, <1>2, ClientEdits
  <2> QED
    BY <1>0, <1>1, <1>4, <2>1, <2>2 DEF Edited
<1>5. CASE c # User /\ cli[c].relay # 0
  <2>1. cli' = [cli EXCEPT ![c] = [cli[c] EXCEPT !.pc = "hold", !.left = Budget]]
    BY <1>5 DEF Invoke
  <2>2. [cli[c] EXCEPT !.pc = "hold", !.left = Budget] \in Client
    BY <1>0, <1>2, ClientEdits
  <2> QED
    BY <1>0, <1>1, <1>5, <2>1, <2>2 DEF Edited
<1> QED
  BY <1>3, <1>4, <1>5

\* What the steps of any client make of it.
LEMMA ClientDoes ==
    ASSUME TypeOK, NEW c \in Clients
    PROVE  /\ AlreadyAwake(c) => Edited(c, Gone)
           /\ PrepareStop(c) => Edited(c, [cli[c] EXCEPT !.pc = "closing"])
           /\ Committed(c) => Edited(c, [cli[c] EXCEPT !.pc = "finish"])
           /\ Uncommitted(c) => Edited(c, Gone)
           /\ FinishStop(c) => Edited(c, Gone)
           /\ UserDone => Edited(User, Gone) \/ Edited(User, [cli[User] EXCEPT !.pc = "commit"])
<1> USE Constants
<1>1. AlreadyAwake(c) => Edited(c, Gone)
  BY LeaveDoes DEF AlreadyAwake
<1>2. PrepareStop(c) => Edited(c, [cli[c] EXCEPT !.pc = "closing"])
  BY GotoDoes DEF PrepareStop, Places
<1>3. Committed(c) => Edited(c, [cli[c] EXCEPT !.pc = "finish"])
  BY GotoDoes DEF Committed, Places
<1>4. Uncommitted(c) => Edited(c, Gone)
  BY LeaveDoes DEF Uncommitted
<1>5. FinishStop(c) => Edited(c, Gone)
  BY LeaveDoes DEF FinishStop
<1>6. UserDone => Edited(User, Gone) \/ Edited(User, [cli[User] EXCEPT !.pc = "commit"])
  BY GotoDoes, LeaveDoes DEF UserDone, Places
<1> QED
  BY <1>1, <1>2, <1>3, <1>4, <1>5, <1>6

\* The schedule queues one idle leg of a sandbox that is to be woken, or none.
LEMMA RingDoes ==
    ASSUME TypeOK, Ring
    PROVE  \/ /\ Wake(rec) /\ UNCHANGED faults
              /\ \E l \in Legs : cli[l].pc = "idle" /\ Edited(l, [cli[l] EXCEPT !.pc = "queued"])
           \/ /\ cli' = cli /\ UNCHANGED faults
              /\ ~Wake(rec) \/ \A l \in Legs : cli[l].pc # "idle"
           \/ cli' = cli /\ Fault("cap")
BY GotoDoes, Constants DEF Ring, Places

\* A minute passes for a client.
LEMMA TickDoes ==
    ASSUME TypeOK, Tick
    PROVE  /\ cli' \in [Clients -> Client]
           /\ \A c \in Clients :
                 /\ cli'[c].due = Earlier(cli[c].due)
                 /\ cli'[c].pc = IF cli[c].pc = "polled" THEN "hold" ELSE cli[c].pc
                 /\ cli'[c].left = IF cli[c].pc = "dwell" THEN Max(cli[c].left - 1, 0) ELSE cli[c].left
                 /\ cli'[c].own = cli[c].own /\ cli'[c].relay = cli[c].relay
                 /\ cli'[c].quiet = cli[c].quiet
<1> DEFINE p(c) == IF cli[c].pc = "polled" THEN "hold" ELSE cli[c].pc
           n(c) == IF cli[c].pc = "dwell" THEN Max(cli[c].left - 1, 0) ELSE cli[c].left
           new(c) == [cli[c] EXCEPT !.due = Earlier(cli[c].due), !.pc = p(c), !.left = n(c)]
<1>1. \A c \in Clients : cli[c] \in Client
  BY DEF TypeOK
<1>2. \A c \in Clients : p(c) \in Places /\ n(c) \in Nat /\ Earlier(cli[c].due) \in Dues
  BY <1>1, ClientFields, EarlierType DEF Places, Max
<1>3. \A c \in Clients : new(c) \in Client
  <2>1. 0 \in 0 .. 1
    OBVIOUS
  <2> HIDE DEF p, n
  <2> QED
    BY <1>1, <1>2, <2>1, ClientEdits
<1>4. cli' = [c \in Clients |-> new(c)]
  BY DEF Tick
<1> HIDE DEF p, n
<1>5. \A c \in Clients : /\ new(c).due = Earlier(cli[c].due) /\ new(c).pc = p(c)
                         /\ new(c).left = n(c) /\ new(c).own = cli[c].own
                         /\ new(c).relay = cli[c].relay /\ new(c).quiet = cli[c].quiet
  BY <1>1 DEF Client
<1> HIDE DEF new
<1>6. cli' \in [Clients -> Client] /\ \A c \in Clients : cli'[c] = new(c)
  BY <1>3, <1>4
<1> QED
  BY <1>5, <1>6 DEF p, n

\* ... for the record and the container, and for what the job is owed.
LEMMA TickRecord ==
    ASSUME TypeOK, Tick
    PROVE  /\ rec' \in Record /\ box' \in Box
           /\ rec'.state = rec.state /\ rec'.due = Earlier(rec.due)
           /\ rec'.age = IF Beats THEN 0 ELSE Min(rec.age + 1, Legacy)
           /\ rec'.lease = IF Beats /\ box.pc # "restoring" THEN LeaseTTL ELSE Max(rec.lease - 1, 0)
           /\ rec'.init = IF Beats /\ box.pc = "restoring" THEN LeaseTTL ELSE Max(rec.init - 1, 0)
           /\ box'.pc = box.pc /\ box'.door = box.door /\ box'.took = box.took
           /\ box'.left = Max(box.left - 1, 0) /\ box'.work = Grown(box.work)
           /\ box'.pub = Earlier(box.pub)
<1> DEFINE d == Earlier(rec.due)
           a == IF Beats THEN 0 ELSE Min(rec.age + 1, Legacy)
           n == IF Beats /\ box.pc # "restoring" THEN LeaseTTL ELSE Max(rec.lease - 1, 0)
           i == IF Beats /\ box.pc = "restoring" THEN LeaseTTL ELSE Max(rec.init - 1, 0)
<1>1. rec \in Record /\ box \in Box /\ rec' = [rec EXCEPT !.due = d, !.age = a, !.lease = n, !.init = i]
  BY DEF TypeOK, Tick, Aged
<1>2. d \in Dues /\ a \in 0 .. Legacy /\ n \in 0 .. LeaseTTL /\ i \in 0 .. LeaseTTL
      /\ rec.state \in States
  BY <1>1, Constants, RecordFields, EarlierType DEF Min, Max
<1> HIDE DEF d, a, n, i
<1>3. rec' \in Record
  BY <1>1, <1>2, RecordEdits
<1>4. /\ rec'.state = rec.state /\ rec'.due = d /\ rec'.age = a /\ rec'.lease = n /\ rec'.init = i
  BY <1>1 DEF Record
<1>5. Max(box.left - 1, 0) \in Nat /\ Earlier(box.pub) \in Dues
      /\ Grown(box.work) \in {"none", "young", "mid", "turn", "gap"}
  BY <1>1, EarlierType DEF Box, Max, Grown
<1>6. box' = [box EXCEPT !.left = Max(box.left - 1, 0), !.work = Grown(box.work),
                         !.pub = Earlier(box.pub)]
  BY DEF Tick
<1>7. /\ box' \in Box /\ box'.pc = box.pc /\ box'.door = box.door /\ box'.took = box.took
      /\ box'.left = Max(box.left - 1, 0) /\ box'.work = Grown(box.work)
      /\ box'.pub = Earlier(box.pub)
  BY <1>1, <1>5, <1>6 DEF Box
<1> QED
  BY <1>3, <1>4, <1>7 DEF d, a, n, i

\* What a minute makes of the job, its schedule and what is owed.
LEMMA TickJob ==
    ASSUME TypeOK, Tick
    PROVE  /\ since' \in 0 .. Period - 1
           /\ since < Period - 1 => since' = since + 1
           /\ since = Period - 1 => since' = 0
           /\ job' \in [live : 0 .. Horizon + 1, saved : 0 .. Horizon + 1]
           /\ job'.live = Min(job.live + 1, Horizon + 1)
           /\ job'.saved = Min(job.saved + 1, Horizon + 1)
           /\ owed' \in 0 .. Grace + 1 \cup {None}
           /\ owed = None => owed' = IF since' = 0 THEN 0 ELSE None
           /\ owed # None => owed \in Nat /\ owed' = Min(owed + 1, Grace + 1)
           /\ cut' \in BOOLEAN /\ (cut => cut') /\ (since' = 0 /\ box.pc = "closing" => cut')
<1>1. since \in 0 .. Period - 1 /\ since' = (since + 1) % Period
  BY DEF TypeOK, Tick
<1>2. since' \in 0 .. Period - 1 /\ (since < Period - 1 => since' = since + 1)
      /\ (since = Period - 1 => since' = 0)
  BY <1>1, Constants
<1>3. /\ job.live \in 0 .. Horizon + 1 /\ job.saved \in 0 .. Horizon + 1
      /\ job' = [live |-> Min(job.live + 1, Horizon + 1), saved |-> Min(job.saved + 1, Horizon + 1)]
  BY DEF TypeOK, Tick
<1>4. Min(job.live + 1, Horizon + 1) \in 0 .. Horizon + 1
      /\ Min(job.saved + 1, Horizon + 1) \in 0 .. Horizon + 1
  BY <1>3, Constants DEF Min
<1>5. owed \in 0 .. Grace + 1 \cup {None}
      /\ owed' = IF owed = None THEN (IF since' = 0 THEN 0 ELSE None) ELSE Min(owed + 1, Grace + 1)
  BY DEF TypeOK, Tick
<1>6. owed # None => owed \in Nat /\ Min(owed + 1, Grace + 1) \in 0 .. Grace + 1
  BY <1>5, Constants DEF Min
<1>7. owed' \in 0 .. Grace + 1 \cup {None}
  BY <1>5, <1>6, Constants
<1>8. job' \in [live : 0 .. Horizon + 1, saved : 0 .. Horizon + 1]
      /\ job'.live = Min(job.live + 1, Horizon + 1) /\ job'.saved = Min(job.saved + 1, Horizon + 1)
  BY <1>3, <1>4
<1>9. cut' \in BOOLEAN /\ (cut => cut') /\ (since' = 0 /\ box.pc = "closing" => cut')
  BY DEF Tick, TypeOK
<1> QED
  BY <1>2, <1>5, <1>6, <1>7, <1>8, <1>9

\* A minute keeps the types.
LEMMA TickType == ASSUME TypeOK, Tick PROVE TypeOK'
BY TickDoes, TickRecord, TickJob, FaultType DEF Tick, TypeOK

\* A container that a call starts.
LEMMA RouteDoes ==
    ASSUME TypeOK, NEW c \in Clients, Route(c)
    PROVE  /\ rec' \in Record /\ box' \in Box
           /\ rec'.state = "RESTORING" /\ rec'.init = LeaseTTL /\ rec'.age = 0
           /\ rec'.lease = rec.lease /\ rec'.due = rec.due
           /\ box'.pc = "restoring" /\ box'.door = Door(c) /\ box'.left = box'.took
           /\ box'.took \in RestoreTicks /\ box'.pub = None /\ box'.work = "none"
<1>1. PICK r \in RestoreTicks :
         box' = [pc |-> "restoring", door |-> Door(c), left |-> r, took |-> r,
                 pub |-> None, work |-> "none"]
  BY DEF Route
<1>2. rec' = [rec EXCEPT !.state = "RESTORING", !.init = LeaseTTL, !.age = 0]
  BY DEF Route
<1>3. rec' \in Record
  <2>1. rec \in Record /\ "RESTORING" \in States /\ LeaseTTL \in 0 .. LeaseTTL
    BY Constants DEF TypeOK, States
  <2> QED
    BY <1>2, <2>1, RecordEdits
<1>4. rec'.state = "RESTORING" /\ rec'.init = LeaseTTL /\ rec'.age = 0
      /\ rec'.lease = rec.lease /\ rec'.due = rec.due
  BY <1>2 DEF TypeOK, Record
<1>5. box' \in Box
  BY <1>1, Constants, DuesMarkers DEF Box, Door
<1> QED
  BY <1>1, <1>3, <1>4, <1>5

\* The steps of a leg keep the types.
LEMMA LegType ==
    ASSUME TypeOK, NEW l \in Legs,
           LegStep(l) \/ StartBlind(l) \/ StartRefused(l) \/ InvokeRaises(l)
    PROVE  TypeOK'
<1>0. l \in Clients /\ rec.due \in Dues /\ None \in Dues
  BY Constants, RecordFields, DuesMarkers DEF TypeOK
<1>1. CASE NotDue(l)
  BY <1>1, LegDoes DEF NotDue, TypeOK, Edited
<1>2. CASE Start(l)
  BY <1>0, <1>2, StartDoes DEF Start, TypeOK
<1>3. CASE CatchUp(l)
  <2>1. cli' \in [Clients -> Client]
    BY <1>3, LegDoes DEF CatchUp, Edited
  <2>2. faults' \in 0 .. MaxFaults
    BY <1>3, FaultType DEF CatchUp, TypeOK
  <2> QED
    BY <1>3, <2>1, <2>2 DEF CatchUp, TypeOK
<1>4. CASE RunJob(l)
  <2>1. job' \in [live : 0 .. Horizon + 1, saved : 0 .. Horizon + 1] /\ box' \in Box
        /\ owed' \in 0 .. Grace + 1 \cup {None}
    BY <1>4, Constants DEF RunJob, JobRuns, TypeOK, Box
  <2>2. cut' \in BOOLEAN /\ raced' \subseteq Legs
    BY <1>4 DEF RunJob, JobRuns, Posting, TypeOK
  <2>3. faults' \in 0 .. MaxFaults
    BY <1>4, FaultType DEF RunJob, TypeOK
  <2>4. cli' \in [Clients -> Client]
    BY <1>4, LegDoes DEF RunJob, Edited
  <2> QED
    BY <1>4, <2>1, <2>2, <2>3, <2>4 DEF RunJob, TypeOK
<1>5. CASE Poll(l)
  <2>1. PICK readable \in {Answers(l), FALSE} :
           /\ IF readable = Answers(l) THEN UNCHANGED faults ELSE Fault("probe")
           /\ Probed(l, readable /\ box.work \in {"young", "mid", "turn"})
           /\ blind' = Unread(l, readable)
    BY <1>5 DEF Poll
  <2>2. cli' \in [Clients -> Client]
    BY <1>0, <2>1, ProbedDoes DEF Edited
  <2>3. faults' \in 0 .. MaxFaults /\ blind' \subseteq Legs
    BY <2>1, FaultType DEF TypeOK, Unread
  <2> QED
    BY <1>5, <2>2, <2>3 DEF Poll, TypeOK
<1>6. CASE StartBlind(l)
  BY <1>0, <1>6, StartDoes, FaultType DEF StartBlind, TypeOK
<1>7. CASE StartRefused(l)
  BY <1>7, LegDoes, FaultType DEF StartRefused, TypeOK, Edited
<1>8. CASE InvokeRaises(l)
  BY <1>8, LegDoes, FaultType DEF InvokeRaises, TypeOK, Edited
<1> QED
  BY <1>1, <1>2, <1>3, <1>4, <1>5, <1>6, <1>7, <1>8 DEF LegStep

\* A final checkpoint begins.
LEMMA PrepareStopDoes ==
    ASSUME TypeOK, NEW c \in Clients, PrepareStop(c)
    PROVE  /\ box' \in Box /\ faults' \in 0 .. MaxFaults
           /\ box'.pc = "closing" /\ box'.left \in CommitTicks /\ box'.work = "none"
           /\ box'.door = box.door
           /\ box'.pub \in {NextDue, box.pub}
           /\ faults' = 0 => box'.pub = NextDue
<1>1. PICK b \in {[box EXCEPT !.pub = NextDue], box}, n \in CommitTicks :
         /\ box' = [b EXCEPT !.pc = "closing", !.left = n, !.work = "none"]
         /\ IF b = box /\ box.pub # NextDue THEN Fault("schedule") ELSE UNCHANGED faults
  BY DEF PrepareStop
<1>2. b \in Box /\ b.door = box.door /\ b.pub \in {NextDue, box.pub}
      /\ (b # box => b.pub = NextDue)
  BY NextDueType DEF TypeOK, Box
<1>3. box' \in Box /\ box'.pc = "closing" /\ box'.left = n /\ box'.work = "none"
      /\ box'.door = b.door /\ box'.pub = b.pub
  BY <1>1, <1>2, Constants DEF Box
<1>4. faults' \in 0 .. MaxFaults /\ (faults' = 0 => b.pub = NextDue)
  BY <1>1, <1>2, FaultType DEF TypeOK
<1> QED
  BY <1>2, <1>3, <1>4

\* The steps of any client keep the types.
LEMMA ClientType ==
    ASSUME TypeOK, NEW c \in Clients, ClientStep(c) PROVE TypeOK'
<1>1. CASE Route(c)
  BY <1>1, RouteDoes DEF Route, TypeOK
<1>2. CASE Invoke(c)
  BY <1>2, InvokeDoes DEF Invoke, TypeOK, Edited
<1>3. CASE AlreadyAwake(c)
  BY <1>3, ClientDoes DEF AlreadyAwake, TypeOK, Edited
<1>4. CASE PrepareStop(c)
  <2>1. cli' \in [Clients -> Client]
    BY <1>4, ClientDoes DEF Edited
  <2> QED
    BY <1>4, <2>1, PrepareStopDoes DEF PrepareStop, TypeOK
<1>5. CASE Committed(c)
  <2>1. box' \in Box /\ job' \in [live : 0 .. Horizon + 1, saved : 0 .. Horizon + 1]
    BY <1>5 DEF Committed, TypeOK, Box
  <2>2. rec' \in Record
    BY <1>5, ReceiptType DEF Committed, TypeOK
  <2>3. cli' \in [Clients -> Client]
    BY <1>5, ClientDoes DEF Edited
  <2> QED
    BY <1>5, <2>1, <2>2, <2>3 DEF Committed, TypeOK
<1>6. CASE Uncommitted(c)
  <2>0. [box EXCEPT !.pc = "frozen", !.left = 0] \in Box
    BY DEF TypeOK, Box
  <2>1. box' \in Box /\ faults' \in 0 .. MaxFaults
    BY <1>6, <2>0, FaultType DEF Uncommitted, TypeOK
  <2>2. cli' \in [Clients -> Client]
    BY <1>6, ClientDoes DEF Edited
  <2> QED
    BY <1>6, <2>1, <2>2 DEF Uncommitted, TypeOK
<1>7. CASE FinishStop(c)
  <2>1. rec' \in Record
    <3>1. rec \in Record /\ "STOPPED" \in States /\ 0 \in 0 .. LeaseTTL
      BY Constants DEF TypeOK, States
    <3>2. [rec EXCEPT !.state = "STOPPED", !.lease = 0, !.age = 0] \in Record
      BY <3>1, RecordEdits
    <3> QED
      BY <1>7, <3>1, <3>2 DEF FinishStop
  <2>2. box' \in Box /\ faults' \in 0 .. MaxFaults
    BY <1>7, FaultType DEF FinishStop, TypeOK, Box
  <2>3. cli' \in [Clients -> Client]
    BY <1>7, ClientDoes DEF Edited
  <2> QED
    BY <1>7, <2>1, <2>2, <2>3 DEF FinishStop, TypeOK
<1> QED
  BY <1>1, <1>2, <1>3, <1>4, <1>5, <1>6, <1>7 DEF ClientStep

\* Every step keeps the types.
LEMMA NextType == ASSUME TypeOK, [Next]_vars PROVE TypeOK'
<1>1. CASE Tick
  BY <1>1, TickType
<1>2. CASE Ring
  <2>1. cli' \in [Clients -> Client] /\ faults' \in 0 .. MaxFaults
    BY <1>2, RingDoes, FaultType DEF Edited, TypeOK
  <2> QED
    BY <1>2, <2>1 DEF Ring, TypeOK
<1>3. CASE Restored \/ RestoreFails \/ Fire \/ WorkMoves \/ Checkpoint \/ Reclaim
  BY <1>3, ContainerType
<1>4. ASSUME NEW l \in Legs, LegStep(l) \/ StartBlind(l) \/ StartRefused(l) \/ InvokeRaises(l)
      PROVE  TypeOK'
  BY <1>4, LegType
<1>5. ASSUME NEW c \in Clients, ClientStep(c) PROVE TypeOK'
  BY <1>5, ClientType
<1>6. CASE UserStart
  BY <1>6, StartDoes, FaultType, Constants, DuesMarkers DEF UserStart, TypeOK
<1>7. CASE UserDone
  BY <1>7, ClientDoes, Constants DEF UserDone, TypeOK, Edited
<1>8. CASE UNCHANGED vars
  BY <1>8 DEF vars, TypeOK
<1> QED
  BY <1>1, <1>2, <1>3, <1>4, <1>5, <1>6, <1>7, <1>8 DEF Next

\* The record, the container, the clients and the job's clocks keep their
\* types, whatever disturbs the cycle: no counter leaves its range and a due
\* time never runs past the point where it saturates.
THEOREM TypeCorrect == Spec => []TypeOK
BY InitType, NextType, PTL DEF Spec

---------------------------------------------------------------------------
(* What the steps do to the fields of the record, the container and the    *)
(* job.                                                                    *)

\* The gateway comes up on the tree last saved.
LEMMA RestoredDoes ==
    ASSUME TypeOK, Restored
    PROVE  /\ box.pc = "restoring"
           /\ box'.pc = "up" /\ box'.left = 1 /\ box'.door = box.door /\ box'.work = box.work
           /\ box'.pub = box.pub /\ box'.took = box.took
           /\ rec'.state = "READY" /\ rec'.lease = LeaseTTL /\ rec'.init = 0 /\ rec'.due = rec.due
           /\ job'.live = job.saved /\ job'.saved = job.saved
BY DEF Restored, TypeOK, Record, Box

\* A failed restore leaves the record in error.
LEMMA RestoreFailsDoes ==
    ASSUME TypeOK, RestoreFails
    PROVE  /\ box'.pc = "off" /\ box'.pub = box.pub
           /\ rec'.state = "ERROR" /\ rec'.lease = rec.lease /\ rec'.init = 0 /\ rec'.due = rec.due
           /\ faults' # 0
<1>1. faults' # 0
  BY FaultType, Constants DEF RestoreFails
<1> QED
  BY <1>1 DEF RestoreFails, TypeOK, Record, Box

\* A run of the job.
LEMMA JobRunsDoes ==
    ASSUME TypeOK, JobRuns
    PROVE  /\ job'.live = 0 /\ job'.saved = job.saved /\ owed' = None /\ cut' = FALSE
           /\ box'.pc = box.pc /\ box'.door = box.door /\ box'.left = box.left
           /\ box'.took = box.took /\ box'.pub = box.pub /\ box'.work = "young"
BY DEF JobRuns, TypeOK, Box

\* The gateway's work moves on.
LEMMA WorkMovesDoes ==
    ASSUME TypeOK, WorkMoves
    PROVE  /\ box.pc = "up"
           /\ box'.pc = box.pc /\ box'.door = box.door /\ box'.left = box.left
           /\ box'.took = box.took /\ box'.pub = box.pub
           /\ \/ box.work = "turn" /\ box'.work \in {"none", "gap"}
              \/ box.work = "gap" /\ box'.work = "young"
BY DEF WorkMoves, TypeOK, Box

\* A checkpoint of the running container.
LEMMA CheckpointDoes ==
    ASSUME TypeOK, Checkpoint
    PROVE  /\ box.pc = "up" /\ rec.state = "READY"
           /\ box'.pc = box.pc /\ box'.door = box.door /\ box'.left = box.left
           /\ box'.took = box.took /\ box'.work = box.work /\ box'.pub \in {NextDue, box.pub}
           /\ rec'.state = "READY" /\ rec'.lease = rec.lease /\ rec'.init = rec.init
           /\ rec'.due \in {rec.due, NextDue, box.pub}
           /\ job'.live = job.live /\ job'.saved = job.live
<1>1. box' \in Box /\ box'.pc = box.pc /\ box'.door = box.door /\ box'.left = box.left
      /\ box'.took = box.took /\ box'.work = box.work /\ box'.pub \in {NextDue, box.pub}
  BY NextDueType DEF Checkpoint, Published, TypeOK, Box
<1>2. rec' = Receipt(box', "READY")
  BY DEF Checkpoint
<1>3. /\ rec'.state = "READY" /\ rec'.lease = rec.lease /\ rec'.init = rec.init
      /\ rec'.due \in {rec.due, NextDue, box.pub}
  BY <1>1, <1>2, ReceiptType
<1>4. job'.live = job.live /\ job'.saved = job.live
  BY DEF Checkpoint, TypeOK
<1> QED
  BY <1>1, <1>3, <1>4 DEF Checkpoint

\* The container is gone, with or without a last receipt.
LEMMA ReclaimDoes ==
    ASSUME TypeOK, Reclaim
    PROVE  /\ box.pc # "off" /\ box'.pc = "off" /\ box'.pub = box.pub /\ box'.work = "none"
           /\ InUse => faults' # 0
           /\ \/ rec' = rec /\ job' = job
              \/ /\ box.pc = "up" /\ rec.state = "READY"
                 /\ rec'.state = "STOPPING" /\ rec'.lease = rec.lease /\ rec'.init = rec.init
                 /\ rec'.due \in {rec.due, NextDue}
                 /\ job'.live = job.live /\ job'.saved = job.live
<1>1. box'.pc = "off" /\ box'.pub = box.pub /\ box'.work = "none"
  BY DEF Reclaim, TypeOK, Box
<1>2. InUse => faults' # 0
  BY FaultType, Constants DEF Reclaim
<1>3. [box EXCEPT !.pub = NextDue] \in Box /\ [box EXCEPT !.pub = NextDue].pub = NextDue
  BY NextDueType DEF TypeOK, Box
<1>4. CASE rec' = Receipt([box EXCEPT !.pub = NextDue], "STOPPING")
           /\ box.pc = "up" /\ rec.state = "READY" /\ job' = [job EXCEPT !.saved = job.live]
  <2>1. rec'.state = "STOPPING" /\ rec'.lease = rec.lease /\ rec'.init = rec.init
        /\ rec'.due \in {rec.due, NextDue}
    BY <1>3, <1>4, ReceiptType
  <2>2. job'.live = job.live /\ job'.saved = job.live
    BY <1>4 DEF TypeOK
  <2> QED
    BY <1>1, <1>2, <1>4, <2>1, <2>2 DEF Reclaim
<1> QED
  BY <1>1, <1>2, <1>4 DEF Reclaim

\* A start: the record's fields, and whose session it is.
LEMMA StartFields ==
    ASSUME TypeOK, NEW c \in Clients, NEW d \in Dues, AcquireStart(c, d)
    PROVE  /\ cli'[c].pc = "invoke" /\ cli'[c].own = TRUE /\ cli'[c].due = d
           /\ cli'[c].relay = cli[c].relay /\ cli'[c].quiet = cli[c].quiet
           /\ \A x \in Clients \ {c} :
                 /\ cli'[x].pc = cli[x].pc /\ cli'[x].due = cli[x].due
                 /\ cli'[x].relay = cli[x].relay /\ cli'[x].quiet = cli[x].quiet
                 /\ cli'[x].left = cli[x].left
                 /\ cli'[x].own = IF MayRotate THEN FALSE ELSE cli[x].own
           /\ MayRotate =>
                 /\ rec'.state = "STARTING" /\ rec'.lease = LeaseTTL /\ rec'.init = rec.init
                 /\ rec'.due = rec.due
           /\ ~MayRotate => rec' = rec
<1>1. \A x \in Clients : cli[x] \in Client
  BY DEF TypeOK
<1>2. cli'[c] = [cli[c] EXCEPT !.pc = "invoke", !.own = TRUE, !.due = d]
  BY StartDoes
<1>3. cli'[c].pc = "invoke" /\ cli'[c].own = TRUE /\ cli'[c].due = d
      /\ cli'[c].relay = cli[c].relay /\ cli'[c].quiet = cli[c].quiet
  BY <1>1, <1>2 DEF Client
<1>4. CASE MayRotate
  <2>1. rec' = [rec EXCEPT !.state = "STARTING", !.lease = LeaseTTL, !.age = 0]
    BY <1>4, StartDoes
  <2>2. rec'.state = "STARTING" /\ rec'.lease = LeaseTTL /\ rec'.init = rec.init
        /\ rec'.due = rec.due
    BY <2>1 DEF TypeOK, Record
  <2>3. \A x \in Clients \ {c} : cli'[x] = [cli[x] EXCEPT !.own = FALSE]
    BY <1>4, StartDoes
  <2>4. \A x \in Clients \ {c} :
                 /\ cli'[x].pc = cli[x].pc /\ cli'[x].due = cli[x].due
                 /\ cli'[x].relay = cli[x].relay /\ cli'[x].quiet = cli[x].quiet
                 /\ cli'[x].left = cli[x].left /\ cli'[x].own = FALSE
    BY <1>1, <2>3 DEF Client
  <2> QED
    BY <1>3, <1>4, <2>2, <2>4
<1>5. CASE ~MayRotate
  BY <1>3, <1>5, StartDoes
<1> QED
  BY <1>4, <1>5

\* The final receipt.
LEMMA CommittedDoes ==
    ASSUME TypeOK, NEW c \in Clients, Committed(c)
    PROVE  /\ box.pc = "closing" /\ box.left = 0 /\ cli[c].pc = "closing"
           /\ box'.pc = "frozen" /\ box'.door = box.door /\ box'.work = box.work
           /\ box'.pub = box.pub
           /\ rec'.state = "STOPPING" /\ rec'.lease = rec.lease /\ rec'.init = rec.init
           /\ rec'.due = IF box.pub = None THEN rec.due ELSE box.pub
           /\ job'.live = job.live /\ job'.saved = job.live
<1>1. rec' = Receipt(box, "STOPPING") /\ box \in Box
  BY DEF Committed, TypeOK
<1>2. /\ rec'.state = "STOPPING" /\ rec'.lease = rec.lease /\ rec'.init = rec.init
      /\ rec'.due = IF box.pub = None THEN rec.due ELSE box.pub
  BY <1>1, ReceiptType
<1>3. box'.pc = "frozen" /\ box'.door = box.door /\ box'.work = box.work /\ box'.pub = box.pub
      /\ job'.live = job.live /\ job'.saved = job.live
  BY DEF Committed, TypeOK, Box
<1> QED
  BY <1>2, <1>3 DEF Committed

\* A final checkpoint that fails, or has nothing to checkpoint.
LEMMA UncommittedDoes ==
    ASSUME TypeOK, NEW c \in Clients, Uncommitted(c)
    PROVE  \/ /\ cli[c].pc = "closing" /\ box.pc = "closing" /\ faults' # 0
              /\ box'.pc = "frozen" /\ box'.pub = box.pub /\ box'.door = box.door
           \/ /\ \/ cli[c].pc = "commit" /\ Refused(c)
                 \/ cli[c].pc = "closing" /\ box.pc # "closing"
              /\ box' = box
<1>1. CASE cli[c].pc = "closing" /\ box.pc = "closing" /\ Fault("commit")
           /\ box' = [box EXCEPT !.pc = "frozen", !.left = 0]
  <2>1. faults' # 0
    BY <1>1, FaultType, Constants
  <2> QED
    BY <1>1, <2>1 DEF TypeOK, Box
<1> QED
  BY <1>1 DEF Uncommitted

\* The end of a stop.
LEMMA FinishStopDoes ==
    ASSUME TypeOK, NEW c \in Clients, FinishStop(c)
    PROVE  \/ /\ cli[c].own /\ rec.state = "STOPPING"
              /\ box'.pc = "off" /\ box'.pub = box.pub
              /\ rec'.state = "STOPPED" /\ rec'.lease = 0 /\ rec'.init = rec.init
              /\ rec'.due = rec.due
           \/ /\ rec' = rec /\ box' = box
              /\ cli[c].own /\ rec.state = "STOPPING" => faults' # 0
<1>1. CASE cli[c].own /\ rec.state = "STOPPING" /\ box' = [box EXCEPT !.pc = "off"]
           /\ rec' = [rec EXCEPT !.state = "STOPPED", !.lease = 0, !.age = 0]
  BY <1>1 DEF TypeOK, Box, Record
<1>2. CASE rec' = rec /\ box' = box
           /\ IF cli[c].own /\ rec.state = "STOPPING" THEN Fault("stop") ELSE UNCHANGED faults
  BY <1>2, FaultType, Constants
<1> QED
  BY <1>1, <1>2 DEF FinishStop

\* Client c is at p with these counters, and the other clients are as they were.
Moved(c, p, n, k, q) ==
    /\ cli'[c].pc = p /\ cli'[c].left = n /\ cli'[c].relay = k /\ cli'[c].quiet = q
    /\ cli'[c].own = cli[c].own /\ cli'[c].due = cli[c].due
    /\ \A x \in Clients \ {c} : cli'[x] = cli[x]

\* The run of client c is over.
Left(c) ==
    /\ cli'[c].pc = "idle" /\ cli'[c].own = FALSE /\ cli'[c].relay = 0 /\ cli'[c].left = 0
    /\ cli'[c].quiet = 0 /\ cli'[c].due = None
    /\ \A x \in Clients \ {c} : cli'[x] = cli[x]

\* An edit of a client, field by field.
LEMMA EditFields ==
    ASSUME TypeOK, NEW c \in Clients
    PROVE  /\ Edited(c, Gone) => Left(c)
           /\ \A p : Edited(c, [cli[c] EXCEPT !.pc = p])
                        => Moved(c, p, cli[c].left, cli[c].relay, cli[c].quiet)
           /\ \A p, n : Edited(c, [cli[c] EXCEPT !.pc = p, !.left = n])
                           => Moved(c, p, n, cli[c].relay, cli[c].quiet)
           /\ \A p, n, q : Edited(c, [cli[c] EXCEPT !.pc = p, !.left = n, !.quiet = q])
                              => Moved(c, p, n, cli[c].relay, q)
           /\ \A p, k, q : Edited(c, [cli[c] EXCEPT !.pc = p, !.relay = k, !.quiet = q])
                              => Moved(c, p, cli[c].left, k, q)
<1>1. cli[c] \in Client
  BY DEF TypeOK
<1>2. Edited(c, Gone) => Left(c)
  BY DEF Edited, Gone, Left
<1>3. \A p : Edited(c, [cli[c] EXCEPT !.pc = p])
         => Moved(c, p, cli[c].left, cli[c].relay, cli[c].quiet)
  BY <1>1 DEF Edited, Moved, Client
<1>4. \A p, n : Edited(c, [cli[c] EXCEPT !.pc = p, !.left = n])
         => Moved(c, p, n, cli[c].relay, cli[c].quiet)
  BY <1>1 DEF Edited, Moved, Client
<1>5. \A p, n, q : Edited(c, [cli[c] EXCEPT !.pc = p, !.left = n, !.quiet = q])
         => Moved(c, p, n, cli[c].relay, q)
  BY <1>1 DEF Edited, Moved, Client
<1>6. \A p, k, q : Edited(c, [cli[c] EXCEPT !.pc = p, !.relay = k, !.quiet = q])
         => Moved(c, p, cli[c].left, k, q)
  BY <1>1 DEF Edited, Moved, Client
<1> QED
  BY <1>2, <1>3, <1>4, <1>5, <1>6

\* The moves of a leg, and of any client.
LEMMA LegMoves ==
    ASSUME TypeOK, NEW l \in Legs
    PROVE  /\ NotDue(l) => Left(l)
           /\ StartRefused(l) => Left(l) \/ cli' = cli
           /\ InvokeRaises(l) =>
                 Left(l) \/ Moved(l, "queued", cli[l].left, cli[l].relay, cli[l].quiet)
           /\ CatchUp(l) => \/ Moved(l, "run", cli[l].left, cli[l].relay, cli[l].quiet)
                            \/ Moved(l, "hold", Budget, cli[l].relay, cli[l].quiet)
           /\ RunJob(l) => Moved(l, "hold", Budget, cli[l].relay, cli[l].quiet)
<1>1. l \in Clients
  BY Constants
<1> QED
  BY <1>1, LegDoes, EditFields

\* A poll: the leg stops the sandbox, relays, or polls again.
LEMMA PollMoves ==
    ASSUME TypeOK, NEW l \in Legs, Poll(l)
    PROVE  \E readable \in {Answers(l), FALSE} :
              LET busy == readable /\ box.work \in {"young", "mid", "turn"}
              IN  /\ readable # Answers(l) => Fault("probe")
                  /\ blind' = Unread(l, readable)
                  /\ readable = Answers(l) => UNCHANGED faults
                  /\ \/ ~busy /\ cli[l].quiet = 1
                        /\ Moved(l, "commit", cli[l].left, cli[l].relay, cli[l].quiet)
                     \/ cli[l].left = 0 /\ cli[l].relay = MaxRelays
                        /\ Moved(l, "commit", cli[l].left, cli[l].relay, cli[l].quiet)
                     \/ cli[l].left = 0 /\ cli[l].relay < MaxRelays
                        /\ Moved(l, "queued", cli[l].left, cli[l].relay + 1, 0)
                     \/ Moved(l, "polled", cli[l].left - 1, cli[l].relay, IF busy THEN 0 ELSE 1)
<1>1. PICK readable \in {Answers(l), FALSE} :
         /\ IF readable = Answers(l) THEN UNCHANGED faults ELSE Fault("probe")
         /\ Probed(l, readable /\ box.work \in {"young", "mid", "turn"})
         /\ blind' = Unread(l, readable)
  BY DEF Poll
<1> DEFINE busy == readable /\ box.work \in {"young", "mid", "turn"}
<1>2. l \in Clients /\ busy \in BOOLEAN
  BY Constants
<1>3. \/ ~busy /\ cli[l].quiet = 1
         /\ Moved(l, "commit", cli[l].left, cli[l].relay, cli[l].quiet)
      \/ cli[l].left = 0 /\ cli[l].relay = MaxRelays
         /\ Moved(l, "commit", cli[l].left, cli[l].relay, cli[l].quiet)
      \/ cli[l].left = 0 /\ cli[l].relay < MaxRelays
         /\ Moved(l, "queued", cli[l].left, cli[l].relay + 1, 0)
      \/ Moved(l, "polled", cli[l].left - 1, cli[l].relay, IF busy THEN 0 ELSE 1)
  <2> HIDE DEF busy
  <2>1. Probed(l, busy)
    BY <1>1 DEF busy
  <2> QED
    BY <1>2, <2>1, ProbedDoes, EditFields
<1> QED
  BY <1>1, <1>3

\* The moves of any client.
LEMMA ClientMoves ==
    ASSUME TypeOK, NEW c \in Clients
    PROVE  /\ AlreadyAwake(c) => Left(c)
           /\ PrepareStop(c) => Moved(c, "closing", cli[c].left, cli[c].relay, cli[c].quiet)
           /\ Committed(c) => Moved(c, "finish", cli[c].left, cli[c].relay, cli[c].quiet)
           /\ Uncommitted(c) => Left(c)
           /\ FinishStop(c) => Left(c)
           /\ UserDone => \/ Left(User)
                          \/ Moved(User, "commit", cli[User].left, cli[User].relay, cli[User].quiet)
           /\ Invoke(c) =>
                 \/ c = User /\ Moved(c, "use", cli[c].left, cli[c].relay, cli[c].quiet)
                 \/ /\ c \in Legs /\ cli[c].relay = 0
                    /\ Moved(c, "dwell", DwellTicks, cli[c].relay, cli[c].quiet)
                 \/ /\ c \in Legs /\ cli[c].relay > 0
                    /\ Moved(c, "hold", Budget, cli[c].relay, cli[c].quiet)
<1>1. User \in Clients
  BY Constants
<1>2. Invoke(c) =>
                 \/ c = User /\ Moved(c, "use", cli[c].left, cli[c].relay, cli[c].quiet)
                 \/ /\ c \in Legs /\ cli[c].relay = 0
                    /\ Moved(c, "dwell", DwellTicks, cli[c].relay, cli[c].quiet)
                 \/ /\ c \in Legs /\ cli[c].relay > 0
                    /\ Moved(c, "hold", Budget, cli[c].relay, cli[c].quiet)
  BY InvokeDoes, EditFields
<1>3. /\ AlreadyAwake(c) => Left(c)
      /\ PrepareStop(c) => Moved(c, "closing", cli[c].left, cli[c].relay, cli[c].quiet)
      /\ Committed(c) => Moved(c, "finish", cli[c].left, cli[c].relay, cli[c].quiet)
      /\ Uncommitted(c) => Left(c)
      /\ FinishStop(c) => Left(c)
  BY ClientDoes, EditFields
<1>4. UserDone => \/ Left(User)
                  \/ Moved(User, "commit", cli[User].left, cli[User].relay, cli[User].quiet)
  BY <1>1, ClientDoes, EditFields
<1> QED
  BY <1>2, <1>3, <1>4

\* The schedule moves at most one leg.
LEMMA RingMoves ==
    ASSUME TypeOK, Ring
    PROVE  \/ /\ Wake(rec) /\ UNCHANGED faults
              /\ \E l \in Legs : cli[l].pc = "idle"
                    /\ Moved(l, "queued", cli[l].left, cli[l].relay, cli[l].quiet)
           \/ /\ cli' = cli /\ UNCHANGED faults
              /\ ~Wake(rec) \/ \A l \in Legs : cli[l].pc # "idle"
           \/ cli' = cli /\ faults' # 0
<1>1. Legs \subseteq Clients
  BY Constants
<1>2. Fault("cap") => faults' # 0
  BY FaultType, Constants
<1> QED
  BY <1>1, <1>2, RingDoes, EditFields

---------------------------------------------------------------------------
(* The invariants that hold under any disturbance.                         *)

\* Due times come from the record, from what was published or from now.
LEMMA DuesPassedOn ==
    ASSUME TypeOK, [Next]_vars, ~Tick
    PROVE  /\ since' = since
           /\ rec'.due \in {rec.due, box.pub, NextDue}
           /\ box'.pub \in {box.pub, None, NextDue}
           /\ \A c \in Clients : cli'[c].due \in {cli[c].due, None, rec.due}
<1> DEFINE P == /\ since' = since
                /\ rec'.due \in {rec.due, box.pub, NextDue}
                /\ box'.pub \in {box.pub, None, NextDue}
                /\ \A c \in Clients : cli'[c].due \in {cli[c].due, None, rec.due}
<1>0. rec.due \in Dues /\ None \in Dues /\ User \in Clients /\ Legs \subseteq Clients
  BY Constants, RecordFields, DuesMarkers DEF TypeOK
<1>1. CASE Tick
  BY <1>1
<1>2. CASE Ring
  BY <1>2, <1>0, RingMoves DEF Ring, Moved
<1>3. CASE Restored
  BY <1>3, RestoredDoes DEF Restored
<1>4. CASE RestoreFails
  BY <1>4, RestoreFailsDoes DEF RestoreFails
<1>5. CASE Fire
  BY <1>5, JobRunsDoes DEF Fire
<1>6. CASE WorkMoves
  BY <1>6, WorkMovesDoes DEF WorkMoves
<1>7. CASE Checkpoint
  BY <1>7, CheckpointDoes DEF Checkpoint
<1>8. CASE Reclaim
  BY <1>8, ReclaimDoes DEF Reclaim
<1>9. ASSUME NEW l \in Legs, NotDue(l) \/ StartRefused(l) \/ InvokeRaises(l)
      PROVE  P
  BY <1>9, <1>0, LegMoves DEF NotDue, StartRefused, InvokeRaises, Left, Moved
<1>10. ASSUME NEW l \in Legs, Start(l)
      PROVE  P
  <2>1. l \in Clients /\ AcquireStart(l, rec.due) /\ rec.due \in Dues /\ since' = since /\ box' = box
    BY <1>10, <1>0 DEF Start
  <2> QED
    BY <2>1, StartFields
<1>11. ASSUME NEW l \in Legs, StartBlind(l)
      PROVE  P
  <2>1. l \in Clients /\ AcquireStart(l, None) /\ None \in Dues /\ since' = since /\ box' = box
    BY <1>11, <1>0 DEF StartBlind
  <2> QED
    BY <2>1, StartFields
<1>12. ASSUME NEW l \in Legs, CatchUp(l)
      PROVE  P
  BY <1>12, <1>0, LegMoves DEF CatchUp, Moved
<1>13. ASSUME NEW l \in Legs, RunJob(l)
      PROVE  P
  BY <1>13, <1>0, LegMoves, JobRunsDoes DEF RunJob, Moved
<1>14. ASSUME NEW l \in Legs, Poll(l)
      PROVE  P
  BY <1>14, <1>0, PollMoves DEF Poll, Moved
<1>15. ASSUME NEW c \in Clients, Route(c)
      PROVE  P
  BY <1>15, RouteDoes DEF Route
<1>16. ASSUME NEW c \in Clients, Invoke(c) \/ AlreadyAwake(c)
      PROVE  P
  BY <1>16, ClientMoves DEF Invoke, AlreadyAwake, Left, Moved
<1>17. ASSUME NEW c \in Clients, PrepareStop(c)
      PROVE  P
  <2>1. UNCHANGED <<rec, since>> /\ box'.pub \in {box.pub, NextDue}
    BY <1>17, PrepareStopDoes DEF PrepareStop
  <2>2. \A x \in Clients : cli'[x].due = cli[x].due
    BY <1>17, ClientMoves DEF Moved
  <2> QED
    BY <2>1, <2>2
<1>18. ASSUME NEW c \in Clients, Committed(c)
      PROVE  P
  BY <1>18, ClientMoves, CommittedDoes DEF Committed, Moved
<1>19. ASSUME NEW c \in Clients, Uncommitted(c)
      PROVE  P
  BY <1>19, ClientMoves, UncommittedDoes DEF Uncommitted, Left
<1>20. ASSUME NEW c \in Clients, FinishStop(c)
      PROVE  P
  BY <1>20, ClientMoves, FinishStopDoes DEF FinishStop, Left
<1>21. CASE UserStart
  <2>1. AcquireStart(User, None) /\ since' = since /\ box' = box
    BY <1>21 DEF UserStart
  <2> QED
    BY <1>0, <2>1, StartFields, ZenonT(40)
<1>22. CASE UserDone
  BY <1>22, <1>0, ClientMoves DEF UserDone, Left, Moved
<1>23. CASE UNCHANGED vars
  BY <1>23 DEF vars, P
<1> QED
  BY <1>1, <1>2, <1>3, <1>4, <1>5, <1>6, <1>7, <1>8, <1>9, <1>10, <1>11, <1>12, <1>13, <1>14,
     <1>15, <1>16, <1>17, <1>18, <1>19, <1>20, <1>21, <1>22, <1>23
     DEF Next, LegStep, ClientStep

\* A minute keeps a due time on schedule.
LEMMA EarlierOnSchedule ==
    ASSUME TypeOK, Tick, NEW d \in Dues, OnSchedule(d)
    PROVE  OnSchedule(Earlier(d))'
<1>1. CASE d \in {None, Never}
  BY <1>1, EarlierType DEF OnSchedule
<1>2. CASE d \notin {None, Never}
  <2>1. d \in Int /\ Earlier(d) \in {d - 1, -Horizon} /\ d >= -Horizon
        /\ (d > -Horizon => Earlier(d) = d - 1)
    BY <1>2, EarlierType
  <2>2. since \in 0 .. Period - 1 /\ since' \in 0 .. Period - 1
        /\ (since < Period - 1 => since' = since + 1) /\ (since = Period - 1 => since' = 0)
    BY TickJob DEF TypeOK
  <2>3. d + since <= 0 \/ d + since = Period
    BY <1>2 DEF OnSchedule
  <2>4. Earlier(d) + since' <= 0 \/ Earlier(d) + since' = Period
    BY <2>1, <2>2, <2>3, Constants
  <2> QED
    BY <2>4 DEF OnSchedule, Earlier
<1> QED
  BY <1>1, <1>2

\* Due times stay on the job's schedule.
LEMMA DuesStep == ASSUME TypeOK, DuesOnSchedule, [Next]_vars PROVE DuesOnSchedule'
<1>1. CASE Tick
  <2>1. /\ rec.due \in Dues /\ box.pub \in Dues /\ \A c \in Clients : cli[c].due \in Dues
    BY RecordFields, ClientFields DEF TypeOK, Box
  <2>2. /\ rec'.due = Earlier(rec.due) /\ box'.pub = Earlier(box.pub)
        /\ \A c \in Clients : cli'[c].due = Earlier(cli[c].due)
    BY <1>1, TickRecord, TickDoes
  <2>3. ASSUME NEW d \in Dues, OnSchedule(d), NEW e, e = Earlier(d)
        PROVE  e \in {None, Never} \/ e + since' <= 0 \/ e + since' = Period
    BY <1>1, <2>3, EarlierOnSchedule DEF OnSchedule, Earlier
  <2> QED
    BY <2>1, <2>2, <2>3 DEF DuesOnSchedule, OnSchedule
<1>2. CASE ~Tick
  <2>1. since \in 0 .. Period - 1
    BY DEF TypeOK
  <2>2. OnSchedule(NextDue) /\ OnSchedule(None)
    BY <2>1, NextDueType, Constants DEF OnSchedule
  <2> QED
    BY <1>2, <2>2, DuesPassedOn DEF DuesOnSchedule, OnSchedule
<1> QED
  BY <1>1, <1>2

\* Legs walk forward.
LEMMA FirstLegsStep == ASSUME TypeOK, FirstLegsDwell, [Next]_vars PROVE FirstLegsDwell'
<1>0. rec.due \in Dues /\ None \in Dues /\ User \in Clients /\ Legs \subseteq Clients
  BY Constants, RecordFields, DuesMarkers DEF TypeOK
<1>1. CASE Tick
  <2>1. ASSUME NEW c \in Clients, cli[c].pc = "run", cli[c].due \in Int
        PROVE  Earlier(cli[c].due) \in Int
    BY <2>1, Constants DEF Earlier, Max
  <2> QED
    BY <1>1, <2>1, TickDoes DEF FirstLegsDwell, Walks
<1>2. CASE Ring
  BY <1>2, <1>0, RingMoves DEF Moved, FirstLegsDwell, Walks
<1>3. CASE Restored \/ RestoreFails \/ Fire \/ WorkMoves \/ Checkpoint \/ Reclaim
  BY <1>3 DEF Restored, RestoreFails, Fire, WorkMoves, Checkpoint, Reclaim, FirstLegsDwell
<1>4. ASSUME NEW l \in Legs, NotDue(l)
      PROVE  FirstLegsDwell'
  <2>1. Walks(cli'[l]) /\ \A x \in Clients \ {l} : cli'[x] = cli[x]
    BY <1>4, <1>0, LegMoves DEF Left, Moved, FirstLegsDwell, Walks
  <2> QED
    BY <1>0, <2>1 DEF FirstLegsDwell
<1>5. ASSUME NEW l \in Legs, StartRefused(l)
      PROVE  FirstLegsDwell'
  BY <1>5, <1>0, LegMoves DEF Left, Moved, FirstLegsDwell, Walks
<1>6. ASSUME NEW l \in Legs, InvokeRaises(l)
      PROVE  FirstLegsDwell'
  <2>1. Walks(cli'[l]) /\ \A x \in Clients \ {l} : cli'[x] = cli[x]
    BY <1>6, <1>0, LegMoves DEF InvokeRaises, Left, Moved, FirstLegsDwell, Walks
  <2> QED
    BY <1>0, <2>1 DEF FirstLegsDwell
<1>7. ASSUME NEW l \in Legs, Start(l)
      PROVE  FirstLegsDwell'
  <2>1. l \in Clients /\ AcquireStart(l, rec.due) /\ rec.due \in Dues /\ cli[l].pc \in {"idle", "queued"}
    BY <1>7, <1>0 DEF Start
  <2>2. /\ cli'[l].pc = "invoke" /\ cli'[l].quiet = cli[l].quiet
        /\ \A x \in Clients \ {l} :
              /\ cli'[x].pc = cli[x].pc /\ cli'[x].due = cli[x].due
              /\ cli'[x].relay = cli[x].relay /\ cli'[x].quiet = cli[x].quiet
              /\ cli'[x].own = IF MayRotate THEN FALSE ELSE cli[x].own
    BY <2>1, StartFields
  <2>3. \A x \in Clients \ {l} : Walks(cli'[x])
    BY <2>2 DEF FirstLegsDwell, Walks
  <2>4. Walks(cli'[l])
    BY <2>1, <2>2 DEF FirstLegsDwell, Walks
  <2> QED
    BY <2>3, <2>4 DEF FirstLegsDwell
<1>8. ASSUME NEW l \in Legs, StartBlind(l)
      PROVE  FirstLegsDwell'
  <2>1. l \in Clients /\ AcquireStart(l, None) /\ None \in Dues /\ cli[l].pc \in {"idle", "queued"}
    BY <1>8, <1>0 DEF StartBlind
  <2>2. /\ cli'[l].pc = "invoke" /\ cli'[l].quiet = cli[l].quiet
        /\ \A x \in Clients \ {l} :
              /\ cli'[x].pc = cli[x].pc /\ cli'[x].due = cli[x].due
              /\ cli'[x].relay = cli[x].relay /\ cli'[x].quiet = cli[x].quiet
              /\ cli'[x].own = IF MayRotate THEN FALSE ELSE cli[x].own
    BY <2>1, StartFields
  <2>3. \A x \in Clients \ {l} : Walks(cli'[x])
    BY <2>2 DEF FirstLegsDwell, Walks
  <2>4. Walks(cli'[l])
    BY <2>1, <2>2 DEF FirstLegsDwell, Walks
  <2> QED
    BY <2>3, <2>4 DEF FirstLegsDwell
<1>9. ASSUME NEW l \in Legs, CatchUp(l)
      PROVE  FirstLegsDwell'
  <2>1. \/ Moved(l, "hold", Budget, cli[l].relay, cli[l].quiet)
        \/ /\ Moved(l, "run", cli[l].left, cli[l].relay, cli[l].quiet)
           /\ cli[l].due \notin {None, Never}
    BY <1>9, <1>0, HoldDoes, GotoDoes, EditFields DEF CatchUp, Missed, Places
  <2>2. cli[l].pc = "dwell" /\ cli[l].due \in Dues
    BY <1>9, <1>0, ClientFields DEF CatchUp, TypeOK
  <2>3. cli[l].due \notin {None, Never} => cli[l].due \in Int
    BY <2>2 DEF Dues
  <2> QED
    BY <1>0, <2>1, <2>2, <2>3 DEF Moved, FirstLegsDwell, Walks
<1>10. ASSUME NEW l \in Legs, RunJob(l)
      PROVE  FirstLegsDwell'
  <2>1. Walks(cli'[l]) /\ \A x \in Clients \ {l} : cli'[x] = cli[x]
    BY <1>10, <1>0, LegMoves DEF RunJob, Left, Moved, FirstLegsDwell, Walks
  <2> QED
    BY <1>0, <2>1 DEF FirstLegsDwell
<1>11. ASSUME NEW l \in Legs, Poll(l)
      PROVE  FirstLegsDwell'
  <2>1. Walks(cli'[l]) /\ \A x \in Clients \ {l} : cli'[x] = cli[x]
    BY <1>11, <1>0, PollMoves DEF Poll, Left, Moved, FirstLegsDwell, Walks
  <2> QED
    BY <1>0, <2>1 DEF FirstLegsDwell
<1>12. ASSUME NEW c \in Clients, Route(c)
      PROVE  FirstLegsDwell'
  BY <1>12 DEF Route, FirstLegsDwell
<1>13. ASSUME NEW c \in Clients, Invoke(c)
      PROVE  FirstLegsDwell'
  <2>1. Walks(cli'[c]) /\ \A x \in Clients \ {c} : cli'[x] = cli[x]
    <3>1. \E p, n : /\ p = "use" \/ (p = "dwell" /\ cli[c].relay = 0) \/ (p = "hold" /\ cli[c].relay > 0)
                    /\ Moved(c, p, n, cli[c].relay, cli[c].quiet)
      BY <1>13, <1>0, ClientMoves
    <3>2. cli[c].quiet = 0
      BY <1>13 DEF Invoke, FirstLegsDwell, Walks
    <3> QED
      BY <3>1, <3>2 DEF Moved, Walks
  <2> QED
    BY <1>0, <2>1 DEF FirstLegsDwell
<1>14. ASSUME NEW c \in Clients, AlreadyAwake(c) \/ Uncommitted(c) \/ FinishStop(c)
      PROVE  FirstLegsDwell'
  <2>1. Walks(cli'[c]) /\ \A x \in Clients \ {c} : cli'[x] = cli[x]
    BY <1>14, <1>0, ClientMoves DEF Left, Moved, FirstLegsDwell, Walks
  <2> QED
    BY <1>0, <2>1 DEF FirstLegsDwell
<1>15. ASSUME NEW c \in Clients, PrepareStop(c) \/ Committed(c)
      PROVE  FirstLegsDwell'
  <2>1. Walks(cli'[c]) /\ \A x \in Clients \ {c} : cli'[x] = cli[x]
    BY <1>15, <1>0, ClientMoves DEF Left, Moved, FirstLegsDwell, Walks
  <2> QED
    BY <1>0, <2>1 DEF FirstLegsDwell
<1>16. CASE UserStart
  <2>1. User \in Clients /\ AcquireStart(User, None) /\ None \in Dues
        /\ cli[User].pc \in {"idle", "queued"}
    BY <1>16, <1>0 DEF UserStart
  <2>2. /\ cli'[User].pc = "invoke" /\ cli'[User].quiet = cli[User].quiet
        /\ \A x \in Clients \ {User} :
              /\ cli'[x].pc = cli[x].pc /\ cli'[x].due = cli[x].due
              /\ cli'[x].relay = cli[x].relay /\ cli'[x].quiet = cli[x].quiet
              /\ cli'[x].own = IF MayRotate THEN FALSE ELSE cli[x].own
    BY <2>1, StartFields
  <2>3. \A x \in Clients \ {User} : Walks(cli'[x])
    BY <2>2 DEF FirstLegsDwell, Walks
  <2>4. Walks(cli'[User])
    BY <2>1, <2>2 DEF FirstLegsDwell, Walks
  <2> QED
    BY <2>3, <2>4 DEF FirstLegsDwell
<1>17. CASE UserDone
  <2>1. Walks(cli'[User]) /\ \A x \in Clients \ {User} : cli'[x] = cli[x]
    BY <1>17, <1>0, ClientMoves DEF Left, Moved, FirstLegsDwell, Walks
  <2> QED
    BY <1>0, <2>1 DEF FirstLegsDwell
<1>18. CASE UNCHANGED vars
  BY <1>18 DEF vars, FirstLegsDwell
<1> QED
  BY <1>1, <1>2, <1>3, <1>4, <1>5, <1>6, <1>7, <1>8, <1>9, <1>10, <1>11, <1>12, <1>13, <1>14,
     <1>15, <1>16, <1>17, <1>18
     DEF Next, LegStep, ClientStep

\* The record keeps following the container.
LEMMA RecordStep == ASSUME TypeOK, RecordFollowsBox, [Next]_vars PROVE RecordFollowsBox'
<1>0. /\ rec.due \in Dues /\ None \in Dues /\ User \in Clients /\ Legs \subseteq Clients
      /\ rec.lease \in Nat /\ rec.init \in Nat /\ LeaseTTL \in Nat /\ LeaseTTL > 0
  BY Constants, RecordFields, DuesMarkers DEF TypeOK
<1>1. CASE Tick
  <2>1. Grown("none") = "none" /\ Max(rec.lease - 1, 0) \in Nat
        /\ (rec.lease = 0 => Max(rec.lease - 1, 0) = 0) /\ (rec.init = 0 => Max(rec.init - 1, 0) = 0)
    BY <1>0 DEF Grown, Max
  <2> QED
    BY <1>1, <1>0, <2>1, TickRecord DEF RecordFollowsBox, Beats
<1>2. CASE Ring
  BY <1>2 DEF Ring, RecordFollowsBox
<1>3. CASE Restored
  BY <1>3, <1>0, RestoredDoes DEF RecordFollowsBox
<1>4. CASE RestoreFails
  BY <1>4, RestoreFailsDoes DEF RecordFollowsBox
<1>5. CASE Fire
  BY <1>5, JobRunsDoes DEF Fire, FireDue, RecordFollowsBox
<1>6. CASE WorkMoves
  BY <1>6, WorkMovesDoes DEF WorkMoves, RecordFollowsBox
<1>7. CASE Checkpoint
  BY <1>7, CheckpointDoes DEF RecordFollowsBox
<1>8. CASE Reclaim
  BY <1>8, ReclaimDoes DEF RecordFollowsBox
<1>9. ASSUME NEW l \in Legs, NotDue(l) \/ StartRefused(l) \/ InvokeRaises(l) \/ CatchUp(l) \/ Poll(l)
      PROVE  RecordFollowsBox'
  BY <1>9 DEF NotDue, StartRefused, InvokeRaises, CatchUp, Poll, RecordFollowsBox
<1>10. ASSUME NEW l \in Legs, Start(l)
      PROVE  RecordFollowsBox'
  <2>1. l \in Clients /\ AcquireStart(l, rec.due) /\ rec.due \in Dues /\ box' = box
    BY <1>10, <1>0 DEF Start
  <2>2. MayRotate => rec.init = 0 /\ rec.lease = 0
    BY DEF MayRotate
  <2>3. /\ MayRotate => rec'.state = "STARTING" /\ rec'.init = rec.init
        /\ ~MayRotate => rec' = rec
    BY <2>1, StartFields
  <2> QED
    BY <1>0, <2>1, <2>2, <2>3 DEF RecordFollowsBox
<1>11. ASSUME NEW l \in Legs, StartBlind(l)
      PROVE  RecordFollowsBox'
  <2>1. l \in Clients /\ AcquireStart(l, None) /\ None \in Dues /\ box' = box
    BY <1>11, <1>0 DEF StartBlind
  <2>2. MayRotate => rec.init = 0 /\ rec.lease = 0
    BY DEF MayRotate
  <2>3. /\ MayRotate => rec'.state = "STARTING" /\ rec'.init = rec.init
        /\ ~MayRotate => rec' = rec
    BY <2>1, StartFields
  <2> QED
    BY <1>0, <2>1, <2>2, <2>3 DEF RecordFollowsBox
<1>12. ASSUME NEW l \in Legs, RunJob(l)
      PROVE  RecordFollowsBox'
  BY <1>12, JobRunsDoes DEF RunJob, Answers, RecordFollowsBox
<1>13. ASSUME NEW c \in Clients, Route(c)
      PROVE  RecordFollowsBox'
  BY <1>13, <1>0, RouteDoes DEF RecordFollowsBox
<1>14. ASSUME NEW c \in Clients, Invoke(c) \/ AlreadyAwake(c)
      PROVE  RecordFollowsBox'
  BY <1>14 DEF Invoke, AlreadyAwake, RecordFollowsBox
<1>15. ASSUME NEW c \in Clients, PrepareStop(c)
      PROVE  RecordFollowsBox'
  BY <1>15, PrepareStopDoes DEF PrepareStop, Answers, RecordFollowsBox
<1>16. ASSUME NEW c \in Clients, Committed(c)
      PROVE  RecordFollowsBox'
  BY <1>16, CommittedDoes DEF RecordFollowsBox
<1>17. ASSUME NEW c \in Clients, Uncommitted(c)
      PROVE  RecordFollowsBox'
  BY <1>17, UncommittedDoes DEF Uncommitted, RecordFollowsBox
<1>18. ASSUME NEW c \in Clients, FinishStop(c)
      PROVE  RecordFollowsBox'
  BY <1>18, FinishStopDoes DEF RecordFollowsBox
<1>19. CASE UserStart
  <2>1. User \in Clients /\ AcquireStart(User, None) /\ None \in Dues /\ box' = box
    BY <1>19, <1>0 DEF UserStart
  <2>2. MayRotate => rec.init = 0 /\ rec.lease = 0
    BY DEF MayRotate
  <2>3. /\ MayRotate => rec'.state = "STARTING" /\ rec'.init = rec.init
        /\ ~MayRotate => rec' = rec
    BY <2>1, StartFields
  <2> QED
    BY <1>0, <2>1, <2>2, <2>3 DEF RecordFollowsBox
<1>20. CASE UserDone
  BY <1>20 DEF UserDone, RecordFollowsBox
<1>21. CASE UNCHANGED vars
  BY <1>21 DEF vars, RecordFollowsBox
<1> QED
  BY <1>1, <1>2, <1>3, <1>4, <1>5, <1>6, <1>7, <1>8, <1>9, <1>10, <1>11, <1>12, <1>13, <1>14,
     <1>15, <1>16, <1>17, <1>18, <1>19, <1>20, <1>21
     DEF Next, LegStep, ClientStep

\* Nobody gets past a request to a session that no container has claimed.
LEMMA StartingStep ==
    ASSUME TypeOK, RecordFollowsBox, StartingIsEarly, [Next]_vars PROVE StartingIsEarly'
<1>0. rec.due \in Dues /\ None \in Dues /\ User \in Clients /\ Legs \subseteq Clients
  BY Constants, RecordFields, DuesMarkers DEF TypeOK
<1>1. CASE Tick
  BY <1>1, TickRecord, TickDoes DEF StartingIsEarly
<1>2. CASE Ring
  BY <1>2, <1>0, RingMoves DEF Ring, Moved, StartingIsEarly
<1>3. CASE Restored \/ RestoreFails \/ Checkpoint
  BY <1>3, RestoredDoes, RestoreFailsDoes, CheckpointDoes DEF StartingIsEarly
<1>4. CASE Reclaim
  BY <1>4, ReclaimDoes DEF Reclaim, StartingIsEarly
<1>5. CASE Fire \/ WorkMoves
  BY <1>5 DEF Fire, WorkMoves, StartingIsEarly
<1>6. ASSUME NEW l \in Legs, NotDue(l) \/ StartRefused(l) \/ InvokeRaises(l)
      PROVE  StartingIsEarly'
  BY <1>6, <1>0, LegMoves DEF NotDue, StartRefused, InvokeRaises, Left, Moved, StartingIsEarly
<1>7. ASSUME NEW l \in Legs, Start(l)
      PROVE  StartingIsEarly'
  <2>1. l \in Clients /\ AcquireStart(l, rec.due) /\ rec.due \in Dues
    BY <1>7, <1>0 DEF Start
  <2>2. /\ cli'[l].pc = "invoke" /\ (~MayRotate => rec' = rec)
        /\ \A x \in Clients \ {l} :
              cli'[x].pc = cli[x].pc /\ cli'[x].own = IF MayRotate THEN FALSE ELSE cli[x].own
    BY <2>1, StartFields
  <2> QED
    BY <2>2 DEF StartingIsEarly
<1>8. ASSUME NEW l \in Legs, StartBlind(l)
      PROVE  StartingIsEarly'
  <2>1. l \in Clients /\ AcquireStart(l, None) /\ None \in Dues
    BY <1>8, <1>0 DEF StartBlind
  <2>2. /\ cli'[l].pc = "invoke" /\ (~MayRotate => rec' = rec)
        /\ \A x \in Clients \ {l} :
              cli'[x].pc = cli[x].pc /\ cli'[x].own = IF MayRotate THEN FALSE ELSE cli[x].own
    BY <2>1, StartFields
  <2> QED
    BY <2>2 DEF StartingIsEarly
<1>9. ASSUME NEW l \in Legs, CatchUp(l) \/ RunJob(l)
      PROVE  StartingIsEarly'
  BY <1>9, <1>0, LegMoves DEF CatchUp, RunJob, Moved, StartingIsEarly
<1>10. ASSUME NEW l \in Legs, Poll(l)
      PROVE  StartingIsEarly'
  BY <1>10, <1>0, PollMoves DEF Poll, Moved, StartingIsEarly
<1>11. ASSUME NEW c \in Clients, Route(c)
      PROVE  StartingIsEarly'
  BY <1>11, RouteDoes DEF StartingIsEarly
<1>12. ASSUME NEW c \in Clients, Invoke(c)
      PROVE  StartingIsEarly'
  BY <1>12, ClientMoves DEF Invoke, Answers, RecordFollowsBox, StartingIsEarly
<1>13. ASSUME NEW c \in Clients, AlreadyAwake(c)
      PROVE  StartingIsEarly'
  BY <1>13, ClientMoves DEF AlreadyAwake, Left, StartingIsEarly
<1>14. ASSUME NEW c \in Clients, PrepareStop(c)
      PROVE  StartingIsEarly'
  BY <1>14, ClientMoves DEF PrepareStop, Answers, RecordFollowsBox, StartingIsEarly
<1>15. ASSUME NEW c \in Clients, Committed(c)
      PROVE  StartingIsEarly'
  BY <1>15, CommittedDoes DEF StartingIsEarly
<1>16. ASSUME NEW c \in Clients, Uncommitted(c)
      PROVE  StartingIsEarly'
  BY <1>16, ClientMoves DEF Uncommitted, Left, StartingIsEarly
<1>17. ASSUME NEW c \in Clients, FinishStop(c)
      PROVE  StartingIsEarly'
  BY <1>17, ClientMoves, FinishStopDoes DEF Left, StartingIsEarly
<1>18. CASE UserStart
  <2>1. User \in Clients /\ AcquireStart(User, None) /\ None \in Dues
    BY <1>18, <1>0 DEF UserStart
  <2>2. /\ cli'[User].pc = "invoke" /\ (~MayRotate => rec' = rec)
        /\ \A x \in Clients \ {User} :
              cli'[x].pc = cli[x].pc /\ cli'[x].own = IF MayRotate THEN FALSE ELSE cli[x].own
    BY <2>1, StartFields
  <2> QED
    BY <2>2 DEF StartingIsEarly
<1>19. CASE UserDone
  BY <1>19, <1>0, ClientMoves DEF UserDone, Left, Moved, StartingIsEarly
<1>20. CASE UNCHANGED vars
  BY <1>20 DEF vars, StartingIsEarly
<1> QED
  BY <1>1, <1>2, <1>3, <1>4, <1>5, <1>6, <1>7, <1>8, <1>9, <1>10, <1>11, <1>12, <1>13, <1>14,
     <1>15, <1>16, <1>17, <1>18, <1>19, <1>20
     DEF Next, LegStep, ClientStep

\* An occurrence is owed only while neither tree has run it.
LEMMA UnrunStep == ASSUME TypeOK, UnrunIsNewer, [Next]_vars PROVE UnrunIsNewer'
<1>1. CASE Tick
  <2>1. job.live \in Nat /\ job.saved \in Nat
    BY DEF TypeOK
  <2>2. CASE owed = None
    <3>1. owed' # None => owed' = 0
      BY <1>1, <2>2, TickJob
    <3>2. job'.live > 0 /\ job'.saved > 0
      BY <1>1, <2>1, TickJob, Constants DEF Min
    <3> QED
      BY <3>1, <3>2 DEF UnrunIsNewer
  <2>3. CASE owed # None
    <3>1. owed \in Nat /\ owed' = Min(owed + 1, Grace + 1) /\ owed < job.live /\ owed < job.saved
      BY <1>1, <2>3, TickJob DEF UnrunIsNewer
    <3>2. owed' < job'.live /\ owed' < job'.saved
      BY <1>1, <2>1, <3>1, TickJob, Constants DEF Min
    <3> QED
      BY <3>2 DEF UnrunIsNewer
  <2> QED
    BY <2>2, <2>3
<1>2. CASE Ring \/ RestoreFails \/ WorkMoves
  BY <1>2 DEF Ring, RestoreFails, WorkMoves, UnrunIsNewer
<1>3. CASE Restored
  BY <1>3, RestoredDoes DEF Restored, UnrunIsNewer
<1>4. CASE Fire
  BY <1>4, JobRunsDoes DEF Fire, UnrunIsNewer
<1>5. CASE Checkpoint
  BY <1>5, CheckpointDoes DEF Checkpoint, UnrunIsNewer
<1>6. CASE Reclaim
  BY <1>6, ReclaimDoes DEF Reclaim, UnrunIsNewer
<1>7. ASSUME NEW l \in Legs, NotDue(l) \/ Start(l) \/ CatchUp(l) \/ Poll(l)
      PROVE  UnrunIsNewer'
  BY <1>7 DEF NotDue, Start, CatchUp, Poll, UnrunIsNewer
<1>8. ASSUME NEW l \in Legs, StartBlind(l) \/ StartRefused(l) \/ InvokeRaises(l)
      PROVE  UnrunIsNewer'
  BY <1>8 DEF StartBlind, StartRefused, InvokeRaises, UnrunIsNewer
<1>9. ASSUME NEW l \in Legs, RunJob(l)
      PROVE  UnrunIsNewer'
  BY <1>9, JobRunsDoes DEF RunJob, UnrunIsNewer
<1>10. ASSUME NEW c \in Clients, Route(c) \/ Invoke(c) \/ AlreadyAwake(c) \/ PrepareStop(c)
                                   \/ Uncommitted(c) \/ FinishStop(c)
      PROVE  UnrunIsNewer'
  BY <1>10 DEF Route, Invoke, AlreadyAwake, PrepareStop, Uncommitted, FinishStop, UnrunIsNewer
<1>11. ASSUME NEW c \in Clients, Committed(c)
      PROVE  UnrunIsNewer'
  BY <1>11, CommittedDoes DEF Committed, UnrunIsNewer
<1>12. CASE UserStart \/ UserDone
  BY <1>12 DEF UserStart, UserDone, UnrunIsNewer
<1>13. CASE UNCHANGED vars
  BY <1>13 DEF vars, UnrunIsNewer
<1> QED
  BY <1>1, <1>2, <1>3, <1>4, <1>5, <1>6, <1>7, <1>8, <1>9, <1>10, <1>11, <1>12, <1>13
     DEF Next, LegStep, ClientStep

\* The base invariant is inductive.
LEMMA BaseStep == ASSUME BaseInv, [Next]_vars PROVE BaseInv'
BY NextType, DuesStep, FirstLegsStep, RecordStep, StartingStep, UnrunStep DEF BaseInv

\* The base invariant holds at first.
LEMMA BaseInit == Init => BaseInv
<1> SUFFICES ASSUME Init PROVE BaseInv
  OBVIOUS
<1>1. TypeOK
  BY InitType
<1>2. \A c \in Clients : cli[c] = Gone
  BY DEF Init
<1>3. /\ rec.due \in {Period - 1, None} /\ box.pub = None /\ since = 1
      /\ rec.state = "STOPPED" /\ rec.lease = 0 /\ rec.init = 0 /\ box.pc = "off" /\ owed = None
  BY DEF Init
<1>4. DuesOnSchedule
  BY <1>2, <1>3, Constants DEF DuesOnSchedule, OnSchedule, Gone
<1>5. FirstLegsDwell /\ StartingIsEarly
  BY <1>2, <1>3 DEF FirstLegsDwell, Walks, StartingIsEarly, Gone
<1>6. RecordFollowsBox /\ UnrunIsNewer
  BY <1>3 DEF RecordFollowsBox, UnrunIsNewer
<1> QED
  BY <1>1, <1>4, <1>5, <1>6 DEF BaseInv

\* Whatever fails, is lost or is reclaimed and however many legs run at once: a
\* container that restores or serves has the record's state and a live lease, every
\* due time that _publish_next_due sent or a plan read stays one of the job's
\* occurrences, and an occurrence is owed only while neither the served nor the
\* saved tree has run it.
THEOREM BaseInvariant == Spec => []BaseInv
BY BaseInit, BaseStep, PTL DEF Spec

---------------------------------------------------------------------------
(* Work is not cut off.                                                    *)

\* A leg that heard an idle answer is not overtaken by a long turn.
LEMMA QuietStep ==
    ASSUME BaseInv, QuietIsYoung, [Next]_vars PROVE QuietIsYoung'
<1>0. /\ TypeOK /\ rec.due \in Dues /\ None \in Dues /\ User \in Clients /\ Legs \subseteq Clients
      /\ \A l \in Legs : Door(l) = "waker"
  BY Constants, RecordFields, DuesMarkers DEF BaseInv, TypeOK, Door
<1>a. FirstLegsDwell /\ RecordFollowsBox
  BY DEF BaseInv
<1>1. CASE Tick
  <2> SUFFICES ASSUME NEW l \in Legs, cli'[l].quiet = 1, Answers(l)', cli'[l].pc = "hold", l \notin blind'
                 PROVE  box'.work \in {"none", "young", "mid"}
    BY <1>1, <1>0, TickDoes DEF QuietIsYoung, QuietLeg
  <2>1. l \in Clients /\ cli[l].quiet = 1 /\ cli[l].own /\ box.pc = "up" /\ box.door = Door(l)
        /\ cli[l].pc \in {"polled", "hold"} /\ box'.work = Grown(box.work)
    BY <1>1, <1>0, TickDoes, TickRecord DEF Answers
  <2>2. cli[l].pc = "polled" /\ box.work # "gap" /\ blind' = blind
    BY <1>1, <2>1 DEF Tick, Restoring
  <2>3. box.work \in {"none", "young"}
    BY <2>1, <2>2 DEF QuietIsYoung, QuietLeg, Answers
  <2> QED
    BY <2>1, <2>3 DEF Grown
<1>2. CASE Ring
  BY <1>2, <1>0, RingMoves DEF Ring, Moved, QuietIsYoung, QuietLeg, Answers
<1>3. CASE Restored
  BY <1>3, <1>0, <1>a, RestoredDoes
     DEF Restored, RecordFollowsBox, QuietIsYoung, QuietLeg, Answers
<1>4. CASE RestoreFails \/ Reclaim
  BY <1>4, <1>0, RestoreFailsDoes, ReclaimDoes DEF QuietIsYoung, QuietLeg, Answers
<1>5. CASE Fire
  BY <1>5, <1>0, JobRunsDoes DEF Fire, QuietIsYoung, QuietLeg, Answers
<1>6. CASE WorkMoves
  BY <1>6, <1>0, WorkMovesDoes DEF WorkMoves, QuietIsYoung, QuietLeg, Answers
<1>7. CASE Checkpoint
  BY <1>7, <1>0, CheckpointDoes DEF Checkpoint, QuietIsYoung, QuietLeg, Answers
<1>8. ASSUME NEW l \in Legs, NotDue(l) \/ StartRefused(l)
      PROVE  QuietIsYoung'
  <2>1. box' = box /\ blind' = blind /\ (cli' = cli \/ Left(l))
    BY <1>8, <1>0, LegMoves DEF NotDue, StartRefused
  <2>2. \A x \in Legs : cli'[x] = cli[x] \/ cli'[x].quiet = 0
    BY <1>0, <2>1 DEF Left
  <2> QED
    BY <2>1, <2>2 DEF QuietIsYoung, QuietLeg, Answers
<1>9. ASSUME NEW l \in Legs, InvokeRaises(l)
      PROVE  QuietIsYoung'
  <2>1. \A x \in Legs : cli'[x] = cli[x] \/ cli'[x].pc \notin {"polled", "hold"}
    BY <1>9, <1>0, LegMoves DEF Left, Moved
  <2>2. box' = box /\ blind' = blind
    BY <1>9, <1>0 DEF InvokeRaises
  <2> QED
    BY <2>1, <2>2 DEF QuietIsYoung, QuietLeg, Answers
<1>10. ASSUME NEW l \in Legs, Start(l)
      PROVE  QuietIsYoung'
  <2>1. l \in Clients /\ AcquireStart(l, rec.due) /\ rec.due \in Dues /\ box' = box /\ blind' = blind
    BY <1>10, <1>0 DEF Start
  <2>2. /\ cli'[l].pc = "invoke"
        /\ \A x \in Clients \ {l} :
              /\ cli'[x].pc = cli[x].pc /\ cli'[x].quiet = cli[x].quiet
              /\ cli'[x].own = IF MayRotate THEN FALSE ELSE cli[x].own
    BY <1>0, <2>1, StartFields
  <2> QED
    BY <1>0, <2>1, <2>2 DEF QuietIsYoung, QuietLeg, Answers
<1>11. ASSUME NEW l \in Legs, StartBlind(l)
      PROVE  QuietIsYoung'
  <2>1. l \in Clients /\ AcquireStart(l, None) /\ None \in Dues /\ box' = box /\ blind' = blind
    BY <1>11, <1>0 DEF StartBlind
  <2>2. /\ cli'[l].pc = "invoke"
        /\ \A x \in Clients \ {l} :
              /\ cli'[x].pc = cli[x].pc /\ cli'[x].quiet = cli[x].quiet
              /\ cli'[x].own = IF MayRotate THEN FALSE ELSE cli[x].own
    BY <1>0, <2>1, StartFields
  <2> QED
    BY <1>0, <2>1, <2>2 DEF QuietIsYoung, QuietLeg, Answers
<1>12. ASSUME NEW l \in Legs, CatchUp(l)
      PROVE  QuietIsYoung'
  <2>1. cli[l].quiet = 0 /\ box' = box /\ blind' = blind
    BY <1>12, <1>0, <1>a DEF CatchUp, FirstLegsDwell, Walks
  <2> QED
    BY <1>12, <1>0, <2>1, LegMoves DEF Moved, QuietIsYoung, QuietLeg, Answers
<1>13. ASSUME NEW l \in Legs, RunJob(l)
      PROVE  QuietIsYoung'
  <2>1. cli[l].quiet = 0 /\ (box' = box \/ JobRuns) /\ blind' = blind
    BY <1>13, <1>0, <1>a DEF RunJob, FirstLegsDwell, Walks
  <2>2. \A x \in Legs : cli'[x] = cli[x] \/ cli'[x].quiet = 0
    BY <1>13, <1>0, <2>1, LegMoves DEF Moved
  <2>3. box' = box \/ (box'.pc = box.pc /\ box'.door = box.door /\ box'.work = "young")
    BY <1>0, <2>1, JobRunsDoes
  <2> QED
    BY <2>1, <2>2, <2>3 DEF QuietIsYoung, QuietLeg, Answers
<1>14. ASSUME NEW l \in Legs, Poll(l)
      PROVE  QuietIsYoung'
  <2>1. box' = box /\ box.work \in {"none", "young", "mid", "turn", "gap"}
    BY <1>14, <1>0 DEF Poll, TypeOK, Box
  <2>2. PICK readable \in {Answers(l), FALSE} :
           LET busy == readable /\ box.work \in {"young", "mid", "turn"}
           IN  /\ blind' = Unread(l, readable)
               /\ cli'[l].own = cli[l].own /\ cli'[l].pc # "hold"
               /\ \A x \in Clients \ {l} : cli'[x] = cli[x]
               /\ cli'[l].pc = "polled" => cli'[l].quiet = IF busy THEN 0 ELSE 1
    BY <1>14, <1>0, PollMoves DEF Moved
  <2>3. ASSUME NEW x \in Legs, x # l PROVE QuietLeg(x)'
    <3>1. cli'[x] = cli[x] /\ (x \in blind' <=> x \in blind)
      BY <1>0, <2>2, <2>3 DEF Unread
    <3> QED
      BY <2>1, <3>1 DEF QuietIsYoung, QuietLeg, Answers
  <2>4. QuietLeg(l)'
    <3> SUFFICES ASSUME cli'[l].pc = "polled", cli'[l].quiet = 1, l \notin blind'
                 PROVE  box.work \in {"none", "gap", "young"}
      BY <2>1, <2>2 DEF QuietLeg, Answers
    <3>1. readable
      BY <2>2 DEF Unread
    <3> QED
      BY <2>1, <2>2, <3>1
  <2> QED
    BY <2>3, <2>4 DEF QuietIsYoung
<1>15. ASSUME NEW c \in Clients, Route(c)
      PROVE  QuietIsYoung'
  BY <1>15, <1>0, RouteDoes DEF QuietIsYoung, QuietLeg, Answers
<1>16. ASSUME NEW c \in Clients, Invoke(c)
      PROVE  QuietIsYoung'
  <2>1. cli[c].quiet = 0 /\ box' = box /\ blind' = blind
    BY <1>16, <1>a DEF Invoke, FirstLegsDwell, Walks
  <2> QED
    BY <1>16, <1>0, <2>1, ClientMoves DEF Moved, QuietIsYoung, QuietLeg, Answers
<1>17. ASSUME NEW c \in Clients, AlreadyAwake(c)
      PROVE  QuietIsYoung'
  <2>1. \A x \in Legs : cli'[x] = cli[x] \/ cli'[x].pc \notin {"polled", "hold"}
    BY <1>17, <1>0, ClientMoves DEF Left, Moved
  <2>2. box' = box /\ blind' = blind
    BY <1>17, <1>0 DEF AlreadyAwake
  <2> QED
    BY <2>1, <2>2 DEF QuietIsYoung, QuietLeg, Answers
<1>18. ASSUME NEW c \in Clients, PrepareStop(c) \/ Committed(c)
      PROVE  QuietIsYoung'
  BY <1>18, <1>0, PrepareStopDoes, CommittedDoes DEF QuietIsYoung, QuietLeg, Answers
<1>19. ASSUME NEW c \in Clients, Uncommitted(c)
      PROVE  QuietIsYoung'
  <2>1. \A x \in Legs : \/ cli'[x] = cli[x] /\ (x \in blind' <=> x \in blind)
                        \/ cli'[x].pc \notin {"polled", "hold"}
    BY <1>19, <1>0, ClientMoves DEF Left, Moved, Uncommitted
  <2>2. box' = box \/ box'.pc = "frozen"
    BY <1>19, <1>0, UncommittedDoes
  <2> QED
    BY <2>1, <2>2 DEF QuietIsYoung, QuietLeg, Answers
<1>20. ASSUME NEW c \in Clients, FinishStop(c)
      PROVE  QuietIsYoung'
  <2>1. \A x \in Legs : cli'[x] = cli[x] \/ cli'[x].pc \notin {"polled", "hold"}
    BY <1>20, <1>0, ClientMoves DEF Left, Moved
  <2>2. (box' = box \/ box'.pc = "off") /\ blind' = blind
    BY <1>20, <1>0, FinishStopDoes DEF FinishStop
  <2> QED
    BY <2>1, <2>2 DEF QuietIsYoung, QuietLeg, Answers
<1>21. CASE UserStart
  <2>1. User \in Clients /\ AcquireStart(User, None) /\ None \in Dues /\ box' = box /\ blind' = blind
    BY <1>21, <1>0 DEF UserStart
  <2>2. /\ cli'[User].pc = "invoke"
        /\ \A x \in Clients \ {User} :
              /\ cli'[x].pc = cli[x].pc /\ cli'[x].quiet = cli[x].quiet
              /\ cli'[x].own = IF MayRotate THEN FALSE ELSE cli[x].own
    BY <1>0, <2>1, StartFields
  <2> QED
    BY <1>0, <2>1, <2>2 DEF QuietIsYoung, QuietLeg, Answers
<1>22. CASE UserDone
  <2>1. \A x \in Legs : cli'[x] = cli[x] \/ cli'[x].pc \notin {"polled", "hold"}
    BY <1>22, <1>0, ClientMoves, Constants DEF Left, Moved
  <2>2. box' = box /\ blind' = blind
    BY <1>22, <1>0 DEF UserDone
  <2> QED
    BY <2>1, <2>2 DEF QuietIsYoung, QuietLeg, Answers
<1>23. CASE UNCHANGED vars
  BY <1>23 DEF vars, QuietIsYoung, QuietLeg, Answers
<1> QED
  BY <1>1, <1>2, <1>3, <1>4, <1>5, <1>6, <1>7, <1>8, <1>9, <1>10, <1>11, <1>12, <1>13, <1>14,
     <1>15, <1>16, <1>17, <1>18, <1>19, <1>20, <1>21, <1>22, <1>23
     DEF Next, LegStep, ClientStep

\* A leg stops a sandbox whose crew is at work or in the pause between two turns
\* only when its relays are spent or one of its two idle probes was an answer it
\* could not read, for any number of legs, owners, relays and faults: the pause is
\* shorter than the interval of the polls, and _hold_while_busy wants two idle
\* answers in a row.
THEOREM WorkIsNotCutOff == Spec => WorkNotCutOff
<1>1. Init => QuietIsYoung
  <2>1. Init => \A l \in Legs : cli[l] = Gone
    BY Constants DEF Init
  <2> QED
    BY <2>1 DEF QuietIsYoung, QuietLeg, Gone
<1>2. BaseInv /\ QuietIsYoung /\ [Next]_vars =>
         [\A l \in Legs :
          cli[l].pc = "hold" /\ cli'[l].pc = "commit" /\ Answers(l) /\ box.work # "none"
             => l \in blind' \/ (cli[l].relay = MaxRelays /\ cli[l].left = 0)]_vars
  <2> SUFFICES ASSUME BaseInv, QuietIsYoung, Next, NEW l \in Legs, l \notin blind',
                      cli[l].pc = "hold", cli'[l].pc = "commit", Answers(l), box.work # "none"
               PROVE  cli[l].relay = MaxRelays /\ cli[l].left = 0
    BY DEF vars
  <2>0. TypeOK /\ l \in Clients /\ l # User /\ User \in Clients /\ Legs \subseteq Clients
        /\ rec.due \in Dues /\ None \in Dues
    BY Constants, RecordFields, DuesMarkers DEF BaseInv, TypeOK
  <2>1. Poll(l)
    <3>1. ~Tick
      BY <2>0, TickDoes
    <3>2. ~Ring
      BY <2>0, RingMoves DEF Moved
    <3>3. ~(Restored \/ RestoreFails \/ Fire \/ WorkMoves \/ Checkpoint \/ Reclaim)
      BY DEF Restored, RestoreFails, Fire, WorkMoves, Checkpoint, Reclaim
    <3>4. ASSUME NEW m \in Legs, NotDue(m) \/ StartRefused(m) \/ InvokeRaises(m) \/ CatchUp(m) \/ RunJob(m)
          PROVE  FALSE
      BY <2>0, <3>4, LegMoves DEF Left, Moved
    <3>5. ASSUME NEW m \in Legs, Start(m) \/ StartBlind(m)
          PROVE  FALSE
      <4>1. m \in Clients /\ (AcquireStart(m, rec.due) \/ AcquireStart(m, None))
        BY <2>0, <3>5 DEF Start, StartBlind
      <4> QED
        BY <2>0, <4>1, StartFields
    <3>6. ASSUME NEW m \in Legs, Poll(m) PROVE m = l
      BY <2>0, <3>6, PollMoves DEF Moved
    <3>7. ASSUME NEW c \in Clients, ClientStep(c)
          PROVE  FALSE
      <4>1. ~Route(c)
        BY DEF Route
      <4> QED
        BY <2>0, <3>7, <4>1, ClientMoves DEF ClientStep, Left, Moved
    <3>8. ~UserStart
      BY <2>0, StartFields DEF UserStart
    <3>9. ~UserDone
      BY <2>0, ClientMoves DEF Left, Moved
    <3> QED
      BY <3>1, <3>2, <3>3, <3>4, <3>5, <3>6, <3>7, <3>8, <3>9 DEF Next, LegStep
  <2>2. PICK readable \in {Answers(l), FALSE} :
           LET busy == readable /\ box.work \in {"young", "mid", "turn"}
           IN  /\ blind' = Unread(l, readable)
               /\ (~busy /\ cli[l].quiet = 1) \/ (cli[l].left = 0 /\ cli[l].relay = MaxRelays)
    BY <2>0, <2>1, PollMoves DEF Moved
  <2>3. readable /\ (cli[l].quiet = 1 => l \notin blind)
    BY <2>2 DEF Unread
  <2>4. box.work \in {"young", "mid"} \/ cli[l].quiet # 1
    BY <2>3 DEF QuietIsYoung, QuietLeg
  <2> QED
    BY <2>2, <2>3, <2>4
<1>3. BaseInv /\ QuietIsYoung /\ [Next]_vars => QuietIsYoung'
  BY QuietStep
<1>4. Spec => []QuietIsYoung
  BY <1>1, <1>3, BaseInvariant, PTL DEF Spec
<1> QED
  BY <1>2, <1>4, BaseInvariant, PTL DEF Spec, WorkNotCutOff

---------------------------------------------------------------------------
(* A catch-up repeats a run only by losing a race.                         *)

\* Steps after which no other leg is about to post, in the same minute.
LEMMA PostsKept ==
    ASSUME PostsAreDue, since' = since, job'.live = job.live, raced' = raced,
           \A l \in Legs : cli'[l].pc = "run" => cli[l].pc = "run"
    PROVE  PostsAreDue'
BY DEF PostsAreDue, Posting

\* The decision to post: the due time that the leg was woken for has passed, so
\* that the job's latest occurrence is no older, and the gateway has not run it.
LEMMA CatchUpIsDue ==
    ASSUME BaseInv, NEW l \in Legs, CatchUp(l), cli'[l].pc = "run"
    PROVE  job.live > since
<1>0. l \in Clients /\ TypeOK
  BY Constants DEF BaseInv
<1> DEFINE d == cli[l].due
<1>1. ~Hold(l)
  <2>1. Hold(l) => cli'[l] = [cli[l] EXCEPT !.pc = "hold", !.left = Budget] /\ cli[l] \in Client
    BY <1>0, HoldDoes DEF Edited, TypeOK
  <2> QED
    BY <2>1 DEF Client
<1>2. d \notin {None, Never} /\ d <= 0 /\ ~HasRun(d)
  BY <1>1 DEF CatchUp, Missed
<1>3. d \in Int /\ since \in Nat /\ since < Period /\ job.live \in Nat /\ Period \in Nat
  <2>1. cli[l].due \in Dues
    BY <1>0, ClientFields DEF TypeOK
  <2> QED
    BY <1>0, <1>2, <2>1, Constants DEF TypeOK, Dues
<1>4. d + since <= 0
  <2>1. d + since <= 0 \/ d + since = Period
    BY <1>0, <1>2 DEF BaseInv, DuesOnSchedule, OnSchedule
  <2> QED
    BY <1>2, <1>3, <2>1
<1>5. job.live + d > 0
  BY <1>2, <1>3 DEF HasRun
<1> QED
  BY <1>3, <1>4, <1>5

\* The saved tree stays the older one, and a post in the making stays due.
LEMMA CatchUpStep == ASSUME CatchUpInv, [Next]_vars PROVE SavedIsOlder' /\ PostsAreDue'
<1>0. /\ BaseInv /\ TypeOK /\ SavedIsOlder /\ PostsAreDue /\ rec.due \in Dues /\ None \in Dues
      /\ User \in Clients /\ Legs \subseteq Clients
      /\ job.live \in Nat /\ job.saved \in Nat /\ since \in Nat /\ since < Period
  BY Constants, RecordFields, DuesMarkers DEF CatchUpInv, BaseInv, TypeOK
<1>a. ASSUME UNCHANGED <<job, since, raced>>,
             \A l \in Legs : cli'[l].pc = "run" => cli[l].pc = "run"
      PROVE  SavedIsOlder' /\ PostsAreDue'
  BY <1>0, <1>a, PostsKept DEF SavedIsOlder
<1>1. CASE Tick
  <2>1. SavedIsOlder'
    BY <1>0, <1>1, TickJob, Constants DEF SavedIsOlder, Min
  <2>2. job.live > since => job'.live > since'
    BY <1>0, <1>1, TickJob, Constants DEF Min
  <2>3. \A l \in Legs : cli'[l].pc = "run" => cli[l].pc = "run"
    BY <1>0, <1>1, TickDoes
  <2>4. raced' = raced
    BY <1>1 DEF Tick
  <2> QED
    BY <1>0, <2>1, <2>2, <2>3, <2>4 DEF PostsAreDue, Posting
<1>2. CASE Ring
  BY <1>2, <1>0, <1>a, RingMoves DEF Ring, Moved
<1>3. CASE Restored
  <2>1. job'.live = job.saved /\ job'.saved = job.saved /\ UNCHANGED <<cli, since, raced>>
    BY <1>3, <1>0, RestoredDoes DEF Restored
  <2> QED
    BY <1>0, <2>1 DEF SavedIsOlder, PostsAreDue, Posting
<1>4. CASE RestoreFails \/ WorkMoves
  BY <1>4, <1>a DEF RestoreFails, WorkMoves
<1>5. CASE Fire
  <2>1. job'.live = 0 /\ job'.saved = job.saved /\ raced' = Posting /\ cli' = cli
    BY <1>5, <1>0, JobRunsDoes DEF Fire
  <2> QED
    BY <1>0, <2>1 DEF SavedIsOlder, PostsAreDue, Posting
<1>6. CASE Checkpoint
  <2>1. job'.live = job.live /\ job'.saved = job.live /\ UNCHANGED <<cli, since, raced>>
    BY <1>6, <1>0, CheckpointDoes DEF Checkpoint
  <2> QED
    BY <1>0, <2>1, PostsKept DEF SavedIsOlder
<1>7. CASE Reclaim
  <2>1. UNCHANGED <<cli, since, raced>>
        /\ (job' = job \/ (job'.live = job.live /\ job'.saved = job.live))
    BY <1>7, <1>0, ReclaimDoes DEF Reclaim
  <2> QED
    BY <1>0, <2>1, PostsKept DEF SavedIsOlder
<1>8. ASSUME NEW l \in Legs, NotDue(l) \/ StartRefused(l) \/ InvokeRaises(l)
      PROVE  SavedIsOlder' /\ PostsAreDue'
  <2>1. UNCHANGED <<job, since, raced>>
    BY <1>8 DEF NotDue, StartRefused, InvokeRaises
  <2> QED
    BY <1>8, <1>0, <1>a, <2>1, LegMoves DEF Left, Moved
<1>9. ASSUME NEW c \in Clients, NEW d \in Dues, AcquireStart(c, d), UNCHANGED <<job, since, raced>>
      PROVE  SavedIsOlder' /\ PostsAreDue'
  BY <1>9, <1>0, <1>a, StartFields
<1>10. ASSUME NEW l \in Legs, Start(l) \/ StartBlind(l)
      PROVE  SavedIsOlder' /\ PostsAreDue'
  BY <1>10, <1>0, <1>9 DEF Start, StartBlind
<1>11. ASSUME NEW l \in Legs, CatchUp(l)
      PROVE  SavedIsOlder' /\ PostsAreDue'
  <2>1. UNCHANGED <<job, since, raced>> /\ \A x \in Clients \ {l} : cli'[x] = cli[x]
    BY <1>11, <1>0, LegMoves DEF CatchUp, Moved
  <2>2. cli'[l].pc = "run" => job.live > since
    BY <1>11, <1>0, CatchUpIsDue
  <2> QED
    BY <1>0, <2>1, <2>2 DEF SavedIsOlder, PostsAreDue, Posting
<1>12. ASSUME NEW l \in Legs, RunJob(l)
      PROVE  SavedIsOlder' /\ PostsAreDue'
  <2>1. cli'[l].pc = "hold" /\ since' = since /\ \A x \in Clients \ {l} : cli'[x] = cli[x]
    BY <1>12, <1>0, LegMoves DEF RunJob, Moved
  <2>2. CASE JobRuns /\ raced' = Posting \ {l}
    <3>1. job'.live = 0 /\ job'.saved = job.saved
      BY <1>0, <2>2, JobRunsDoes
    <3> QED
      BY <1>0, <2>1, <2>2, <3>1 DEF SavedIsOlder, PostsAreDue, Posting
  <2>3. CASE job' = job /\ raced' = raced \ {l}
    BY <1>0, <2>1, <2>3 DEF SavedIsOlder, PostsAreDue, Posting
  <2> QED
    BY <1>12, <2>2, <2>3 DEF RunJob
<1>13. ASSUME NEW l \in Legs, Poll(l)
      PROVE  SavedIsOlder' /\ PostsAreDue'
  <2>1. UNCHANGED <<job, since, raced>>
    BY <1>13 DEF Poll
  <2> QED
    BY <1>13, <1>0, <1>a, <2>1, PollMoves DEF Moved
<1>14. ASSUME NEW c \in Clients, Route(c)
      PROVE  SavedIsOlder' /\ PostsAreDue'
  BY <1>14, <1>a DEF Route
<1>15. ASSUME NEW c \in Clients, Invoke(c) \/ AlreadyAwake(c) \/ PrepareStop(c) \/ Uncommitted(c)
                                   \/ FinishStop(c)
      PROVE  SavedIsOlder' /\ PostsAreDue'
  <2>1. UNCHANGED <<job, since, raced>>
    BY <1>15 DEF Invoke, AlreadyAwake, PrepareStop, Uncommitted, FinishStop
  <2>2. \A x \in Clients : cli'[x].pc = "run" => cli[x].pc = "run"
    BY <1>15, <1>0, ClientMoves DEF Left, Moved
  <2> QED
    BY <1>0, <1>a, <2>1, <2>2
<1>16. ASSUME NEW c \in Clients, Committed(c)
      PROVE  SavedIsOlder' /\ PostsAreDue'
  <2>1. job'.live = job.live /\ job'.saved = job.live /\ UNCHANGED <<since, raced>>
    BY <1>16, <1>0, CommittedDoes DEF Committed
  <2>2. \A x \in Clients : cli'[x].pc = "run" => cli[x].pc = "run"
    BY <1>16, <1>0, ClientMoves DEF Moved
  <2> QED
    BY <1>0, <2>1, <2>2, PostsKept DEF SavedIsOlder
<1>17. CASE UserStart
  BY <1>17, <1>0, <1>9 DEF UserStart
<1>18. CASE UserDone
  BY <1>18, <1>0, <1>a, ClientMoves DEF UserDone, Left, Moved
<1>19. CASE UNCHANGED vars
  BY <1>19, <1>a DEF vars
<1> QED
  BY <1>1, <1>2, <1>3, <1>4, <1>5, <1>6, <1>7, <1>8, <1>10, <1>11, <1>12, <1>13, <1>14, <1>15,
     <1>16, <1>17, <1>18, <1>19
     DEF Next, LegStep, ClientStep

\* _catch_up repeats an occurrence only by losing a race: unless the job started
\* after the leg read the job list, its post finds a tree that has not run the job
\* since it was last due, whatever fails, comes late, is lost, is reclaimed or is
\* opened by the owner, and however many legs there are.
THEOREM CatchUpRepeatsOnlyByRace == Spec => RepeatsOnlyByRace
<1>1. Init => SavedIsOlder /\ PostsAreDue
  <2>1. Init => job.live = 1 /\ job.saved = 1 /\ \A l \in Legs : cli[l].pc = "idle"
    BY Constants DEF Init, Gone
  <2> QED
    BY <2>1 DEF SavedIsOlder, PostsAreDue, Posting
<1>2. Spec => []CatchUpInv
  <2>1. Init => CatchUpInv
    BY <1>1, BaseInit DEF CatchUpInv
  <2>2. CatchUpInv /\ [Next]_vars => CatchUpInv'
    BY BaseStep, CatchUpStep DEF CatchUpInv
  <2> QED
    BY <2>1, <2>2, PTL DEF Spec
<1>3. CatchUpInv =>
         [\A l \in Legs :
          cli[l].pc = "run" /\ cli'[l].pc = "hold" /\ Answers(l) /\ l \notin raced
             => job.live > since]_vars
  BY DEF CatchUpInv, PostsAreDue, Posting
<1> QED
  BY <1>2, <1>3, PTL DEF Spec, RepeatsOnlyByRace

---------------------------------------------------------------------------
(* An undisturbed cycle.                                                   *)

\* Where a leg is, by its place and by the container's.
LEMMA WhichStage ==
    ASSUME NEW s, Stage(s)
    PROVE  /\ cli[s].pc = "idle" => Waits(s)
           /\ cli[s].pc = "queued" => Queued(s) \/ Relays(s)
           /\ cli[s].pc = "invoke" => Provisions(s) \/ Restores(s) \/ Reaches(s) \/ Relays(s)
           /\ cli[s].pc = "dwell" => Dwells(s)
           /\ cli[s].pc = "run" => Posts(s)
           /\ cli[s].pc \in {"hold", "polled", "commit"} => Holds(s)
           /\ cli[s].pc = "closing" => Closes(s)
           /\ cli[s].pc = "finish" => Finishes(s)
           /\ cli[s].pc # "use"
           /\ box.pc = "off" => Waits(s) \/ Queued(s) \/ Provisions(s)
           /\ box.pc = "restoring" => Restores(s)
           /\ box.pc = "up" => Reaches(s) \/ Dwells(s) \/ Posts(s) \/ Relays(s) \/ Holds(s)
           /\ box.pc # "off" => cli[s].own /\ box.door = "waker"
BY
   DEF Stage, Waits, Queued, Invokes, Provisions, Restores, Reaches, Dwells, Posts, Relays, Holds,
       Closes, Finishes, AtRest, UpFor

\* The leg that is at work is the only client that acts.
LEMMA SoloActs == ASSUME NEW s, Solo(s), NEW c \in Clients, cli[c].pc # "idle" PROVE c = s
BY DEF Solo

\* The leg at work stays the only one.
LEMMA SoloKept ==
    ASSUME NEW s, Solo(s), Stage(s)', \A x \in Clients \ {s} : cli'[x].pc = cli[x].pc
    PROVE  Solo(s)'
BY DEF Solo

\* A running gateway that starts its due jobs at once owes nothing in its minute.
LEMMA PromptOwes ==
    ASSUME BaseInv, box.pc = "up", ~FireDue, since = 0 PROVE owed = None
<1>1. owed # None => owed \in Nat /\ job.live \in Nat /\ owed < job.live
  BY Constants DEF BaseInv, TypeOK, UnrunIsNewer
<1> QED
  BY <1>1 DEF FireDue

\* A planned due time is still planned a minute later.
LEMMA PlannedTick ==
    ASSUME TypeOK, Tick, NEW d \in Dues, Planned(d), Owes => owed < Grace
    PROVE  cut' \/ (/\ Earlier(d) \in Int
                    /\ IF owed' = None THEN Earlier(d) = Period - since'
                       ELSE Earlier(d) <= 0 /\ -Earlier(d) <= owed')
<1> SUFFICES ASSUME ~cut'
             PROVE  /\ Earlier(d) \in Int
                    /\ IF owed' = None THEN Earlier(d) = Period - since'
                       ELSE Earlier(d) <= 0 /\ -Earlier(d) <= owed'
  OBVIOUS
<1>0. ~cut
  BY TickJob
<1>1. /\ d \in Int /\ Period \in Nat /\ Period > 1 /\ Grace \in Nat /\ Horizon > Grace /\ Horizon \in Nat
      /\ since \in 0 .. Period - 1
  BY <1>0, Constants DEF Planned, TypeOK
<1>2. d > -Horizon => Earlier(d) = d - 1
  BY <1>1, EarlierType, Constants
<1>3. CASE owed = None
  <2>1. d = Period - since
    BY <1>0, <1>3 DEF Planned
  <2>2. Earlier(d) = d - 1
    BY <1>1, <1>2, <2>1
  <2>3. CASE since = Period - 1
    <3>1. since' = 0 /\ owed' = 0
      BY <1>3, <2>3, TickJob
    <3>2. 0 # None
      BY Constants
    <3> QED
      BY <1>1, <2>1, <2>2, <2>3, <3>1, <3>2
  <2>4. CASE since # Period - 1
    <3>1. since' = since + 1
      BY <1>1, <2>4, TickJob
    <3>2. owed' = None
      BY <1>1, <1>3, <3>1, TickJob
    <3> QED
      BY <1>1, <2>1, <2>2, <3>1, <3>2
  <2> QED
    BY <2>3, <2>4
<1>4. CASE owed # None
  <2>1. owed \in Nat /\ owed' = Min(owed + 1, Grace + 1) /\ owed < Grace /\ d <= 0 /\ -d <= owed
    BY <1>0, <1>4, TickJob DEF Planned, Owes
  <2>2. owed' = owed + 1
    BY <1>1, <2>1 DEF Min
  <2>3. owed' # None
    BY <2>1, <2>2, Constants
  <2>4. Earlier(d) = d - 1
    BY <1>1, <1>2, <2>1
  <2> QED
    BY <1>1, <2>1, <2>2, <2>3, <2>4
<1> QED
  BY <1>3, <1>4

\* What a minute makes of the occurrence owed.
LEMMA OwedTick ==
    ASSUME TypeOK, Tick, Owes'
    PROVE  \/ owed = None /\ owed' = 0 /\ since' = 0
           \/ Owes /\ owed \in Nat /\ owed' \in Nat /\ owed' <= owed + 1
<1>0. ~cut
  BY TickJob DEF Owes
<1>1. CASE owed = None
  BY <1>1, TickJob DEF Owes
<1>2. CASE owed # None
  <2>1. owed \in Nat /\ owed' = Min(owed + 1, Grace + 1)
    BY <1>2, TickJob
  <2> QED
    BY <1>0, <1>2, <2>1, Constants DEF Min, Owes
<1> QED
  BY <1>1, <1>2

\* A stopped sandbox that is owed an occurrence is woken for it.
LEMMA DueNowWakes ==
    ASSUME TypeOK, AtRest, Owes PROVE Wake(rec)
<1>1. owed = 0 /\ rec.age > 0 /\ rec.due \in Int /\ rec.due <= 0 /\ -rec.due <= owed
  BY DEF AtRest, Planned, Owes
<1>2. rec.due = 0 /\ rec.age \in Nat /\ Grace \in Nat
  BY <1>1, RecordFields, Constants DEF TypeOK
<1>3. rec.due # None /\ rec.due # Never
  BY <1>1, Constants
<1>4. WakeLead(rec.restore) >= 0
  <2>1. rec.restore # None => rec.restore \in Nat
    BY RecordFields, Constants DEF TypeOK
  <2>2. CASE rec.restore = None
    BY <2>2, Constants DEF WakeLead
  <2>3. CASE rec.restore # None
    <3>1. \A x \in Int : Max(MinLead, Min(MaxLead, x)) >= 0
      BY Constants DEF Max, Min
    <3>2. (3 * rec.restore) \div 2 + Pad \in Int
      BY <2>1, <2>3, Constants
    <3> QED
      BY <2>3, <3>1, <3>2 DEF WakeLead
  <2> QED
    BY <2>2, <2>3
<1>5. rec.due <= WakeLead(rec.restore)
  BY <1>2, <1>4
<1>6. ~Handled(rec) /\ ~(-rec.due > Grace)
  BY <1>1, <1>2 DEF Handled
<1> QED
  BY <1>3, <1>5, <1>6 DEF Wake, Held, AtRest

\* A minute of an undisturbed cycle.
LEMMA CycleTick ==
    ASSUME CycleFits, BaseInv, NEW s \in Legs, Solo(s), \A k : ~Fault(k), Tick
    PROVE  Solo(s)'
<1>0. /\ TypeOK /\ s \in Clients /\ Legs \subseteq Clients /\ RecordFollowsBox
      /\ Grace \in Nat /\ DwellTicks \in Nat /\ Legacy \in Nat /\ Legacy > 0 /\ Stage(s)
      /\ Door(s) = "waker" /\ ~FireDue
  BY Constants DEF BaseInv, Door, Solo, Tick
<1>a. /\ rec.due \in Dues /\ cli[s].due \in Dues /\ rec.age \in Nat /\ box.left \in Nat
      /\ cli[s].left \in Nat /\ (owed # None => owed \in Nat)
  BY <1>0, RecordFields, ClientFields, Constants DEF TypeOK, Box
<1>1. /\ \A c \in Clients : cli'[c].pc = IF cli[c].pc = "polled" THEN "hold" ELSE cli[c].pc
      /\ cli'[s].due = Earlier(cli[s].due) /\ cli'[s].own = cli[s].own /\ cli'[s].relay = cli[s].relay
      /\ cli'[s].left = IF cli[s].pc = "dwell" THEN Max(cli[s].left - 1, 0) ELSE cli[s].left
  BY <1>0, TickDoes
<1>2. /\ box'.pc = box.pc /\ box'.door = box.door /\ box'.left = Max(box.left - 1, 0)
      /\ rec'.state = rec.state /\ rec'.due = Earlier(rec.due)
      /\ rec'.age = IF Beats THEN 0 ELSE Min(rec.age + 1, Legacy)
  BY <1>0, TickRecord
<1>3. ~Pending(s) /\ rung /\ ~rung' /\ ~(box.pc = "restoring" /\ box.left = 0)
      /\ (cli[s].pc = "hold" => Restoring(s))
  BY <1>0 DEF Tick
<1>4. \A x \in Clients \ {s} : cli'[x].pc = cli[x].pc
  BY <1>1 DEF Solo
<1>5. SUFFICES Stage(s)'
  BY <1>4, SoloKept
<1>6. CASE Waits(s)
  <2>1. ~Owes /\ AtRest /\ ~Beats
    BY <1>3, <1>6 DEF Waits, AtRest, Beats
  <2>2. Planned(rec.due)'
    BY <1>0, <1>2, <1>a, <2>1, PlannedTick DEF AtRest, Planned
  <2>3. rec'.age > 0
    BY <1>0, <1>2, <1>a, <2>1 DEF Min
  <2>4. Owes' => owed' = 0
    BY <1>0, <2>1, OwedTick
  <2>5. AtRest'
    BY <1>2, <2>1, <2>2, <2>3, <2>4 DEF AtRest
  <2>6. Waits(s)'
    BY <1>0, <1>1, <1>3, <1>6, <2>5 DEF Waits
  <2> QED
    BY <2>6 DEF Stage
<1>7. CASE Restores(s)
  <2>1. box.left > 0 /\ box'.left = box.left - 1
    BY <1>2, <1>3, <1>7, <1>a DEF Restores, Max
  <2>2. Owes => owed < Grace
    BY <1>0, <1>7, <1>a, <2>1 DEF Restores, Owes
  <2>3. Planned(cli[s].due)'
    BY <1>0, <1>1, <1>7, <1>a, <2>2, PlannedTick DEF Restores, Planned
  <2>4. box'.left + DwellTicks <= Grace
    BY <1>0, <1>7, <1>a, <2>1 DEF Restores
  <2>5. ASSUME Owes' PROVE owed' + box'.left + DwellTicks <= Grace
    <3>1. CASE owed' = 0
      BY <1>0, <1>a, <2>1, <2>4, <3>1
    <3>2. CASE Owes /\ owed \in Nat /\ owed' \in Nat /\ owed' <= owed + 1
      BY <1>0, <1>7, <1>a, <2>1, <3>2 DEF Restores
    <3> QED
      BY <1>0, <2>5, <3>1, <3>2, OwedTick
  <2>6. Restores(s)'
    BY <1>1, <1>2, <1>0, <1>7, <2>3, <2>4, <2>5 DEF Restores, Invokes
  <2> QED
    BY <2>6 DEF Stage
<1>8. CASE Dwells(s)
  <2>1. cli[s].left > 0 /\ cli'[s].left = cli[s].left - 1
    BY <1>1, <1>3, <1>8, <1>a DEF Dwells, UpFor, Pending, Calling, Restoring, Max
  <2>2. cli[s].left <= Grace /\ (Owes => owed + cli[s].left <= Grace /\ Planned(cli[s].due))
    BY <1>0, <1>8, PromptOwes DEF Dwells, UpFor, WillCatchUp, Owes
  <2>3. WillCatchUp(s, cli[s].left)'
    <3> SUFFICES ASSUME Owes'
                 PROVE  /\ owed' + cli'[s].left <= Grace
                        /\ (owed' = 0 /\ since' = 0) \/ Planned(cli[s].due)'
      BY <1>0, <1>a, <2>1, <2>2 DEF WillCatchUp
    <3>1. CASE owed' = 0 /\ since' = 0
      BY <1>0, <1>a, <2>1, <2>2, <3>1
    <3>2. CASE Owes /\ owed \in Nat /\ owed' \in Nat /\ owed' <= owed + 1
      <4>1. owed < Grace /\ Planned(cli[s].due) /\ owed' + cli'[s].left <= Grace
        BY <1>0, <1>a, <2>1, <2>2, <3>2
      <4>2. Planned(cli[s].due)'
        BY <1>0, <1>1, <1>a, <4>1, PlannedTick DEF Planned
      <4> QED
        BY <4>1, <4>2
    <3> QED
      BY <1>0, <3>1, <3>2, OwedTick
  <2>4. Dwells(s)'
    BY <1>1, <1>2, <1>0, <1>8, <2>3 DEF Dwells, UpFor
  <2> QED
    BY <2>4 DEF Stage
<1>9. CASE Holds(s)
  <2>1. cli[s].pc = "polled" /\ ~Owes
    BY <1>0, <1>3, <1>9, PromptOwes DEF Holds, UpFor, FiresNow, Owes, Restoring, Pending, Calling
  <2>2. Owes' => owed' = 0 /\ since' = 0
    BY <1>0, <2>1, OwedTick
  <2>3. Holds(s)'
    BY <1>1, <1>2, <1>0, <1>9, <2>1, <2>2 DEF Holds, UpFor, FiresNow
  <2> QED
    BY <2>3 DEF Stage
<1>10. CASE Closes(s)
  <2>1. ASSUME ~cut' PROVE owed' = None /\ box'.pub = Period - since'
    <3>1. since' # 0 /\ owed = None /\ box.pub = Period - since
      BY <1>0, <1>10, <2>1, TickJob DEF Closes
    <3>2. owed' = None /\ since' = since + 1 /\ since \in 0 .. Period - 1
      <4>1. since \in 0 .. Period - 1 /\ (since' = since + 1 \/ since' = 0)
        BY <1>0, <1>1, TickJob, Constants DEF TypeOK
      <4>2. owed' = None
        BY <1>1, <3>1 DEF Tick
      <4> QED
        BY <3>1, <4>1, <4>2
    <3>3. box.pub \in Dues /\ box.pub \in Int /\ box.pub > -Horizon /\ box'.pub = Earlier(box.pub)
      BY <1>0, <3>1, <3>2, TickRecord, Constants DEF TypeOK, Box
    <3>4. box'.pub = box.pub - 1
      BY <3>3, EarlierType, Constants
    <3> QED
      BY <3>1, <3>2, <3>4, Constants
  <2>2. Closes(s)'
    BY <1>0, <1>1, <1>2, <1>10, <2>1 DEF Closes
  <2> QED
    BY <2>2 DEF Stage
<1>11. ~(Queued(s) \/ Provisions(s) \/ Reaches(s) \/ Posts(s) \/ Relays(s) \/ Finishes(s))
  BY <1>3 DEF Pending, Calling, Restoring, Queued, Invokes, Provisions, Reaches, Posts, Relays,
              Finishes, UpFor
<1> QED
  BY <1>0, <1>6, <1>7, <1>8, <1>9, <1>10, <1>11 DEF Stage

\* The clients' and the container's steps of an undisturbed cycle.
LEMMA CycleStep ==
    ASSUME CycleFits, BaseInv, NEW s \in Legs, Solo(s), \A k : ~Fault(k), faults' = 0, [Next]_vars
    PROVE  Cycle'
<1>0. /\ TypeOK /\ rec.due \in Dues /\ None \in Dues /\ User \in Clients /\ Legs \subseteq Clients
      /\ User \notin Legs /\ s \in Clients /\ s # User /\ Door(s) = "waker" /\ RecordFollowsBox
      /\ FirstLegsDwell /\ Stage(s) /\ \A x \in Clients \ {s} : cli[x].pc = "idle"
  BY Constants, RecordFields, DuesMarkers DEF BaseInv, TypeOK, Door, Solo
<1>a. /\ DwellTicks \in Nat /\ Grace \in Nat
      /\ \A r \in RestoreTicks : r \in Nat /\ r + DwellTicks <= Grace
  BY Constants DEF CycleFits
<1>b. ASSUME Stage(s)', \A x \in Clients \ {s} : cli'[x].pc = cli[x].pc PROVE Cycle'
  BY <1>b, SoloKept DEF Cycle
<1>c. \A x \in Clients : cli[x].pc # "idle" => x = s
  BY <1>0
<1>d. ASSUME Waits(s) PROVE box.pc = "off" /\ cli[s].pc = "idle"
  BY <1>d DEF Waits, AtRest
<1>1. CASE Tick
  BY <1>1, CycleTick DEF Cycle
<1>2. CASE Ring
  <2>1. UNCHANGED <<rec, box, job, since, owed, cut>> /\ ~rung /\ rung'
    BY <1>2 DEF Ring
  <2>2. CASE Waits(s)
    <3>1. CASE cli' = cli
      <4>1. ~Wake(rec)
        BY <1>2, <1>0, <1>d, <2>2, <3>1, RingMoves DEF Moved
      <4>2. ~Owes
        BY <1>0, <2>2, <4>1, DueNowWakes DEF Waits
      <4>3. Waits(s)'
        BY <2>1, <2>2, <3>1, <4>2 DEF Waits, AtRest, Planned, Owes
      <4> QED
        BY <1>b, <3>1, <4>3 DEF Stage
    <3>2. CASE cli' # cli
      <4>1. PICK l \in Legs : cli[l].pc = "idle" /\ Wake(rec)
                                /\ Moved(l, "queued", cli[l].left, cli[l].relay, cli[l].quiet)
        BY <1>2, <1>0, <3>2, RingMoves
      <4>2. cli[l].relay = 0 /\ l \in Clients
        BY <1>0, <4>1 DEF FirstLegsDwell, Walks
      <4>3. Queued(l)'
        BY <2>1, <2>2, <4>1, <4>2
           DEF Queued, Moved, Waits, AtRest, Planned, Owes, Wake, Held, Handled, Stranded
      <4>4. \A x \in Clients \ {l} : cli'[x].pc = "idle"
        BY <1>0, <1>d, <2>2, <4>1 DEF Moved
      <4> QED
        BY <4>3, <4>4 DEF Cycle, Solo, Stage
    <3> QED
      BY <3>1, <3>2
  <2>3. CASE ~Waits(s)
    <3>1. ~Queued(s)
      BY <2>1 DEF Queued
    <3>2. Held(rec)
      <4>1. box.pc = "off" => rec.state = "STARTING" /\ rec.lease > 0
        BY <1>0, <2>3, <3>1, WhichStage DEF Provisions
      <4>2. box.pc \in {"restoring", "up", "closing", "frozen", "off"}
        BY <1>0 DEF TypeOK, Box
      <4> QED
        BY <1>0, <4>1, <4>2 DEF RecordFollowsBox, Held
    <3>3. cli' = cli
      BY <1>2, <1>0, <3>2, RingMoves DEF Wake
    <3>4. Stage(s)'
      BY <1>0, <2>1, <2>3, <3>1, <3>3
         DEF Stage, Invokes, Provisions, Restores, Reaches, Dwells, Posts,
             Relays, Holds, Closes, Finishes, Planned, UpFor, WillCatchUp, FiresNow, Owes
    <3> QED
      BY <1>b, <3>3, <3>4
  <2> QED
    BY <2>2, <2>3
<1>3. CASE Restored
  <2>1. UNCHANGED <<cli, since, owed, cut>> /\ box.left = 0
    BY <1>3 DEF Restored
  <2>2. Restores(s) /\ box'.pc = "up" /\ box'.door = box.door
    BY <1>3, <1>0, RestoredDoes, WhichStage
  <2>3. Reaches(s)'
    <3>1. Invokes(s)' /\ UpFor'
      BY <2>1, <2>2 DEF Restores, Invokes, UpFor
    <3>2. owed \in Nat \cup {None}
      BY <1>0, <1>a DEF TypeOK
    <3>3. DwellTicks <= Grace /\ (Owes => owed + DwellTicks <= Grace) /\ Planned(cli[s].due)
      BY <1>a, <2>1, <2>2, <3>2 DEF Restores, Owes
    <3>4. WillCatchUp(s, DwellTicks)'
      BY <2>1, <3>3 DEF WillCatchUp, Planned, Owes
    <3> QED
      BY <3>1, <3>4 DEF Reaches
  <2> QED
    BY <1>b, <2>1, <2>3 DEF Stage
<1>4. CASE RestoreFails
  BY <1>4 DEF RestoreFails
<1>5. CASE Fire
  <2>1. UNCHANGED <<cli, since>> /\ box.pc = "up" /\ owed' = None /\ cut' = FALSE
        /\ box'.pc = box.pc /\ box'.door = box.door
    BY <1>5, <1>0, JobRunsDoes DEF Fire, FireDue
  <2>2. Reaches(s) \/ Dwells(s) \/ Posts(s) \/ Relays(s) \/ Holds(s)
    BY <1>0, <2>1, WhichStage
  <2>3. Stage(s)'
    BY <2>1, <2>2
       DEF Stage, Invokes, Reaches, Dwells, Posts, Relays, Holds, UpFor, WillCatchUp, FiresNow, Owes
  <2> QED
    BY <1>b, <2>1, <2>3
<1>6. CASE WorkMoves
  <2>1. UNCHANGED <<cli, since, owed, cut>> /\ box.pc = "up" /\ box'.pc = box.pc /\ box'.door = box.door
    BY <1>6, <1>0, WorkMovesDoes DEF WorkMoves
  <2>2. Reaches(s) \/ Dwells(s) \/ Posts(s) \/ Relays(s) \/ Holds(s)
    BY <1>0, <2>1, WhichStage
  <2>3. Stage(s)'
    BY <2>1, <2>2
       DEF Stage, Invokes, Reaches, Dwells, Posts, Relays, Holds, UpFor, WillCatchUp, FiresNow, Owes,
                      Planned
  <2> QED
    BY <1>b, <2>1, <2>3
<1>7. CASE Checkpoint
  <2>1. UNCHANGED <<cli, since, owed, cut>> /\ box.pc = "up" /\ box'.pc = box.pc /\ box'.door = box.door
    BY <1>7, <1>0, CheckpointDoes DEF Checkpoint
  <2>2. Reaches(s) \/ Dwells(s) \/ Posts(s) \/ Relays(s) \/ Holds(s)
    BY <1>0, <2>1, WhichStage
  <2>3. Stage(s)'
    BY <2>1, <2>2
       DEF Stage, Invokes, Reaches, Dwells, Posts, Relays, Holds, UpFor, WillCatchUp, FiresNow, Owes,
                      Planned
  <2> QED
    BY <1>b, <2>1, <2>3
<1>8. CASE Reclaim
  <2>1. box.pc # "off" /\ ~InUse
    BY <1>8 DEF Reclaim
  <2>2. cli[s].own /\ box.door = Door(s)
    BY <1>0, <2>1, WhichStage
  <2> QED
    BY <1>0, <2>1, <2>2 DEF InUse
<1>9. ASSUME NEW l \in Legs, NotDue(l)
      PROVE  Cycle'
  <2>1. l = s /\ cli[s].pc = "queued" /\ cli[s].relay = 0 /\ ~Wake(rec)
    BY <1>9, <1>0, <1>c DEF NotDue
  <2> QED
    BY <1>0, <2>1, WhichStage DEF Queued, Relays
<1>10. ASSUME NEW l \in Legs, Start(l)
      PROVE  Cycle'
  <2>1. l = s /\ cli[s].pc = "queued" /\ AcquireStart(s, rec.due) /\ UNCHANGED <<box, since, owed, cut>>
    BY <1>10, <1>0, <1>c DEF Start
  <2>2. /\ cli'[s].pc = "invoke" /\ cli'[s].own = TRUE /\ cli'[s].due = rec.due
        /\ cli'[s].relay = cli[s].relay
        /\ \A x \in Clients \ {s} : cli'[x].pc = cli[x].pc
        /\ MayRotate => rec'.state = "STARTING" /\ rec'.lease = LeaseTTL
    <3>1. TypeOK /\ s \in Clients /\ rec.due \in Dues
      BY <1>0
    <3> QED
      BY <2>1, <3>1, StartFields
  <2>3. CASE Queued(s)
    <3>1. AtRest /\ rec.lease = 0 /\ rec.init = 0 /\ rec.state = "STOPPED" /\ cli[s].relay = 0
      BY <1>0, <2>3 DEF Queued, AtRest, RecordFollowsBox
    <3>2. MayRotate /\ LeaseTTL > 0
      BY <3>1, Constants DEF MayRotate
    <3>3. Provisions(s)'
      BY <2>1, <2>2, <3>1, <3>2 DEF Provisions, Invokes, Planned, AtRest, Owes
    <3> QED
      BY <1>b, <2>2, <3>3 DEF Stage
  <2>4. CASE Relays(s)
    <3>1. Relays(s)'
      BY <2>1, <2>2, <2>4 DEF Relays, UpFor, FiresNow, Owes
    <3> QED
      BY <1>b, <2>2, <3>1 DEF Stage
  <2> QED
    BY <1>0, <2>1, <2>3, <2>4, WhichStage
<1>11. ASSUME NEW l \in Legs, CatchUp(l)
      PROVE  Cycle'
  <2>1. l = s /\ cli[s].pc = "dwell" /\ cli[s].left = 0 /\ UNCHANGED <<box, since, owed, cut>>
    BY <1>11, <1>0, <1>c DEF CatchUp
  <2>2. Dwells(s) /\ Answers(s)
    BY <1>0, <2>1, WhichStage DEF Dwells, UpFor, Answers
  <2>3. Owes =>
           /\ owed \in Nat /\ job.live \in Nat /\ owed < job.live /\ owed <= Grace
           /\ (owed = 0 /\ since = 0) \/ Planned(cli[s].due)
    <3>1. Owes => owed \in Nat /\ job.live \in Nat /\ owed < job.live
      BY <1>0, <1>a DEF BaseInv, TypeOK, UnrunIsNewer, Owes
    <3>2. Owes => owed + cli[s].left <= Grace /\ ((owed = 0 /\ since = 0) \/ Planned(cli[s].due))
      BY <2>2 DEF Dwells, WillCatchUp
    <3> QED
      BY <1>a, <2>1, <3>1, <3>2
  <2>4. /\ cli'[s].own = cli[s].own /\ \A x \in Clients \ {s} : cli'[x].pc = cli[x].pc
        /\ cli'[s].pc \in {"run", "hold"}
    BY <1>11, <1>0, <2>1, LegMoves DEF Moved
  <2>5. CASE cli'[s].pc = "run"
    <3>1. Posts(s)'
      BY <2>1, <2>2, <2>3, <2>4, <2>5 DEF Posts, Dwells, UpFor, Owes
    <3> QED
      BY <1>b, <2>4, <3>1 DEF Stage
  <2>6. CASE cli'[s].pc = "hold"
    <3>1. FiresNow
      <4> SUFFICES ASSUME Owes, ~(owed = 0 /\ since = 0) PROVE FALSE
        BY DEF FiresNow
      <4>1. cli[s].due \in Int /\ cli[s].due <= 0 /\ -cli[s].due <= owed
        BY <2>3 DEF Planned, Owes
      <4>2. Missed(cli[s].due)
        BY <2>3, <4>1, Constants DEF HasRun, Missed
      <4>3. Goto(s, "run")
        BY <1>11, <2>1, <2>2, <4>2 DEF CatchUp
      <4>4. cli'[s].pc = "run"
        <5>1. cli' = [cli EXCEPT ![s] = [cli[s] EXCEPT !.pc = "run"]] /\ cli \in [Clients -> Client]
          BY <1>0, <4>3 DEF Goto, TypeOK
        <5> QED
          BY <1>0, <5>1 DEF Client
      <4> QED
        BY <2>6, <4>4
    <3>2. Holds(s)'
      BY <2>1, <2>2, <2>4, <2>6, <3>1 DEF Holds, Dwells, UpFor, FiresNow, Owes
    <3> QED
      BY <1>b, <2>4, <3>2 DEF Stage
  <2> QED
    BY <2>4, <2>5, <2>6
<1>12. ASSUME NEW l \in Legs, RunJob(l)
      PROVE  Cycle'
  <2>1. l = s /\ cli[s].pc = "run" /\ UNCHANGED since
    BY <1>12, <1>0, <1>c DEF RunJob
  <2>2. Posts(s) /\ Answers(s)
    BY <1>0, <2>1, WhichStage DEF Posts, UpFor, Answers
  <2>3. owed' = None /\ cut' = FALSE /\ box'.pc = box.pc /\ box'.door = box.door
    BY <1>12, <1>0, <2>1, <2>2, JobRunsDoes DEF RunJob, Refused
  <2>4. /\ cli'[s].own = cli[s].own /\ \A x \in Clients \ {s} : cli'[x].pc = cli[x].pc
        /\ cli'[s].pc = "hold"
    BY <1>12, <1>0, <2>1, LegMoves DEF Moved
  <2>5. Holds(s)'
    BY <2>2, <2>3, <2>4 DEF Holds, Posts, UpFor, FiresNow, Owes
  <2> QED
    BY <1>b, <2>4, <2>5 DEF Stage
<1>13. ASSUME NEW l \in Legs, Poll(l)
      PROVE  Cycle'
  <2>1. l = s /\ cli[s].pc = "hold" /\ UNCHANGED <<box, since, owed, cut>>
    BY <1>13, <1>0, <1>c DEF Poll
  <2>2. Holds(s) /\ cli[s].relay \in Nat
    BY <1>0, <2>1, WhichStage, ClientFields DEF TypeOK
  <2>3. /\ cli'[s].own = cli[s].own /\ \A x \in Clients \ {s} : cli'[x].pc = cli[x].pc
        /\ \/ cli'[s].pc \in {"commit", "polled"}
           \/ cli'[s].pc = "queued" /\ cli'[s].relay = cli[s].relay + 1
    BY <1>13, <1>0, <2>1, PollMoves DEF Moved
  <2>4. Holds(s)' \/ Relays(s)'
    BY <2>1, <2>2, <2>3 DEF Holds, Relays, UpFor, FiresNow, Owes
  <2> QED
    BY <1>b, <2>3, <2>4 DEF Stage
<1>14. ASSUME NEW l \in Legs, StartBlind(l) \/ StartRefused(l) \/ InvokeRaises(l)
      PROVE  Cycle'
  BY <1>14 DEF StartBlind, StartRefused, InvokeRaises
<1>15. ASSUME NEW c \in Clients, Route(c)
      PROVE  Cycle'
  <2>1. c = s /\ Calling(s) /\ UNCHANGED <<cli, since, owed, cut>>
    BY <1>15, <1>0, <1>c DEF Route, Calling
  <2>2. box.pc = "off"
    <3>1. ~TakeoverIdle(s)
      BY <1>0, WhichStage DEF TakeoverIdle
    <3> QED
      BY <1>15, <2>1, <3>1 DEF Route, Claimable
  <2>3. Provisions(s)
    BY <1>0, <2>1, <2>2, WhichStage DEF Waits, Queued, Calling
  <2>4. box'.pc = "restoring" /\ box'.door = "waker" /\ box'.left \in RestoreTicks
    BY <1>15, <1>0, <2>1, RouteDoes
  <2>5. box'.left + DwellTicks <= Grace /\ (Owes => owed + box'.left + DwellTicks <= Grace)
    BY <1>a, <2>3, <2>4 DEF Provisions
  <2>6. Restores(s)'
    BY <2>1, <2>3, <2>4, <2>5 DEF Restores, Provisions, Invokes, Planned, Owes
  <2> QED
    BY <1>b, <2>1, <2>6 DEF Stage
<1>16. ASSUME NEW c \in Clients, Invoke(c)
      PROVE  Cycle'
  <2>1. c = s /\ cli[s].pc = "invoke" /\ box.pc = "up" /\ UNCHANGED <<box, since, owed, cut>>
    BY <1>16, <1>0, <1>c DEF Invoke, Answers
  <2>2. /\ cli'[s].own = cli[s].own /\ cli'[s].due = cli[s].due
        /\ \A x \in Clients \ {s} : cli'[x].pc = cli[x].pc
        /\ \/ cli[s].relay = 0 /\ cli'[s].pc = "dwell" /\ cli'[s].left = DwellTicks
           \/ cli[s].relay > 0 /\ cli'[s].pc = "hold"
    BY <1>16, <1>0, <2>1, ClientMoves DEF Moved
  <2>3. cli[s].relay = 0 => Reaches(s)
    BY <1>0, <2>1, WhichStage DEF Dwells, Posts, Relays, Holds
  <2>4. cli[s].relay > 0 => Relays(s)
    BY <1>0, <2>1, WhichStage DEF Reaches, Invokes, Dwells, Posts, Holds
  <2>5. Dwells(s)' \/ Holds(s)'
    BY <2>1, <2>2, <2>3, <2>4
       DEF Reaches, Invokes, Dwells, Relays, Holds, UpFor, WillCatchUp, FiresNow, Owes,
                                  Planned
  <2> QED
    BY <1>b, <2>2, <2>5 DEF Stage
<1>17. ASSUME NEW c \in Clients, AlreadyAwake(c)
      PROVE  Cycle'
  <2>1. c = s /\ cli[s].pc = "invoke" /\ Refused(s)
    BY <1>17, <1>0, <1>c DEF AlreadyAwake
  <2>2. Provisions(s) \/ Restores(s) \/ Reaches(s) \/ Relays(s)
    BY <1>0, <2>1, WhichStage
  <2> QED
    BY <1>0, <2>1, <2>2
       DEF Refused, Answers, Restoring, Claimable, RecordFollowsBox, Provisions, Restores,
                            Reaches, Relays, Invokes, UpFor
<1>18. ASSUME NEW c \in Clients, PrepareStop(c)
      PROVE  Cycle'
  <2>1. c = s /\ cli[s].pc = "commit" /\ cut' = (cut \/ FireDue) /\ UNCHANGED <<since, owed>>
    BY <1>18, <1>0, <1>c DEF PrepareStop
  <2>2. Holds(s)
    BY <1>0, <2>1, WhichStage
  <2>3. cut' \/ (owed = None /\ ~FireDue)
    BY <2>1, <2>2, PromptOwes DEF Holds, UpFor, FiresNow, Owes
  <2>4. box'.pc = "closing" /\ box'.door = box.door /\ (~FireDue => box'.pub = Period - since)
    BY <1>18, <1>0, <2>1, <2>2, PrepareStopDoes DEF NextDue
  <2>5. /\ cli'[s].own = cli[s].own /\ \A x \in Clients \ {s} : cli'[x].pc = cli[x].pc
        /\ cli'[s].pc = "closing"
    BY <1>18, <1>0, <2>1, ClientMoves DEF Moved
  <2>6. Closes(s)'
    BY <2>1, <2>2, <2>3, <2>4, <2>5 DEF Closes, Holds, UpFor
  <2> QED
    BY <1>b, <2>5, <2>6 DEF Stage
<1>19. ASSUME NEW c \in Clients, Committed(c)
      PROVE  Cycle'
  <2>1. c = s /\ cli[s].pc = "closing" /\ UNCHANGED <<since, owed, cut>>
    BY <1>19, <1>0, <1>c DEF Committed
  <2>2. Closes(s)
    BY <1>0, <2>1, WhichStage
  <2>3. cut \/ box.pub # None
    BY <1>0, <2>2, Constants DEF Closes, TypeOK
  <2>4. box'.pc = "frozen" /\ box'.door = box.door /\ rec'.state = "STOPPING"
        /\ (cut \/ rec'.due = box.pub)
    BY <1>19, <1>0, <2>1, <2>3, CommittedDoes
  <2>5. /\ cli'[s].own = cli[s].own /\ \A x \in Clients \ {s} : cli'[x].pc = cli[x].pc
        /\ cli'[s].pc = "finish"
    BY <1>19, <1>0, <2>1, ClientMoves DEF Moved
  <2>6. Finishes(s)'
    BY <2>1, <2>2, <2>4, <2>5 DEF Finishes, Closes
  <2> QED
    BY <1>b, <2>5, <2>6 DEF Stage
<1>20. ASSUME NEW c \in Clients, Uncommitted(c)
      PROVE  Cycle'
  <2>1. c = s /\ cli[s].pc \in {"closing", "commit"}
    BY <1>20, <1>0, <1>c DEF Uncommitted
  <2>2. cli[s].pc = "closing" => box.pc = "closing"
    BY <1>0, WhichStage DEF Closes
  <2>3. cli[s].pc = "commit" => Answers(s)
    BY <1>0, WhichStage DEF Holds, UpFor, Answers
  <2> QED
    BY <1>20, <2>1, <2>2, <2>3 DEF Uncommitted, Refused
<1>21. ASSUME NEW c \in Clients, FinishStop(c)
      PROVE  Cycle'
  <2>1. c = s /\ cli[s].pc = "finish" /\ UNCHANGED <<since, owed, cut>>
    BY <1>21, <1>0, <1>c DEF FinishStop
  <2>2. Finishes(s)
    BY <1>0, <2>1, WhichStage
  <2>3. box'.pc = "off" /\ rec'.state = "STOPPED" /\ rec'.due = rec.due
    BY <1>21, <1>0, <2>1, <2>2, FinishStopDoes DEF Finishes
  <2>4. cli'[s].pc = "idle" /\ \A x \in Clients \ {s} : cli'[x].pc = cli[x].pc
    BY <1>21, <1>0, <2>1, ClientMoves DEF Left
  <2>5. Period - since \in Int
    BY <1>0, Constants DEF TypeOK
  <2>6. Waits(s)'
    BY <2>1, <2>2, <2>3, <2>4, <2>5 DEF Finishes, Waits, AtRest, Planned, Owes
  <2> QED
    BY <1>b, <2>4, <2>6 DEF Stage
<1>22. CASE UserStart \/ UserDone
  BY <1>22, <1>0 DEF UserStart, UserDone
<1>23. CASE UNCHANGED vars
  BY <1>23
     DEF vars, Cycle, Solo, Stage, Waits, Queued, Invokes, Provisions, Restores, Reaches, Dwells,
         Posts, Relays, Holds, Closes, Finishes, AtRest, UpFor, Planned, WillCatchUp, FiresNow, Owes,
         Wake, Held, Handled, Stranded
<1> QED
  BY <1>1, <1>2, <1>3, <1>4, <1>5, <1>6, <1>7, <1>8, <1>9, <1>10, <1>11, <1>12, <1>13, <1>14,
     <1>15, <1>16, <1>17, <1>18, <1>19, <1>20, <1>21, <1>22, <1>23
     DEF Next, LegStep, ClientStep

\* A step after which nothing has gone wrong met no disturbance.
LEMMA Undisturbed ==
    ASSUME TypeOK, [Next]_vars, faults' = 0 PROVE faults = 0 /\ \A k : ~Fault(k)
<1>1. \A k : ~Fault(k)
  BY FaultType
<1>2. faults' = faults
  BY <1>1
     DEF Next, LegStep, ClientStep, vars, Tick, Ring, Restored, RestoreFails, Fire, WorkMoves,
       Published, Checkpoint, Reclaim, NotDue, Start, CatchUp, RunJob, Poll, StartBlind, StartRefused,
       InvokeRaises, Route, Invoke, AlreadyAwake, PrepareStop, Committed, Uncommitted, FinishStop,
       UserStart, UserDone
<1> QED
  BY <1>1, <1>2

\* The invariant of an undisturbed cycle holds always.
LEMMA CycleInvariant == ASSUME CycleFits PROVE Spec => []CycleInv
<1>1. Init => CycleInv
  <2> SUFFICES ASSUME Init, faults = 0 PROVE Cycle
    BY BaseInit DEF CycleInv
  <2>1. rec.due = Period - since /\ rec.due \in Int
    BY Constants DEF Init
  <2>2. AtRest /\ owed = None
    BY <2>1 DEF Init, AtRest, Planned, Owes
  <2>3. \A c \in Clients : cli[c].pc = "idle"
    BY DEF Init, Gone
  <2>4. PICK l \in Legs : TRUE
    BY Constants
  <2>5. Waits(l)
    BY <2>2, <2>3, Constants DEF Waits, Owes
  <2> QED
    BY <2>3, <2>4, <2>5 DEF Cycle, Solo, Stage
<1>2. CycleInv /\ [Next]_vars => CycleInv'
  <2> SUFFICES ASSUME CycleInv, [Next]_vars, faults' = 0 PROVE Cycle'
    BY BaseStep DEF CycleInv
  <2>1. faults = 0 /\ (\A k : ~Fault(k)) /\ BaseInv
    BY Undisturbed DEF CycleInv, BaseInv
  <2>2. PICK s \in Legs : Solo(s)
    BY <2>1 DEF CycleInv, Cycle
  <2> QED
    BY <2>1, <2>2, CycleStep
<1> QED
  BY <1>1, <1>2, PTL DEF Spec

\* If a cold start and the dwell fit within the catch-up grace, an undisturbed
\* cycle leaves an occurrence unrun for longer than that grace only when a stop
\* was in its way: the lead, the early stop, the published due time and the
\* catch-up add up, however long a final checkpoint takes and whenever in its
\* minute the gateway starts a due job, for every period, lead, lease and relay
\* budget.
THEOREM CycleDropsNothing == ASSUME CycleFits PROVE Spec => []NoOccurrenceDropped
<1>1. CycleInv => NoOccurrenceDropped
  <2> SUFFICES ASSUME CycleInv, faults = 0, Owes PROVE owed <= Grace
    BY DEF NoOccurrenceDropped, Owes
  <2>1. PICK s \in Legs : Solo(s)
    BY DEF CycleInv, Cycle
  <2>2. Grace \in Nat /\ DwellTicks \in Nat /\ owed \in Nat /\ box.left \in Nat /\ cli[s].left \in Nat
        /\ Period > 1 /\ BaseInv
    BY Constants, ClientFields DEF CycleInv, BaseInv, TypeOK, Box, Owes
  <2>3. CASE owed = 0
    BY <2>2, <2>3
  <2>4. CASE owed # 0
    <3>1. ~AtRest /\ ~Provisions(s) /\ ~Closes(s) /\ ~Finishes(s)
      BY <2>4 DEF AtRest, Provisions, Closes, Finishes, Owes
    <3> QED
      BY <2>1, <2>2, <3>1
         DEF Solo, Stage, Waits, Queued, Restores, Reaches, Dwells, Posts, Relays, Holds,
                              WillCatchUp, FiresNow
  <2> QED
    BY <2>3, <2>4
<1> QED
  BY <1>1, CycleInvariant, PTL

============================================================================

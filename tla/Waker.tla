------------------------------- MODULE Waker -------------------------------
(***************************************************************************)
(* Waking one sandbox on a schedule, so that a cron job inside it runs     *)
(* while nobody watches: the waker function that a schedule starts every   *)
(* minute, the fields of the sandbox record it plans from, the two calls   *)
(* it makes to the control plane, the container it drives through the     *)
(* machine endpoint, and an owner who may open the same sandbox from the   *)
(* browser.                                                                *)
(*                                                                         *)
(* Time.  One Tick is one minute of the schedule.  Every timestamp is kept *)
(* relative to now: lease and init as the ticks left (0 is expired), age   *)
(* as the ticks since updatedAt, due as the ticks until nextDueAt          *)
(* (negative: past), all saturating where no comparison can tell the       *)
(* values apart.  The job recurs every Period ticks; `since' is the age of *)
(* its latest occurrence, 0 during the minute in which it is due.          *)
(*                                                                         *)
(* Clients.  A leg is one run of the waker's handler.  The owner is a      *)
(* client too: it starts, uses and stops the sandbox by the same control-  *)
(* plane operations, through the other runtime ("door").                   *)
(***************************************************************************)
EXTENDS Integers

CONSTANTS
    Legs, User,     \* runs of the waker's handler, and the owner
    None,           \* an absent attribute
    Never,          \* nextDueAt = 0: nothing is scheduled
    Period,         \* ticks between two occurrences of the job
    Pad, MinLead, MaxLead, DefaultLead, \* _wake_lead's 30 s, 90 s, 600 s and 180 s
    Grace,          \* _CATCH_UP_GRACE_SECONDS
    Legacy,         \* _LEGACY_WAKE_SECONDS
    LeaseTTL, StartGrace,
    RestoreTicks,   \* how long a restore may take
    DwellTicks,     \* WAKE_DWELL_SECONDS
    Budget,         \* polls a leg can make before its Lambda deadline
    MaxRelays,      \* WAKE_MAX_RELAYS
    CommitTicks,    \* how long a final checkpoint may take
    Faults, MaxFaults, \* kinds of disturbance, and how many may happen
    Horizon         \* where past due times saturate

ASSUME ConstantsAssumption ==
    /\ User \notin Legs /\ Legs # {}
    /\ None \notin Int /\ Never \notin Int /\ None # Never
    /\ {LeaseTTL, StartGrace, Legacy} \subseteq Nat \ {0}
    /\ {Pad, MinLead, MaxLead, DefaultLead, Grace, DwellTicks, Budget,
        MaxRelays, MaxFaults} \subseteq Nat
    /\ Period \in Nat /\ Period > 1
    /\ RestoreTicks \subseteq Nat /\ RestoreTicks # {}
    /\ CommitTicks \subseteq Nat /\ CommitTicks # {}
    /\ Horizon \in Nat /\ Horizon > Legacy /\ Horizon > Period /\ Horizon > Grace

VARIABLES
    rec,        \* the record's fields the waker reads
    box,        \* the container that serves the sandbox
    cli,        \* per client: where it is
    job,        \* ticks since the job last ran: in the live tree, in the saved one
    since,      \* ticks since the job's latest occurrence
    owed,       \* age of the oldest occurrence that nothing has run, or None
    cut,        \* history: a stop was in the way of an occurrence not run yet
    raced,      \* history: legs whose reading of the job list a run has overtaken
    blind,      \* history: legs that count an idle probe they could not read
    rung,       \* the schedule has started the waker this minute
    faults      \* disturbances so far

history == <<cut, raced, blind>>

vars == <<rec, box, cli, job, since, owed, history, rung, faults>>

Clients == Legs \cup {User}

Dues == -Horizon .. Period \cup {None, Never}

Record ==
    [state : {"STOPPED", "STARTING", "RESTORING", "READY", "STOPPING", "ERROR"},
     lease : 0 .. LeaseTTL, init : 0 .. LeaseTTL, age : 0 .. Legacy,
     due : Dues, restore : RestoreTicks \cup {None}]

(***************************************************************************)
(* door is the runtime the container runs in; left the ticks to the end of *)
(* its restore or checkpoint, or (up) until it may count as idle; took how *)
(* long it restored; pub the due time its broker client will send with the *)
(* next receipt; work what the gateway is doing: a turn, young until a     *)
(* poll cannot miss it, or the second or two of gap between two turns of   *)
(* one crew.                                                               *)
(***************************************************************************)
Box ==
    [pc : {"off", "restoring", "up", "closing", "frozen"}, door : {"user", "waker"},
     left : Nat, took : RestoreTicks, pub : Dues, work : {"none", "young", "mid", "turn", "gap"}]

(***************************************************************************)
(* own: the client's runtime session is still the record's; left: ticks of *)
(* the dwell or polls of the hold; due: plan["due_at"].                     *)
(***************************************************************************)
Client ==
    [pc : {"idle", "queued", "invoke", "dwell", "run", "hold", "polled", "use",
           "commit", "closing", "finish"},
     own : BOOLEAN, relay : 0 .. MaxRelays, left : Nat, quiet : 0 .. 1, due : Dues]

Gone == [pc |-> "idle", own |-> FALSE, relay |-> 0, left |-> 0, quiet |-> 0, due |-> None]

Door(c) == IF c = User THEN "user" ELSE "waker"

\* A disturbance of kind k; a run names the kinds it allows.
Fault(k) == k \in Faults /\ faults < MaxFaults /\ faults' = faults + 1

Max(a, b) == IF a > b THEN a ELSE b

Min(a, b) == IF a < b THEN a ELSE b

\* A client moves on and nothing else of it changes; or its run ends.
Goto(c, pc) == cli' = [cli EXCEPT ![c].pc = pc]

Leave(c) == cli' = [cli EXCEPT ![c] = Gone]

---------------------------------------------------------------------------
(* What the waker decides from the record.                                 *)

\* _wake_lead: the sandbox's own cold start, padded and bounded both ways.
WakeLead(r) ==
    IF r = None THEN DefaultLead ELSE Max(MinLead, Min(MaxLead, (3 * r) \div 2 + Pad))

\* Somebody is using it or a wake is in progress.  Outside STOPPED the record
\* always has a lease, so the branch on its age alone is never taken.
Held(r) == r.state # "STOPPED" /\ (r.init > 0 \/ r.lease > 0)

\* Variant: the sign of the strand's age is wrong.
StrandedAhead(r) == r.due > Legacy /\ r.age >= Legacy

\* _recovery: no wake since the periodic one would have been due either.
Stranded(r) == -r.due > Legacy /\ r.age >= Legacy

\* Variant: an occurrence counts as handled as soon as it is due.
HandledWhenDue(r) == r.due <= 0

\* updated >= due_at: something woke the sandbox for this occurrence.
Handled(r) == r.due + r.age <= 0

\* _wake_plan's "wake".
Wake(r) ==
    /\ ~Held(r)
    /\ CASE r.due = None -> r.age >= Legacy
         [] r.due = Never -> FALSE
         [] OTHER -> /\ r.due <= WakeLead(r.restore)
                     /\ Handled(r) \/ -r.due > Grace => Stranded(r)

---------------------------------------------------------------------------
(* The container and the gateway in it.                                    *)

\* A client's call reaches a gateway that answers.
Answers(c) == cli[c].own /\ box.pc = "up" /\ box.door = Door(c)

\* acquireInit accepts a container of this client's session.
Claimable == /\ box.pc = "off"
             /\ rec.init = 0
             /\ \/ rec.state \in {"STARTING", "RESTORING"}
                \/ rec.state = "READY" /\ rec.lease = 0

\* The other door's container was not invoked lately: the owner is away, or
\* every leg is between two calls.
TakeoverIdle(c) ==
    /\ box.pc = "up" /\ box.left = 0 /\ box.door # Door(c) /\ rec.state = "READY"
    /\ \A l \in Legs : c = User => cli[l].pc \in {"idle", "dwell"}

\* The call waits for the container that it started.
Restoring(c) == cli[c].own /\ box.pc = "restoring" /\ box.door = Door(c)

Calling(c) == \/ cli[c].pc \in {"invoke", "run", "hold", "commit"}
              \/ cli[c].pc = "dwell" /\ cli[c].left = 0

\* The call is refused, or ends at a container that no longer serves it.
Refused(c) ==
    /\ ~Answers(c) /\ ~Restoring(c)
    /\ ~(cli[c].own /\ Claimable)

\* AgentCore starts a microVM for the call, and it claims the sandbox.
Route(c) ==
    /\ Calling(c) /\ cli[c].own
    /\ Claimable \/ TakeoverIdle(c)
    /\ \E r \in RestoreTicks :
          box' = [pc |-> "restoring", door |-> Door(c), left |-> r, took |-> r,
                  pub |-> None, work |-> "none"]
    /\ rec' = [rec EXCEPT !.state = "RESTORING", !.init = LeaseTTL, !.age = 0]
    /\ UNCHANGED <<cli, job, since, owed, history, rung, faults>>

\* The restored tree is the last one saved; the gateway comes up on it.
Restored ==
    /\ box.pc = "restoring" /\ box.left = 0
    /\ box' = [box EXCEPT !.pc = "up", !.left = 1]
    /\ rec' = [rec EXCEPT !.state = "READY", !.lease = LeaseTTL, !.init = 0, !.age = 0]
    /\ job' = [job EXCEPT !.live = job.saved]
    /\ UNCHANGED <<cli, since, owed, history, rung, faults>>

RestoreFails ==
    /\ box.pc = "restoring" /\ Fault("restore")
    /\ box' = [box EXCEPT !.pc = "off", !.left = 0]
    /\ rec' = [rec EXCEPT !.state = "ERROR", !.init = 0, !.age = 0]
    /\ UNCHANGED <<cli, job, since, owed, history, rung>>

\* The job starts, and the sandbox is at work.
JobRuns == /\ job' = [job EXCEPT !.live = 0]
           /\ box' = [box EXCEPT !.work = "young"]
           /\ owed' = None /\ cut' = FALSE

\* The legs that have read the job list and not posted yet.
Posting == {l \in Legs : cli[l].pc = "run"}

\* An expression job is due only during its minute, anywhere in which the
\* gateway may start it.
FireDue == box.pc = "up" /\ since = 0 /\ job.live # 0

Fire ==
    /\ FireDue
    /\ JobRuns
    /\ raced' = Posting
    /\ UNCHANGED <<rec, cli, since, blind, rung, faults>>

WorkMoves ==
    /\ box.pc = "up"
    /\ \/ box.work = "turn" /\ \E w \in {"none", "gap"} : box' = [box EXCEPT !.work = w]
       \/ box.work = "gap" /\ box' = [box EXCEPT !.work = "young"]
    /\ UNCHANGED <<rec, cli, job, since, owed, history, rung, faults>>

\* _publish_next_due: the next_run_ts of the enabled jobs, past ones left out.
NextDue == IF FireDue THEN Never ELSE Period - since

\* What the broker client will send: a schedule that cannot be read leaves it.
Published == \/ box' = [box EXCEPT !.pub = NextDue] /\ UNCHANGED faults
             \/ UNCHANGED box /\ Fault("schedule")

\* A receipt with an absent field leaves that attribute alone.
Receipt(b, state) ==
    [rec EXCEPT !.state = state, !.age = 0, !.restore = b.took,
                !.due = IF b.pub = None THEN rec.due ELSE b.pub]

\* A periodic or durability checkpoint of the running container.
Checkpoint ==
    /\ box.pc = "up" /\ rec.state = "READY"
    /\ Published
    /\ rec' = Receipt(box', "READY")
    /\ job' = [job EXCEPT !.saved = job.live]
    /\ UNCHANGED <<cli, since, owed, history, rung>>

\* Some client's work still depends on the container.
InUse == \/ \E c \in Clients : cli[c].own /\ Door(c) = box.door
         \/ box.work # "none" /\ box.pc = "up"

\* The platform reclaims it: at once, or on a SIGTERM that leaves the time
\* for shutdown's own final checkpoint.
Reclaim ==
    /\ box.pc # "off"
    /\ IF InUse THEN Fault("reclaim") ELSE UNCHANGED faults
    /\ box' = [box EXCEPT !.pc = "off", !.left = 0, !.work = "none"]
    /\ \/ UNCHANGED <<rec, job>>
       \/ /\ box.pc = "up" /\ rec.state = "READY"
          /\ rec' = Receipt([box EXCEPT !.pub = NextDue], "STOPPING")
          /\ job' = [job EXCEPT !.saved = job.live]
    /\ UNCHANGED <<cli, since, owed, history, rung>>

---------------------------------------------------------------------------
(* The schedule and the handler up to a serving container.                 *)

\* Once a minute: every enrolled sandbox whose plan says so gets a leg; the
\* dispatch cap may skip it.
Ring ==
    /\ ~rung /\ rung' = TRUE
    /\ \/ /\ Wake(rec) /\ UNCHANGED faults
          /\ \E l \in Legs : cli[l].pc = "idle" /\ Goto(l, "queued")
       \/ /\ ~Wake(rec) \/ \A l \in Legs : cli[l].pc # "idle"
          /\ UNCHANGED <<cli, faults>>
       \/ Wake(rec) /\ Fault("cap") /\ UNCHANGED cli
    /\ UNCHANGED <<rec, box, job, since, owed, history>>

\* A leg's own reading of the plan; a relay is already mid-work.
NotDue(l) ==
    /\ cli[l].pc = "queued" /\ cli[l].relay = 0 /\ ~Wake(rec)
    /\ Leave(l)
    /\ UNCHANGED <<rec, box, job, since, owed, history, rung, faults>>

\* The subject does not open, its owner is disabled, or the control plane
\* refuses the start: the leg ends, or the error makes Lambda retry it.
StartRefused(l) ==
    /\ cli[l].pc = "queued" /\ Fault("start")
    /\ Leave(l) \/ UNCHANGED cli
    /\ UNCHANGED <<rec, box, job, since, owed, history, rung>>

\* acquire_start rotates to a new session, which disowns every other client,
\* or hands out the one that is live or still being provisioned.
MayRotate == /\ rec.lease = 0 /\ rec.init = 0
             /\ ~(rec.state = "STARTING" /\ rec.age < StartGrace)

AcquireStart(c, d) ==
    LET self == [cli[c] EXCEPT !.pc = "invoke", !.own = TRUE, !.due = d]
    IN  IF MayRotate
        THEN /\ rec' = [rec EXCEPT !.state = "STARTING", !.lease = LeaseTTL, !.age = 0]
             /\ cli' = [x \in Clients |-> IF x = c THEN self ELSE [cli[x] EXCEPT !.own = FALSE]]
        ELSE /\ cli' = [cli EXCEPT ![c] = self]
             /\ UNCHANGED rec

\* schedulerStart.  A relay's plan is read too, and only its due time kept.
Start(l) ==
    /\ cli[l].pc = "queued"
    /\ cli[l].relay > 0 \/ Wake(rec)
    /\ AcquireStart(l, rec.due)
    /\ UNCHANGED <<box, job, since, owed, history, rung, faults>>

\* A record that cannot be read wakes the sandbox regardless.
StartBlind(l) ==
    /\ ~rung /\ rung' = TRUE
    /\ cli[l].pc = "idle" /\ Fault("read")
    /\ AcquireStart(l, None)
    /\ UNCHANGED <<box, job, since, owed, history>>

\* The owner opens the sandbox in the browser.
UserStart ==
    /\ cli[User].pc = "idle" /\ Fault("user")
    /\ AcquireStart(User, None)
    /\ UNCHANGED <<box, job, since, owed, history, rung>>

\* The first request is answered: dwell so that a due job can fire.  A relay
\* goes straight to its hold.
Invoke(c) ==
    /\ cli[c].pc = "invoke" /\ Answers(c)
    /\ cli' = [cli EXCEPT ![c] =
                 IF c = User THEN [@ EXCEPT !.pc = "use"]
                 ELSE IF @.relay = 0 THEN [@ EXCEPT !.pc = "dwell", !.left = DwellTicks]
                      ELSE [@ EXCEPT !.pc = "hold", !.left = Budget]]
    /\ UNCHANGED <<rec, box, job, since, owed, history, rung, faults>>

\* 503: something holds the sandbox, so it is awake and is left alone.
AlreadyAwake(c) ==
    /\ cli[c].pc = "invoke" /\ Refused(c)
    /\ Leave(c)
    /\ UNCHANGED <<rec, box, job, since, owed, history, rung, faults>>

\* Any other error of the first request is raised, and Lambda may retry.
InvokeRaises(l) ==
    /\ cli[l].pc = "invoke" /\ Fault("invoke")
    /\ Leave(l) \/ Goto(l, "queued")
    /\ UNCHANGED <<rec, box, job, since, owed, history, rung>>

---------------------------------------------------------------------------
(* Catching up, holding and stopping.                                      *)

\* Variant: a run at the due time itself does not count.
HasRunStrictly(due) == job.live + due < 0

\* last_run_ts >= due_at.
HasRun(due) == job.live + due <= 0

Hold(l) == cli' = [cli EXCEPT ![l] = [@ EXCEPT !.pc = "hold", !.left = Budget]]

\* A job due by now that has not run since.
Missed(d) == d \notin {None, Never} /\ d <= 0 /\ ~HasRun(d)

\* _catch_up reads the job list; one that cannot be read shows no such job.
CatchUp(l) ==
    /\ cli[l].pc = "dwell" /\ cli[l].left = 0
    /\ ~Restoring(l)
    /\ IF Answers(l) /\ Missed(cli[l].due)
       THEN \/ Goto(l, "run") /\ UNCHANGED faults
            \/ Hold(l) /\ Fault("crons")
       ELSE Hold(l) /\ UNCHANGED faults
    /\ UNCHANGED <<rec, box, job, since, owed, history, rung>>

\* POST /api/crons/<job>/run, best effort.
RunJob(l) ==
    /\ cli[l].pc = "run"
    /\ \/ Answers(l) /\ JobRuns /\ raced' = Posting \ {l} /\ UNCHANGED faults
       \/ /\ IF Answers(l) THEN Fault("crons") ELSE Refused(l) /\ UNCHANGED faults
          /\ raced' = raced \ {l} /\ UNCHANGED <<job, box, owed, cut>>
    /\ Hold(l)
    /\ UNCHANGED <<rec, since, blind, rung>>

\* Variant: one idle probe is enough.
QuietOnce(q) == q >= 0

\* Idle must be seen twice in a row.
QuietEnough(q) == q >= 1

\* _relay: the event that starts the next leg, on the same session.
Relay(l) == cli' = [cli EXCEPT ![l] = [@ EXCEPT !.pc = "queued", !.relay = cli[l].relay + 1,
                                       !.quiet = 0]]

\* At the end of the relay budget the leg stops the sandbox, busy or not.
Deadline(l) == IF cli[l].relay < MaxRelays THEN Relay(l) ELSE Goto(l, "commit")

Probed(l, busy) ==
    IF ~busy /\ QuietEnough(cli[l].quiet) THEN Goto(l, "commit")
    ELSE IF cli[l].left = 0 THEN Deadline(l)
    ELSE cli' = [cli EXCEPT ![l] = [@ EXCEPT !.pc = "polled", !.left = cli[l].left - 1,
                                             !.quiet = IF busy THEN 0 ELSE 1]]

\* The legs whose run of idle probes has one that could not be read.
Unread(l, readable) ==
    IF ~readable THEN blind \cup {l} ELSE IF cli[l].quiet = 0 THEN blind \ {l} ELSE blind

\* One round of _hold_while_busy.  A probe that cannot be read counts as idle.
Poll(l) ==
    /\ cli[l].pc = "hold" /\ ~Restoring(l)
    /\ ~(cli[l].own /\ Claimable)
    /\ \E readable \in {Answers(l), FALSE} :
          /\ IF readable = Answers(l) THEN UNCHANGED faults ELSE Fault("probe")
          /\ Probed(l, readable /\ box.work \in {"young", "mid", "turn"})
          /\ blind' = Unread(l, readable)
    /\ UNCHANGED <<rec, box, job, since, owed, cut, raced, rung>>

\* The owner stops the sandbox, or closes the browser and leaves it.
UserDone ==
    /\ cli[User].pc = "use"
    /\ Goto(User, "commit") \/ Leave(User)
    /\ UNCHANGED <<rec, box, job, since, owed, history, rung, faults>>

\* sandbox.prepare_stop: the schedule is read first, then the gateway is
\* stopped and the tree checkpointed.  A job due in this very minute that has
\* not started will not, and the time published for it is none.
PrepareStop(c) ==
    /\ cli[c].pc = "commit" /\ Answers(c)
    /\ \E b \in {[box EXCEPT !.pub = NextDue], box}, n \in CommitTicks :
          /\ box' = [b EXCEPT !.pc = "closing", !.left = n, !.work = "none"]
          /\ IF b = box /\ box.pub # NextDue THEN Fault("schedule") ELSE UNCHANGED faults
    /\ cut' = (cut \/ FireDue) /\ blind' = blind \ {c}
    /\ Goto(c, "closing")
    /\ UNCHANGED <<rec, job, since, owed, raced, rung>>

\* The final receipt: the record turns STOPPING and takes what was published.
Committed(c) ==
    /\ cli[c].pc = "closing" /\ box.pc = "closing" /\ box.left = 0
    /\ box' = [box EXCEPT !.pc = "frozen"]
    /\ rec' = Receipt(box, "STOPPING")
    /\ job' = [job EXCEPT !.saved = job.live]
    /\ Goto(c, "finish")
    /\ UNCHANGED <<since, owed, history, rung, faults>>

\* The checkpoint fails, or the container is gone: no receipt, nothing to
\* finish with.  A container that could not commit is read-only.
Uncommitted(c) ==
    /\ \/ cli[c].pc = "closing" /\ box.pc = "closing" /\ Fault("commit")
          /\ box' = [box EXCEPT !.pc = "frozen", !.left = 0]
       \/ cli[c].pc = "commit" /\ Refused(c) /\ UNCHANGED <<box, faults>>
       \/ cli[c].pc = "closing" /\ box.pc # "closing" /\ UNCHANGED <<box, faults>>
    /\ Leave(c) /\ blind' = blind \ {c}
    /\ UNCHANGED <<rec, job, since, owed, cut, raced, rung>>

\* schedulerStop, or the owner's stop: the receipt must name the record's
\* session.  The answer may be lost; the waker only reports it.
FinishStop(c) ==
    /\ cli[c].pc = "finish"
    /\ \/ /\ cli[c].own /\ rec.state = "STOPPING" /\ UNCHANGED faults
          /\ rec' = [rec EXCEPT !.state = "STOPPED", !.lease = 0, !.age = 0]
          /\ box' = [box EXCEPT !.pc = "off"]
       \/ /\ IF cli[c].own /\ rec.state = "STOPPING" THEN Fault("stop") ELSE UNCHANGED faults
          /\ UNCHANGED <<rec, box>>
    /\ Leave(c)
    /\ UNCHANGED <<job, since, owed, history, rung>>

---------------------------------------------------------------------------
(* Time.                                                                   *)

\* A step some client takes within the minute.
Pending(c) ==
    \/ cli[c].pc \in {"queued", "finish"}
    \/ Calling(c) /\ ~(Restoring(c) /\ box.left > 0)
    \/ cli[c].pc = "closing" /\ ~(box.pc = "closing" /\ box.left > 0)

\* The container beats while the record is its own.
Beats == box.pc # "off" /\ rec.state \notin {"STOPPED", "ERROR"}

Earlier(d) == IF d \in {None, Never} THEN d ELSE Max(d - 1, -Horizon)

Aged(r) ==
    [r EXCEPT !.due = Earlier(@),
              !.age = IF Beats THEN 0 ELSE Min(@ + 1, Legacy),
              !.lease = IF Beats /\ box.pc # "restoring" THEN LeaseTTL ELSE Max(@ - 1, 0),
              !.init = IF Beats /\ box.pc = "restoring" THEN LeaseTTL ELSE Max(@ - 1, 0)]

Grown(work) == CASE work = "young" -> "mid" [] work = "mid" -> "turn" [] OTHER -> work

Tick ==
    /\ rung /\ rung' = FALSE
    /\ ~FireDue /\ box.work # "gap" /\ ~(box.pc = "restoring" /\ box.left = 0)
    /\ \A l \in Legs : cli[l].pc = "hold" => Restoring(l) \* polls keep their interval
    /\ IF \E c \in Clients : Pending(c) THEN Fault("late") ELSE UNCHANGED faults
    /\ since' = (since + 1) % Period
    /\ owed' = IF owed = None THEN (IF since' = 0 THEN 0 ELSE None) ELSE Min(owed + 1, Grace + 1)
    /\ cut' = (cut \/ (since' = 0 /\ box.pc = "closing")) /\ UNCHANGED <<raced, blind>>
    /\ job' = [live |-> Min(job.live + 1, Horizon + 1), saved |-> Min(job.saved + 1, Horizon + 1)]
    /\ rec' = Aged(rec)
    /\ box' = [box EXCEPT !.left = Max(@ - 1, 0), !.work = Grown(@), !.pub = Earlier(@)]
    /\ cli' = [c \in Clients |->
                 [cli[c] EXCEPT !.due = Earlier(@),
                                !.pc = IF @ = "polled" THEN "hold" ELSE @,
                                !.left = IF cli[c].pc = "dwell" THEN Max(@ - 1, 0) ELSE @]]

---------------------------------------------------------------------------
\* A stopped sandbox one tick after the job ran, its next occurrence
\* published; or one whose record an older runtime wrote.
Init ==
    /\ \E d \in {Period - 1, None} :
          /\ rec = [state |-> "STOPPED", lease |-> 0, init |-> 0, age |-> 0, due |-> d,
                    restore |-> None]
          /\ IF d = None THEN "legacy" \in Faults /\ MaxFaults > 0 /\ faults = 1 ELSE faults = 0
    /\ \E r \in RestoreTicks :
          box = [pc |-> "off", door |-> "user", left |-> 0, took |-> r, pub |-> None,
                 work |-> "none"]
    /\ cli = [c \in Clients |-> Gone]
    /\ job = [live |-> 1, saved |-> 1]
    /\ since = 1 /\ owed = None /\ rung = FALSE
    /\ cut = FALSE /\ raced = {} /\ blind = {}

LegStep(l) == \/ NotDue(l) \/ Start(l) \/ CatchUp(l) \/ RunJob(l) \/ Poll(l)

ClientStep(c) == \/ Route(c) \/ Invoke(c) \/ AlreadyAwake(c) \/ PrepareStop(c)
                 \/ Committed(c) \/ Uncommitted(c) \/ FinishStop(c)

Next ==
    \/ Tick \/ Ring \/ Restored \/ RestoreFails \/ Fire \/ WorkMoves \/ Checkpoint \/ Reclaim
    \/ \E l \in Legs : LegStep(l) \/ StartBlind(l) \/ StartRefused(l) \/ InvokeRaises(l)
    \/ \E c \in Clients : ClientStep(c)
    \/ UserStart \/ UserDone

Spec == Init /\ [][Next]_vars

(***************************************************************************)
(* Fairness.  Time passes and the schedule fires; Lambda and AgentCore run *)
(* what was called; a restore ends; the platform reclaims a container that *)
(* nobody invokes (its idle timeout).  Nothing is assumed of the owner, of *)
(* a periodic checkpoint, or of the end of the job's work.                 *)
(***************************************************************************)
Fairness ==
    /\ WF_vars(Tick) /\ WF_vars(Ring) /\ WF_vars(Restored) /\ WF_vars(Fire)
    /\ WF_vars(WorkMoves /\ box.work = "gap")
    /\ WF_vars(Reclaim /\ ~InUse)
    /\ \A l \in Legs : WF_vars(LegStep(l))
    /\ \A c \in Clients : WF_vars(ClientStep(c))

FairSpec == Spec /\ Fairness

---------------------------------------------------------------------------
(* Properties.                                                             *)

\* Every variable keeps its type.
TypeOK ==
    /\ rec \in Record /\ box \in Box /\ cli \in [Clients -> Client]
    /\ job \in [live : 0 .. Horizon + 1, saved : 0 .. Horizon + 1]
    /\ since \in 0 .. Period - 1 /\ owed \in 0 .. Grace + 1 \cup {None}
    /\ cut \in BOOLEAN /\ raced \subseteq Legs /\ blind \subseteq Legs
    /\ rung \in BOOLEAN /\ faults \in 0 .. MaxFaults

\* While nothing disturbs the cycle, an occurrence of the job stays unrun for
\* longer than a late run is still wanted only if a stop was in its way: its
\* minute came during a final checkpoint, or the gateway was stopped within
\* that minute before it started the job.  Otherwise restore time, lead, dwell,
\* an early stop and the catch-up add up.
NoOccurrenceDropped == faults = 0 /\ owed # None /\ ~cut => owed <= Grace

\* The waker's catch-up repeats an occurrence only by losing a race: when its
\* post arrives, the job of the tree that is being served has not run since it
\* was last due, unless it started after this leg had read the job list.
RepeatsOnlyByRace ==
    [][\A l \in Legs :
          cli[l].pc = "run" /\ cli'[l].pc = "hold" /\ Answers(l) /\ l \notin raced
             => job.live > since]_vars

\* A leg stops a sandbox whose crew is at work or between two turns only when
\* the relay budget is spent, or when one of the two probes that saw it idle
\* was an answer the leg could not read.
WorkNotCutOff ==
    [][\A l \in Legs :
          cli[l].pc = "hold" /\ cli'[l].pc = "commit" /\ Answers(l) /\ box.work # "none"
             => l \in blind' \/ (cli[l].relay = MaxRelays /\ cli[l].left = 0)]_vars

\* A wake that failed, came late, was refused, skipped or reclaimed, and a
\* schedule or a job list that could not be read, never silence the job for
\* good: it runs again and again, unless a receipt written in its minute,
\* before it started, says for ever that nothing is scheduled.
ScheduleResumes == []<>(job.live = 0) \/ <>[](rec.due = Never)

===========================================================================

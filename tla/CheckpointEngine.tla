-------------------------- MODULE CheckpointEngine --------------------------
(***************************************************************************)
(* The checkpoint engine inside one container: the gateway that changes   *)
(* the workspace, the supervisor that freezes and restarts it, the        *)
(* threads that run CheckpointEngine.checkpoint, the chunk index and the  *)
(* builder's baseline that let a checkpoint skip work, the loop that      *)
(* skips whole checkpoints, and the shutdown that races all of them.      *)
(*                                                                        *)
(* A file's content is the number of the write that produced it and a     *)
(* chunk is named by its content; content 0 is what the restore left.     *)
(* What a write leaves for lstat (mode, mtime and size) is its mark: the  *)
(* number of the first write that left the same.  Copies that are made    *)
(* with their times, as those of the staged state are, keep it.           *)
(* Digests, encryption and the broker's grants are left out: they fail or *)
(* they do not.  Other containers of the sandbox are CheckpointChain.     *)
(***************************************************************************)
EXTENDS Integers, Sequences, FiniteSets

CONSTANTS
    Files,        \* policy-included files the gateway writes
    StagedFiles,  \* those whose live copy is GatewayStateStaging.staged
    Threads,      \* worker threads that may be inside engine.checkpoint
    None,
    Ended,        \* what is left of the loop once its task has died
    RacyWindow,   \* _RACY_WINDOW_NS, in timestamp granules
    MaxWrites,    \* bound: writes of the gateway
    MaxGen,       \* bound: generation numbers
    MaxTime,      \* bound: timestamp granules that pass
    MaxFaults,    \* bound: failures that are not the code's own refusals
    Faults,       \* those that may happen, and whether the container is shut down
    Callers       \* the callers of _commit_checkpoint, a subset of Reasons

FaultKinds == {"request", "answer", "death", "shutdown", "vanish"}

\* Who asks for a checkpoint: the loop, a sign-in or the idle transition,
\* sandbox.prepare_stop, on_shutdown.
Reasons == {"periodic", "durability", "stop", "shutdown"}

Contents == 0 .. MaxWrites
Gens == 0 .. MaxGen
Trees == [Files -> Contents]

ASSUME EngineAssumption ==
    /\ StagedFiles \subseteq Files
    /\ None \notin Threads \cup Trees
    /\ Ended \notin Trees \cup {None}
    /\ RacyWindow \in Nat /\ MaxWrites \in Nat /\ MaxGen \in Nat
    /\ MaxTime \in Nat /\ MaxFaults \in Nat
    /\ Faults \subseteq FaultKinds /\ Callers \subseteq Reasons

VARIABLES
    past,      \* every state the gateway's files have been in, oldest first
    disk,      \* the workspace's copy of the files
    stamp,     \* _FileStamp of the workspace's copy: the granule of its ctime
    mark,      \* per write: the mode, mtime and size it left
    now,       \* the granule the clock is in
    proc,      \* the gateway process: "down", "starting", "up"
    stopped,   \* its process group has SIGSTOP pending
    thr,       \* the checkpoint each thread is running
    lock,      \* the thread whose caller holds _checkpoint_lock
    loop,      \* run_periodic_checkpoints: the fingerprint it waits with
    lastFp,    \* its last_committed
    readOnly,  \* readiness.read_only
    phase,     \* "serving", "stopping" (on_shutdown), "final" (its checkpoint)
    chunks,    \* the chunk objects in the bucket
    known,     \* _known_chunks, the store's cached listing of them
    manifests, \* the manifest objects in the bucket
    commits,   \* the commit objects in the bucket
    baseline,  \* ManifestBuilder._committed
    torn,      \* history: generations whose walk met a write of the gateway
    faults     \* failures so far

gateway == <<past, disk, stamp, mark, now, proc, stopped, torn>>
engine == <<thr, lock, loop, lastFp, readOnly, phase>>
store == <<chunks, known, manifests, commits, baseline>>
vars == <<past, disk, stamp, mark, now, proc, stopped, thr, lock, loop, lastFp,
          readOnly, phase, chunks, known, manifests, commits, baseline, torn, faults>>

\* A baseline entry: the entry's content and the stamp it was read under.
Entries == [stamp : 0 .. MaxTime, content : Contents]

Final(t) == thr[t].why \in {"stop", "shutdown"}

Idle == [pc |-> "idle", why |-> "periodic", gen |-> 0, unread |-> {},
         tree |-> [f \in Files |-> 0], new |-> {},
         stamps |-> [f \in Files |-> None], racyAfter |-> 0]

Thread == [pc : {"idle", "begun", "paused", "reading", "upload", "commit", "receipt"},
           why : Reasons, gen : Gens, unread : SUBSET Files, tree : Trees,
           new : SUBSET Contents, stamps : [Files -> Entries \cup {None}],
           racyAfter : Int]

GatewayTypeOK ==
    /\ past \in Seq(Trees) /\ past # <<>>
    /\ disk \in Trees
    /\ stamp \in [Files -> 0 .. MaxTime]
    /\ mark \in [Contents -> Contents]
    /\ torn \subseteq Gens
    /\ now \in 0 .. MaxTime
    /\ proc \in {"down", "starting", "up"}
    /\ stopped \in BOOLEAN

\* Only a shutdown leaves a thread in the engine without the lock, and while
\* the loop's checkpoint has the lock the loop waits for it.
EngineTypeOK ==
    /\ thr \in [Threads -> Thread]
    /\ lock \in Threads \cup {None}
    /\ lock # None => thr[lock].pc # "idle"
    /\ \A t \in Threads : thr[t].pc # "idle" /\ lock # t => phase # "serving"
    /\ loop \in Trees \cup {None, Ended}
    /\ lock # None /\ thr[lock].why = "periodic" => loop \in Trees
    /\ lastFp \in Trees \cup {None}
    /\ readOnly \in BOOLEAN
    /\ phase \in {"serving", "stopping", "final"}

StoreTypeOK ==
    /\ chunks \subseteq Contents /\ known \subseteq Contents
    /\ manifests \in [Gens -> Trees \cup {None}]
    /\ commits \subseteq Gens
    /\ baseline \in [Files -> Entries \cup {None}]

TypeOK == GatewayTypeOK /\ EngineTypeOK /\ StoreTypeOK /\ faults \in 0 .. MaxFaults

\* What the gateway's files hold now, staged ones included.
Live == past[Len(past)]

Alive == proc # "down"

\* What workspace_fingerprint hashes of the workspace: never a content.
Seen == [f \in Files |-> mark[disk[f]]]

\* The content's mode, mtime and size are no earlier write's.
Visible(c) == mark[c] = c

\* The restore left generation 0 in place and started the gateway.
Init ==
    /\ disk = [f \in Files |-> 0]
    /\ past = <<disk>>
    /\ stamp = [f \in Files |-> 0]
    /\ mark = [c \in Contents |-> c] /\ torn = {}
    /\ now = 0
    /\ proc = "up" /\ stopped = FALSE
    /\ thr = [t \in Threads |-> Idle]
    /\ lock = None /\ loop = None /\ lastFp = None
    /\ readOnly = FALSE /\ phase = "serving"
    /\ chunks = {0} /\ known = {0}
    /\ manifests = [g \in Gens |-> IF g = 0 THEN disk ELSE None]
    /\ commits = {0}
    /\ baseline = [f \in Files |-> None]
    /\ faults = 0

Fault(kind) ==
    /\ kind \in Faults
    /\ faults < MaxFaults
    /\ faults' = faults + 1

------------------------------------------------------------------------------
\* The gateway.

\* Thread t reads the gateway's files, the staged ones first.
Walking(t) == thr[t].pc \in {"paused", "reading"}

\* The gateway changes a file, under its live home when the file is staged.
\* The write may leave the mode, mtime and size of an earlier one: a copy that
\* restores times, or a second write of that size within one granule.
Write(f) ==
    LET n == Len(past) IN
    /\ Alive /\ ~stopped
    /\ n <= MaxWrites
    /\ past' = Append(past, [Live EXCEPT ![f] = n])
    /\ \E m \in {n} \cup {mark[past[k][f]] : k \in 1 .. n} : mark' = [mark EXCEPT ![n] = m]
    /\ torn' = torn \cup {thr[t].gen : t \in {u \in Threads : Walking(u)}}
    /\ IF f \in StagedFiles
          THEN UNCHANGED <<disk, stamp>>
          ELSE /\ disk' = [disk EXCEPT ![f] = n]
               /\ stamp' = [stamp EXCEPT ![f] = now]
    /\ UNCHANGED <<now, proc, stopped, engine, store, faults>>

GatewayDies ==
    /\ Alive
    /\ Fault("death")
    /\ proc' = "down" /\ stopped' = FALSE
    /\ UNCHANGED <<past, disk, stamp, mark, torn, now, engine, store>>

\* ensure_gateway finds the gateway not ready; start mirrors the workspace's
\* copy of the staged files over the live one before it spawns the process.
GatewayStart ==
    /\ proc = "down"
    /\ phase = "serving"
    /\ past' = IF Live = disk THEN past ELSE Append(past, disk)
    /\ proc' = "starting" /\ stopped' = FALSE
    /\ UNCHANGED <<disk, stamp, mark, torn, now, engine, store, faults>>

GatewayReady ==
    /\ proc = "starting" /\ ~stopped
    /\ proc' = "up"
    /\ UNCHANGED <<past, disk, stamp, mark, torn, now, stopped, engine, store, faults>>

\* A gateway frozen while it starts may miss its timeout, and is terminated.
GatewayStartFails ==
    /\ proc = "starting" /\ stopped
    /\ Fault("death")
    /\ proc' = "down" /\ stopped' = FALSE
    /\ UNCHANGED <<past, disk, stamp, mark, torn, now, engine, store>>

\* The clock moves to the next timestamp granule.
Tick ==
    /\ now < MaxTime
    /\ now' = now + 1
    /\ UNCHANGED <<past, disk, stamp, mark, torn, proc, stopped, engine, store, faults>>

------------------------------------------------------------------------------
\* The callers of _commit_checkpoint.

\* Variant: the number after the newest commit, orphaned manifests ignored.
NextGenerationAfterCommit == 1 + CHOOSE g \in commits : \A h \in commits : h <= g

\* next_generation: past every commit and every manifest.
NextGeneration ==
    LET taken == commits \cup {g \in Gens : manifests[g] # None}
    IN  1 + CHOOSE g \in taken : \A h \in taken : h <= g

\* The loop wakes; an unchanged fingerprint makes it sleep again.
PeriodicWake ==
    /\ phase = "serving" /\ ~readOnly
    /\ loop = None
    /\ Seen # lastFp
    /\ loop' = Seen
    /\ UNCHANGED <<gateway, thr, lock, lastFp, readOnly, phase, store, faults>>

\* A file is gone between workspace_fingerprint's listing and its lstat: the
\* exception ends the loop's task.
FingerprintFails ==
    /\ phase = "serving" /\ ~readOnly
    /\ loop = None
    /\ Alive /\ ~stopped
    /\ Fault("vanish")
    /\ loop' = Ended
    /\ UNCHANGED <<gateway, thr, lock, lastFp, readOnly, phase, store>>

\* A caller takes _checkpoint_lock, numbers its generation and enters the
\* engine on a free thread.
Begin(t, why) ==
    /\ thr[t].pc = "idle"
    /\ lock = None
    /\ why = "periodic" => loop \notin {None, Ended}
    /\ why \in {"durability", "stop"} => phase = "serving"
    /\ why = "shutdown" => phase = "stopping"
    /\ NextGeneration \in Gens
    /\ lock' = t
    /\ thr' = [thr EXCEPT ![t] = [Idle EXCEPT !.pc = "begun", !.why = why,
                                              !.gen = NextGeneration]]
    /\ phase' = IF why = "shutdown" THEN "final" ELSE phase
    /\ UNCHANGED <<gateway, loop, lastFp, readOnly, store, faults>>

\* Variant: an attempt that ends leaves the lock held.
ReleaseMissed(t) ==
    /\ lock' = lock
    /\ loop' = IF lock = t /\ thr[t].why = "periodic" THEN None ELSE loop

\* The caller's `async with' ends; an orphaned thread has no caller.
Release(t) ==
    /\ lock' = IF lock = t THEN None ELSE lock
    /\ loop' = IF lock = t /\ thr[t].why = "periodic" THEN None ELSE loop

\* prepare_stop answers 503 CHECKPOINT_FAILED.
StopFailed(t) == lock = t /\ thr[t].why = "stop"

\* on_shutdown cancels the periodic task: its thread goes on without it.  A
\* task that has died raises out of on_shutdown, before the final checkpoint.
Shutdown ==
    /\ phase = "serving"
    /\ "shutdown" \in Faults
    /\ phase' = IF loop = Ended THEN "final" ELSE "stopping"
    /\ loop' = None
    /\ lock' = IF lock # None /\ thr[lock].why = "periodic" THEN None ELSE lock
    /\ UNCHANGED <<gateway, thr, lastFp, readOnly, store, faults>>

------------------------------------------------------------------------------
\* CheckpointEngine.checkpoint, on thread t.

\* The span in which `paused' is true.
Pausing(t) ==
    \/ Walking(t)
    \/ Final(t) /\ thr[t].pc \in {"upload", "commit"}

Pause(t) ==
    /\ thr[t].pc = "begun"
    /\ Alive
    /\ stopped' = TRUE
    /\ thr' = [thr EXCEPT ![t].pc = "paused"]
    /\ UNCHANGED <<past, disk, stamp, mark, torn, now, proc, lock, loop, lastFp, readOnly,
                   phase, store, faults>>

\* flush mirrors the staged files back (new inodes, so new stamps); build
\* then takes the clock and walks the files.
Flush(t) ==
    /\ thr[t].pc = "paused"
    /\ disk' = [f \in Files |-> IF f \in StagedFiles THEN Live[f] ELSE disk[f]]
    /\ stamp' = [f \in Files |-> IF f \in StagedFiles THEN now ELSE stamp[f]]
    /\ thr' = [thr EXCEPT ![t] = [@ EXCEPT !.pc = "reading", !.unread = Files,
                                           !.racyAfter = now - RacyWindow]]
    /\ UNCHANGED <<past, mark, torn, now, proc, stopped, lock, loop, lastFp, readOnly,
                   phase, store, faults>>

\* The committed entry of a file whose stamp has not moved is reused unread.
Reusable(f) == baseline[f] # None /\ baseline[f].stamp = stamp[f]

\* Variant: every entry read becomes a baseline, however young the file.
OfferedWithoutWindow(t, f) == [stamp |-> stamp[f], content |-> disk[f]]

\* A file changed within the racy window is no baseline for the next build.
Offered(t, f) ==
    IF stamp[f] < thr[t].racyAfter
       THEN [stamp |-> stamp[f], content |-> disk[f]]
       ELSE None

ReadFile(t, f) ==
    /\ thr[t].pc = "reading"
    /\ f \in thr[t].unread
    /\ \/ /\ Reusable(f)
          /\ thr' = [thr EXCEPT ![t] = [@ EXCEPT
                !.unread = thr[t].unread \ {f},
                !.tree = [thr[t].tree EXCEPT ![f] = baseline[f].content],
                !.stamps = [thr[t].stamps EXCEPT ![f] = baseline[f]]]]
       \/ /\ ~Reusable(f)
          /\ thr' = [thr EXCEPT ![t] = [@ EXCEPT
                !.unread = thr[t].unread \ {f},
                !.tree = [thr[t].tree EXCEPT ![f] = disk[f]],
                !.new = thr[t].new \cup {disk[f]},
                !.stamps = [thr[t].stamps EXCEPT ![f] = Offered(t, f)]]]
    /\ UNCHANGED <<gateway, lock, loop, lastFp, readOnly, phase, store, faults>>

\* Variant: the build becomes the baseline before its chunks are stored.
BuiltRemembering(t) ==
    /\ thr[t].pc = "reading" /\ thr[t].unread = {}
    /\ Final(t) \/ Alive
    /\ stopped' = (stopped /\ Final(t))
    /\ baseline' = thr[t].stamps
    /\ thr' = [thr EXCEPT ![t].pc = "upload"]
    /\ UNCHANGED <<past, disk, stamp, mark, torn, now, proc, lock, loop, lastFp, readOnly,
                   phase, chunks, known, manifests, commits, faults>>

\* The build is complete; only a final checkpoint keeps the gateway frozen.
Built(t) ==
    /\ thr[t].pc = "reading" /\ thr[t].unread = {}
    /\ Final(t) \/ Alive
    /\ stopped' = (stopped /\ Final(t))
    /\ thr' = [thr EXCEPT ![t].pc = "upload"]
    /\ UNCHANGED <<past, disk, stamp, mark, torn, now, proc, lock, loop, lastFp, readOnly,
                   phase, store, faults>>

UploadChunk(t) ==
    /\ thr[t].pc = "upload"
    /\ \E c \in thr[t].new \ known :
          /\ chunks' = chunks \cup {c}
          /\ known' = known \cup {c}
    /\ UNCHANGED <<gateway, engine, manifests, commits, baseline, faults>>

\* Manifests are create-only.
UploadManifest(t) ==
    /\ thr[t].pc = "upload"
    /\ thr[t].new \subseteq known
    /\ manifests[thr[t].gen] = None
    /\ manifests' = [manifests EXCEPT ![thr[t].gen] = thr[t].tree]
    /\ thr' = [thr EXCEPT ![t].pc = "commit"]
    /\ UNCHANGED <<gateway, lock, loop, lastFp, readOnly, phase, chunks, known,
                   commits, baseline, faults>>

Committable(t) == \A g \in commits : g < thr[t].gen

\* commit_generation, then remember: from here the build is a baseline.
Commit(t) ==
    /\ thr[t].pc = "commit"
    /\ Committable(t)
    /\ commits' = commits \cup {thr[t].gen}
    /\ baseline' = thr[t].stamps
    /\ thr' = [thr EXCEPT ![t].pc = "receipt"]
    /\ UNCHANGED <<gateway, lock, loop, lastFp, readOnly, phase, chunks, known,
                   manifests, faults>>

\* Variant: the fingerprint the loop keeps is taken after the commit.
FingerprintAfter(t) == Seen

\* The fingerprint the loop took before it asked for the checkpoint.
Fingerprint(t) == loop

\* The caller sends the receipt; only then is the fingerprint remembered.
Receipt(t) ==
    /\ thr[t].pc = "receipt"
    /\ lastFp' = IF lock = t /\ thr[t].why = "periodic" THEN Fingerprint(t) ELSE lastFp
    /\ Release(t)
    /\ thr' = [thr EXCEPT ![t] = Idle]
    /\ UNCHANGED <<gateway, readOnly, phase, store, faults>>

ReceiptFails(t) ==
    /\ thr[t].pc = "receipt" /\ lock = t
    /\ Fault("request")
    /\ readOnly' = (readOnly \/ StopFailed(t))
    /\ Release(t)
    /\ thr' = [thr EXCEPT ![t] = Idle]
    /\ UNCHANGED <<gateway, lastFp, phase, store>>

\* Variant: the checkpoint gives up and leaves the gateway frozen.
ResumedNever(t) == stopped

\* The finally clause: a gateway this attempt froze is thawed.
Resumed(t) == stopped /\ ~Pausing(t)

\* An attempt raises: thaw, release, and read-only after a failed stop.
Abandon(t) ==
    /\ stopped' = Resumed(t)
    /\ readOnly' = (readOnly \/ StopFailed(t))
    /\ Release(t)
    /\ thr' = [thr EXCEPT ![t] = Idle]
    /\ UNCHANGED <<past, disk, stamp, mark, torn, now, proc, lastFp, phase>>

\* What the engine itself refuses: no process to freeze or thaw, a number
\* whose manifest exists, a number the commits have passed.
Refused(t) ==
    /\ \/ thr[t].pc = "begun" /\ ~Alive
       \/ thr[t].pc = "reading" /\ thr[t].unread = {} /\ ~Final(t) /\ ~Alive
       \/ /\ thr[t].pc = "upload" /\ thr[t].new \subseteq known
          /\ manifests[thr[t].gen] # None
       \/ thr[t].pc = "commit" /\ ~Committable(t)
    /\ Abandon(t)
    /\ UNCHANGED <<store, faults>>

\* A step of the engine fails: the disk, the broker or the bucket.
RequestFails(t) ==
    /\ thr[t].pc \in {"begun", "paused", "reading", "upload", "commit"}
    /\ Fault("request")
    /\ Abandon(t)
    /\ UNCHANGED store

\* The generation is committed, and writing the local state or clearing the
\* journal fails.
LocalStateFails(t) ==
    /\ thr[t].pc = "commit"
    /\ Committable(t)
    /\ Fault("request")
    /\ commits' = commits \cup {thr[t].gen}
    /\ baseline' = thr[t].stamps
    /\ Abandon(t)
    /\ UNCHANGED <<chunks, known, manifests>>

\* The bucket takes the object and the answer is lost.
AnswerLost(t) ==
    /\ Fault("answer")
    /\ \/ /\ thr[t].pc = "upload"
          /\ \E c \in thr[t].new \ known : chunks' = chunks \cup {c}
          /\ UNCHANGED <<known, manifests, commits, baseline>>
       \/ /\ thr[t].pc = "upload"
          /\ thr[t].new \subseteq known
          /\ manifests[thr[t].gen] = None
          /\ manifests' = [manifests EXCEPT ![thr[t].gen] = thr[t].tree]
          /\ UNCHANGED <<chunks, known, commits, baseline>>
       \/ /\ thr[t].pc = "commit" /\ Committable(t)
          /\ commits' = commits \cup {thr[t].gen}
          /\ UNCHANGED <<chunks, known, manifests, baseline>>
    /\ Abandon(t)

------------------------------------------------------------------------------
GatewayStep ==
    \/ \E f \in Files : Write(f)
    \/ GatewayDies \/ GatewayStart \/ GatewayReady \/ GatewayStartFails
    \/ Tick

ThreadStep(t) ==
    \/ \E why \in Callers : Begin(t, why)
    \/ Pause(t) \/ Flush(t) \/ Built(t) \/ UploadChunk(t) \/ UploadManifest(t)
    \/ \E f \in Files : ReadFile(t, f)
    \/ Commit(t) \/ Receipt(t) \/ ReceiptFails(t)
    \/ Refused(t) \/ RequestFails(t) \/ LocalStateFails(t) \/ AnswerLost(t)

Next ==
    \/ GatewayStep
    \/ PeriodicWake \/ FingerprintFails
    \/ Shutdown
    \/ \E t \in Threads : ThreadStep(t)

Spec == Init /\ [][Next]_vars

(***************************************************************************)
(* Fairness: the event loop keeps waking run_periodic_checkpoints, a      *)
(* waiter gets the asyncio.Lock in turn, a worker thread that can go on   *)
(* goes on, the platform's /ping keeps finding a dead gateway.  Writes,   *)
(* faults, ticks, stops and shutdowns need not happen.                    *)
(***************************************************************************)
Progress(t) ==
    \/ Begin(t, "periodic")
    \/ Pause(t) \/ Flush(t) \/ Built(t) \/ UploadChunk(t) \/ UploadManifest(t)
    \/ \E f \in Files : ReadFile(t, f)
    \/ Commit(t) \/ Receipt(t) \/ Refused(t)

Fairness ==
    /\ WF_vars(PeriodicWake)
    /\ WF_vars(GatewayStart)
    /\ WF_vars(GatewayReady)
    /\ \A t \in Threads : WF_vars(Progress(t))

FairSpec == Spec /\ Fairness

------------------------------------------------------------------------------
\* The newest committed generation: what the next restore installs.
Newest == CHOOSE g \in commits : \A h \in commits : h <= g

Saved == manifests[Newest] = Live

Stored(f) == manifests[Newest][f] = Live[f]

\* A committed generation can be restored: its manifest exists and every
\* chunk it names is in the bucket, whatever the index, the baseline or an
\* interrupted upload let the checkpoint skip (checkpoint.py, _upload_chunks;
\* manifest.py, remember).
CommitsRestorable ==
    \A g \in commits :
        /\ manifests[g] # None
        /\ \A f \in Files : manifests[g][f] \in chunks

\* A committed generation is a state the gateway's files really had at one
\* moment: no file of it is older or younger than another ("every chunk and
\* the manifest were read while the gateway was frozen").  The exception is a
\* generation whose walk met a write of a gateway that was not frozen: one that
\* ensure_gateway restarted, or that another checkpoint thawed.
CommitsAtomic ==
    \A g \in commits \ torn : \E k \in 1 .. Len(past) : past[k] = manifests[g]

\* When the fingerprint makes the loop skip a checkpoint, the newest generation
\* holds every file as the workspace has it, save those whose last write left
\* the mode, mtime and size of an earlier one.  (The live copy of a staged file
\* is not in the workspace: what it has gained since the last mirroring is out
\* of the fingerprint's sight.)
SkipMeansSaved ==
    Seen = lastFp =>
        \A f \in Files : Visible(disk[f]) => manifests[Newest][f] = disk[f]

\* A gateway left frozen with no checkpoint running has nothing unsaved:
\* only a committed final checkpoint leaves it so.
FrozenMeansSaved ==
    stopped /\ (\A t \in Threads : ~Pausing(t)) => Saved

\* No write to a file of the workspace that the fingerprint can see stays out
\* of the store for good while the container serves and is not read-only:
\* failed requests, lost answers, orphaned manifests and gateways that die and
\* are restarted delay the periodic checkpoint.  What ends it is a fingerprint
\* that meets a vanished file: the loop's task is dead from then on.
WorkGetsSaved ==
    \A f \in Files \ StagedFiles :
        ~Stored(f) /\ Visible(Live[f])
            ~> \/ Stored(f) \/ ~Visible(Live[f])
               \/ readOnly \/ phase # "serving" \/ loop = Ended
==============================================================================

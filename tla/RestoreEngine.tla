--------------------------- MODULE RestoreEngine ---------------------------
(***************************************************************************)
(* One sandbox's durable store, the workspace a container restores from it *)
(* and the garbage collector that prunes it.  The restore takes the latest *)
(* committed generation, or the one before, and swaps it in entry by       *)
(* entry; a move may fail, a move across mounts may fail half done, the    *)
(* process may die between any two moves, and the next attempt finds what  *)
(* was left.  The collector (RetentionManager) is not wired to anything    *)
(* yet; the docs' rule for it, that it does not run while a container      *)
(* holds the sandbox's lease, is in its guards.                            *)
(*                                                                         *)
(* The content of a top-level entry is one value, and one chunk.           *)
(***************************************************************************)
EXTENDS Integers, FiniteSets

CONSTANTS
    Names,          \* top-level entries of the workspace
    Values,         \* contents of an entry, and the chunks that hold them
    None,           \* no entry, no manifest, no state file
    Torn,           \* an entry of which a part is missing
    StateHome,      \* the entry the gateway works on a copy of, None if it does not
    Retain,         \* RetentionManager's retain_generations
    MaxGen,         \* bound: generations
    MaxFaults       \* bound: failed, torn, interrupted and corrupt steps

ASSUME ConstantsAssumption ==
    /\ None \notin Values /\ Torn \notin Values /\ None # Torn
    /\ None \notin Nat /\ None \notin Names /\ None \notin [Names -> Values \cup {None, Torn}]
    /\ StateHome \in Names \cup {None}
    /\ \A v \in Values : v \notin Nat
    /\ Retain \in Nat /\ Retain >= 2
    /\ {MaxGen, MaxFaults} \subseteq Nat

VARIABLES
    store,      \* what S3 holds
    disk,       \* the workspace mount
    box,        \* the container: its restore, or its checkpoint
    gc,         \* the collector
    truth,      \* what the workspace should hold while it is served
    faults

vars == <<store, disk, box, gc, truth, faults>>

Gens == 1 .. MaxGen

Files == [Names -> Values \cup {None, Torn}]

\* The state file of another runtime version, whatever generation it names.
Foreign == 0

States == Gens \cup {Foreign, None}

Empty == [n \in Names |-> None]

\* man: the manifests; bad: generations a digest check refuses.
Store == [man : [Gens -> Files \cup {None}], commits : SUBSET Gens, chunks : SUBSET Values,
          bad : SUBSET Gens]

\* ws, state: the entries and .agentcore/persistence.json; left: there is a
\* restore-backup; torn: entries a copy was broken off in since the last install.
Disk == [ws : Files, state : States, left : BOOLEAN, torn : SUBSET Names]

\* gen: the generation being restored or committed; moved and installed as in
\* _install; stage: what is still to be moved in; old, oldState: what this
\* attempt has moved into the backup (nothing reads what an earlier one left
\* there); snap: the checkpoint's tree; index: the chunks this container knows
\* to be stored, listed once; prior: the workspace before the install;
\* undone: the rollback went through; live, synced: the gateway's copy of the
\* state home, and what of it was last brought to or from the workspace.
Box == [pc : {"down", "choose", "fetch", "out", "in", "undo", "clean", "failed",
              "serve", "flush", "upload", "manifest", "commit", "record"},
        gen : Gens \cup {None}, second : BOOLEAN, moved : SUBSET Names, installed : SUBSET Names,
        stage : Files, old : Files, oldState : States, snap : Files,
        index : (SUBSET Values) \cup {None}, prior : Files \X States, undone : BOOLEAN,
        live : Values \cup {None, Torn}, synced : Values \cup {None, Torn}]

\* The gateway has been started.
Up == {"serve", "flush", "upload", "manifest", "commit", "record"}

\* marks: the candidates of the last round; doomed: what is being removed.
Collector == [marks : SUBSET (Gens \cup Values), doomed : SUBSET (Gens \cup Values)]

TypeOK ==
    /\ store \in Store /\ disk \in Disk /\ box \in Box /\ gc \in Collector
    /\ truth \in Files /\ faults \in 0 .. MaxFaults

Off == [pc |-> "down", gen |-> None, second |-> FALSE, moved |-> {}, installed |-> {},
        stage |-> Empty, old |-> Empty, oldState |-> None, snap |-> Empty, index |-> None,
        prior |-> <<Empty, None>>, undone |-> FALSE, live |-> None, synced |-> None]

Blank == [ws |-> Empty, state |-> None, left |-> FALSE, torn |-> {}]

Init ==
    /\ store = [man |-> [g \in Gens |-> None], commits |-> {}, chunks |-> {}, bad |-> {}]
    /\ disk = Blank /\ box = Off
    /\ gc = [marks |-> {}, doomed |-> {}]
    /\ truth = Empty /\ faults = 0

Fault == faults < MaxFaults /\ faults' = faults + 1

Greatest(S) == CHOOSE x \in S : \A y \in S : y <= x

Latest == Greatest(store.commits)

\* committed[-k:], the k latest commits.
LatestK(k) == {g \in store.commits : Cardinality({h \in store.commits : h > g}) < k}

Used(t) == {t[n] : n \in Names} \cap Values

\* Its manifest is there, decrypts, and passes every check of the decoder.
Decodes(g) == store.man[g] # None /\ g \notin store.bad

\* A generation that can be restored: its manifest and every chunk, intact.
Readable(g) == Decodes(g) /\ Used(store.man[g]) \subseteq store.chunks

\* What IntegrityAuditor.run reports.
AuditFailures == {g \in LatestK(2) : ~Readable(g)}

Goto(pc) == box' = [box EXCEPT !.pc = pc]

\* Of what a checkpoint kept, a container keeps the chunk index.
Serving == [Off EXCEPT !.pc = "serve", !.index = box.index, !.live = box.live,
                       !.synced = box.synced]

\* The gateway starts; a state home the workspace cannot host is copied out.
Materialize ==
    LET home == IF StateHome = None THEN None ELSE disk.ws[StateHome]
    IN box' = [Serving EXCEPT !.live = home, !.synced = home]

\* The tree the gateway works on.
Served == [n \in Names |-> IF n = StateHome THEN box.live ELSE disk.ws[n]]

---------------------------------------------------------------------------
(* Choosing a generation.                                                  *)

\* A container starts: on the disk it left behind, on a new one, or with
\* another runtime version than the one that wrote the state file.
Boot ==
    /\ box.pc = "down" /\ gc.doomed = {}
    /\ box' = [Off EXCEPT !.pc = "choose"]
    /\ \/ UNCHANGED disk
       \/ disk' = Blank
       \/ disk.state # None /\ disk' = [disk EXCEPT !.state = Foreign]
    /\ UNCHANGED <<store, gc, truth, faults>>

\* A sandbox with no commit: the workspace is taken as it is.
Initialize ==
    /\ box.pc = "choose" /\ store.commits = {}
    /\ Materialize /\ truth' = disk.ws
    /\ UNCHANGED <<store, disk, gc, faults>>

\* _restore_reasons finds none: the local workspace is the latest generation.
KeepLocal ==
    /\ box.pc = "choose" /\ store.commits # {} /\ disk.state = Latest
    /\ Materialize
    /\ UNCHANGED <<store, disk, gc, truth, faults>>

Choose ==
    /\ box.pc = "choose" /\ store.commits # {} /\ disk.state # Latest
    /\ box' = [box EXCEPT !.pc = "fetch", !.gen = Latest, !.second = FALSE]
    /\ UNCHANGED <<store, disk, gc, truth, faults>>

\* This generation cannot be installed: the one before it, once, or none.
Another(b) ==
    LET before == {g \in store.commits : g < b.gen}
        rest == [Off EXCEPT !.prior = b.prior, !.undone = b.undone]
    IN IF b.second \/ before = {} THEN [rest EXCEPT !.pc = "failed"]
       ELSE [rest EXCEPT !.pc = "fetch", !.gen = Greatest(before), !.second = TRUE]

\* Variant: a leftover backup is kept.
Uncleared(d) == d

\* Leftovers of an earlier attempt are removed before anything is staged.
Cleared(d) == [d EXCEPT !.left = FALSE]

\* _restore_generation up to _install: every chunk fetched and verified into
\* the stage; backup.mkdir refuses a directory that exists.
Stage ==
    LET d == Cleared(disk)
    IN /\ box.pc = "fetch" /\ Readable(box.gen) /\ ~d.left
       /\ disk' = [d EXCEPT !.left = TRUE]
       /\ box' = [box EXCEPT !.pc = "out", !.stage = store.man[box.gen], !.undone = FALSE,
                             !.prior = <<disk.ws, disk.state>>]
       /\ UNCHANGED <<store, gc, truth, faults>>

\* A manifest or a chunk that is missing, altered or, for now, refused.
FetchFails ==
    /\ box.pc = "fetch"
    /\ \/ (~Readable(box.gen) \/ Cleared(disk).left) /\ UNCHANGED faults
       \/ Fault
    /\ box' = Another(box)
    /\ disk' \in {disk, Cleared(disk)}
    /\ UNCHANGED <<store, gc, truth>>

---------------------------------------------------------------------------
(* _install.                                                               *)

\* The state file leaves first: from here on the workspace claims nothing.
StateOut ==
    /\ box.pc = "out" /\ disk.state # None
    /\ disk' = [disk EXCEPT !.state = None] /\ box' = [box EXCEPT !.oldState = disk.state]
    /\ UNCHANGED <<store, gc, truth, faults>>

MoveOut(n) ==
    /\ box.pc = "out" /\ disk.state = None /\ disk.ws[n] # None
    /\ disk' = [disk EXCEPT !.ws[n] = None]
    /\ box' = [box EXCEPT !.moved = @ \cup {n}, !.old[n] = disk.ws[n]]
    /\ UNCHANGED <<store, gc, truth, faults>>

AllOut ==
    /\ box.pc = "out" /\ disk.state = None /\ disk.ws = Empty
    /\ Goto("in")
    /\ UNCHANGED <<store, disk, gc, truth, faults>>

MoveIn(n) ==
    /\ box.pc = "in" /\ box.stage[n] # None
    /\ disk' = [disk EXCEPT !.ws[n] = box.stage[n]]
    /\ box' = [box EXCEPT !.installed = @ \cup {n}, !.stage[n] = None]
    /\ UNCHANGED <<store, gc, truth, faults>>

\* Variant: the state file does not wait for the entries.
StateAnyTime == TRUE

\* The state file comes last.
StateLast == box.stage = Empty

StateIn ==
    /\ box.pc = "in" /\ StateLast /\ disk.state = None
    /\ disk' = [disk EXCEPT !.state = box.gen, !.torn = {}]
    /\ truth' = store.man[box.gen]
    /\ UNCHANGED <<store, box, gc, faults>>

AllIn ==
    /\ box.pc = "in" /\ box.stage = Empty /\ disk.state = box.gen
    /\ Goto("clean")
    /\ UNCHANGED <<store, disk, gc, truth, faults>>

\* An OSError of a move.  One across mounts copies first and empties its
\* source afterwards, and may leave both ends incomplete.
MoveFails ==
    /\ \/ box.pc = "out"
       \/ box.pc = "in" /\ disk.state = None
    /\ Fault
    /\ Goto("undo")
    /\ \/ UNCHANGED disk
       \/ \E n \in Names, gone \in BOOLEAN :
            /\ box.pc = "out" /\ disk.state = None /\ disk.ws[n] # None
            /\ IF gone THEN disk' = [disk EXCEPT !.ws[n] = Torn, !.torn = @ \cup {n}]
                       ELSE UNCHANGED disk
       \/ \E n \in Names :
            /\ box.pc = "in" /\ box.stage[n] # None
            /\ disk' = [disk EXCEPT !.ws[n] = Torn,
                                    !.torn = IF n \in box.moved THEN @ ELSE @ \cup {n}]
    /\ UNCHANGED <<store, gc, truth>>

\* Variant: what was installed stays when the old entries come back.
KeepInstalled == disk.ws

\* The rollback first removes the entries that were installed.
WithoutInstalled == [n \in Names |-> IF n \in box.installed THEN None ELSE disk.ws[n]]

\* Then it puts the old entries back, one by one, ...
UndoMove(n) ==
    /\ box.pc = "undo" /\ n \in box.moved
    /\ disk' = [disk EXCEPT !.ws = [WithoutInstalled EXCEPT ![n] = box.old[n]]]
    /\ box' = [box EXCEPT !.moved = @ \ {n}, !.installed = {}]
    /\ UNCHANGED <<store, gc, truth, faults>>

\* ... and the state file last of all.
Undone ==
    /\ box.pc = "undo" /\ box.moved = {}
    /\ disk' = [disk EXCEPT !.ws = WithoutInstalled,
                            !.state = IF box.oldState = None THEN @ ELSE box.oldState]
    /\ box' = Another([box EXCEPT !.undone = TRUE])
    /\ UNCHANGED <<store, gc, truth, faults>>

\* The rollback fails in turn; restore() goes on to the next generation.
UndoFails ==
    /\ box.pc = "undo"
    /\ Fault
    /\ box' = Another(box)
    /\ disk' = [disk EXCEPT !.ws = WithoutInstalled]
    /\ UNCHANGED <<store, gc, truth>>

\* The journal and the backup go, and the container serves the workspace.
Serve ==
    /\ box.pc = "clean"
    /\ disk' = Cleared(disk)
    /\ Materialize
    /\ UNCHANGED <<store, gc, truth, faults>>

\* That removal fails: an installed generation counts as not installed.
CleanFails ==
    /\ box.pc = "clean"
    /\ Fault
    /\ box' = Another(box)
    /\ UNCHANGED <<store, disk, gc, truth>>

\* The next invocation of a container whose restore failed tries again.
TryAgain ==
    /\ box.pc = "failed"
    /\ box' = [Off EXCEPT !.pc = "choose"]
    /\ UNCHANGED <<store, disk, gc, truth, faults>>

---------------------------------------------------------------------------
(* Serving, and checkpoints.                                               *)

Edit(n, v) ==
    /\ box.pc \in Up \ {"flush"}
    /\ IF n = StateHome
       THEN box' = [box EXCEPT !.live = v] /\ UNCHANGED disk
       ELSE disk' = [disk EXCEPT !.ws[n] = v] /\ UNCHANGED box
    /\ truth' = [truth EXCEPT ![n] = v]
    /\ UNCHANGED <<store, gc, faults>>

\* next_generation: above every commit and every manifest.
NextGeneration == Greatest({0} \cup store.commits \cup {g \in Gens : store.man[g] # None}) + 1

\* The gateway is stopped, and its copy of the state home brought back: the
\* workspace's own is removed first and then replaced (_mirror_directory).
Flush ==
    /\ box.pc = "serve" /\ StateHome # None /\ NextGeneration \in Gens
    /\ disk' = [disk EXCEPT !.ws[StateHome] = None] /\ Goto("flush")
    /\ UNCHANGED <<store, gc, truth, faults>>

Synchronized == IF StateHome = None THEN disk.ws ELSE [disk.ws EXCEPT ![StateHome] = box.live]

\* The manifest is built, and the chunk index loaded.
Checkpoint ==
    /\ box.pc = IF StateHome = None THEN "serve" ELSE "flush"
    /\ NextGeneration \in Gens
    /\ disk' = [disk EXCEPT !.ws = Synchronized]
    /\ box' = [box EXCEPT !.pc = "upload", !.gen = NextGeneration, !.snap = Synchronized,
                          !.synced = box.live, !.index = IF @ = None THEN store.chunks ELSE @]
    /\ UNCHANGED <<store, gc, truth, faults>>

\* Chunks the index does not know.
Upload ==
    /\ box.pc = "upload"
    /\ store' = [store EXCEPT !.chunks = @ \cup (Used(box.snap) \ box.index)]
    /\ box' = [box EXCEPT !.pc = "manifest", !.index = @ \cup Used(box.snap)]
    /\ UNCHANGED <<disk, gc, truth, faults>>

PutManifest ==
    /\ box.pc = "manifest"
    /\ store' = [store EXCEPT !.man[box.gen] = box.snap]
    /\ Goto("commit")
    /\ UNCHANGED <<disk, gc, truth, faults>>

Commit ==
    /\ box.pc = "commit"
    /\ store' = [store EXCEPT !.commits = @ \cup {box.gen}]
    /\ Goto("record")
    /\ UNCHANGED <<disk, gc, truth, faults>>

\* The local state file follows the commit.
Record ==
    /\ box.pc = "record"
    /\ disk' = [disk EXCEPT !.state = box.gen]
    /\ box' = Serving
    /\ UNCHANGED <<store, gc, truth, faults>>

\* A step of the checkpoint fails, and the container goes on.
CheckpointFails ==
    /\ box.pc \in Up \ {"serve"}
    /\ Fault
    /\ box' = Serving
    /\ UNCHANGED <<store, disk, gc, truth>>

\* The gateway's copy of the state home is gone with the container, and the
\* workspace's is there unless a mirror was broken off.
Left ==
    LET half == box.pc \in Up /\ disk.ws[StateHome] # box.synced
    IN IF StateHome = None THEN UNCHANGED <<disk, truth>>
       ELSE /\ disk' = [disk EXCEPT !.torn = IF half THEN @ \cup {StateHome} ELSE @]
            /\ truth' = IF box.pc \in Up THEN [truth EXCEPT ![StateHome] = box.synced] ELSE truth

\* The container ends: an idle one in the course of things, any other
\* wherever it is.
End ==
    /\ \/ box.pc \in {"serve", "failed"} /\ UNCHANGED faults
       \/ box.pc # "down" /\ Fault
    /\ box' = Off /\ Left
    /\ UNCHANGED <<store, gc>>

\* A retained object is damaged.
Corrupt ==
    /\ Fault
    /\ \E g \in store.commits : store' = [store EXCEPT !.bad = @ \cup {g}]
    /\ UNCHANGED <<disk, box, gc, truth>>

---------------------------------------------------------------------------
(* RetentionManager.                                                       *)

\* Variant: the collector does not ask whether a container runs.
AnyTime == TRUE

\* It must not run while a container holds the sandbox's lease.
Collectable == box.pc = "down"

\* Old generations, and chunks no retained manifest names.
Candidates ==
    (store.commits \ LatestK(Retain))
        \cup (store.chunks \ UNION {Used(store.man[g]) : g \in LatestK(Retain)})

\* Reading a retained manifest that is damaged raises, and nothing changes.
Markable == Collectable /\ gc.doomed = {} /\ LatestK(Retain) \cap store.bad = {}

\* mark: what is no longer a candidate loses its mark, the rest keep theirs.
Mark ==
    /\ Markable
    /\ gc' = [gc EXCEPT !.marks = Candidates]
    /\ UNCHANGED <<store, disk, box, truth, faults>>

\* sweep: marks again, then removes what was marked a grace period ago.
Sweep ==
    /\ Markable
    /\ \E due \in SUBSET (Candidates \cap gc.marks) :
         gc' = [marks |-> Candidates, doomed |-> due]
    /\ UNCHANGED <<store, disk, box, truth, faults>>

\* A chunk; a generation's manifest and then its commit.
Remove(x) ==
    /\ x \in gc.doomed
    /\ \/ /\ x \in Values
          /\ store' = [store EXCEPT !.chunks = @ \ {x}]
          /\ gc' = [gc EXCEPT !.doomed = @ \ {x}, !.marks = @ \ {x}]
       \/ /\ x \in Gens /\ store.man[x] # None
          /\ store' = [store EXCEPT !.man[x] = None]
          /\ UNCHANGED gc
       \/ /\ x \in Gens /\ store.man[x] = None
          /\ store' = [store EXCEPT !.commits = @ \ {x}]
          /\ gc' = [gc EXCEPT !.doomed = @ \ {x}, !.marks = @ \ {x}]
    /\ UNCHANGED <<disk, box, truth, faults>>

\* The collector's process ends in the middle of a sweep.
SweepDies ==
    /\ gc.doomed # {}
    /\ Fault
    /\ gc' = [marks |-> {}, doomed |-> {}]
    /\ UNCHANGED <<store, disk, box, truth>>

Next ==
    \/ Boot \/ Initialize \/ KeepLocal \/ Choose \/ Stage \/ FetchFails
    \/ StateOut \/ AllOut \/ StateIn \/ AllIn \/ MoveFails
    \/ \E n \in Names : MoveOut(n) \/ MoveIn(n) \/ UndoMove(n)
    \/ Undone \/ UndoFails \/ Serve \/ CleanFails \/ TryAgain
    \/ \E n \in Names, v \in Values \cup {None} : Edit(n, v)
    \/ Flush \/ Checkpoint \/ Upload \/ PutManifest \/ Commit \/ Record \/ CheckpointFails
    \/ End \/ Corrupt
    \/ Mark \/ Sweep \/ SweepDies
    \/ \E x \in Gens \cup Values : Remove(x)

Spec == Init /\ [][Next]_vars

(***************************************************************************)
(* Fairness: a restore that has begun goes on, and invocations keep        *)
(* arriving at a container whose restore failed.                           *)
(***************************************************************************)
Restoring ==
    \/ Initialize \/ KeepLocal \/ Choose \/ Stage \/ FetchFails
    \/ StateOut \/ AllOut \/ StateIn \/ AllIn
    \/ \E n \in Names : MoveOut(n) \/ MoveIn(n) \/ UndoMove(n)
    \/ Undone \/ Serve \/ TryAgain

FairSpec == Spec /\ WF_vars(Restoring)

---------------------------------------------------------------------------
(* Properties.                                                             *)

(***************************************************************************)
(* What is served is one generation, whole: after a restore exactly the    *)
(* tree of its manifest, after a "local" answer the workspace as it was    *)
(* last served, whatever failed moves, failed rollbacks and interrupted    *)
(* installs the disk has been through (_install moves the state file out   *)
(* first and in last).  The exceptions are an entry of which a move across *)
(* mounts emptied a part, which the rollback leaves behind while it puts   *)
(* the state file back, and a state home whose mirroring was broken off.   *)
(***************************************************************************)
ServedIsWhole ==
    box.pc \in Up => \A n \in Names \ disk.torn : Served[n] = truth[n]

(***************************************************************************)
(* The same without the exception.                                         *)
(* KiroCrewSupervisor.synchronize_state: "a previously committed           *)
(* generation stays authoritative until it is".                            *)
(***************************************************************************)
NothingTornServed == box.pc \in Up => Served = truth

(***************************************************************************)
(* An install that failed and was rolled back left the workspace and its   *)
(* state file as they were, unless a move broke half way (_install: "every *)
(* move ... is undone if a later move fails").                             *)
(***************************************************************************)
RollbackRestores ==
    box.undone /\ box.pc \in {"fetch", "failed"} /\ disk.torn = {} =>
        <<disk.ws, disk.state>> = box.prior

(***************************************************************************)
(* The audit of the latest two commits finds only what was damaged:        *)
(* neither checkpoints that died half way nor sweeps that did take a       *)
(* manifest or a chunk from under them (RetentionManager, next_generation  *)
(* and the chunk index together).                                          *)
(***************************************************************************)
RetainedReadable == AuditFailures \subseteq store.bad

(***************************************************************************)
(* A container that starts is served in the end, as long as one of the two *)
(* latest generations is intact: whatever an earlier attempt left on the   *)
(* disk does not stand in the way of the next (_restore_generation).       *)
(***************************************************************************)
RestoreSucceeds ==
    (box.pc = "choose") ~>
        \/ box.pc \in {"serve", "down"}
        \/ LatestK(2) # {} /\ LatestK(2) \subseteq store.bad

============================================================================

-------------------------- MODULE CheckpointChain --------------------------
(***************************************************************************)
(* The chain of checkpoint generations of one sandbox: the write-once     *)
(* manifests and commits in S3, the record's lastCheckpointGeneration     *)
(* that receipts advance, and the containers that restore the newest      *)
(* commit, work, and commit generations of their own.                     *)
(*                                                                         *)
(* Who may claim the sandbox when is SandboxLifecycle's subject.  Here a  *)
(* container is authorized while it is bound to the record's session, a   *)
(* start may rotate the session at any time, and `holder' is the          *)
(* record's holderInstance.                                               *)
(*                                                                         *)
(* Content.  A working copy, and the snapshot a generation stores, is the *)
(* set of the generations whose work it contains.                         *)
(***************************************************************************)
EXTENDS Integers

CONSTANTS
    Containers,     \* runtime processes
    None,           \* no holder
    MaxGen,         \* bound on the generation numbers
    Faults          \* which of FaultKinds can happen

\* takeover: a live container of the same session is superseded (acquireInit);
\* answer: the broker applies a receipt and its answer is lost;
\* corrupt: a committed generation becomes unrestorable;
\* transient: a download of a good generation fails once during a restore.
FaultKinds == {"takeover", "answer", "corrupt", "transient"}

ASSUME ChainAssumption ==
    /\ None \notin Containers
    /\ MaxGen \in Nat
    /\ Faults \subseteq FaultKinds

VARIABLES
    manifests,      \* generations whose manifest object exists
    commits,        \* generations whose commit object exists
    anc,            \* content of each generation's snapshot
    corrupt,        \* generations that cannot be restored
    ptr,            \* lastCheckpointGeneration; 0 is absent
    holder,         \* holderInstance
    auth,           \* containers bound to the record's runtimeSessionId
    box,            \* per container: its step, and what it knows
    accepted        \* history: generations whose receipt was applied

vars == <<manifests, commits, anc, corrupt, ptr, holder, auth, box, accepted>>

store == <<manifests, commits, anc, corrupt>>

Gen == 1 .. MaxGen

(***************************************************************************)
(* A container is off; has read the record (read); has claimed; has       *)
(* restored; is ready between checkpoints; or is in a checkpoint that has *)
(* numbered its generation (numbered), may put its manifest (manifest),   *)
(* has put it (uploaded), may put its commit (commit), or has put it      *)
(* (committed).                                                            *)
(***************************************************************************)
Checkpointing == {"numbered", "manifest", "uploaded", "commit", "committed"}

Serving == {"ready"} \cup Checkpointing

Box ==
    [pc : {"off", "read", "claimed", "restored"} \cup Serving,
     expected : 0 .. MaxGen, base : 0 .. MaxGen, gen : 0 .. MaxGen,
     work : SUBSET Gen]

Off == [pc |-> "off", expected |-> 0, base |-> 0, gen |-> 0, work |-> {}]

Init ==
    /\ manifests = {} /\ commits = {} /\ corrupt = {}
    /\ anc = [g \in Gen |-> {}]
    /\ ptr = 0
    /\ holder = None
    /\ auth = {}
    /\ box = [i \in Containers |-> Off]
    /\ accepted = {}

---------------------------------------------------------------------------
(* Ownership.                                                               *)

\* acquire_start rotates runtimeSessionId: no running container has it.
Rotate ==
    /\ auth # {}
    /\ auth' = {}
    /\ UNCHANGED <<store, ptr, holder, box, accepted>>

\* A container of the record's session reads the record: readRecord.
ReadRecord(i) ==
    /\ box[i].pc = "off"
    /\ auth' = auth \cup {i}
    /\ box' = [box EXCEPT ![i] = [Off EXCEPT !.pc = "read", !.expected = ptr]]
    /\ UNCHANGED <<store, ptr, holder, accepted>>

\* The record's holder is a live container of its session.
HolderAlive ==
    /\ holder \in auth
    /\ box[holder].pc \in {"claimed", "restored"} \cup Serving

\* acquireInit.
Claim(i) ==
    /\ box[i].pc = "read"
    /\ i \in auth
    /\ HolderAlive => "takeover" \in Faults
    /\ holder' = i
    /\ box' = [box EXCEPT ![i].pc = "claimed"]
    /\ UNCHANGED <<store, ptr, auth, accepted>>

\* The process dies, exits because it was superseded, or gives up its claim.
Die(i) ==
    /\ box[i].pc # "off"
    /\ box' = [box EXCEPT ![i] = Off]
    /\ auth' = auth \ {i}
    /\ UNCHANGED <<store, ptr, holder, accepted>>

---------------------------------------------------------------------------
(* Restore.                                                                 *)

\* Variant: a restore that takes any committed generation.
AnyCommit(g) == g \in commits

Latest(g) == g \in commits /\ \A h \in commits : h <= g

Previous(g) ==
    /\ g \in commits
    /\ \E l \in commits : g < l /\ Latest(l)
    /\ \A h \in commits : h <= g \/ Latest(h)

\* Variant: the base is the generation restored, not the newest tried.
InstallOnRestored(i, w, b) ==
    \E r \in 0 .. b :
        /\ r = 0 \/ r \in w
        /\ \A g \in w : g <= r
        /\ box' = [box EXCEPT ![i] = [@ EXCEPT !.pc = "restored", !.work = w, !.base = r]]

\* The working copy holds w and descends from b, the newest generation tried.
Install(i, w, b) ==
    box' = [box EXCEPT ![i] = [@ EXCEPT !.pc = "restored", !.work = w, !.base = b]]

\* A store behind the pointer the container has read fails the restore.
Restore(i) ==
    /\ box[i].pc = "claimed"
    /\ i \in auth
    /\ \/ /\ commits = {}
          /\ box[i].expected = 0
          /\ Install(i, {}, 0)
       \/ \E g \in Gen :
             /\ Latest(g)
             /\ box[i].expected <= g
             /\ \/ /\ g \notin corrupt
                   /\ Install(i, anc[g], g)
                \/ /\ g \in corrupt \/ "transient" \in Faults
                   /\ \E p \in Gen \ corrupt : Previous(p) /\ Install(i, anc[p], g)
    /\ UNCHANGED <<store, ptr, holder, auth, accepted>>

\* markReady: the claim is still this container's.
MarkReady(i) ==
    /\ box[i].pc = "restored"
    /\ i \in auth
    /\ holder = i
    /\ box' = [box EXCEPT ![i] = [@ EXCEPT !.pc = "ready", !.expected = 0]]
    /\ UNCHANGED <<store, ptr, holder, auth, accepted>>

---------------------------------------------------------------------------
(* Checkpoint: _commit_checkpoint under _checkpoint_lock.                   *)

Step(i, to) == box' = [box EXCEPT ![i].pc = to]

\* The checkpoint fails: the generation number is not used again by anyone
\* once its manifest exists.
Abandon(i) == box' = [box EXCEPT ![i] = [@ EXCEPT !.pc = "ready", !.gen = 0]]

\* Variant: off by one in next_generation.
NumberedBelow(m, g) == [m EXCEPT !.pc = "numbered", !.gen = g - 1, !.work = @ \cup {g}]

\* The snapshot holds the working copy, this generation's work included.
Numbered(m, g) == [m EXCEPT !.pc = "numbered", !.gen = g, !.work = @ \cup {g}]

\* next_generation, then the snapshot.
NextGeneration(i) ==
    /\ box[i].pc = "ready"
    /\ i \in auth
    /\ \E g \in Gen :
          /\ \A h \in manifests \cup commits : h < g
          /\ g = 1 \/ g - 1 \in manifests \cup commits
          /\ box' = [box EXCEPT ![i] = Numbered(@, g)]
    /\ UNCHANGED <<store, ptr, holder, auth, accepted>>

\* presign_manifest: from here on the URL is good whoever owns the record.
GrantManifest(i) ==
    /\ box[i].pc = "numbered"
    /\ i \in auth
    /\ Step(i, "manifest")
    /\ UNCHANGED <<store, ptr, holder, auth, accepted>>

\* Variant: a manifest of what has changed since the base, not of everything.
PutManifestOfChanges(i) ==
    /\ box[i].pc = "manifest"
    /\ box[i].gen \notin manifests
    /\ manifests' = manifests \cup {box[i].gen}
    /\ anc' = [anc EXCEPT ![box[i].gen] = {g \in box[i].work : box[i].base < g}]
    /\ Step(i, "uploaded")
    /\ UNCHANGED <<commits, corrupt, ptr, holder, auth, accepted>>

\* PUT with If-None-Match.
PutManifest(i) ==
    /\ box[i].pc = "manifest"
    /\ IF box[i].gen \in manifests
          THEN Abandon(i) /\ UNCHANGED <<manifests, anc>>
          ELSE /\ manifests' = manifests \cup {box[i].gen}
               /\ anc' = [anc EXCEPT ![box[i].gen] = box[i].work]
               /\ Step(i, "uploaded")
    /\ UNCHANGED <<commits, corrupt, ptr, holder, auth, accepted>>

\* commit_generation lists the commits and asks for its PUT grant.
GrantCommit(i) ==
    /\ box[i].pc = "uploaded"
    /\ i \in auth
    /\ IF \A h \in commits : h < box[i].gen THEN Step(i, "commit") ELSE Abandon(i)
    /\ UNCHANGED <<store, ptr, holder, auth, accepted>>

\* Variant: one overwritten "latest" object instead of a commit per generation.
PutCommitOverwriting(i) ==
    /\ box[i].pc = "commit"
    /\ commits' = {box[i].gen}
    /\ Step(i, "committed")
    /\ UNCHANGED <<manifests, anc, corrupt, ptr, holder, auth, accepted>>

PutCommit(i) ==
    /\ box[i].pc = "commit"
    /\ IF box[i].gen \in commits
          THEN Abandon(i) /\ UNCHANGED commits
          ELSE commits' = commits \cup {box[i].gen} /\ Step(i, "committed")
    /\ UNCHANGED <<manifests, anc, corrupt, ptr, holder, auth, accepted>>

\* Some broker call or upload of the checkpoint fails.
CheckpointFails(i) ==
    /\ box[i].pc \in Checkpointing
    /\ Abandon(i)
    /\ UNCHANGED <<store, ptr, holder, auth, accepted>>

\* checkpointReceipt's condition: the pointer has not moved past the base.
Advances(i) == ptr = 0 \/ ptr <= box[i].base \/ ptr = box[i].gen

\* Variant: a receipt that only checks its own commit.
ReceiptUnfenced(i) == box[i].gen \in commits /\ box[i].base < box[i].gen

ReceiptApplies(i) ==
    /\ i \in auth
    /\ holder = i
    /\ box[i].gen \in commits
    /\ box[i].base < box[i].gen
    /\ Advances(i)

Receipt(i) ==
    /\ box[i].pc = "committed"
    /\ ReceiptApplies(i)
    /\ ptr' = box[i].gen
    /\ accepted' = accepted \cup {box[i].gen}
    /\ \/ box' = [box EXCEPT ![i] = [@ EXCEPT !.pc = "ready", !.gen = 0, !.base = box[i].gen]]
       \/ "answer" \in Faults /\ Abandon(i)
    /\ UNCHANGED <<store, holder, auth>>

---------------------------------------------------------------------------
Corrupt(g) ==
    /\ "corrupt" \in Faults
    /\ g \in commits \ corrupt
    /\ corrupt' = corrupt \cup {g}
    /\ UNCHANGED <<manifests, commits, anc, ptr, holder, auth, box, accepted>>

ContainerStep(i) ==
    \/ ReadRecord(i) \/ Claim(i) \/ Die(i) \/ Restore(i) \/ MarkReady(i)
    \/ NextGeneration(i) \/ GrantManifest(i) \/ PutManifest(i)
    \/ GrantCommit(i) \/ PutCommit(i) \/ CheckpointFails(i) \/ Receipt(i)

Next ==
    \/ Rotate
    \/ \E i \in Containers : ContainerStep(i)
    \/ \E g \in Gen : Corrupt(g)

Spec == Init /\ [][Next]_vars

---------------------------------------------------------------------------
(* Properties.                                                              *)

\* Every variable holds a value of its kind, and a checkpoint in progress has
\* its generation.
TypeOK ==
    /\ manifests \subseteq Gen /\ commits \subseteq Gen /\ corrupt \subseteq Gen
    /\ anc \in [Gen -> SUBSET Gen]
    /\ ptr \in 0 .. MaxGen
    /\ holder \in Containers \cup {None}
    /\ auth \subseteq Containers
    /\ box \in [Containers -> Box]
    /\ \A i \in Containers : box[i].pc \in Checkpointing => box[i].gen \in Gen
    /\ accepted \subseteq Gen

Holds(i) == holder = i /\ i \in auth /\ box[i].pc \in Serving

\* The broker's fork check never turns against the lawful holder: whatever it
\* restored (a store ahead of the pointer, a fallback) and whoever else commits
\* to S3, the pointer is not past its base (checkpointReceipt, base_generation).
HolderNeverRefused == \A i \in Containers : Holds(i) => ptr <= box[i].base

\* No container ever finds the store behind the pointer it has read, so the
\* "only a store BEHIND the pointer indicates data loss" failure never fires
\* on its own (_initialize_sync).
StoreNotBehind ==
    \A i \in Containers :
        box[i].pc \in {"read", "claimed"} /\ box[i].expected > 0 =>
            \E g \in commits : box[i].expected <= g

\* The recorded pointer never moves back, and names a new commit when it moves.
PointerAdvances ==
    [][ptr' # ptr => ptr' > ptr /\ ptr' \in commits']_vars

\* The holder's working copy contains all acknowledged work, so nothing a
\* receipt ever confirmed is lost by a crash, a rotation or a late S3 write.
\* ImplementsHistory needs it of every state, and implies it.
AcknowledgedWorkKept == \A i \in Containers : Holds(i) => accepted \subseteq box[i].work

\* "Two containers must not both win ... That is what stops a stale container
\* from overwriting a newer one": the acknowledged generations form one chain.
OneChain == \A g, h \in accepted : g < h => g \in anc[h]

\* What the owner of the sandbox sees of the chain: the lawful holder serves.
Lawful == holder # None /\ Holds(holder)

History ==
    INSTANCE AcknowledgedHistory WITH
        Servers <- Containers,
        Nobody <- None,
        history <- accepted,
        saved <- [g \in accepted |-> anc[g]],
        server <- IF Lawful THEN holder ELSE None,
        work <- IF Lawful THEN box[holder].work ELSE {}

\* The chain of generations implements the history the checkpoints promise:
\* every container that becomes the lawful holder starts from all acknowledged
\* work, and every receipt adds the holder's whole copy to it (_initialize_sync,
\* _checkpoint_receipt).  Rotations, crashes, abandoned checkpoints and late S3
\* writes are steps of the history, or none at all.
ImplementsHistory == History!Spec

==========================================================================

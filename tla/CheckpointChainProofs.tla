----------------------- MODULE CheckpointChainProofs -----------------------
(***************************************************************************)
(* Proofs about CheckpointChain for any number of containers and           *)
(* generations: the pointer, the store and the lawful holder's base, under *)
(* any faults; and one acknowledged history, without forks.                *)
(***************************************************************************)
EXTENDS CheckpointChain, TLAPS

\* A container record with a checkpoint's generation in it.
GoodBox(m) == m \in Box /\ (m.pc \in Checkpointing => m.gen \in Gen)

\* What the steps make of a container's record.
LEMMA BoxEdits ==
    ASSUME NEW m \in Box
    PROVE  /\ GoodBox(Off)
           /\ \A e \in 0 .. MaxGen : GoodBox([Off EXCEPT !.pc = "read", !.expected = e])
           /\ GoodBox([m EXCEPT !.pc = "claimed"])
           /\ \A w \in SUBSET Gen, b \in 0 .. MaxGen :
                 GoodBox([m EXCEPT !.pc = "restored", !.work = w, !.base = b])
           /\ GoodBox([m EXCEPT !.pc = "ready", !.expected = 0])
           /\ GoodBox([m EXCEPT !.pc = "ready", !.gen = 0])
           /\ \A g \in Gen :
                 /\ GoodBox(Numbered(m, g))
                 /\ GoodBox([m EXCEPT !.pc = "ready", !.gen = 0, !.base = g])
           /\ \A to \in Checkpointing : m.gen \in Gen => GoodBox([m EXCEPT !.pc = to])
<1> DEFINE Number == 0 .. MaxGen
<1>0. 0 \in Number /\ Gen \subseteq Number
  BY ChainAssumption DEF Gen
<1>1. Box = [pc : {"off", "read", "claimed", "restored"} \cup Serving, expected : Number,
             base : Number, gen : Number, work : SUBSET Gen]
  BY DEF Box
<1> HIDE DEF Number
<1> USE DEF Serving, Checkpointing, GoodBox
<1>2. GoodBox(Off)
  BY <1>0, <1>1 DEF Off
<1>3. \A e \in Number : GoodBox([Off EXCEPT !.pc = "read", !.expected = e])
  BY <1>0, <1>1 DEF Off
<1>4. GoodBox([m EXCEPT !.pc = "claimed"])
  BY <1>1
<1>5. \A w \in SUBSET Gen, b \in Number :
         GoodBox([m EXCEPT !.pc = "restored", !.work = w, !.base = b])
  BY <1>1
<1>6. /\ GoodBox([m EXCEPT !.pc = "ready", !.expected = 0])
      /\ GoodBox([m EXCEPT !.pc = "ready", !.gen = 0])
  BY <1>0, <1>1
<1>7. ASSUME NEW g \in Gen
      PROVE  GoodBox(Numbered(m, g))
  <2>1. m.work \cup {g} \in SUBSET Gen
    BY <1>1
  <2> QED
    BY <1>0, <1>1, <2>1 DEF Numbered
<1>8. \A g \in Gen : GoodBox([m EXCEPT !.pc = "ready", !.gen = 0, !.base = g])
  BY <1>0, <1>1
<1>9. ASSUME NEW to \in Checkpointing, m.gen \in Gen PROVE GoodBox([m EXCEPT !.pc = to])
  BY <1>1, <1>9
<1> QED
  BY <1>2, <1>3, <1>4, <1>5, <1>6, <1>7, <1>8, <1>9 DEF Number

\* The type of the containers' records survives the change of one of them.
LEMMA BoxType ==
    ASSUME TypeOK, NEW i \in Containers, NEW m, GoodBox(m), box' = [box EXCEPT ![i] = m]
    PROVE  /\ box' \in [Containers -> Box]
           /\ \A j \in Containers : box'[j].pc \in Checkpointing => box'[j].gen \in Gen
BY DEF TypeOK, GoodBox

\* A restore installs some working copy on some base.
LEMMA RestoreInstalls ==
    ASSUME TypeOK, NEW i \in Containers, Restore(i)
    PROVE  \E w \in SUBSET Gen, b \in 0 .. MaxGen : Install(i, w, b)
BY ChainAssumption DEF Restore, TypeOK, Gen

\* The initial state has the type.
LEMMA TypeInit == Init => TypeOK
<1>1. Off \in Box /\ Off.pc \notin Checkpointing
  BY ChainAssumption DEF Off, Box, Serving, Checkpointing
<1> QED
  BY <1>1, ChainAssumption DEF Init, TypeOK

\* Every step keeps the type.
LEMMA TypeNext == TypeOK /\ [Next]_vars => TypeOK'
<1> SUFFICES ASSUME TypeOK, [Next]_vars PROVE TypeOK'
  OBVIOUS
<1>1. CASE Rotate \/ UNCHANGED vars
  BY <1>1 DEF Rotate, vars, store, TypeOK
<1>2. CASE \E g \in Gen : Corrupt(g)
  BY <1>2 DEF Corrupt, TypeOK
<1>3. ASSUME NEW i \in Containers, ContainerStep(i) PROVE TypeOK'
  <2>0. box[i] \in Box /\ (box[i].pc \in Checkpointing => box[i].gen \in Gen)
    BY DEF TypeOK
  <2>1. CASE ReadRecord(i)
    <3>1. \E m : GoodBox(m) /\ box' = [box EXCEPT ![i] = m]
      BY <2>0, <2>1, BoxEdits DEF ReadRecord, TypeOK
    <3> QED
      BY <2>1, <3>1, BoxType DEF ReadRecord, store, TypeOK
  <2>2. CASE Claim(i)
    <3>1. \E m : GoodBox(m) /\ box' = [box EXCEPT ![i] = m]
      BY <2>0, <2>2, BoxEdits DEF Claim
    <3> QED
      BY <2>2, <3>1, BoxType DEF Claim, store, TypeOK
  <2>3. CASE Die(i)
    <3>1. GoodBox(Off)
      BY <2>0, BoxEdits
    <3> QED
      BY <2>3, <3>1, BoxType DEF Die, store, TypeOK
  <2>4. CASE Restore(i)
    <3>1. \E w \in SUBSET Gen, b \in 0 .. MaxGen : Install(i, w, b)
      BY <2>4, RestoreInstalls
    <3>2. \E m : GoodBox(m) /\ box' = [box EXCEPT ![i] = m]
      BY <2>0, <3>1, BoxEdits DEF Install
    <3> QED
      BY <2>4, <3>2, BoxType DEF Restore, store, TypeOK
  <2>5. CASE MarkReady(i)
    <3>1. \E m : GoodBox(m) /\ box' = [box EXCEPT ![i] = m]
      BY <2>0, <2>5, BoxEdits DEF MarkReady
    <3> QED
      BY <2>5, <3>1, BoxType DEF MarkReady, store, TypeOK
  <2>6. CASE NextGeneration(i)
    <3>1. \E m : GoodBox(m) /\ box' = [box EXCEPT ![i] = m]
      BY <2>0, <2>6, BoxEdits DEF NextGeneration
    <3> QED
      BY <2>6, <3>1, BoxType DEF NextGeneration, store, TypeOK
  <2>7. Abandon(i) => \E m : GoodBox(m) /\ box' = [box EXCEPT ![i] = m]
    BY <2>0, BoxEdits DEF Abandon
  <2>8. ASSUME NEW to \in Checkpointing, Step(i, to), box[i].pc \in Checkpointing
        PROVE  \E m : GoodBox(m) /\ box' = [box EXCEPT ![i] = m]
    BY <2>0, <2>8, BoxEdits DEF Step
  <2>9. CASE GrantManifest(i) \/ GrantCommit(i) \/ CheckpointFails(i)
    <3>1. \E m : GoodBox(m) /\ box' = [box EXCEPT ![i] = m]
      BY <2>7, <2>8, <2>9 DEF GrantManifest, GrantCommit, CheckpointFails, Checkpointing
    <3> QED
      BY <2>9, <3>1, BoxType DEF GrantManifest, GrantCommit, CheckpointFails, store, TypeOK
  <2>10. CASE PutManifest(i)
    <3>1. \E m : GoodBox(m) /\ box' = [box EXCEPT ![i] = m]
      BY <2>7, <2>8, <2>10 DEF PutManifest, Checkpointing
    <3>2. box[i].gen \in Gen /\ box[i].work \in SUBSET Gen
      BY <2>0, <2>10 DEF PutManifest, Box, Checkpointing
    <3>3. manifests' \subseteq Gen /\ anc' \in [Gen -> SUBSET Gen]
      BY <2>10, <3>2 DEF PutManifest, TypeOK
    <3>4. UNCHANGED <<commits, corrupt, ptr, holder, auth, accepted>>
      BY <2>10 DEF PutManifest
    <3> QED
      BY <3>1, <3>3, <3>4, BoxType DEF TypeOK
  <2>11. CASE PutCommit(i)
    <3>1. \E m : GoodBox(m) /\ box' = [box EXCEPT ![i] = m]
      BY <2>7, <2>8, <2>11 DEF PutCommit, Checkpointing
    <3>2. box[i].gen \in Gen
      BY <2>0, <2>11 DEF PutCommit, Checkpointing
    <3> QED
      BY <2>11, <3>1, <3>2, BoxType DEF PutCommit, TypeOK
  <2>12. CASE Receipt(i)
    <3>1. box[i].gen \in Gen
      BY <2>12 DEF Receipt, ReceiptApplies, TypeOK
    <3>2. \E m : GoodBox(m) /\ box' = [box EXCEPT ![i] = m]
      BY <2>0, <2>7, <2>12, <3>1, BoxEdits DEF Receipt
    <3>3. ptr' \in 0 .. MaxGen /\ accepted' \subseteq Gen
      BY <2>12, <3>1, ChainAssumption DEF Receipt, TypeOK, Gen
    <3> QED
      BY <2>12, <3>2, <3>3, BoxType DEF Receipt, store, TypeOK
  <2> QED
    BY <1>3, <2>1, <2>2, <2>3, <2>4, <2>5, <2>6, <2>9, <2>10, <2>11, <2>12 DEF ContainerStep
<1> QED
  BY <1>1, <1>2, <1>3 DEF Next

\* Every reachable state has the type.
THEOREM TypeCorrect == Spec => []TypeOK
BY TypeInit, TypeNext, PTL DEF Spec

---------------------------------------------------------------------------
(* The pointer and the store.                                               *)

\* The record's pointer names a commit that S3 still has.
PointerCommitted == ptr = 0 \/ ptr \in commits

StoreInv == TypeOK /\ PointerCommitted /\ StoreNotBehind

\* No step unmakes a commit, moves the pointer to anything but a commit, or
\* lets a container read a pointer that is ahead of the store.
LEMMA StoreStep == StoreInv /\ [Next]_vars => StoreInv'
<1> SUFFICES ASSUME StoreInv, [Next]_vars PROVE StoreInv'
  OBVIOUS
<1> USE DEF StoreInv
<1>0. TypeOK'
  BY TypeNext
<1>1. commits \subseteq commits'
  <2>1. CASE \E i \in Containers : ContainerStep(i)
    BY <2>1 DEF ContainerStep, ReadRecord, Claim, Die, Restore, MarkReady, NextGeneration,
       GrantManifest, PutManifest, GrantCommit, PutCommit, CheckpointFails, Receipt, store
  <2> QED
    BY <2>1 DEF Next, Rotate, Corrupt, vars, store
<1>2. ptr' = ptr \/ ptr' \in commits
  <2>1. CASE \E i \in Containers : ContainerStep(i)
    BY <2>1 DEF ContainerStep, ReadRecord, Claim, Die, Restore, MarkReady, NextGeneration,
       GrantManifest, PutManifest, GrantCommit, PutCommit, CheckpointFails, Receipt, ReceiptApplies
  <2> QED
    BY <2>1 DEF Next, Rotate, Corrupt, vars
<1>3. PointerCommitted'
  BY <1>1, <1>2 DEF PointerCommitted
<1>4. StoreNotBehind'
  <2> SUFFICES ASSUME NEW j \in Containers, box'[j].pc \in {"read", "claimed"},
                      box'[j].expected > 0
               PROVE  \E g \in commits' : box'[j].expected <= g
    BY DEF StoreNotBehind
  <2>1. \/ box[j].pc \in {"read", "claimed"} /\ box'[j].expected = box[j].expected
        \/ box'[j].expected = ptr
    <3>1. ASSUME NEW i \in Containers, ContainerStep(i)
          PROVE  \/ box[j].pc \in {"read", "claimed"} /\ box'[j].expected = box[j].expected
                 \/ box'[j].expected = ptr
      <4> USE DEF TypeOK
      <4>1. CASE ReadRecord(i)
        BY <4>1 DEF ReadRecord, Off
      <4>2. CASE Claim(i)
        BY <4>2 DEF Claim, Box
      <4>3. CASE Die(i)
        BY <4>3 DEF Die, Off
      <4>4. CASE Restore(i) \/ MarkReady(i)
        <5>1. /\ \A k \in Containers \ {i} : box'[k] = box[k]
              /\ box'[i].pc \in {"restored", "ready"}
          <6>1. CASE MarkReady(i)
            BY <6>1 DEF MarkReady, Box
          <6>2. CASE Restore(i)
            <7>1. PICK w \in SUBSET Gen, b \in 0 .. MaxGen : Install(i, w, b)
              BY <6>2, RestoreInstalls
            <7> QED
              BY <7>1 DEF Install, Box
          <6> QED
            BY <4>4, <6>1, <6>2
        <5> QED
          BY <5>1
      <4>5. CASE NextGeneration(i)
        BY <4>5 DEF NextGeneration, Numbered, Box
      <4>6. CASE GrantManifest(i) \/ PutManifest(i) \/ GrantCommit(i) \/ PutCommit(i)
                 \/ CheckpointFails(i)
        <5>1. \E to \in Serving : \/ box' = [box EXCEPT ![i].pc = to]
                                  \/ box' = [box EXCEPT ![i] = [@ EXCEPT !.pc = to, !.gen = 0]]
          BY <4>6 DEF GrantManifest, PutManifest, GrantCommit, PutCommit, CheckpointFails, Step,
             Abandon, Serving, Checkpointing
        <5>2. \A to \in Serving : /\ [box[i] EXCEPT !.pc = to].pc = to
                                  /\ [box[i] EXCEPT !.pc = to, !.gen = 0].pc = to
          BY DEF Box
        <5>3. box'[i].pc \in Serving /\ \A k \in Containers \ {i} : box'[k] = box[k]
          BY <5>1, <5>2
        <5> QED
          BY <5>3 DEF Serving, Checkpointing
      <4>7. CASE Receipt(i)
        BY <4>7 DEF Receipt, Abandon, Box
      <4> QED
        BY <3>1, <4>1, <4>2, <4>3, <4>4, <4>5, <4>6, <4>7 DEF ContainerStep
    <3> QED
      BY <3>1 DEF Next, Rotate, Corrupt, vars
  <2> QED
    BY <1>1, <2>1 DEF StoreNotBehind, PointerCommitted, TypeOK, Gen
<1> QED
  BY <1>0, <1>3, <1>4

\* A container never finds the store behind the pointer it has read, whatever
\* crashes, takeovers and lost answers came before (_initialize_sync).
THEOREM StoreNeverBehind == Spec => []StoreNotBehind
<1>1. Init => StoreInv
  <2>1. Off.pc = "off"
    BY DEF Off
  <2> QED
    BY <2>1, TypeInit DEF Init, StoreInv, PointerCommitted, StoreNotBehind
<1>2. StoreInv /\ [Next]_vars => StoreInv'
  BY StoreStep
<1>3. StoreInv => StoreNotBehind
  BY DEF StoreInv
<1> QED
  BY <1>1, <1>2, <1>3, PTL DEF Spec

---------------------------------------------------------------------------
(* The lawful holder.                                                       *)

Restored == {"restored"} \cup Serving

\* A container that is the record's holder and has restored descends from the
\* recorded pointer.
HolderDescends ==
    \A i \in Containers : holder = i /\ box[i].pc \in Restored => ptr <= box[i].base

HolderInv == StoreInv /\ HolderDescends

\* Without lost answers, no step moves the pointer past the holder's base.
LEMMA HolderStep ==
    ASSUME "answer" \notin Faults, HolderInv, [Next]_vars PROVE HolderInv'
<1> USE DEF HolderInv
<1>0. StoreInv'
  BY StoreStep
<1>1. TypeOK
  BY DEF StoreInv
<1>2. CASE Rotate \/ (\E g \in Gen : Corrupt(g)) \/ UNCHANGED vars
  BY <1>0, <1>2 DEF Rotate, Corrupt, vars, HolderDescends
<1>3. ASSUME NEW i \in Containers, ContainerStep(i) PROVE HolderDescends'
  <2> SUFFICES ASSUME NEW j \in Containers, holder' = j, box'[j].pc \in Restored
               PROVE  ptr' <= box'[j].base
    BY DEF HolderDescends
  <2> USE DEF TypeOK, Restored
  <2>1. CASE ReadRecord(i) \/ Die(i)
    <3>1. Off.pc = "off" /\ [Off EXCEPT !.pc = "read", !.expected = ptr].pc = "read"
      BY DEF Off
    <3>2. /\ box'[i].pc \in {"off", "read"}
          /\ j # i => box'[j] = box[j]
          /\ ptr' = ptr /\ holder' = holder
      BY <1>1, <2>1, <3>1 DEF ReadRecord, Die
    <3> QED
      BY <3>2 DEF HolderDescends, Serving, Checkpointing
  <2>2. CASE Claim(i)
    <3>1. box'[i].pc = "claimed" /\ holder' = i
      BY <1>1, <2>2 DEF Claim, Box
    <3> QED
      BY <3>1 DEF Serving, Checkpointing
  <2>3. CASE Restore(i)
    <3>1. CASE j # i
      <4>1. box'[j] = box[j] /\ ptr' = ptr /\ holder' = holder
        BY <1>1, <2>3, <3>1, RestoreInstalls DEF Restore, Install
      <4> QED
        BY <4>1 DEF HolderDescends
    <3>2. CASE j = i
      <4>1. \A g \in Gen : Latest(g) => ptr <= g
        BY <1>1 DEF StoreInv, PointerCommitted, Latest, Gen
      <4>2. commits = {} => ptr = 0
        BY DEF StoreInv, PointerCommitted
      <4>3. \A w \in SUBSET Gen, b \in 0 .. MaxGen : Install(i, w, b) => box'[i].base = b
        BY <1>1 DEF Install, Box
      <4>4. \E w \in SUBSET Gen, b \in 0 .. MaxGen :
               Install(i, w, b) /\ (Latest(b) \/ (b = 0 /\ commits = {}))
        BY <1>1, <2>3, ChainAssumption DEF Restore, Gen
      <4>5. PICK b \in 0 .. MaxGen :
               box'[i].base = b /\ (Latest(b) \/ (b = 0 /\ commits = {}))
        BY <4>3, <4>4
      <4>6. Latest(b) => b \in Gen
        BY <1>1 DEF Latest
      <4>7. ptr' = ptr
        BY <2>3 DEF Restore
      <4> QED
        BY <3>2, <4>1, <4>2, <4>5, <4>6, <4>7
    <3> QED
      BY <3>1, <3>2
  <2>4. CASE Receipt(i)
    <3>1. /\ ptr' = box[i].gen /\ holder' = holder /\ holder = i
          /\ box' = [box EXCEPT ![i] = [@ EXCEPT !.pc = "ready", !.gen = 0, !.base = box[i].gen]]
      BY <2>4 DEF Receipt, ReceiptApplies
    <3>2. box'[i].base = box[i].gen
      BY <1>1, <3>1 DEF Box
    <3>3. box[i].gen \in 0 .. MaxGen
      BY <1>1 DEF Box
    <3> QED
      BY <3>1, <3>2, <3>3
  <2>5. CASE MarkReady(i) \/ NextGeneration(i) \/ GrantManifest(i) \/ PutManifest(i)
             \/ GrantCommit(i) \/ PutCommit(i) \/ CheckpointFails(i)
    <3>1. ptr' = ptr /\ holder' = holder
      BY <2>5 DEF MarkReady, NextGeneration, GrantManifest, PutManifest, GrantCommit, PutCommit,
         CheckpointFails
    <3>2. box[i].pc \in Restored
      BY <2>5 DEF MarkReady, NextGeneration, GrantManifest, PutManifest, GrantCommit, PutCommit,
         CheckpointFails, Serving, Checkpointing
    <3>3. box'[j].base = box[j].base
      <4>1. CASE MarkReady(i)
        BY <1>1, <4>1 DEF MarkReady, Box
      <4>2. CASE NextGeneration(i)
        BY <1>1, <4>2 DEF NextGeneration, Numbered, Box
      <4>3. (\E to \in Serving : Step(i, to)) \/ Abandon(i) => box'[j].base = box[j].base
        <5>1. /\ \A to \in Serving : [box[i] EXCEPT !.pc = to].base = box[i].base
              /\ [box[i] EXCEPT !.pc = "ready", !.gen = 0].base = box[i].base
          BY <1>1 DEF Box
        <5> QED
          BY <1>1, <5>1 DEF Step, Abandon
      <4>4. CASE GrantManifest(i) \/ PutManifest(i) \/ GrantCommit(i) \/ PutCommit(i)
                 \/ CheckpointFails(i)
        BY <4>3, <4>4 DEF GrantManifest, PutManifest, GrantCommit, PutCommit, CheckpointFails,
           Serving, Checkpointing
      <4> QED
        BY <2>5, <4>1, <4>2, <4>4
    <3>4. j # i => box'[j] = box[j]
      BY <1>1, <2>5 DEF MarkReady, NextGeneration, GrantManifest, PutManifest, GrantCommit,
         PutCommit, CheckpointFails, Step, Abandon
    <3> QED
      BY <3>1, <3>2, <3>3, <3>4 DEF HolderDescends
  <2> QED
    BY <1>3, <2>1, <2>2, <2>3, <2>4, <2>5 DEF ContainerStep
<1> QED
  BY <1>0, <1>2, <1>3 DEF Next

\* As long as no answer of the broker is lost, the fork check never refuses the
\* lawful holder: whatever it restored and whoever else writes to S3, its base
\* is not behind the pointer (checkpointReceipt, base_generation).
THEOREM HolderIsNeverRefused ==
    ASSUME "answer" \notin Faults PROVE Spec => []HolderNeverRefused
<1>1. Init => HolderInv
  <2>1. Off.pc = "off"
    BY DEF Off
  <2> QED
    BY <2>1, TypeInit DEF Init, HolderInv, StoreInv, PointerCommitted, StoreNotBehind,
       HolderDescends, Restored, Serving, Checkpointing
<1>2. HolderInv /\ [Next]_vars => HolderInv'
  BY HolderStep
<1>3. HolderInv => HolderNeverRefused
  BY DEF HolderInv, HolderDescends, HolderNeverRefused, Holds, Restored
<1> QED
  BY <1>1, <1>2, <1>3, PTL DEF Spec

---------------------------------------------------------------------------
(* The pointer.                                                             *)

\* Under any faults the recorded pointer only moves forward, and only to a
\* generation whose commit exists (checkpointReceipt).
THEOREM PointerOnlyAdvances == Spec => PointerAdvances
<1>1. TypeOK /\ [Next]_vars => [ptr' # ptr => ptr' > ptr /\ ptr' \in commits']_vars
  <2> SUFFICES ASSUME TypeOK, Next, ptr' # ptr PROVE ptr' > ptr /\ ptr' \in commits'
    BY DEF vars
  <2>1. PICK i \in Containers : Receipt(i)
    BY DEF Next, Rotate, Corrupt, ContainerStep, ReadRecord, Claim, Die, Restore, MarkReady,
       NextGeneration, GrantManifest, PutManifest, GrantCommit, PutCommit, CheckpointFails
  <2>2. box[i].gen \in Nat /\ box[i].base \in Nat /\ ptr \in Nat /\ box[i].gen \in Gen
    BY <2>1, ChainAssumption DEF TypeOK, Box, Receipt, ReceiptApplies, Gen
  <2>3. ptr' = box[i].gen /\ box[i].gen \in commits /\ commits' = commits
        /\ box[i].base < box[i].gen /\ Advances(i)
    BY <2>1 DEF Receipt, ReceiptApplies, store
  <2> QED
    BY <2>2, <2>3 DEF Advances, Gen
<1> QED
  BY <1>1, TypeCorrect, PTL DEF Spec, PointerAdvances

---------------------------------------------------------------------------
(***************************************************************************)
(* One history.  CheckpointChain implements AcknowledgedHistory, for any   *)
(* number of containers and generations, as long as no container is        *)
(* superseded within its session and no restore has to fall back:          *)
(* rotations, crashes, late S3 writes and lost answers are all allowed.    *)
(***************************************************************************)

\* The faults that break the chain (run chain_takeover) cannot happen.
NoFork == Faults \cap {"takeover", "corrupt", "transient"} = {}

Live == {"claimed"} \cup Restored

Uploaded == {"uploaded", "commit", "committed"}

\* Of the containers of the record's session only the holder has claimed.
OneOwner == \A i \in Containers : i \in auth /\ box[i].pc \in Live => holder = i

\* What the store holds: an object per step of the protocol, and in each
\* manifest its own work and all work acknowledged under a smaller number.
StoreInOrder ==
    /\ commits \subseteq manifests /\ accepted \subseteq commits /\ corrupt = {}
    /\ \A g \in manifests : g \in anc[g]
    /\ \A g \in manifests, h \in accepted : h < g => h \in anc[g]

\* A checkpoint in progress, also of a container that has lost the record and
\* only has its URLs left.
DraftOK(k) ==
    box[k].pc \in Checkpointing =>
        /\ box[k].gen \in box[k].work
        /\ box[k].gen = 1 \/ box[k].gen - 1 \in manifests
        /\ \A h \in accepted : h < box[k].gen => h \in box[k].work
        /\ box[k].pc \in Uploaded => box[k].gen \in manifests /\ anc[box[k].gen] = box[k].work

\* A container of the record's session has all acknowledged work, and the
\* number of its checkpoint is nobody's past.
OwnerOK(i) ==
    i \in auth =>
        /\ box[i].pc \in Restored => accepted \subseteq box[i].work
        /\ box[i].pc \in Checkpointing =>
              /\ \A g \in manifests : g <= box[i].gen
              /\ \A h \in accepted : h < box[i].gen
              /\ \A k \in Containers : box[k].pc \in Checkpointing => box[k].gen <= box[i].gen

ChainInv ==
    /\ TypeOK /\ OneOwner /\ StoreInOrder
    /\ \A k \in Containers : DraftOK(k) /\ OwnerOK(k)

---------------------------------------------------------------------------
(* What the steps do to one container's record.                            *)

\* A step of i leaves the other containers' records alone.
OnlyBox(i) == \A j \in Containers \ {i} : box'[j] = box[j]

\* Becoming off, read, claimed or restored.
LEMMA EarlySteps ==
    ASSUME TypeOK, NEW i \in Containers
    PROVE  /\ ReadRecord(i) => OnlyBox(i) /\ box'[i].pc = "read"
           /\ Die(i) => OnlyBox(i) /\ box'[i].pc = "off"
           /\ Claim(i) => OnlyBox(i) /\ box'[i].pc = "claimed"
           /\ \A w \in SUBSET Gen, b \in 0 .. MaxGen : Install(i, w, b) =>
                 OnlyBox(i) /\ box'[i].pc = "restored" /\ box'[i].work = w
           /\ MarkReady(i) => OnlyBox(i) /\ box'[i].pc = "ready" /\ box'[i].work = box[i].work
<1>1. box[i] \in Box /\ box \in [Containers -> Box]
  BY DEF TypeOK
<1>2. Off.pc = "off" /\ [Off EXCEPT !.pc = "read", !.expected = ptr].pc = "read"
  BY DEF Off
<1>3. ReadRecord(i) => OnlyBox(i) /\ box'[i].pc = "read"
  BY <1>1, <1>2 DEF ReadRecord, OnlyBox
<1>4. Die(i) => OnlyBox(i) /\ box'[i].pc = "off"
  BY <1>1, <1>2 DEF Die, OnlyBox
<1>5. Claim(i) => OnlyBox(i) /\ box'[i].pc = "claimed"
  BY <1>1 DEF Claim, OnlyBox, Box
<1>6. \A w \in SUBSET Gen, b \in 0 .. MaxGen : Install(i, w, b) =>
         OnlyBox(i) /\ box'[i].pc = "restored" /\ box'[i].work = w
  BY <1>1 DEF Install, OnlyBox, Box
<1>7. MarkReady(i) => OnlyBox(i) /\ box'[i].pc = "ready" /\ box'[i].work = box[i].work
  BY <1>1 DEF MarkReady, OnlyBox, Box
<1> QED
  BY <1>3, <1>4, <1>5, <1>6, <1>7

\* The steps of a checkpoint.
LEMMA CheckpointSteps ==
    ASSUME TypeOK, NEW i \in Containers
    PROVE  /\ \A to \in Checkpointing : Step(i, to) =>
                 OnlyBox(i) /\ box'[i].pc = to /\ box'[i].gen = box[i].gen
                 /\ box'[i].work = box[i].work
           /\ Abandon(i) => OnlyBox(i) /\ box'[i].pc = "ready" /\ box'[i].work = box[i].work
           /\ \A g \in Gen : box' = [box EXCEPT ![i] = Numbered(@, g)] =>
                 OnlyBox(i) /\ box'[i].pc = "numbered" /\ box'[i].gen = g
                 /\ box'[i].work = box[i].work \cup {g}
           /\ Receipt(i) => OnlyBox(i) /\ box'[i].pc = "ready" /\ box'[i].work = box[i].work
<1>1. box[i] \in Box /\ box \in [Containers -> Box]
  BY DEF TypeOK
<1>2. ASSUME NEW to \in Checkpointing, Step(i, to)
      PROVE  OnlyBox(i) /\ box'[i].pc = to /\ box'[i].gen = box[i].gen
             /\ box'[i].work = box[i].work
  BY <1>1, <1>2 DEF Step, OnlyBox, Box
<1>3. Abandon(i) => OnlyBox(i) /\ box'[i].pc = "ready" /\ box'[i].work = box[i].work
  BY <1>1 DEF Abandon, OnlyBox, Box
<1>4. ASSUME NEW g \in Gen, box' = [box EXCEPT ![i] = Numbered(@, g)]
      PROVE  OnlyBox(i) /\ box'[i].pc = "numbered" /\ box'[i].gen = g
             /\ box'[i].work = box[i].work \cup {g}
  BY <1>1, <1>4 DEF Numbered, OnlyBox, Box
<1>5. Receipt(i) => OnlyBox(i) /\ box'[i].pc = "ready" /\ box'[i].work = box[i].work
  <2>1. /\ [box[i] EXCEPT !.pc = "ready", !.gen = 0, !.base = box[i].gen].pc = "ready"
        /\ [box[i] EXCEPT !.pc = "ready", !.gen = 0, !.base = box[i].gen].work = box[i].work
    BY <1>1 DEF Box
  <2> QED
    BY <1>1, <1>3, <2>1 DEF Receipt, OnlyBox
<1> QED
  BY <1>2, <1>3, <1>4, <1>5

---------------------------------------------------------------------------
(* The invariant.                                                          *)

\* The steps of a restore or a checkpoint that write nothing.
LEMMA QuietStep ==
    ASSUME ChainInv, TypeOK', OneOwner', NEW i \in Containers, OnlyBox(i),
           UNCHANGED <<store, accepted>>, auth' \subseteq auth \cup {i},
           \/ /\ box'[i].pc \notin Checkpointing
              /\ i \in auth' /\ box'[i].pc \in Restored => accepted \subseteq box'[i].work
           \/ /\ box[i].pc \in Checkpointing /\ box'[i].pc \in Checkpointing
              /\ box'[i].gen = box[i].gen /\ box'[i].work = box[i].work
              /\ box'[i].pc \in Uploaded => box[i].pc \in Uploaded
              /\ i \in auth' => i \in auth
    PROVE  ChainInv'
<1>0. UNCHANGED <<manifests, commits, anc, corrupt, accepted>>
  BY DEF store
<1>1. StoreInOrder'
  BY <1>0 DEF ChainInv, StoreInOrder
<1>2. ASSUME NEW k \in Containers PROVE DraftOK(k)'
  BY <1>0 DEF ChainInv, DraftOK, OnlyBox
<1>3. ASSUME NEW k \in Containers PROVE OwnerOK(k)'
  <2>1. ASSUME NEW j \in Containers, box'[j].pc \in Checkpointing
        PROVE  box[j].pc \in Checkpointing /\ box'[j].gen = box[j].gen
    BY <2>1 DEF OnlyBox
  <2>2. k # i => box'[k] = box[k] /\ (k \in auth' => k \in auth)
    BY DEF OnlyBox
  <2>3. OwnerOK(k) /\ OwnerOK(i)
    BY DEF ChainInv
  <2>4. i \in auth' /\ box'[i].pc \in Checkpointing => i \in auth
    OBVIOUS
  <2>5. Checkpointing \subseteq Restored
    BY DEF Restored, Serving
  <2>6. k \in auth' /\ box'[k].pc \in Restored => accepted \subseteq box'[k].work
    BY <2>2, <2>3, <2>5 DEF OwnerOK
  <2>7. ASSUME k \in auth', box'[k].pc \in Checkpointing
        PROVE  /\ \A g \in manifests : g <= box'[k].gen
               /\ \A h \in accepted : h < box'[k].gen
               /\ \A j \in Containers : box'[j].pc \in Checkpointing => box'[j].gen <= box'[k].gen
    BY <2>1, <2>2, <2>3, <2>4, <2>7 DEF OwnerOK
  <2> QED
    BY <1>0, <2>6, <2>7 DEF OwnerOK
<1> QED
  BY <1>1, <1>2, <1>3 DEF ChainInv

\* A restore takes the newest commit, which holds all acknowledged work.
LEMMA RestoreHasAll ==
    ASSUME NoFork, ChainInv, NEW i \in Containers, Restore(i)
    PROVE  OnlyBox(i) /\ box'[i].pc = "restored" /\ accepted \subseteq box'[i].work
<1>1. TypeOK /\ corrupt = {} /\ "transient" \notin Faults
  BY DEF ChainInv, StoreInOrder, NoFork
<1>2. CASE commits = {} /\ Install(i, {}, 0)
  <2>1. accepted = {}
    BY <1>2 DEF ChainInv, StoreInOrder
  <2> QED
    BY <1>1, <1>2, <2>1, EarlySteps, ChainAssumption
<1>3. ASSUME NEW g \in Gen, Latest(g), Install(i, anc[g], g)
      PROVE  OnlyBox(i) /\ box'[i].pc = "restored" /\ accepted \subseteq box'[i].work
  <2>1. g \in 0 .. MaxGen /\ anc[g] \in SUBSET Gen
    BY <1>1, ChainAssumption DEF TypeOK, Gen
  <2>2. g \in manifests /\ \A h \in accepted : h <= g
    BY <1>3 DEF ChainInv, StoreInOrder, Latest
  <2>3. \A h \in accepted : h = g \/ h < g
    BY <1>1, <2>1, <2>2 DEF TypeOK, Gen
  <2>4. accepted \subseteq anc[g]
    BY <2>2, <2>3 DEF ChainInv, StoreInOrder
  <2> QED
    BY <1>1, <1>3, <2>1, <2>4, EarlySteps
<1> QED
  BY <1>1, <1>2, <1>3 DEF Restore

\* Claims, restores and the ends of checkpoints.
LEMMA QuietSteps ==
    ASSUME NoFork, ChainInv, TypeOK', NEW i \in Containers,
           \/ ReadRecord(i) \/ Claim(i) \/ Die(i) \/ Restore(i) \/ MarkReady(i)
           \/ GrantManifest(i) \/ GrantCommit(i) \/ CheckpointFails(i)
    PROVE  ChainInv'
<1> USE DEF Restored, Serving, Checkpointing, Live, Uploaded
<1>0. TypeOK /\ OneOwner /\ OwnerOK(i)
  BY DEF ChainInv
<1>1. CASE ReadRecord(i) \/ Die(i)
  <2>1. OnlyBox(i) /\ box'[i].pc \in {"off", "read"}
    BY <1>0, <1>1, EarlySteps
  <2>2. UNCHANGED <<store, accepted, holder>> /\ auth' \subseteq auth \cup {i}
    BY <1>1 DEF ReadRecord, Die
  <2>3. OneOwner'
    BY <1>0, <2>1, <2>2 DEF OneOwner, OnlyBox
  <2> QED
    BY <2>1, <2>2, <2>3, QuietStep
<1>2. CASE Claim(i)
  <2>1. OnlyBox(i) /\ box'[i].pc = "claimed"
    BY <1>0, <1>2, EarlySteps
  <2>2. UNCHANGED <<store, accepted, auth>> /\ holder' = i /\ ~HolderAlive
    BY <1>2 DEF Claim, NoFork
  <2>3. ASSUME NEW k \in Containers, k \in auth, box[k].pc \in Live PROVE FALSE
    BY <1>0, <2>2, <2>3 DEF OneOwner, HolderAlive
  <2>4. OneOwner'
    BY <2>1, <2>2, <2>3 DEF OneOwner, OnlyBox
  <2> QED
    BY <2>1, <2>2, <2>4, QuietStep
<1>3. CASE Restore(i)
  <2>1. OnlyBox(i) /\ box'[i].pc = "restored" /\ accepted \subseteq box'[i].work
    BY <1>3, RestoreHasAll
  <2>2. UNCHANGED <<store, accepted, auth, holder>> /\ box[i].pc \in Live
    BY <1>3 DEF Restore
  <2>3. OneOwner'
    BY <1>0, <2>1, <2>2 DEF OneOwner, OnlyBox
  <2> QED
    BY <2>1, <2>2, <2>3, QuietStep
<1>4. ASSUME UNCHANGED <<store, accepted, auth, holder>>, OnlyBox(i), box[i].pc \in Restored,
             \/ box'[i].pc = "ready" /\ box'[i].work = box[i].work
             \/ /\ box[i].pc \in Checkpointing /\ box'[i].pc \in Checkpointing
                /\ box'[i].gen = box[i].gen /\ box'[i].work = box[i].work
                /\ box'[i].pc \in Uploaded => box[i].pc \in Uploaded
      PROVE  ChainInv'
  <2>1. OneOwner'
    BY <1>0, <1>4 DEF OneOwner, OnlyBox
  <2>2. i \in auth' => accepted \subseteq box[i].work
    BY <1>0, <1>4 DEF OwnerOK
  <2> QED
    BY <1>4, <2>1, <2>2, QuietStep
<1>5. CASE MarkReady(i)
  BY <1>0, <1>4, <1>5, EarlySteps DEF MarkReady
<1>6. CASE GrantManifest(i)
  BY <1>0, <1>4, <1>6, CheckpointSteps DEF GrantManifest
<1>7. CASE GrantCommit(i)
  BY <1>0, <1>4, <1>7, CheckpointSteps DEF GrantCommit
<1>8. CASE CheckpointFails(i)
  BY <1>0, <1>4, <1>8, CheckpointSteps DEF CheckpointFails
<1> QED
  BY <1>1, <1>2, <1>3, <1>5, <1>6, <1>7, <1>8

\* Only the holder is numbered, so a new number is above every manifest.
LEMMA NumberingStep ==
    ASSUME ChainInv, TypeOK', NEW i \in Containers, NextGeneration(i)
    PROVE  ChainInv'
<1> USE DEF Restored, Serving, Checkpointing, Live, Uploaded
<1>0. TypeOK /\ OneOwner /\ StoreInOrder /\ OwnerOK(i)
  BY DEF ChainInv
<1>1. PICK g \in Gen : /\ \A h \in manifests \cup commits : h < g
                       /\ g = 1 \/ g - 1 \in manifests \cup commits
                       /\ box' = [box EXCEPT ![i] = Numbered(@, g)]
  BY DEF NextGeneration
<1>2. /\ OnlyBox(i) /\ box'[i].pc = "numbered" /\ box'[i].gen = g
      /\ box'[i].work = box[i].work \cup {g}
  BY <1>0, <1>1, CheckpointSteps
<1>3. i \in auth /\ box[i].pc = "ready" /\ UNCHANGED <<manifests, commits, anc, corrupt, accepted, auth, holder>>
  BY DEF NextGeneration, store
<1>4. OneOwner' /\ StoreInOrder'
  BY <1>0, <1>2, <1>3 DEF OneOwner, StoreInOrder, OnlyBox
<1>5. accepted \subseteq box[i].work /\ accepted \subseteq manifests /\ commits \subseteq manifests
  BY <1>0, <1>3 DEF OwnerOK, StoreInOrder
<1>6. ASSUME NEW k \in Containers PROVE DraftOK(k)'
  <2>1. CASE k = i
    BY <1>1, <1>2, <1>3, <1>5, <2>1 DEF DraftOK
  <2>2. CASE k # i
    <3>1. DraftOK(k) /\ box'[k] = box[k]
      BY <1>2, <2>2 DEF ChainInv, OnlyBox
    <3> QED
      BY <1>3, <3>1 DEF DraftOK
  <2> QED
    BY <2>1, <2>2
<1>7. ASSUME NEW k \in Containers, box'[k].pc \in Checkpointing PROVE box'[k].gen <= g
  <2>1. CASE k = i
    BY <1>1, <1>2, <2>1 DEF Gen
  <2>2. CASE k # i
    <3>1. DraftOK(k) /\ box'[k] = box[k] /\ box[k].gen \in Gen
      BY <1>0, <1>2, <1>7, <2>2 DEF ChainInv, OnlyBox, TypeOK
    <3>2. box[k].gen = 1 \/ box[k].gen - 1 < g
      BY <1>1, <1>7, <3>1 DEF DraftOK
    <3> QED
      BY <3>1, <3>2 DEF Gen
  <2> QED
    BY <2>1, <2>2
<1>8. ASSUME NEW k \in Containers PROVE OwnerOK(k)'
  <2>1. CASE k # i
    BY <1>0, <1>2, <1>3, <2>1 DEF OwnerOK, OneOwner, OnlyBox
  <2>2. CASE k = i
    <3>1. \A m \in manifests : m <= g
      BY <1>0, <1>1 DEF TypeOK, Gen
    <3>2. \A h \in accepted : h < g
      BY <1>1, <1>5
    <3> QED
      BY <1>2, <1>3, <1>5, <1>7, <2>2, <3>1, <3>2 DEF OwnerOK
  <2> QED
    BY <2>1, <2>2
<1> QED
  BY <1>4, <1>6, <1>8 DEF ChainInv

\* A container whose PUT finds the object there gives its checkpoint up.
LEMMA AbandonStep ==
    ASSUME ChainInv, TypeOK', NEW i \in Containers, box[i].pc \in Checkpointing, Abandon(i),
           UNCHANGED <<store, accepted, auth, holder>>
    PROVE  ChainInv'
<1> USE DEF Restored, Serving, Checkpointing, Live, Uploaded
<1>1. TypeOK /\ OneOwner /\ OwnerOK(i)
  BY DEF ChainInv
<1>2. OnlyBox(i) /\ box'[i].pc = "ready" /\ box'[i].work = box[i].work
  BY <1>1, CheckpointSteps
<1>3. OneOwner'
  BY <1>1, <1>2 DEF OneOwner, OnlyBox
<1>4. i \in auth' => accepted \subseteq box[i].work
  BY <1>1 DEF OwnerOK
<1> QED
  BY <1>2, <1>3, <1>4, QuietStep

\* A manifest PUT, the holder's or a late one: its number is at most the
\* holder's, and what it holds is in order whoever puts it.
LEMMA ManifestStep ==
    ASSUME ChainInv, TypeOK', NEW i \in Containers, PutManifest(i)
    PROVE  ChainInv'
<1> USE DEF Restored, Serving, Checkpointing, Live, Uploaded
<1>0. /\ TypeOK /\ OneOwner /\ StoreInOrder /\ DraftOK(i) /\ box[i].pc = "manifest"
      /\ UNCHANGED <<commits, corrupt, holder, auth, accepted>>
  BY DEF ChainInv, PutManifest
<1>1. CASE box[i].gen \in manifests
  BY <1>0, <1>1, AbandonStep DEF PutManifest, store
<1>2. CASE box[i].gen \notin manifests
  <2> DEFINE n == box[i].gen
  <2>1. /\ manifests' = manifests \cup {n} /\ Step(i, "uploaded")
        /\ anc' = [anc EXCEPT ![n] = box[i].work]
    BY <1>2 DEF PutManifest
  <2>2. OnlyBox(i) /\ box'[i].pc = "uploaded" /\ box'[i].gen = n /\ box'[i].work = box[i].work
    BY <1>0, <2>1, CheckpointSteps
  <2>3. n \in Gen /\ anc \in [Gen -> SUBSET Gen] /\ manifests \subseteq Gen
    BY <1>0 DEF TypeOK
  <2>4. anc'[n] = box[i].work /\ \A g \in manifests : anc'[g] = anc[g]
    BY <1>2, <2>1, <2>3
  <2>5. n \in box[i].work /\ \A h \in accepted : h < n => h \in box[i].work
    BY <1>0 DEF DraftOK
  <2> HIDE DEF n
  <2>6. OneOwner'
    BY <1>0, <2>2 DEF OneOwner, OnlyBox
  <2>7. StoreInOrder'
    <3>1. ASSUME NEW g \in manifests'
          PROVE  g \in anc'[g] /\ \A h \in accepted : h < g => h \in anc'[g]
      BY <1>0, <2>1, <2>4, <2>5 DEF StoreInOrder
    <3> QED
      BY <1>0, <2>1, <3>1 DEF StoreInOrder
  <2>8. ASSUME NEW k \in Containers PROVE DraftOK(k)'
    <3>1. DraftOK(k)
      BY DEF ChainInv
    <3>2. k = i \/ box'[k] = box[k]
      BY <2>2 DEF OnlyBox
    <3>3. CASE k = i
      BY <1>0, <2>1, <2>2, <2>4, <3>1, <3>3 DEF DraftOK, n
    <3>4. CASE box'[k] = box[k]
      BY <1>0, <2>1, <2>4, <3>1, <3>4 DEF DraftOK
    <3> QED
      BY <3>2, <3>3, <3>4
  <2>9. ASSUME NEW k \in Containers PROVE OwnerOK(k)'
    <3>1. OwnerOK(k)
      BY DEF ChainInv
    <3>2. ASSUME NEW j \in Containers
          PROVE  /\ box'[j].gen = box[j].gen /\ box'[j].work = box[j].work
                 /\ box'[j].pc \in Checkpointing <=> box[j].pc \in Checkpointing
                 /\ box'[j].pc \in Restored <=> box[j].pc \in Restored
      BY <1>0, <2>2 DEF OnlyBox, n
    <3>3. ASSUME k \in auth, box[k].pc \in Checkpointing
          PROVE  n <= box[k].gen
      BY <1>0, <3>1, <3>3 DEF OwnerOK, n
    <3> QED
      BY <1>0, <2>1, <3>1, <3>2, <3>3 DEF OwnerOK
  <2> QED
    BY <2>6, <2>7, <2>8, <2>9 DEF ChainInv
<1> QED
  BY <1>1, <1>2

\* A commit follows its manifest.
LEMMA CommitStep ==
    ASSUME ChainInv, TypeOK', NEW i \in Containers, PutCommit(i)
    PROVE  ChainInv'
<1> USE DEF Restored, Serving, Checkpointing, Live, Uploaded
<1>0. /\ TypeOK /\ OneOwner /\ StoreInOrder /\ DraftOK(i) /\ box[i].pc = "commit"
      /\ UNCHANGED <<manifests, anc, corrupt, holder, auth, accepted>>
  BY DEF ChainInv, PutCommit
<1>1. CASE box[i].gen \in commits
  BY <1>0, <1>1, AbandonStep DEF PutCommit, store
<1>2. CASE box[i].gen \notin commits
  <2>1. commits' = commits \cup {box[i].gen} /\ Step(i, "committed")
    BY <1>2 DEF PutCommit
  <2>2. OnlyBox(i) /\ box'[i].pc = "committed" /\ box'[i].gen = box[i].gen /\ box'[i].work = box[i].work
    BY <1>0, <2>1, CheckpointSteps
  <2>3. ASSUME NEW j \in Containers
        PROVE  /\ box'[j].gen = box[j].gen /\ box'[j].work = box[j].work
               /\ box'[j].pc \in Checkpointing <=> box[j].pc \in Checkpointing
               /\ box'[j].pc \in Restored <=> box[j].pc \in Restored
               /\ box'[j].pc \in Live <=> box[j].pc \in Live
               /\ box'[j].pc \in Uploaded <=> box[j].pc \in Uploaded
    BY <1>0, <2>2 DEF OnlyBox
  <2>4. OneOwner'
    BY <1>0, <2>3 DEF OneOwner
  <2>5. StoreInOrder'
    BY <1>0, <2>1 DEF StoreInOrder, DraftOK
  <2>6. ASSUME NEW k \in Containers PROVE DraftOK(k)'
    <3>1. DraftOK(k)
      BY DEF ChainInv
    <3> QED
      BY <1>0, <2>3, <3>1 DEF DraftOK
  <2>7. ASSUME NEW k \in Containers PROVE OwnerOK(k)'
    <3>1. OwnerOK(k)
      BY DEF ChainInv
    <3> QED
      BY <1>0, <2>3, <3>1 DEF OwnerOK
  <2> QED
    BY <2>4, <2>5, <2>6, <2>7 DEF ChainInv
<1> QED
  BY <1>1, <1>2

\* A receipt is the holder's, and no manifest or draft has a larger number.
LEMMA ReceiptStep ==
    ASSUME ChainInv, TypeOK', NEW i \in Containers, Receipt(i)
    PROVE  ChainInv'
<1> USE DEF Restored, Serving, Checkpointing, Live, Uploaded
<1> DEFINE n == box[i].gen
<1>0. /\ TypeOK /\ OneOwner /\ StoreInOrder /\ DraftOK(i) /\ OwnerOK(i) /\ box[i].pc = "committed"
      /\ UNCHANGED <<manifests, commits, anc, corrupt, holder, auth>>
      /\ i \in auth /\ n \in commits /\ accepted' = accepted \cup {n}
  BY DEF ChainInv, Receipt, ReceiptApplies, store
<1>1. OnlyBox(i) /\ box'[i].pc = "ready" /\ box'[i].work = box[i].work
  BY <1>0, CheckpointSteps
<1>2. /\ n \in Gen /\ n \in box[i].work /\ accepted \subseteq box[i].work
      /\ \A g \in manifests : g <= n
      /\ \A k \in Containers : box[k].pc \in Checkpointing => box[k].gen <= n
  BY <1>0 DEF DraftOK, OwnerOK, TypeOK
<1> HIDE DEF n
<1>3. OneOwner'
  BY <1>0, <1>1 DEF OneOwner, OnlyBox
<1>4. StoreInOrder'
  <2>1. \A g \in manifests : ~(n < g)
    BY <1>0, <1>2 DEF TypeOK, Gen
  <2> QED
    BY <1>0, <2>1 DEF StoreInOrder
<1>5. ASSUME NEW k \in Containers PROVE DraftOK(k)'
  <2>1. CASE k = i
    BY <1>1, <2>1 DEF DraftOK
  <2>2. CASE k # i
    <3>1. DraftOK(k) /\ box'[k] = box[k]
      BY <1>1, <2>2 DEF ChainInv, OnlyBox
    <3>2. box[k].pc \in Checkpointing => ~(n < box[k].gen)
      BY <1>0, <1>2 DEF TypeOK, Gen
    <3> QED
      BY <1>0, <3>1, <3>2 DEF DraftOK
  <2> QED
    BY <2>1, <2>2
<1>6. ASSUME NEW k \in Containers PROVE OwnerOK(k)'
  <2>1. CASE k = i
    BY <1>0, <1>1, <1>2, <2>1 DEF OwnerOK
  <2>2. CASE k # i
    BY <1>0, <1>1, <2>2 DEF OwnerOK, OneOwner, OnlyBox
  <2> QED
    BY <2>1, <2>2
<1> QED
  BY <1>3, <1>4, <1>5, <1>6 DEF ChainInv

LEMMA ChainInit == Init => ChainInv
<1> SUFFICES ASSUME Init PROVE ChainInv
  OBVIOUS
<1>1. TypeOK
  BY TypeInit
<1>2. \A i \in Containers : box[i].pc = "off"
  BY DEF Init, Off
<1> QED
  BY <1>1, <1>2 DEF Init, ChainInv, OneOwner, StoreInOrder, DraftOK, OwnerOK,
     Live, Restored, Serving, Checkpointing

LEMMA ChainStep ==
    ASSUME NoFork, ChainInv, [Next]_vars
    PROVE  ChainInv'
<1>1. TypeOK'
  BY TypeNext DEF ChainInv
<1>2. CASE Rotate
  <2>1. auth' = {} /\ UNCHANGED <<manifests, commits, anc, corrupt, box, accepted>>
    BY <1>2 DEF Rotate, store
  <2> QED
    BY <1>1, <2>1 DEF ChainInv, OneOwner, StoreInOrder, DraftOK, OwnerOK
<1>3. ASSUME NEW i \in Containers, ContainerStep(i) PROVE ChainInv'
  BY <1>1, <1>3, QuietSteps, NumberingStep, ManifestStep, CommitStep, ReceiptStep DEF ContainerStep
<1>4. ASSUME NEW g \in Gen, Corrupt(g) PROVE FALSE
  BY <1>4 DEF Corrupt, NoFork
<1>5. CASE UNCHANGED vars
  BY <1>5 DEF vars, ChainInv, TypeOK, OneOwner, StoreInOrder, DraftOK, OwnerOK
<1> QED
  BY <1>2, <1>3, <1>4, <1>5 DEF Next

\* The inductive invariant of the chain.
THEOREM ChainInvariant == ASSUME NoFork PROVE Spec => []ChainInv
<1>1. ChainInv /\ [Next]_vars => ChainInv'
  BY ChainStep
<1> QED
  BY ChainInit, <1>1, PTL DEF Spec

\* "Two containers must not both win": the acknowledged generations form one
\* chain, each holding the work of all before it (checkpointReceipt).
THEOREM AcknowledgedOneChain == ASSUME NoFork PROVE Spec => []OneChain
<1>1. ChainInv => OneChain
  BY DEF ChainInv, StoreInOrder, OneChain
<1> QED
  BY ChainInvariant, <1>1, PTL

\* The lawful holder has all acknowledged work in its copy (_initialize_sync).
THEOREM NothingAcknowledgedLost == ASSUME NoFork PROVE Spec => []AcknowledgedWorkKept
<1>1. ChainInv => AcknowledgedWorkKept
  BY DEF ChainInv, OwnerOK, AcknowledgedWorkKept, Holds, Restored
<1> QED
  BY ChainInvariant, <1>1, PTL

---------------------------------------------------------------------------
(* The refinement.                                                         *)

\* Steps the owner of the sandbox does not see.
LEMMA Unseen ==
    ASSUME accepted' = accepted, \A g \in accepted : anc'[g] = anc[g], Lawful' <=> Lawful,
           Lawful => holder' = holder /\ box'[holder].work = box[holder].work
    PROVE  UNCHANGED History!vars
<1>1. [g \in accepted |-> anc[g]]' = [g \in accepted |-> anc[g]]
  OBVIOUS
<1>2. (IF Lawful THEN holder ELSE None)' = IF Lawful THEN holder ELSE None
  OBVIOUS
<1>3. (IF Lawful THEN box[holder].work ELSE {})' = IF Lawful THEN box[holder].work ELSE {}
  OBVIOUS
<1> QED
  BY <1>1, <1>2, <1>3 DEF History!vars

\* The lawful holder goes.
LEMMA Closes ==
    ASSUME UNCHANGED <<accepted, anc>>, ~Lawful'
    PROVE  History!Close
BY DEF History!Close

\* A step of i that keeps every container in its phase and its copy.
LEMMA UnseenStep ==
    ASSUME NEW i \in Containers, OnlyBox(i), UNCHANGED <<accepted, auth, holder>>,
           \A g \in accepted : anc'[g] = anc[g], holder \in Containers \cup {None},
           box'[i].pc \in Serving <=> box[i].pc \in Serving,
           box[i].pc \in Serving => box'[i].work = box[i].work
    PROVE  UNCHANGED History!vars
<1>1. Lawful' <=> Lawful
  BY DEF Lawful, Holds, OnlyBox
<1>2. Lawful => box'[holder].work = box[holder].work
  BY DEF Lawful, Holds, OnlyBox
<1> QED
  BY <1>1, <1>2, Unseen

LEMMA HistoryInit == Init => History!Init
<1> SUFFICES ASSUME Init PROVE History!Init
  OBVIOUS
<1>1. accepted = {} /\ ~Lawful
  BY DEF Init, Lawful
<1>2. [g \in accepted |-> anc[g]] = [g \in {} |-> {}]
  BY <1>1
<1> QED
  BY <1>1, <1>2 DEF History!Init

\* Claims, restores and openings.
LEMMA EarlyRefines ==
    ASSUME NoFork, ChainInv, NEW i \in Containers,
           ReadRecord(i) \/ Claim(i) \/ Die(i) \/ Restore(i) \/ MarkReady(i)
    PROVE  History!Next \/ UNCHANGED History!vars
<1> USE DEF Serving, Checkpointing
<1>0. TypeOK /\ OneOwner /\ OwnerOK(i) /\ holder \in Containers \cup {None}
  BY DEF ChainInv, TypeOK
<1>1. CASE ReadRecord(i)
  <2>1. OnlyBox(i) /\ box'[i].pc = "read" /\ box[i].pc = "off"
    BY <1>0, <1>1, EarlySteps DEF ReadRecord
  <2>2. UNCHANGED <<anc, accepted, holder>> /\ auth' = auth \cup {i}
    BY <1>1 DEF ReadRecord, store
  <2>3. Lawful' <=> Lawful
    BY <1>0, <2>1, <2>2 DEF Lawful, Holds, OnlyBox
  <2>4. Lawful => box'[holder].work = box[holder].work
    BY <1>0, <2>1, <2>2 DEF Lawful, Holds, OnlyBox
  <2> QED
    BY <2>2, <2>3, <2>4, Unseen
<1>2. CASE Claim(i)
  <2>1. box'[i].pc = "claimed"
    BY <1>0, <1>2, EarlySteps
  <2>2. UNCHANGED <<anc, accepted>> /\ holder' = i /\ ~HolderAlive
    BY <1>2 DEF Claim, store, NoFork
  <2>3. ~Lawful /\ ~Lawful'
    BY <2>1, <2>2 DEF Lawful, Holds, HolderAlive
  <2> QED
    BY <2>2, <2>3, Unseen
<1>3. CASE Die(i)
  <2>1. OnlyBox(i) /\ box'[i].pc = "off"
    BY <1>0, <1>3, EarlySteps
  <2>2. UNCHANGED <<anc, accepted, holder>> /\ auth' = auth \ {i}
    BY <1>3 DEF Die, store
  <2>3. CASE holder = i
    <3>1. ~Lawful'
      BY <2>1, <2>2, <2>3 DEF Lawful, Holds
    <3> QED
      BY <2>2, <3>1, Closes DEF History!Next
  <2>4. CASE holder # i
    <3>1. Lawful' <=> Lawful
      BY <1>0, <2>1, <2>2, <2>4 DEF Lawful, Holds, OnlyBox
    <3>2. Lawful => box'[holder].work = box[holder].work
      BY <1>0, <2>1, <2>2, <2>4 DEF Lawful, Holds, OnlyBox
    <3> QED
      BY <2>2, <3>1, <3>2, Unseen
  <2> QED
    BY <2>3, <2>4
<1>4. CASE Restore(i)
  <2>1. OnlyBox(i) /\ box'[i].pc = "restored"
    BY <1>4, RestoreHasAll
  <2>2. UNCHANGED <<anc, accepted, auth, holder>> /\ box[i].pc = "claimed"
    BY <1>4 DEF Restore, store
  <2> QED
    BY <1>0, <2>1, <2>2, UnseenStep
<1>5. CASE MarkReady(i)
  <2>1. box'[i].pc = "ready" /\ box'[i].work = box[i].work
    BY <1>0, <1>5, EarlySteps
  <2>2. /\ UNCHANGED <<anc, accepted, auth, holder>>
        /\ box[i].pc = "restored" /\ i \in auth /\ holder = i
    BY <1>5 DEF MarkReady, store
  <2>3. Lawful'
    BY <2>1, <2>2, ChainAssumption DEF Lawful, Holds
  <2>4. accepted \subseteq box[i].work /\ box[i].work \in SUBSET Gen
    BY <1>0, <2>2 DEF OwnerOK, Restored, TypeOK, Box
  <2>5. History!Open(i)
    BY <2>1, <2>2, <2>3, <2>4 DEF History!Open
  <2> QED
    BY <2>5 DEF History!Next
<1> QED
  BY <1>1, <1>2, <1>3, <1>4, <1>5

\* A checkpoint's numbering is new work, its receipt the acknowledgement.
LEMMA CheckpointRefines ==
    ASSUME ChainInv, NEW i \in Containers,
           \/ NextGeneration(i) \/ GrantManifest(i) \/ PutManifest(i)
           \/ GrantCommit(i) \/ PutCommit(i) \/ CheckpointFails(i) \/ Receipt(i)
    PROVE  History!Next \/ UNCHANGED History!vars
<1> USE DEF Serving, Checkpointing
<1>0. /\ TypeOK /\ OneOwner /\ StoreInOrder /\ DraftOK(i) /\ OwnerOK(i)
      /\ holder \in Containers \cup {None}
  BY DEF ChainInv, TypeOK
<1>1. ASSUME UNCHANGED <<accepted, auth, holder>>, \A g \in accepted : anc'[g] = anc[g],
             box[i].pc \in Checkpointing, Abandon(i) \/ \E to \in Checkpointing : Step(i, to)
      PROVE  UNCHANGED History!vars
  BY <1>0, <1>1, CheckpointSteps, UnseenStep
<1>2. CASE NextGeneration(i)
  <2>1. PICK g \in Gen : /\ \A h \in manifests \cup commits : h < g
                         /\ box' = [box EXCEPT ![i] = Numbered(@, g)]
    BY <1>2 DEF NextGeneration
  <2>2. box'[i].pc = "numbered" /\ box'[i].work = box[i].work \cup {g}
    BY <1>0, <2>1, CheckpointSteps
  <2>3. i \in auth /\ box[i].pc = "ready" /\ UNCHANGED <<anc, accepted, auth, holder>>
    BY <1>2 DEF NextGeneration, store
  <2>4. holder = i
    BY <1>0, <2>3 DEF OneOwner, Live, Restored
  <2>5. Lawful /\ Lawful'
    BY <2>2, <2>3, <2>4, ChainAssumption DEF Lawful, Holds
  <2>6. \A h \in accepted : h < g
    BY <1>0, <2>1 DEF StoreInOrder
  <2>7. History!Work(g)
    BY <2>2, <2>3, <2>4, <2>5, <2>6, ChainAssumption DEF History!Work
  <2> QED
    BY <2>7 DEF History!Next
<1>3. CASE GrantManifest(i)
  BY <1>1, <1>3 DEF GrantManifest, store
<1>4. CASE PutManifest(i)
  <2>1. \A g \in accepted : anc'[g] = anc[g]
    BY <1>0, <1>4 DEF PutManifest, TypeOK, StoreInOrder
  <2> QED
    BY <1>1, <1>4, <2>1 DEF PutManifest
<1>5. CASE GrantCommit(i)
  BY <1>1, <1>5 DEF GrantCommit, store
<1>6. CASE PutCommit(i)
  BY <1>1, <1>6 DEF PutCommit
<1>7. CASE CheckpointFails(i)
  BY <1>1, <1>7 DEF CheckpointFails, store
<1>8. CASE Receipt(i)
  <2>0. PICK n \in Gen : n = box[i].gen
    BY <1>0, <1>8 DEF TypeOK, Receipt
  <2>1. /\ box[i].pc = "committed" /\ i \in auth /\ holder = i
        /\ accepted' = accepted \cup {n} /\ UNCHANGED <<anc, auth, holder>>
    BY <1>8, <2>0 DEF Receipt, ReceiptApplies, store
  <2>2. box'[i].pc = "ready" /\ box'[i].work = box[i].work
    BY <1>0, <1>8, CheckpointSteps
  <2>3. Lawful /\ Lawful'
    BY <2>1, <2>2, ChainAssumption DEF Lawful, Holds
  <2>4. /\ n \in box[i].work /\ anc[n] = box[i].work
        /\ \A h \in accepted : h < n
    BY <1>0, <2>0, <2>1 DEF DraftOK, OwnerOK, Uploaded
  <2>5. [g \in accepted |-> anc[g]]' =
        [h \in accepted \cup {n} |-> IF h = n THEN box[i].work ELSE [g \in accepted |-> anc[g]][h]]
    BY <2>1, <2>4
  <2>6. History!Acknowledge(n)
    BY <2>1, <2>2, <2>3, <2>4, <2>5, ChainAssumption DEF History!Acknowledge
  <2> QED
    BY <2>6 DEF History!Next
<1> QED
  BY <1>2, <1>3, <1>4, <1>5, <1>6, <1>7, <1>8

\* The chain of generations implements the history the checkpoints promise:
\* whoever becomes the lawful holder starts from all acknowledged work, and a
\* receipt adds the holder's whole copy to it (_initialize_sync,
\* _checkpoint_receipt); every other step is one the owner does not see.
THEOREM ChainImplementsHistory == ASSUME NoFork PROVE Spec => ImplementsHistory
<1>1. ASSUME ChainInv, [Next]_vars PROVE History!Next \/ UNCHANGED History!vars
  <2>1. CASE Rotate
    <3>1. ~Lawful' /\ UNCHANGED <<accepted, anc>>
      BY <2>1 DEF Rotate, Lawful, Holds, store
    <3> QED
      BY <3>1, Closes DEF History!Next
  <2>2. ASSUME NEW i \in Containers, ContainerStep(i)
        PROVE  History!Next \/ UNCHANGED History!vars
    BY <1>1, <2>2, EarlyRefines, CheckpointRefines DEF ContainerStep
  <2>3. ASSUME NEW g \in Gen, Corrupt(g) PROVE FALSE
    BY <2>3 DEF Corrupt, NoFork
  <2>4. CASE UNCHANGED vars
    <3>1. Lawful' <=> Lawful
      BY <2>4 DEF vars, Lawful, Holds
    <3> QED
      BY <2>4, <3>1, Unseen DEF vars
  <2> QED
    BY <1>1, <2>1, <2>2, <2>3, <2>4 DEF Next
<1>2. ChainInv /\ [Next]_vars => [History!Next]_(History!vars)
  BY <1>1
<1> QED
  BY HistoryInit, ChainInvariant, <1>2, PTL DEF Spec, ImplementsHistory, History!Spec

============================================================================

------------------------ MODULE CheckpointEngineProofs ------------------------
(***************************************************************************)
(* Every generation the engine commits can be restored, for any number of *)
(* files, threads, writes and failures: through gateway deaths, lost       *)
(* answers, and a shutdown that leaves two threads in the engine at once.  *)
(*                                                                         *)
(* The argument: a chunk in the index is in the bucket, a baseline entry's *)
(* content is in the bucket, and what a thread's manifest names is in the  *)
(* bucket or among the chunks the thread still has to upload.              *)
(***************************************************************************)
EXTENDS CheckpointEngine, TLAPS

\* What the skipped work relies on.
IndexStored == known \subseteq chunks /\ 0 \in chunks

BaselineStored ==
    \A f \in Files : baseline[f] # None => baseline[f].content \in chunks

\* What one thread's build names is stored, or queued for upload.
BuildCovered(t) ==
    /\ \A f \in Files : f \notin thr[t].unread => thr[t].tree[f] \in chunks \cup thr[t].new
    /\ \A f \in Files : thr[t].stamps[f] # None =>
          thr[t].stamps[f].content \in chunks \cup thr[t].new
    /\ thr[t].pc \in {"upload", "commit", "receipt"} => thr[t].unread = {}
    /\ thr[t].pc \in {"commit", "receipt"} =>
          thr[t].new \subseteq chunks /\ manifests[thr[t].gen] # None

ManifestsStored ==
    \A g \in Gens : manifests[g] # None => \A f \in Files : manifests[g][f] \in chunks

CommitsHaveManifests == \A g \in commits : manifests[g] # None

IInv ==
    /\ TypeOK
    /\ IndexStored
    /\ BaselineStored
    /\ \A t \in Threads : BuildCovered(t)
    /\ ManifestsStored
    /\ CommitsHaveManifests

------------------------------------------------------------------------------
\* The initial state satisfies the invariant.
LEMMA InitSafe == Init => IInv
<1> SUFFICES ASSUME Init PROVE IInv
  OBVIOUS
<1> USE EngineAssumption
<1>1. [f \in Files |-> 0] \in Trees /\ 0 \in Contents /\ 0 \in Gens
  BY DEF Trees, Contents, Gens
<1>2. GatewayTypeOK
  <2>1. disk \in Trees /\ past = <<disk>>
    BY <1>1 DEF Init
  <2>2. past \in Seq(Trees) /\ past # <<>>
    BY <2>1
  <2>3. stamp \in [Files -> 0 .. MaxTime] /\ now \in 0 .. MaxTime
    BY DEF Init
  <2>4. proc \in {"down", "starting", "up"} /\ stopped \in BOOLEAN
    BY DEF Init
  <2>5. mark \in [Contents -> Contents] /\ torn \subseteq Gens
    BY DEF Init
  <2> QED
    BY <2>1, <2>2, <2>3, <2>4, <2>5 DEF GatewayTypeOK
<1>3. Idle \in Thread
  BY <1>1 DEF Idle, Thread, Reasons
<1>4. EngineTypeOK
  BY <1>1, <1>3 DEF Init, EngineTypeOK, Idle
<1>5. StoreTypeOK
  BY <1>1 DEF Init, StoreTypeOK
<1>6. IndexStored /\ BaselineStored /\ ManifestsStored
  BY <1>1 DEF Init, IndexStored, BaselineStored, ManifestsStored, Trees
<1>7. CommitsHaveManifests
  BY <1>1 DEF Init, CommitsHaveManifests
<1>8. ASSUME NEW t \in Threads PROVE BuildCovered(t)
  BY <1>1 DEF Init, BuildCovered, Idle
<1>9. faults \in 0 .. MaxFaults
  BY DEF Init
<1> QED
  BY <1>2, <1>4, <1>5, <1>6, <1>7, <1>8, <1>9 DEF IInv, TypeOK

------------------------------------------------------------------------------
\* What a thread's state becomes.

\* One thread's state changes and the others keep theirs.
LEMMA OneThread ==
    ASSUME thr \in [Threads -> Thread], NEW t \in Threads, NEW q \in Thread,
           thr' = [thr EXCEPT ![t] = q]
    PROVE  /\ thr' \in [Threads -> Thread]
           /\ thr'[t] = q
           /\ \A d \in Threads \ {t} : thr'[d] = thr[d]
OBVIOUS

\* A thread inside the engine moves on.
LEMMA EngineMove ==
    ASSUME EngineTypeOK, NEW t \in Threads, NEW q \in Thread,
           thr[t].pc # "idle", q.pc # "idle", q.why = thr[t].why,
           thr' = [thr EXCEPT ![t] = q],
           UNCHANGED <<lock, loop, lastFp, readOnly, phase>>
    PROVE  EngineTypeOK'
<1>1. /\ thr' \in [Threads -> Thread] /\ thr'[t] = q
      /\ \A d \in Threads \ {t} : thr'[d] = thr[d]
  BY OneThread DEF EngineTypeOK
<1>2. lock' # None => thr'[lock'].pc # "idle"
  BY <1>1 DEF EngineTypeOK
<1>3. \A d \in Threads : thr'[d].pc # "idle" /\ lock' # d => phase' # "serving"
  BY <1>1 DEF EngineTypeOK
<1>4. lock' # None /\ thr'[lock'].why = "periodic" => loop' \in Trees
  BY <1>1 DEF EngineTypeOK
<1> QED
  BY <1>1, <1>2, <1>3, <1>4 DEF EngineTypeOK

\* A thread leaves the engine.
LEMMA EngineDone ==
    ASSUME EngineTypeOK, NEW t \in Threads, thr[t].pc # "idle",
           thr' = [thr EXCEPT ![t] = Idle], Release(t),
           lastFp' \in Trees \cup {None}, readOnly' \in BOOLEAN, UNCHANGED phase
    PROVE  EngineTypeOK'
<1> USE EngineAssumption
<1>1. Idle \in Thread /\ Idle.pc = "idle"
  BY DEF Idle, Thread, Reasons, Trees, Contents, Gens
<1>2. /\ thr' \in [Threads -> Thread] /\ thr'[t] = Idle
      /\ \A d \in Threads \ {t} : thr'[d] = thr[d]
  BY <1>1, OneThread DEF EngineTypeOK
<1>3. lock' \in Threads \cup {None} /\ loop' \in Trees \cup {None, Ended} /\ lock' # t
  BY DEF EngineTypeOK, Release
<1>4. lock' # None => lock' = lock
  BY DEF Release
<1>5. lock' # None => thr'[lock'].pc # "idle"
  BY <1>2, <1>3, <1>4 DEF EngineTypeOK
<1>6. ASSUME NEW d \in Threads, thr'[d].pc # "idle", lock' # d PROVE phase' # "serving"
  <2>1. d # t /\ thr[d].pc # "idle"
    BY <1>1, <1>2, <1>6
  <2>2. lock # d
    BY <1>6, <2>1 DEF Release
  <2> QED
    BY <2>1, <2>2 DEF EngineTypeOK
<1>7. lock' # None /\ thr'[lock'].why = "periodic" => loop' \in Trees
  <2> SUFFICES ASSUME lock' # None, thr'[lock'].why = "periodic" PROVE loop' \in Trees
    OBVIOUS
  <2>1. lock' = lock /\ lock # t /\ thr'[lock] = thr[lock]
    BY <1>2, <1>3, <1>4 DEF EngineTypeOK
  <2>2. loop' = loop
    BY <2>1 DEF Release
  <2> QED
    BY <2>1, <2>2 DEF EngineTypeOK
<1> QED
  BY <1>2, <1>3, <1>5, <1>6, <1>7 DEF EngineTypeOK

\* Threads that do not move stay covered while the bucket only grows.
LEMMA OthersCovered ==
    ASSUME NEW d \in Threads, BuildCovered(d), thr'[d] = thr[d],
           thr \in [Threads -> Thread], chunks \subseteq chunks',
           \A g \in Gens : manifests[g] # None => manifests'[g] # None
    PROVE  BuildCovered(d)'
<1>1. thr[d].gen \in Gens
  BY DEF Thread
<1> QED
  BY <1>1 DEF BuildCovered

\* A thread that leaves the engine is covered: it names only content 0.
LEMMA IdleCovered ==
    ASSUME NEW t \in Threads, thr'[t] = Idle, 0 \in chunks'
    PROVE  BuildCovered(t)'
BY DEF BuildCovered, Idle

------------------------------------------------------------------------------
\* The gateway's own steps.

LEMMA LiveTyped == ASSUME GatewayTypeOK PROVE Live \in Trees
<1>1. Len(past) \in 1 .. Len(past)
  BY DEF GatewayTypeOK
<1> QED
  BY <1>1 DEF GatewayTypeOK, Live

LEMMA FaultTyped ==
    ASSUME faults \in 0 .. MaxFaults, NEW kind, Fault(kind) PROVE faults' \in 0 .. MaxFaults
BY EngineAssumption DEF Fault

\* A step that leaves engine and store alone keeps what speaks of them.
LEMMA GatewayOnly ==
    ASSUME IInv, UNCHANGED <<engine, store>>, GatewayTypeOK', faults' \in 0 .. MaxFaults
    PROVE  IInv'
<1>1. EngineTypeOK' /\ StoreTypeOK'
  BY DEF IInv, TypeOK, engine, store, EngineTypeOK, StoreTypeOK
<1>2. IndexStored' /\ BaselineStored' /\ ManifestsStored' /\ CommitsHaveManifests'
  BY DEF IInv, store, IndexStored, BaselineStored, ManifestsStored, CommitsHaveManifests
<1>3. ASSUME NEW t \in Threads PROVE BuildCovered(t)'
  BY DEF IInv, engine, store, BuildCovered
<1> QED
  BY <1>1, <1>2, <1>3 DEF IInv, TypeOK

\* The mark a write leaves is a content's number.
LEMMA MarkTyped ==
    ASSUME GatewayTypeOK, NEW f \in Files, Write(f)
    PROVE  mark' \in [Contents -> Contents]
<1>1. Len(past) \in Contents
  BY EngineAssumption DEF Write, GatewayTypeOK, Contents
<1>2. PICK m \in {Len(past)} \cup {mark[past[k][f]] : k \in 1 .. Len(past)} :
         mark' = [mark EXCEPT ![Len(past)] = m]
  BY DEF Write
<1>3. \A k \in 1 .. Len(past) : past[k][f] \in Contents
  BY DEF GatewayTypeOK, Trees
<1>4. m \in Contents
  BY <1>1, <1>3 DEF GatewayTypeOK
<1> QED
  BY <1>2, <1>4 DEF GatewayTypeOK

\* The fingerprint is a tree of marks.
LEMMA SeenTyped == ASSUME GatewayTypeOK PROVE Seen \in Trees
BY DEF GatewayTypeOK, Seen, Trees

\* Every step of the gateway and of the clock keeps the invariant.
LEMMA GatewaySafe == ASSUME IInv, GatewayStep PROVE IInv'
<1> USE EngineAssumption
<1>0. GatewayTypeOK /\ Live \in Trees /\ faults \in 0 .. MaxFaults
  BY LiveTyped DEF IInv, TypeOK
<1>1. ASSUME NEW f \in Files, Write(f) PROVE IInv'
  <2>1. Len(past) \in Contents
    BY <1>0, <1>1 DEF Write, GatewayTypeOK, Contents
  <2>2. [Live EXCEPT ![f] = Len(past)] \in Trees
    BY <1>0, <2>1 DEF Trees
  <2>3. disk' \in Trees /\ stamp' \in [Files -> 0 .. MaxTime]
    <3>1. \/ UNCHANGED <<disk, stamp>>
          \/ disk' = [disk EXCEPT ![f] = Len(past)] /\ stamp' = [stamp EXCEPT ![f] = now]
      BY <1>1 DEF Write
    <3> QED
      BY <1>0, <2>1, <3>1 DEF GatewayTypeOK, Trees
  <2>4. past' \in Seq(Trees) /\ past' # <<>>
    <3>1. past' = Append(past, [Live EXCEPT ![f] = Len(past)])
      BY <1>1 DEF Write
    <3> QED
      BY <1>0, <2>2, <3>1 DEF GatewayTypeOK
  <2>5. mark' \in [Contents -> Contents]
    BY <1>0, <1>1, MarkTyped
  <2>6. torn' \subseteq Gens
    <3>1. \A d \in Threads : thr[d].gen \in Gens
      BY DEF IInv, TypeOK, EngineTypeOK, Thread
    <3>2. torn' = torn \cup {thr[d].gen : d \in {u \in Threads : Walking(u)}}
      BY <1>1 DEF Write
    <3> QED
      BY <1>0, <3>1, <3>2 DEF GatewayTypeOK
  <2>7. UNCHANGED <<now, proc, stopped, engine, store, faults>>
    BY <1>1 DEF Write
  <2>8. GatewayTypeOK'
    BY <1>0, <2>3, <2>4, <2>5, <2>6, <2>7 DEF GatewayTypeOK
  <2> QED
    BY <1>0, <2>7, <2>8, GatewayOnly
<1>2. CASE GatewayDies \/ GatewayStartFails
  <2>1. GatewayTypeOK'
    BY <1>0, <1>2 DEF GatewayDies, GatewayStartFails, GatewayTypeOK
  <2>2. faults' \in 0 .. MaxFaults
    BY <1>0, <1>2, FaultTyped DEF GatewayDies, GatewayStartFails
  <2> QED
    BY <1>2, <2>1, <2>2, GatewayOnly DEF GatewayDies, GatewayStartFails
<1>3. CASE GatewayStart
  <2>1. past' \in Seq(Trees) /\ past' # <<>>
    BY <1>0, <1>3 DEF GatewayStart, GatewayTypeOK
  <2>2. GatewayTypeOK'
    BY <1>0, <1>3, <2>1 DEF GatewayStart, GatewayTypeOK
  <2> QED
    BY <1>0, <1>3, <2>2, GatewayOnly DEF GatewayStart
<1>4. CASE GatewayReady
  <2>1. GatewayTypeOK'
    BY <1>0, <1>4 DEF GatewayReady, GatewayTypeOK
  <2> QED
    BY <1>0, <1>4, <2>1, GatewayOnly DEF GatewayReady
<1>5. CASE Tick
  <2>1. GatewayTypeOK'
    BY <1>0, <1>5 DEF Tick, GatewayTypeOK
  <2> QED
    BY <1>0, <1>5, <2>1, GatewayOnly DEF Tick
<1> QED
  BY <1>1, <1>2, <1>3, <1>4, <1>5 DEF GatewayStep

------------------------------------------------------------------------------
\* Steps of a thread that leave the bucket alone.

\* A thread moves, or leaves, and the store does not change.
LEMMA ThreadOnly ==
    ASSUME IInv, UNCHANGED store, NEW t \in Threads,
           GatewayTypeOK', EngineTypeOK', faults' \in 0 .. MaxFaults,
           \A d \in Threads \ {t} : thr'[d] = thr[d],
           BuildCovered(t)'
    PROVE  IInv'
<1>1. StoreTypeOK'
  BY DEF IInv, TypeOK, store, StoreTypeOK
<1>2. IndexStored' /\ BaselineStored' /\ ManifestsStored' /\ CommitsHaveManifests'
  BY DEF IInv, store, IndexStored, BaselineStored, ManifestsStored, CommitsHaveManifests
<1>3. ASSUME NEW d \in Threads \ {t} PROVE BuildCovered(d)'
  BY OthersCovered DEF IInv, TypeOK, EngineTypeOK, store
<1> QED
  BY <1>1, <1>2, <1>3 DEF IInv, TypeOK

\* An attempt that gives up keeps the gateway's and the engine's types.
LEMMA AbandonTyped ==
    ASSUME IInv, NEW t \in Threads, thr[t].pc # "idle", Abandon(t)
    PROVE  /\ GatewayTypeOK' /\ EngineTypeOK'
           /\ thr'[t] = Idle /\ \A d \in Threads \ {t} : thr'[d] = thr[d]
<1>1. GatewayTypeOK'
  <2>1. stopped' \in BOOLEAN
    BY DEF Abandon, Resumed
  <2> QED
    BY <2>1 DEF IInv, TypeOK, GatewayTypeOK, Abandon
<1>2. lastFp' \in Trees \cup {None} /\ UNCHANGED phase
  BY DEF IInv, TypeOK, EngineTypeOK, Abandon
<1>3. readOnly' \in BOOLEAN
  BY DEF Abandon
<1>4. thr' = [thr EXCEPT ![t] = Idle] /\ Release(t)
  BY DEF Abandon
<1>5. EngineTypeOK'
  BY <1>2, <1>3, <1>4, EngineDone DEF IInv, TypeOK
<1> QED
  BY <1>1, <1>4, <1>5 DEF IInv, TypeOK, EngineTypeOK

\* A caller enters the engine.
LEMMA BeginSafe ==
    ASSUME IInv, NEW t \in Threads, NEW why \in Callers, Begin(t, why) PROVE IInv'
<1> USE EngineAssumption
<1> DEFINE q == [Idle EXCEPT !.pc = "begun", !.why = why, !.gen = NextGeneration]
<1>1. /\ q \in Thread /\ q.pc = "begun" /\ q.unread = {} /\ q.new = {}
      /\ q.tree = [f \in Files |-> 0] /\ q.stamps = [f \in Files |-> None] /\ q.why = why
  <2>1. Idle \in Thread /\ NextGeneration \in Gens /\ why \in Reasons
    BY DEF Idle, Thread, Reasons, Trees, Contents, Gens, Begin
  <2> HIDE DEF NextGeneration
  <2> QED
    BY <2>1 DEF Thread, Idle
<1> HIDE DEF q
<1>2. thr' = [thr EXCEPT ![t] = q] /\ UNCHANGED <<gateway, store, faults>>
  BY DEF Begin, q
<1>3. /\ thr' \in [Threads -> Thread] /\ thr'[t] = q
      /\ \A d \in Threads \ {t} : thr'[d] = thr[d]
  BY <1>1, <1>2, OneThread DEF IInv, TypeOK, EngineTypeOK
<1>4. /\ lock = None /\ lock' = t /\ phase' \in {phase, "final"}
      /\ UNCHANGED <<loop, lastFp, readOnly>>
      /\ why = "periodic" => loop \in Trees
  BY DEF Begin, IInv, TypeOK, EngineTypeOK
<1>5. ASSUME NEW d \in Threads, thr'[d].pc # "idle", lock' # d PROVE phase' # "serving"
  <2>1. thr[d].pc # "idle" /\ lock # d
    BY <1>3, <1>4, <1>5
  <2> QED
    BY <1>4, <2>1 DEF IInv, TypeOK, EngineTypeOK
<1>6. EngineTypeOK'
  BY <1>1, <1>3, <1>4, <1>5 DEF IInv, TypeOK, EngineTypeOK
<1>7. GatewayTypeOK' /\ faults' \in 0 .. MaxFaults
  BY <1>2 DEF IInv, TypeOK, GatewayTypeOK, gateway
<1>8. BuildCovered(t)'
  BY <1>1, <1>2, <1>3 DEF IInv, BuildCovered, IndexStored, store
<1> QED
  BY <1>2, <1>3, <1>6, <1>7, <1>8, ThreadOnly

\* The gateway is frozen.
LEMMA PauseSafe == ASSUME IInv, NEW t \in Threads, Pause(t) PROVE IInv'
<1> DEFINE q == [thr[t] EXCEPT !.pc = "paused"]
<1>0. thr[t] \in Thread
  BY DEF IInv, TypeOK, EngineTypeOK
<1>1. /\ q \in Thread /\ q.pc = "paused" /\ q.why = thr[t].why /\ q.unread = thr[t].unread /\ q.new = thr[t].new
      /\ q.tree = thr[t].tree /\ q.stamps = thr[t].stamps
  BY <1>0 DEF Thread
<1>2. thr' = [thr EXCEPT ![t] = q]
  BY DEF Pause
<1> HIDE DEF q
<1>3. thr'[t] = q /\ \A d \in Threads \ {t} : thr'[d] = thr[d]
  BY <1>1, <1>2, OneThread DEF IInv, TypeOK, EngineTypeOK
<1>4. EngineTypeOK'
  BY <1>1, <1>2, EngineMove DEF IInv, TypeOK, Pause
<1>5. GatewayTypeOK' /\ faults' \in 0 .. MaxFaults
  BY DEF IInv, TypeOK, GatewayTypeOK, Pause
<1>6. BuildCovered(t)'
  BY <1>1, <1>3 DEF IInv, BuildCovered, Pause, store
<1>7. UNCHANGED store
  BY DEF Pause
<1> QED
  BY <1>3, <1>4, <1>5, <1>6, <1>7, ThreadOnly

\* Staged files are copied back and the build begins.
LEMMA FlushSafe == ASSUME IInv, NEW t \in Threads, Flush(t) PROVE IInv'
<1> USE EngineAssumption
<1> DEFINE q == [thr[t] EXCEPT !.pc = "reading", !.unread = Files,
                               !.racyAfter = now - RacyWindow]
<1>0. thr[t] \in Thread /\ now \in 0 .. MaxTime /\ Live \in Trees
  BY LiveTyped DEF IInv, TypeOK, EngineTypeOK, GatewayTypeOK
<1>1. /\ q \in Thread /\ q.pc = "reading" /\ q.why = thr[t].why /\ q.unread = Files /\ q.new = thr[t].new
      /\ q.stamps = thr[t].stamps
  <2>1. now - RacyWindow \in Int
    BY <1>0
  <2> DEFINE r == now - RacyWindow
  <2> HIDE DEF r
  <2>2. [thr[t] EXCEPT !.pc = "reading", !.unread = Files, !.racyAfter = r] \in Thread
    BY <1>0, <2>1 DEF Thread, r
  <2> QED
    BY <1>0, <2>2 DEF Thread, r
<1>2. thr' = [thr EXCEPT ![t] = q]
  BY DEF Flush
<1> HIDE DEF q
<1>3. thr'[t] = q /\ \A d \in Threads \ {t} : thr'[d] = thr[d]
  BY <1>1, <1>2, OneThread DEF IInv, TypeOK, EngineTypeOK
<1>4. EngineTypeOK'
  BY <1>1, <1>2, EngineMove DEF IInv, TypeOK, Flush
<1>5. disk' \in Trees /\ stamp' \in [Files -> 0 .. MaxTime]
  BY <1>0 DEF IInv, TypeOK, GatewayTypeOK, Flush, Trees
<1>6. GatewayTypeOK' /\ faults' \in 0 .. MaxFaults
  BY <1>5 DEF IInv, TypeOK, GatewayTypeOK, Flush
<1>7. BuildCovered(t)'
  BY <1>1, <1>3 DEF IInv, BuildCovered, Flush, store
<1>8. UNCHANGED store
  BY DEF Flush
<1> QED
  BY <1>3, <1>4, <1>6, <1>7, <1>8, ThreadOnly

\* A file is read, or its committed entry reused.
LEMMA ReadSafe ==
    ASSUME IInv, NEW t \in Threads, NEW f \in Files, ReadFile(t, f) PROVE IInv'
<1> USE EngineAssumption
<1>0. /\ thr[t] \in Thread /\ disk[f] \in Contents /\ stamp[f] \in 0 .. MaxTime
      /\ baseline[f] \in Entries \cup {None}
      /\ baseline[f] # None => baseline[f].content \in chunks
  BY DEF IInv, TypeOK, EngineTypeOK, GatewayTypeOK, StoreTypeOK, Trees, BaselineStored
<1>1. \E q \in Thread, c \in Contents, e \in Entries \cup {None} :
         /\ thr' = [thr EXCEPT ![t] = q]
         /\ q.pc = "reading" /\ q.why = thr[t].why /\ q.unread = thr[t].unread \ {f}
         /\ q.tree = [thr[t].tree EXCEPT ![f] = c]
         /\ q.stamps = [thr[t].stamps EXCEPT ![f] = e]
         /\ thr[t].new \subseteq q.new
         /\ c \in chunks \cup q.new
         /\ e # None => e.content \in chunks \cup q.new
  <2>1. CASE Reusable(f)
    <3> DEFINE q == [thr[t] EXCEPT
            !.unread = thr[t].unread \ {f},
            !.tree = [thr[t].tree EXCEPT ![f] = baseline[f].content],
            !.stamps = [thr[t].stamps EXCEPT ![f] = baseline[f]]]
    <3>1. baseline[f] \in Entries /\ baseline[f].content \in Contents
      BY <1>0, <2>1 DEF Reusable, Entries
    <3>2. /\ q \in Thread /\ q.pc = thr[t].pc /\ q.why = thr[t].why /\ q.unread = thr[t].unread \ {f}
          /\ q.tree = [thr[t].tree EXCEPT ![f] = baseline[f].content]
          /\ q.stamps = [thr[t].stamps EXCEPT ![f] = baseline[f]]
          /\ q.new = thr[t].new
      BY <1>0, <3>1 DEF Thread, Trees
    <3>3. thr' = [thr EXCEPT ![t] = q] /\ thr[t].pc = "reading"
      BY <2>1 DEF ReadFile
    <3> HIDE DEF q
    <3> QED
      BY <1>0, <2>1, <3>1, <3>2, <3>3 DEF Reusable
  <2>2. CASE ~Reusable(f)
    <3> DEFINE q == [thr[t] EXCEPT
            !.unread = thr[t].unread \ {f},
            !.tree = [thr[t].tree EXCEPT ![f] = disk[f]],
            !.new = thr[t].new \cup {disk[f]},
            !.stamps = [thr[t].stamps EXCEPT ![f] = Offered(t, f)]]
    <3>1. Offered(t, f) \in Entries \cup {None}
      BY <1>0 DEF Offered, Entries
    <3>2. Offered(t, f) # None => Offered(t, f).content = disk[f]
      BY DEF Offered
    <3> HIDE DEF Offered
    <3>3. /\ q \in Thread /\ q.pc = thr[t].pc /\ q.why = thr[t].why /\ q.unread = thr[t].unread \ {f}
          /\ q.tree = [thr[t].tree EXCEPT ![f] = disk[f]]
          /\ q.stamps = [thr[t].stamps EXCEPT ![f] = Offered(t, f)]
          /\ q.new = thr[t].new \cup {disk[f]}
      BY <1>0, <3>1 DEF Thread, Trees
    <3>4. thr' = [thr EXCEPT ![t] = q] /\ thr[t].pc = "reading"
      BY <2>2 DEF ReadFile
    <3> HIDE DEF q
    <3> QED
      BY <1>0, <3>1, <3>2, <3>3, <3>4
  <2> QED
    BY <2>1, <2>2
<1>2. PICK q \in Thread, c \in Contents, e \in Entries \cup {None} :
         /\ thr' = [thr EXCEPT ![t] = q]
         /\ q.pc = "reading" /\ q.why = thr[t].why /\ q.unread = thr[t].unread \ {f}
         /\ q.tree = [thr[t].tree EXCEPT ![f] = c]
         /\ q.stamps = [thr[t].stamps EXCEPT ![f] = e]
         /\ thr[t].new \subseteq q.new
         /\ c \in chunks \cup q.new
         /\ e # None => e.content \in chunks \cup q.new
  BY <1>1
<1>3. thr'[t] = q /\ \A d \in Threads \ {t} : thr'[d] = thr[d]
  BY <1>2, OneThread DEF IInv, TypeOK, EngineTypeOK
<1>4. EngineTypeOK'
  BY <1>2, EngineMove DEF IInv, TypeOK, ReadFile
<1>5. GatewayTypeOK' /\ faults' \in 0 .. MaxFaults /\ UNCHANGED store
  BY DEF IInv, TypeOK, GatewayTypeOK, ReadFile, gateway
<1>6. ASSUME NEW g \in Files, g \notin q.unread PROVE q.tree[g] \in chunks \cup q.new
  BY <1>0, <1>2, <1>6 DEF IInv, BuildCovered, Thread, Trees
<1>7. ASSUME NEW g \in Files, q.stamps[g] # None PROVE q.stamps[g].content \in chunks \cup q.new
  BY <1>0, <1>2, <1>7 DEF IInv, BuildCovered, Thread
<1>8. BuildCovered(t)'
  BY <1>2, <1>3, <1>5, <1>6, <1>7 DEF BuildCovered, store
<1> QED
  BY <1>3, <1>4, <1>5, <1>8, ThreadOnly

\* The build ends and the gateway is thawed unless the checkpoint is final.
LEMMA BuiltSafe == ASSUME IInv, NEW t \in Threads, Built(t) PROVE IInv'
<1> DEFINE q == [thr[t] EXCEPT !.pc = "upload"]
<1>0. thr[t] \in Thread
  BY DEF IInv, TypeOK, EngineTypeOK
<1>1. /\ q \in Thread /\ q.pc = "upload" /\ q.unread = thr[t].unread /\ q.new = thr[t].new
      /\ q.why = thr[t].why
      /\ q.tree = thr[t].tree /\ q.stamps = thr[t].stamps
  BY <1>0 DEF Thread
<1>2. thr' = [thr EXCEPT ![t] = q]
  BY DEF Built
<1> HIDE DEF q
<1>3. thr'[t] = q /\ \A d \in Threads \ {t} : thr'[d] = thr[d]
  BY <1>1, <1>2, OneThread DEF IInv, TypeOK, EngineTypeOK
<1>4. EngineTypeOK'
  BY <1>1, <1>2, EngineMove DEF IInv, TypeOK, Built
<1>5. stopped' \in BOOLEAN
  BY DEF Built
<1>6. GatewayTypeOK' /\ faults' \in 0 .. MaxFaults
  BY <1>5 DEF IInv, TypeOK, GatewayTypeOK, Built
<1>7. BuildCovered(t)'
  BY <1>1, <1>3 DEF IInv, BuildCovered, Built, store
<1>8. UNCHANGED store
  BY DEF Built
<1> QED
  BY <1>3, <1>4, <1>6, <1>7, <1>8, ThreadOnly

\* The receipt is answered, or fails.
LEMMA ReceiptSafe ==
    ASSUME IInv, NEW t \in Threads, Receipt(t) \/ ReceiptFails(t) PROVE IInv'
<1>1. /\ thr[t].pc # "idle" /\ thr' = [thr EXCEPT ![t] = Idle] /\ Release(t)
      /\ UNCHANGED <<gateway, phase, store>>
  BY DEF Receipt, ReceiptFails
<1>2. lastFp' \in Trees \cup {None}
  BY EngineAssumption DEF Receipt, ReceiptFails, Fingerprint, IInv, TypeOK, EngineTypeOK
<1>3. readOnly' \in BOOLEAN
  <2>1. readOnly' = readOnly \/ readOnly' = (readOnly \/ StopFailed(t))
    BY DEF Receipt, ReceiptFails
  <2> QED
    BY <2>1 DEF IInv, TypeOK, EngineTypeOK
<1>4. EngineTypeOK'
  BY <1>1, <1>2, <1>3, EngineDone DEF IInv, TypeOK
<1>5. faults' \in 0 .. MaxFaults
  BY FaultTyped DEF Receipt, ReceiptFails, IInv, TypeOK
<1>6. GatewayTypeOK'
  BY <1>1 DEF IInv, TypeOK, GatewayTypeOK, gateway
<1>7. thr'[t] = Idle /\ \A d \in Threads \ {t} : thr'[d] = thr[d]
  BY <1>1 DEF IInv, TypeOK, EngineTypeOK
<1>8. BuildCovered(t)'
  BY <1>1, <1>7, IdleCovered DEF IInv, IndexStored, store
<1> QED
  BY <1>1, <1>4, <1>5, <1>6, <1>7, <1>8, ThreadOnly

\* An attempt is refused, or one of its requests fails.
LEMMA AbandonSafe ==
    ASSUME IInv, NEW t \in Threads, Refused(t) \/ RequestFails(t) PROVE IInv'
<1>1. thr[t].pc # "idle" /\ Abandon(t) /\ UNCHANGED store
  BY DEF Refused, RequestFails
<1>2. /\ GatewayTypeOK' /\ EngineTypeOK'
      /\ thr'[t] = Idle /\ \A d \in Threads \ {t} : thr'[d] = thr[d]
  BY <1>1, AbandonTyped
<1>3. faults' \in 0 .. MaxFaults
  BY FaultTyped DEF Refused, RequestFails, IInv, TypeOK
<1>4. BuildCovered(t)'
  BY <1>1, <1>2, IdleCovered DEF IInv, IndexStored, store
<1> QED
  BY <1>1, <1>2, <1>3, <1>4, ThreadOnly

------------------------------------------------------------------------------
\* Steps that reach the bucket.

\* Chunks are added, known or not: nothing that was covered is uncovered.
LEMMA ChunksGrow ==
    ASSUME IInv, chunks \subseteq chunks', chunks' \subseteq Contents,
           known' \subseteq chunks', UNCHANGED <<manifests, commits, baseline>>
    PROVE  /\ StoreTypeOK' /\ IndexStored' /\ BaselineStored'
           /\ ManifestsStored' /\ CommitsHaveManifests'
<1>1. StoreTypeOK'
  BY DEF IInv, TypeOK, StoreTypeOK
<1>2. IndexStored' /\ BaselineStored'
  BY DEF IInv, IndexStored, BaselineStored
<1>3. ManifestsStored' /\ CommitsHaveManifests'
  BY DEF IInv, ManifestsStored, CommitsHaveManifests
<1> QED
  BY <1>1, <1>2, <1>3

\* A thread's manifest is stored once all its new chunks are.
LEMMA ManifestPut ==
    ASSUME IInv, NEW t \in Threads, thr[t].pc = "upload", thr[t].new \subseteq known,
           manifests' = [manifests EXCEPT ![thr[t].gen] = thr[t].tree],
           UNCHANGED <<chunks, known, commits, baseline>>
    PROVE  /\ StoreTypeOK' /\ IndexStored' /\ BaselineStored'
           /\ ManifestsStored' /\ CommitsHaveManifests'
           /\ \A g \in Gens : manifests[g] # None => manifests'[g] # None
           /\ manifests'[thr[t].gen] # None
<1> USE EngineAssumption
<1>1. thr[t].gen \in Gens /\ thr[t].tree \in Trees /\ thr[t].tree # None
  BY DEF IInv, TypeOK, EngineTypeOK, Thread
<1>2. /\ manifests' \in [Gens -> Trees \cup {None}]
      /\ manifests'[thr[t].gen] = thr[t].tree
      /\ \A g \in Gens \ {thr[t].gen} : manifests'[g] = manifests[g]
  BY <1>1 DEF IInv, TypeOK, StoreTypeOK
<1>3. \A f \in Files : thr[t].tree[f] \in chunks
  BY DEF IInv, BuildCovered, IndexStored
<1>4. StoreTypeOK'
  BY <1>2 DEF IInv, TypeOK, StoreTypeOK
<1>5. IndexStored' /\ BaselineStored'
  BY DEF IInv, IndexStored, BaselineStored
<1>6. ManifestsStored'
  BY <1>2, <1>3 DEF IInv, ManifestsStored
<1>7. \A g \in Gens : manifests[g] # None => manifests'[g] # None
  BY <1>1, <1>2
<1>8. CommitsHaveManifests'
  BY <1>7 DEF IInv, TypeOK, StoreTypeOK, CommitsHaveManifests
<1> QED
  BY <1>1, <1>2, <1>4, <1>5, <1>6, <1>7, <1>8

\* A chunk is uploaded and indexed.
LEMMA UploadSafe == ASSUME IInv, NEW t \in Threads, UploadChunk(t) PROVE IInv'
<1>1. PICK c \in thr[t].new \ known : chunks' = chunks \cup {c} /\ known' = known \cup {c}
  BY DEF UploadChunk
<1>2. c \in Contents /\ thr \in [Threads -> Thread]
  BY DEF IInv, TypeOK, EngineTypeOK, Thread
<1>3. UNCHANGED <<gateway, engine, manifests, commits, baseline, faults>>
  BY DEF UploadChunk
<1>4. chunks \subseteq chunks' /\ chunks' \subseteq Contents /\ known' \subseteq chunks'
  BY <1>1, <1>2 DEF IInv, TypeOK, StoreTypeOK, IndexStored
<1>5. /\ StoreTypeOK' /\ IndexStored' /\ BaselineStored'
      /\ ManifestsStored' /\ CommitsHaveManifests'
  BY <1>3, <1>4, ChunksGrow
<1>6. GatewayTypeOK' /\ EngineTypeOK' /\ faults' \in 0 .. MaxFaults
  BY <1>3 DEF IInv, TypeOK, GatewayTypeOK, EngineTypeOK, gateway, engine
<1>7. ASSUME NEW d \in Threads PROVE BuildCovered(d)'
  BY <1>2, <1>3, <1>4, OthersCovered DEF IInv, engine
<1> QED
  BY <1>5, <1>6, <1>7 DEF IInv, TypeOK

\* The manifest is uploaded.
LEMMA ManifestSafe == ASSUME IInv, NEW t \in Threads, UploadManifest(t) PROVE IInv'
<1> DEFINE q == [thr[t] EXCEPT !.pc = "commit"]
<1>0. thr[t] \in Thread /\ thr \in [Threads -> Thread]
  BY DEF IInv, TypeOK, EngineTypeOK
<1>1. /\ q \in Thread /\ q.pc = "commit" /\ q.unread = thr[t].unread /\ q.new = thr[t].new
      /\ q.why = thr[t].why
      /\ q.tree = thr[t].tree /\ q.stamps = thr[t].stamps /\ q.gen = thr[t].gen
  BY <1>0 DEF Thread
<1>2. thr' = [thr EXCEPT ![t] = q]
  BY DEF UploadManifest
<1> HIDE DEF q
<1>3. thr'[t] = q /\ \A d \in Threads \ {t} : thr'[d] = thr[d]
  BY <1>0, <1>1, <1>2, OneThread
<1>4. EngineTypeOK'
  BY <1>1, <1>2, EngineMove DEF IInv, TypeOK, UploadManifest
<1>5. GatewayTypeOK' /\ faults' \in 0 .. MaxFaults
  BY DEF IInv, TypeOK, GatewayTypeOK, UploadManifest, gateway
<1>6. /\ StoreTypeOK' /\ IndexStored' /\ BaselineStored'
      /\ ManifestsStored' /\ CommitsHaveManifests'
      /\ \A g \in Gens : manifests[g] # None => manifests'[g] # None
      /\ manifests'[thr[t].gen] # None
  BY ManifestPut DEF UploadManifest
<1>7. BuildCovered(t)'
  BY <1>1, <1>3, <1>6 DEF IInv, BuildCovered, UploadManifest, IndexStored
<1>8. ASSUME NEW d \in Threads \ {t} PROVE BuildCovered(d)'
  BY <1>0, <1>3, <1>6, OthersCovered DEF IInv, UploadManifest
<1> QED
  BY <1>4, <1>5, <1>6, <1>7, <1>8 DEF IInv, TypeOK

\* A generation is committed and its build becomes the baseline.
LEMMA CommitPut ==
    ASSUME IInv, NEW t \in Threads, thr[t].pc = "commit",
           commits' = commits \cup {thr[t].gen}, baseline' = thr[t].stamps,
           UNCHANGED <<chunks, known, manifests>>
    PROVE  /\ StoreTypeOK' /\ IndexStored' /\ BaselineStored'
           /\ ManifestsStored' /\ CommitsHaveManifests'
<1>1. thr[t] \in Thread
  BY DEF IInv, TypeOK, EngineTypeOK
<1>2. /\ thr[t].gen \in Gens /\ thr[t].stamps \in [Files -> Entries \cup {None}]
      /\ thr[t].new \subseteq chunks /\ manifests[thr[t].gen] # None
      /\ \A f \in Files : thr[t].stamps[f] # None => thr[t].stamps[f].content \in chunks
  BY <1>1 DEF Thread, IInv, BuildCovered
<1>3. StoreTypeOK'
  BY <1>2 DEF IInv, TypeOK, StoreTypeOK
<1>4. IndexStored' /\ BaselineStored' /\ ManifestsStored' /\ CommitsHaveManifests'
  BY <1>2 DEF IInv, IndexStored, BaselineStored, ManifestsStored, CommitsHaveManifests
<1> QED
  BY <1>3, <1>4

\* The generation is committed and its build becomes the baseline.
LEMMA CommitSafe == ASSUME IInv, NEW t \in Threads, Commit(t) PROVE IInv'
<1> DEFINE q == [thr[t] EXCEPT !.pc = "receipt"]
<1>0. thr[t] \in Thread /\ thr \in [Threads -> Thread]
  BY DEF IInv, TypeOK, EngineTypeOK
<1>1. /\ q \in Thread /\ q.pc = "receipt" /\ q.unread = thr[t].unread /\ q.new = thr[t].new
      /\ q.why = thr[t].why
      /\ q.tree = thr[t].tree /\ q.stamps = thr[t].stamps /\ q.gen = thr[t].gen
  BY <1>0 DEF Thread
<1>2. thr' = [thr EXCEPT ![t] = q]
  BY DEF Commit
<1> HIDE DEF q
<1>3. thr'[t] = q /\ \A d \in Threads \ {t} : thr'[d] = thr[d]
  BY <1>0, <1>1, <1>2, OneThread
<1>4. EngineTypeOK'
  BY <1>1, <1>2, EngineMove DEF IInv, TypeOK, Commit
<1>5. GatewayTypeOK' /\ faults' \in 0 .. MaxFaults
  BY DEF IInv, TypeOK, GatewayTypeOK, Commit, gateway
<1>6. /\ commits' = commits \cup {thr[t].gen} /\ baseline' = thr[t].stamps
      /\ UNCHANGED <<chunks, known, manifests>> /\ thr[t].pc = "commit"
  BY DEF Commit
<1>7. /\ StoreTypeOK' /\ IndexStored' /\ BaselineStored'
      /\ ManifestsStored' /\ CommitsHaveManifests'
  BY <1>6, CommitPut
<1>8. BuildCovered(t)'
  BY <1>1, <1>3, <1>6 DEF IInv, BuildCovered
<1>9. ASSUME NEW d \in Threads \ {t} PROVE BuildCovered(d)'
  BY <1>0, <1>3, <1>6, OthersCovered DEF IInv
<1> QED
  BY <1>4, <1>5, <1>7, <1>8, <1>9 DEF IInv, TypeOK

\* The bucket takes a chunk, a manifest or a commit whose answer is
\* lost, or a commit whose local state is not written.
LEMMA AnswerLostSafe ==
    ASSUME IInv, NEW t \in Threads, AnswerLost(t) \/ LocalStateFails(t) PROVE IInv'
<1>0. thr[t] \in Thread /\ thr \in [Threads -> Thread]
  BY DEF IInv, TypeOK, EngineTypeOK
<1>1. thr[t].pc # "idle" /\ Abandon(t)
  BY DEF AnswerLost, LocalStateFails
<1>2. /\ GatewayTypeOK' /\ EngineTypeOK'
      /\ thr'[t] = Idle /\ \A d \in Threads \ {t} : thr'[d] = thr[d]
  BY <1>1, AbandonTyped
<1>3. faults' \in 0 .. MaxFaults
  BY FaultTyped DEF AnswerLost, LocalStateFails, IInv, TypeOK
<1>4. /\ StoreTypeOK' /\ IndexStored' /\ BaselineStored'
      /\ ManifestsStored' /\ CommitsHaveManifests'
      /\ chunks \subseteq chunks'
      /\ \A g \in Gens : manifests[g] # None => manifests'[g] # None
  <2>1. CASE /\ \E c \in thr[t].new \ known : chunks' = chunks \cup {c}
             /\ UNCHANGED <<known, manifests, commits, baseline>>
    <3>1. /\ chunks \subseteq chunks' /\ chunks' \subseteq Contents
          /\ known' \subseteq chunks'
      BY <1>0, <2>1 DEF IInv, TypeOK, StoreTypeOK, IndexStored, Thread
    <3> QED
      BY <2>1, <3>1, ChunksGrow
  <2>2. CASE /\ thr[t].pc = "upload" /\ thr[t].new \subseteq known
             /\ manifests' = [manifests EXCEPT ![thr[t].gen] = thr[t].tree]
             /\ UNCHANGED <<chunks, known, commits, baseline>>
    BY <2>2, ManifestPut
  <2>3. CASE /\ thr[t].pc = "commit"
             /\ commits' = commits \cup {thr[t].gen}
             /\ UNCHANGED <<chunks, known, manifests, baseline>>
    <3>1. thr[t].gen \in Gens /\ manifests[thr[t].gen] # None
      BY <1>0, <2>3 DEF Thread, IInv, BuildCovered
    <3>2. StoreTypeOK'
      BY <2>3, <3>1 DEF IInv, TypeOK, StoreTypeOK
    <3>3. IndexStored' /\ BaselineStored' /\ ManifestsStored' /\ CommitsHaveManifests'
      BY <2>3, <3>1
      DEF IInv, IndexStored, BaselineStored, ManifestsStored, CommitsHaveManifests
    <3> QED
      BY <2>3, <3>2, <3>3
  <2>4. CASE LocalStateFails(t)
    <3>1. /\ thr[t].pc = "commit" /\ commits' = commits \cup {thr[t].gen}
          /\ baseline' = thr[t].stamps /\ UNCHANGED <<chunks, known, manifests>>
      BY <2>4 DEF LocalStateFails
    <3> QED
      BY <3>1, CommitPut
  <2> QED
    BY <2>1, <2>2, <2>3, <2>4 DEF AnswerLost
<1>5. BuildCovered(t)'
  BY <1>2, <1>4, IdleCovered DEF IndexStored
<1>6. ASSUME NEW d \in Threads \ {t} PROVE BuildCovered(d)'
  BY <1>0, <1>2, <1>4, OthersCovered DEF IInv
<1> QED
  BY <1>2, <1>3, <1>4, <1>5, <1>6 DEF IInv, TypeOK

------------------------------------------------------------------------------
\* The loop's wake-up and the shutdown touch neither threads nor bucket.
LEMMA LoopSafe == ASSUME IInv, PeriodicWake \/ FingerprintFails \/ Shutdown PROVE IInv'
<1>1. UNCHANGED <<gateway, thr, store>>
  BY DEF PeriodicWake, FingerprintFails, Shutdown
<1>2. GatewayTypeOK' /\ StoreTypeOK'
  BY <1>1 DEF IInv, TypeOK, GatewayTypeOK, StoreTypeOK, gateway, store
<1>3. faults' \in 0 .. MaxFaults
  BY FaultTyped DEF PeriodicWake, FingerprintFails, Shutdown, IInv, TypeOK
<1>4. EngineTypeOK'
  <2>1. CASE PeriodicWake
    BY <2>1, SeenTyped DEF IInv, TypeOK, EngineTypeOK, PeriodicWake
  <2>2. CASE Shutdown
    BY <2>2 DEF IInv, TypeOK, EngineTypeOK, Shutdown
  <2>3. CASE FingerprintFails
    BY <2>3, EngineAssumption DEF IInv, TypeOK, EngineTypeOK, FingerprintFails
  <2> QED
    BY <2>1, <2>2, <2>3
<1>5. IndexStored' /\ BaselineStored' /\ ManifestsStored' /\ CommitsHaveManifests'
  BY <1>1 DEF IInv, store, IndexStored, BaselineStored, ManifestsStored, CommitsHaveManifests
<1>6. ASSUME NEW d \in Threads PROVE BuildCovered(d)'
  BY <1>1, OthersCovered DEF IInv, TypeOK, EngineTypeOK, store
<1> QED
  BY <1>2, <1>3, <1>4, <1>5, <1>6 DEF IInv, TypeOK

\* Every step of a thread keeps the invariant.
LEMMA ThreadSafe == ASSUME IInv, NEW t \in Threads, ThreadStep(t) PROVE IInv'
BY BeginSafe, PauseSafe, FlushSafe, ReadSafe, BuiltSafe, UploadSafe, ManifestSafe,
   CommitSafe, ReceiptSafe, AbandonSafe, AnswerLostSafe
DEF ThreadStep

\* The invariant holds in every reachable state of the engine.
THEOREM EngineInvariance == Spec => []IInv
<1>1. IInv /\ UNCHANGED vars => IInv'
  <2> SUFFICES ASSUME IInv, UNCHANGED vars PROVE IInv'
    OBVIOUS
  <2>1. UNCHANGED <<engine, store>> /\ GatewayTypeOK' /\ faults' \in 0 .. MaxFaults
    BY DEF vars, engine, store, IInv, TypeOK, GatewayTypeOK
  <2> QED
    BY <2>1, GatewayOnly
<1>2. IInv /\ Next => IInv'
  BY GatewaySafe, LoopSafe, ThreadSafe DEF Next
<1> QED
  BY InitSafe, <1>1, <1>2, PTL DEF Spec

\* The variables of the engine always have their types.
THEOREM TypeCorrect == Spec => []TypeOK
<1>1. IInv => TypeOK
  BY DEF IInv
<1> QED
  BY EngineInvariance, <1>1, PTL

\* Every committed generation has its manifest and all its chunks in the
\* bucket, whatever the engine skipped and however its attempts ended.
THEOREM CommitsAlwaysRestorable == Spec => []CommitsRestorable
<1>1. IInv => CommitsRestorable
  BY DEF IInv, TypeOK, StoreTypeOK, CommitsHaveManifests, ManifestsStored, CommitsRestorable
<1> QED
  BY EngineInvariance, <1>1, PTL
==============================================================================

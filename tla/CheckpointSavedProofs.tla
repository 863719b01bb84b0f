------------------------ MODULE CheckpointSavedProofs ------------------------
(***************************************************************************)
(* What a generation of the engine holds, for any number of files, threads *)
(* and writes: a gateway left frozen has nothing unsaved, a checkpoint the *)
(* loop skips would have saved nothing, and a generation is a state the    *)
(* gateway's files really had.                                             *)
(***************************************************************************)
EXTENDS CheckpointEngineProofs, WellFoundedInduction

\* A non-empty set of bounded numbers has a largest one.
LEMMA Largest ==
    ASSUME NEW N \in Nat, NEW S, S \subseteq 0 .. N, S # {}
    PROVE  \E m \in S : \A k \in S : k <= m
<1> DEFINE R == OpToRel(<, Nat)
           T == {n \in Nat : N - n \in S}
<1>1. IsWellFoundedOn(R, Nat)
  BY NatLessThanWellFounded, Zenon
<1>2. T \subseteq Nat /\ T # {}
  <2>1. PICK s \in S : s \in 0 .. N
    OBVIOUS
  <2>2. N - s \in Nat /\ N - (N - s) = s
    BY <2>1
  <2> QED
    BY <2>2
<1>3. PICK x \in T : \A y \in T : <<y, x>> \notin R
  <2> HIDE DEF R, T
  <2> QED
    BY <1>1, <1>2, WFMin
<1>4. \A y \in T : ~(y < x)
  BY <1>3 DEF OpToRel
<1>5. ASSUME NEW k \in S PROVE k <= N - x
  <2>1. k \in 0 .. N /\ N - k \in Nat /\ N - (N - k) = k
    OBVIOUS
  <2>2. N - k \in T
    BY <2>1
  <2>3. ~(N - k < x)
    BY <1>4, <2>2
  <2> QED
    BY <2>1, <2>3
<1> QED
  BY <1>5

------------------------------------------------------------------------------
\* What the steps of a thread do to its state.

Only(t) == \A d \in Threads \ {t} : thr'[d] = thr[d]

Moves(t, to) ==
    /\ Only(t)
    /\ thr'[t].pc = to /\ thr'[t].why = thr[t].why /\ thr'[t].gen = thr[t].gen
    /\ thr'[t].unread = thr[t].unread /\ thr'[t].tree = thr[t].tree
    /\ thr'[t].stamps = thr[t].stamps

Leaves(t) == Only(t) /\ thr'[t] = Idle

LEMMA MoveEffects ==
    ASSUME TypeOK, NEW t \in Threads
    PROVE  /\ Pause(t) => Moves(t, "paused")
           /\ Built(t) => Moves(t, "upload")
           /\ UploadManifest(t) => Moves(t, "commit")
           /\ Commit(t) => Moves(t, "receipt")
           /\ Abandon(t) \/ Receipt(t) \/ ReceiptFails(t) => Leaves(t)
<1>1. thr[t] \in Thread /\ thr \in [Threads -> Thread]
  BY DEF TypeOK, EngineTypeOK
<1>2. ASSUME NEW to, thr' = [thr EXCEPT ![t].pc = to] PROVE Moves(t, to)
  BY <1>1, <1>2 DEF Moves, Only, Thread
<1>3. thr' = [thr EXCEPT ![t] = Idle] => Leaves(t)
  BY <1>1 DEF Leaves, Only
<1> QED
  BY <1>2, <1>3 DEF Pause, Built, UploadManifest, Commit, Abandon, Receipt, ReceiptFails

LEMMA BeginEffects ==
    ASSUME TypeOK, NEW t \in Threads, NEW why \in Callers, Begin(t, why)
    PROVE  /\ Only(t) /\ lock = None /\ lock' = t
           /\ thr'[t].pc = "begun" /\ thr'[t].why = why /\ thr'[t].gen = NextGeneration
           /\ thr'[t].stamps = [f \in Files |-> None]
<1> DEFINE q == [Idle EXCEPT !.pc = "begun", !.why = why, !.gen = NextGeneration]
<1>1. thr \in [Threads -> Thread]
  BY DEF TypeOK, EngineTypeOK
<1>2. /\ q.pc = "begun" /\ q.why = why /\ q.gen = NextGeneration
      /\ q.stamps = [f \in Files |-> None]
  <2> HIDE DEF NextGeneration
  <2> QED
    BY DEF Idle
<1>3. thr' = [thr EXCEPT ![t] = q] /\ lock = None /\ lock' = t
  BY DEF Begin
<1> HIDE DEF q
<1> QED
  BY <1>1, <1>2, <1>3 DEF Only

LEMMA FlushEffects ==
    ASSUME TypeOK, NEW t \in Threads, Flush(t)
    PROVE  /\ Only(t)
           /\ thr'[t].pc = "reading" /\ thr'[t].why = thr[t].why /\ thr'[t].gen = thr[t].gen
           /\ thr'[t].unread = Files /\ thr'[t].stamps = thr[t].stamps
           /\ thr'[t].racyAfter = now - RacyWindow
<1> DEFINE r == now - RacyWindow
           q == [thr[t] EXCEPT !.pc = "reading", !.unread = Files, !.racyAfter = r]
<1>1. thr[t] \in Thread /\ thr \in [Threads -> Thread]
  BY DEF TypeOK, EngineTypeOK
<1>2. thr' = [thr EXCEPT ![t] = q]
  BY DEF Flush
<1> HIDE DEF r
<1>3. /\ q.pc = "reading" /\ q.why = thr[t].why /\ q.gen = thr[t].gen
      /\ q.unread = Files /\ q.stamps = thr[t].stamps /\ q.racyAfter = r
  BY <1>1 DEF Thread
<1> HIDE DEF q
<1> QED
  BY <1>1, <1>2, <1>3 DEF Only, r

LEMMA ReadEffects ==
    ASSUME TypeOK, NEW t \in Threads, NEW f \in Files, ReadFile(t, f)
    PROVE  /\ Only(t)
           /\ thr'[t].pc = "reading" /\ thr'[t].why = thr[t].why /\ thr'[t].gen = thr[t].gen
           /\ thr'[t].unread = thr[t].unread \ {f} /\ thr'[t].racyAfter = thr[t].racyAfter
           /\ \/ /\ Reusable(f)
                 /\ thr'[t].tree = [thr[t].tree EXCEPT ![f] = baseline[f].content]
                 /\ thr'[t].stamps = [thr[t].stamps EXCEPT ![f] = baseline[f]]
              \/ /\ ~Reusable(f)
                 /\ thr'[t].tree = [thr[t].tree EXCEPT ![f] = disk[f]]
                 /\ thr'[t].stamps = [thr[t].stamps EXCEPT ![f] = Offered(t, f)]
<1>1. thr[t] \in Thread /\ thr \in [Threads -> Thread]
  BY DEF TypeOK, EngineTypeOK
<1>2. CASE Reusable(f)
  <2> DEFINE q == [thr[t] EXCEPT
          !.unread = thr[t].unread \ {f},
          !.tree = [thr[t].tree EXCEPT ![f] = baseline[f].content],
          !.stamps = [thr[t].stamps EXCEPT ![f] = baseline[f]]]
  <2>1. thr' = [thr EXCEPT ![t] = q] /\ thr[t].pc = "reading"
    BY <1>2 DEF ReadFile
  <2>2. /\ q.pc = thr[t].pc /\ q.why = thr[t].why /\ q.gen = thr[t].gen
        /\ q.unread = thr[t].unread \ {f} /\ q.racyAfter = thr[t].racyAfter
        /\ q.tree = [thr[t].tree EXCEPT ![f] = baseline[f].content]
        /\ q.stamps = [thr[t].stamps EXCEPT ![f] = baseline[f]]
    BY <1>1 DEF Thread
  <2> HIDE DEF q
  <2> QED
    BY <1>1, <1>2, <2>1, <2>2 DEF Only
<1>3. CASE ~Reusable(f)
  <2> DEFINE q == [thr[t] EXCEPT
          !.unread = thr[t].unread \ {f},
          !.tree = [thr[t].tree EXCEPT ![f] = disk[f]],
          !.new = thr[t].new \cup {disk[f]},
          !.stamps = [thr[t].stamps EXCEPT ![f] = Offered(t, f)]]
  <2>1. thr' = [thr EXCEPT ![t] = q] /\ thr[t].pc = "reading"
    BY <1>3 DEF ReadFile
  <2> HIDE DEF Offered
  <2>2. /\ q.pc = thr[t].pc /\ q.why = thr[t].why /\ q.gen = thr[t].gen
        /\ q.unread = thr[t].unread \ {f} /\ q.racyAfter = thr[t].racyAfter
        /\ q.tree = [thr[t].tree EXCEPT ![f] = disk[f]]
        /\ q.stamps = [thr[t].stamps EXCEPT ![f] = Offered(t, f)]
    BY <1>1 DEF Thread
  <2> HIDE DEF q
  <2> QED
    BY <1>1, <1>3, <2>1, <2>2 DEF Only
<1> QED
  BY <1>2, <1>3

\* The ways a thread's attempt ends.
LEMMA EndEffects ==
    ASSUME TypeOK, NEW t \in Threads,
           \/ Receipt(t) \/ ReceiptFails(t)
           \/ Refused(t) \/ RequestFails(t) \/ LocalStateFails(t) \/ AnswerLost(t)
    PROVE  Leaves(t) /\ Release(t) /\ thr[t].pc # "idle" /\ UNCHANGED <<past, disk, stamp, now, phase>>
<1>1. Leaves(t)
  BY MoveEffects DEF Refused, RequestFails, LocalStateFails, AnswerLost
<1>2. Release(t) /\ thr[t].pc # "idle"
  BY DEF Receipt, ReceiptFails, Refused, RequestFails, LocalStateFails, AnswerLost, Abandon
<1>3. UNCHANGED <<past, disk, stamp, now, phase>>
  BY DEF Receipt, ReceiptFails, Refused, RequestFails, LocalStateFails, AnswerLost, Abandon, gateway
<1> QED
  BY <1>1, <1>2, <1>3

------------------------------------------------------------------------------
\* The racy window: an entry with a file's stamp has the file's content.

Sound(e, s, d, n) == e # None => e.stamp < n /\ (s = e.stamp => d = e.content)

ClockInv ==
    /\ \A f \in Files : Sound(baseline[f], stamp[f], disk[f], now)
    /\ \A t \in Threads, f \in Files : Sound(thr[t].stamps[f], stamp[f], disk[f], now)
    /\ \A t \in Threads : thr[t].pc = "reading" => thr[t].racyAfter <= now

\* A file's stamp moves to the present whenever its content does.
StampsMove ==
    /\ now' >= now
    /\ \A f \in Files : stamp'[f] = now \/ (stamp'[f] = stamp[f] /\ disk'[f] = disk[f])

LEMMA SoundKept ==
    ASSUME TypeOK, TypeOK', StampsMove, NEW f \in Files, NEW e \in Entries \cup {None},
           Sound(e, stamp[f], disk[f], now)
    PROVE  Sound(e, stamp'[f], disk'[f], now')
<1> USE EngineAssumption
<1>1. now \in Int /\ now' \in Int
  BY DEF TypeOK, GatewayTypeOK
<1>2. e # None => e.stamp \in Int
  BY DEF Entries
<1> QED
  BY <1>1, <1>2 DEF Sound, StampsMove

LEMMA ClockKept ==
    ASSUME TypeOK, TypeOK', ClockInv, StampsMove,
           \A f \in Files : \/ baseline'[f] = baseline[f]
                            \/ \E t \in Threads : baseline'[f] = thr[t].stamps[f],
           \A t \in Threads, f \in Files :
              \/ thr'[t].stamps[f] \in {None, thr[t].stamps[f]}
              \/ Sound(thr'[t].stamps[f], stamp[f], disk[f], now),
           \A t \in Threads : thr'[t].pc = "reading" => thr'[t].racyAfter <= now'
    PROVE  ClockInv'
<1>1. ASSUME NEW f \in Files PROVE Sound(baseline'[f], stamp'[f], disk'[f], now')
  <2>1. baseline'[f] \in Entries \cup {None}
    BY DEF TypeOK, StoreTypeOK
  <2>2. Sound(baseline'[f], stamp[f], disk[f], now)
    BY DEF ClockInv
  <2> QED
    BY <2>1, <2>2, SoundKept
<1>2. ASSUME NEW t \in Threads, NEW f \in Files
      PROVE  Sound(thr'[t].stamps[f], stamp'[f], disk'[f], now')
  <2>1. thr'[t].stamps[f] \in Entries \cup {None}
    BY DEF TypeOK, EngineTypeOK, Thread
  <2>2. Sound(thr'[t].stamps[f], stamp[f], disk[f], now)
    BY DEF ClockInv, Sound
  <2> QED
    BY <2>1, <2>2, SoundKept
<1> QED
  BY <1>1, <1>2 DEF ClockInv

\* Steps of the gateway, the loop and the uploads.
LEMMA ClockQuiet ==
    ASSUME TypeOK, TypeOK', ClockInv,
           \/ GatewayStep \/ PeriodicWake \/ FingerprintFails \/ Shutdown
           \/ \E t \in Threads : UploadChunk(t)
    PROVE  ClockInv'
<1> USE EngineAssumption
<1>0. now \in Int /\ stamp \in [Files -> 0 .. MaxTime] /\ disk \in [Files -> Contents]
  BY DEF TypeOK, GatewayTypeOK, Trees
<1>1. UNCHANGED <<thr, baseline>>
  BY DEF GatewayStep, Write, GatewayDies, GatewayStart, GatewayReady, GatewayStartFails, Tick,
     PeriodicWake, FingerprintFails, Shutdown, UploadChunk, engine, store
<1>2. StampsMove
  <2>1. ASSUME NEW f \in Files, Write(f) PROVE StampsMove
    BY <1>0, <2>1 DEF Write, StampsMove
  <2>2. CASE Tick
    BY <1>0, <2>2 DEF Tick, StampsMove
  <2>3. CASE UNCHANGED <<disk, stamp, now>>
    BY <1>0, <2>3 DEF StampsMove
  <2> QED
    BY <2>1, <2>2, <2>3 DEF GatewayStep, GatewayDies, GatewayStart, GatewayReady,
       GatewayStartFails, PeriodicWake, FingerprintFails, Shutdown, UploadChunk, gateway
<1>3. \A t \in Threads : thr'[t].pc = "reading" => thr'[t].racyAfter <= now'
  <2>1. \A t \in Threads : thr[t].racyAfter \in Int
    BY DEF TypeOK, EngineTypeOK, Thread
  <2>2. now' \in Int
    BY DEF TypeOK, GatewayTypeOK
  <2> QED
    BY <1>0, <1>1, <1>2, <2>1, <2>2 DEF ClockInv, StampsMove
<1> QED
  BY <1>1, <1>2, <1>3, ClockKept

\* Steps of one thread while the files stay as they are.
LEMMA ClockThread ==
    ASSUME TypeOK, TypeOK', ClockInv, NEW t \in Threads, Only(t),
           UNCHANGED <<disk, stamp, now>>,
           baseline' = baseline \/ baseline' = thr[t].stamps,
           \A f \in Files :
              \/ thr'[t].stamps[f] \in {None, thr[t].stamps[f]}
              \/ Sound(thr'[t].stamps[f], stamp[f], disk[f], now),
           thr'[t].pc = "reading" => thr'[t].racyAfter <= now
    PROVE  ClockInv'
<1>1. StampsMove
  BY EngineAssumption DEF StampsMove, TypeOK, GatewayTypeOK
<1>2. \A d \in Threads, f \in Files :
         \/ thr'[d].stamps[f] \in {None, thr[d].stamps[f]}
         \/ Sound(thr'[d].stamps[f], stamp[f], disk[f], now)
  BY DEF Only
<1>3. \A d \in Threads : thr'[d].pc = "reading" => thr'[d].racyAfter <= now'
  BY DEF Only, ClockInv
<1>4. \A f \in Files : \/ baseline'[f] = baseline[f]
                       \/ \E d \in Threads : baseline'[f] = thr[d].stamps[f]
  OBVIOUS
<1> QED
  BY <1>1, <1>2, <1>3, <1>4, ClockKept

LEMMA ClockStep == ASSUME TypeOK, TypeOK', ClockInv, Next PROVE ClockInv'
<1> USE EngineAssumption
<1>1. ASSUME NEW t \in Threads, NEW why \in Callers, Begin(t, why) PROVE ClockInv'
  <2>1. UNCHANGED <<disk, stamp, now, baseline>>
    BY <1>1 DEF Begin, gateway, store
  <2> QED
    BY <1>1, <2>1, BeginEffects, ClockThread
<1>2. ASSUME NEW t \in Threads, Pause(t) \/ Built(t) \/ UploadManifest(t) \/ Commit(t)
      PROVE  ClockInv'
  <2>1. UNCHANGED <<disk, stamp, now>> /\ (baseline' = baseline \/ baseline' = thr[t].stamps)
    BY <1>2 DEF Pause, Built, UploadManifest, Commit, gateway, store
  <2> QED
    BY <1>2, <2>1, MoveEffects, ClockThread DEF Moves
<1>3. ASSUME NEW t \in Threads,
             \/ Receipt(t) \/ ReceiptFails(t)
             \/ Refused(t) \/ RequestFails(t) \/ LocalStateFails(t) \/ AnswerLost(t)
      PROVE  ClockInv'
  <2>1. baseline' = baseline \/ baseline' = thr[t].stamps
    BY <1>3 DEF Receipt, ReceiptFails, Refused, RequestFails, LocalStateFails, AnswerLost, store
  <2>2. Leaves(t) /\ UNCHANGED <<disk, stamp, now>>
    BY <1>3, EndEffects
  <2>3. Idle.pc = "idle" /\ \A f \in Files : Idle.stamps[f] = None
    BY DEF Idle
  <2> QED
    BY <2>1, <2>2, <2>3, ClockThread DEF Leaves
<1>4. ASSUME NEW t \in Threads, Flush(t) PROVE ClockInv'
  <2>0. now \in Int /\ now' = now /\ baseline' = baseline
    BY <1>4 DEF Flush, store, TypeOK, GatewayTypeOK
  <2>1. /\ Only(t) /\ thr'[t].racyAfter = now - RacyWindow /\ thr'[t].stamps = thr[t].stamps
    BY <1>4, FlushEffects
  <2>2. StampsMove
    BY <1>4, <2>0 DEF Flush, StampsMove, TypeOK, GatewayTypeOK
  <2>3. \A d \in Threads : thr'[d].pc = "reading" => thr'[d].racyAfter <= now'
    BY <2>0, <2>1 DEF Only, ClockInv
  <2>4. \A d \in Threads, f \in Files : thr'[d].stamps[f] \in {None, thr[d].stamps[f]}
    BY <2>1 DEF Only
  <2> QED
    BY <2>0, <2>2, <2>3, <2>4, ClockKept
<1>5. ASSUME NEW t \in Threads, NEW f \in Files, ReadFile(t, f) PROVE ClockInv'
  <2>0. UNCHANGED <<disk, stamp, now, baseline>> /\ thr[t].pc = "reading"
    BY <1>5 DEF ReadFile, gateway, store
  <2>1. PICK e : /\ thr'[t].stamps = [thr[t].stamps EXCEPT ![f] = e]
                 /\ Sound(e, stamp[f], disk[f], now)
    <3>1. Sound(baseline[f], stamp[f], disk[f], now)
      BY DEF ClockInv
    <3>2. Sound(Offered(t, f), stamp[f], disk[f], now)
      <4>1. thr[t].racyAfter <= now /\ thr[t].racyAfter \in Int /\ now \in Int /\ stamp[f] \in Int
        BY <2>0 DEF ClockInv, TypeOK, EngineTypeOK, GatewayTypeOK, Thread
      <4> QED
        BY <4>1 DEF Sound, Offered
    <3> QED
      BY <1>5, <3>1, <3>2, ReadEffects
  <2>2. thr[t].stamps \in [Files -> Entries \cup {None}]
    BY DEF TypeOK, EngineTypeOK, Thread
  <2>3. \A g \in Files : \/ thr'[t].stamps[g] \in {None, thr[t].stamps[g]}
                         \/ Sound(thr'[t].stamps[g], stamp[g], disk[g], now)
    BY <2>1, <2>2
  <2>4. Only(t) /\ thr'[t].racyAfter = thr[t].racyAfter
    BY <1>5, ReadEffects
  <2>5. thr'[t].racyAfter <= now
    BY <2>0, <2>4 DEF ClockInv
  <2> QED
    BY <2>0, <2>3, <2>4, <2>5, ClockThread
<1> QED
  BY <1>1, <1>2, <1>3, <1>4, <1>5, ClockQuiet DEF Next, ThreadStep

LEMMA ClockInit == Init => ClockInv
<1>1. Idle.pc = "idle" /\ \A f \in Files : Idle.stamps[f] = None
  BY DEF Idle
<1> QED
  BY <1>1 DEF Init, ClockInv, Sound

------------------------------------------------------------------------------
\* Generation numbers.  Every caller but the loop keeps the lock to the end of
\* its attempt, and whoever has the lock has the largest number.

Active(t) == thr[t].pc # "idle"

Drafted == {"commit", "receipt"}

Numbered(t) ==
    Active(t) =>
        /\ thr[t].why # "periodic" => lock = t
        /\ thr[t].gen \in 1 .. MaxGen
        /\ manifests[thr[t].gen - 1] # None
        /\ lock = t => \A u \in Threads : Active(u) => thr[u].gen <= thr[t].gen
        /\ thr[t].pc \in Drafted => manifests[thr[t].gen] = thr[t].tree

OrderInv == 0 \in commits /\ \A t \in Threads : Numbered(t)

LEMMA NextGenerationIsNew ==
    ASSUME IInv, 0 \in commits
    PROVE  /\ NextGeneration - 1 \in Gens /\ manifests[NextGeneration - 1] # None
           /\ \A g \in Gens : manifests[g] # None => g < NextGeneration
<1> DEFINE taken == commits \cup {g \in Gens : manifests[g] # None}
           top == CHOOSE g \in taken : \A h \in taken : h <= g
<1>1. taken \subseteq 0 .. MaxGen /\ taken # {} /\ MaxGen \in Nat
  BY EngineAssumption DEF IInv, TypeOK, StoreTypeOK, Gens
<1>2. \E g \in taken : \A h \in taken : h <= g
  <2> HIDE DEF taken
  <2> QED
    BY <1>1, Largest
<1>3. top \in taken /\ \A h \in taken : h <= top
  BY <1>2
<1>4. NextGeneration = 1 + top
  BY DEF NextGeneration
<1>5. top \in Int /\ top \in Gens /\ manifests[top] # None
  BY <1>1, <1>3 DEF IInv, CommitsHaveManifests, Gens
<1>6. \A g \in Gens : manifests[g] # None => g \in taken /\ g \in Int
  BY DEF Gens
<1> HIDE DEF taken, top
<1>7. 1 + top - 1 = top /\ \A h \in taken : h \in Int => h < 1 + top
  BY <1>3, <1>5
<1> QED
  BY <1>3, <1>4, <1>5, <1>6, <1>7

\* Steps with which nobody takes the lock.
LEMMA OrderKept ==
    ASSUME IInv, OrderInv, commits \subseteq commits',
           \A u \in Threads : thr'[u].pc # "idle" =>
              Active(u) /\ thr'[u].gen = thr[u].gen /\ thr'[u].why = thr[u].why,
           \A u \in Threads : lock' = u => lock = u,
           \A u \in Threads : lock = u /\ thr'[u].pc # "idle" /\ thr'[u].why # "periodic" => lock' = u,
           \A g \in Gens : manifests[g] # None => manifests'[g] = manifests[g],
           \A u \in Threads : thr'[u].pc \in Drafted =>
              /\ thr'[u].tree = thr[u].tree
              /\ thr[u].pc \in Drafted \/ manifests'[thr[u].gen] = thr[u].tree
    PROVE  OrderInv'
<1> SUFFICES ASSUME NEW t \in Threads, Active(t)' PROVE Numbered(t)'
  BY DEF OrderInv, Numbered
<1>1. Active(t) /\ Numbered(t) /\ thr'[t].gen = thr[t].gen /\ thr'[t].why = thr[t].why
  BY DEF OrderInv, Active
<1>2. thr[t].gen \in 1 .. MaxGen /\ thr[t].gen \in Gens /\ thr[t].gen - 1 \in Gens
  BY <1>1, EngineAssumption DEF Numbered, Gens
<1>3. manifests'[thr'[t].gen - 1] # None
  BY <1>1, <1>2 DEF Numbered
<1>4. ASSUME lock' = t, NEW u \in Threads, thr'[u].pc # "idle" PROVE thr'[u].gen <= thr'[t].gen
  BY <1>1, <1>4 DEF Numbered
<1>5. ASSUME thr'[t].pc \in Drafted PROVE manifests'[thr'[t].gen] = thr'[t].tree
  <2>1. \/ manifests[thr[t].gen] # None /\ manifests[thr[t].gen] = thr[t].tree
        \/ manifests'[thr[t].gen] = thr[t].tree
    BY <1>1, <1>5 DEF Numbered, IInv, BuildCovered, Drafted
  <2> QED
    BY <1>1, <1>2, <1>5, <2>1
<1>6. thr'[t].why # "periodic" => lock' = t
  BY <1>1 DEF Numbered, Active
<1> QED
  BY <1>1, <1>2, <1>3, <1>4, <1>5, <1>6 DEF Numbered, Active

LEMMA OrderStep == ASSUME IInv, OrderInv, Next PROVE OrderInv'
<1> USE EngineAssumption DEF Active, Drafted
<1>0. TypeOK /\ manifests \in [Gens -> Trees \cup {None}]
  BY DEF IInv, TypeOK, StoreTypeOK
<1>1. CASE \/ GatewayStep \/ PeriodicWake \/ FingerprintFails \/ Shutdown
           \/ \E t \in Threads : UploadChunk(t)
  <2>1. UNCHANGED <<thr, manifests, commits>>
    BY <1>1 DEF GatewayStep, Write, GatewayDies, GatewayStart, GatewayReady, GatewayStartFails,
       Tick, PeriodicWake, FingerprintFails, Shutdown, UploadChunk, engine, store
  <2>2. lock' = lock \/ (lock' = None /\ lock # None /\ thr[lock].why = "periodic")
    BY <1>1 DEF GatewayStep, Write, GatewayDies, GatewayStart, GatewayReady, GatewayStartFails,
       Tick, PeriodicWake, FingerprintFails, Shutdown, UploadChunk, engine
  <2> QED
    BY <2>1, <2>2, OrderKept
<1>2. ASSUME NEW t \in Threads, NEW why \in Callers, Begin(t, why) PROVE OrderInv'
  <2>1. /\ Only(t) /\ lock = None /\ lock' = t
        /\ thr'[t].pc = "begun" /\ thr'[t].why = why /\ thr'[t].gen = NextGeneration
    BY <1>0, <1>2, BeginEffects
  <2>2. UNCHANGED <<manifests, commits>> /\ NextGeneration \in Gens
    BY <1>2 DEF Begin, store
  <2> HIDE DEF NextGeneration
  <2>3. /\ NextGeneration - 1 \in Gens /\ manifests[NextGeneration - 1] # None
        /\ \A g \in Gens : manifests[g] # None => g < NextGeneration
    BY NextGenerationIsNew DEF OrderInv
  <2>4. NextGeneration \in 1 .. MaxGen
    BY <2>2, <2>3 DEF Gens
  <2>5. ASSUME NEW u \in Threads, thr'[u].pc # "idle" PROVE thr'[u].gen <= NextGeneration
    <3>1. CASE u = t
      BY <2>1, <2>4, <3>1
    <3>2. CASE u # t
      <4>1. Numbered(u) /\ thr'[u] = thr[u]
        BY <2>1, <3>2 DEF OrderInv, Only
      <4>2. thr[u].gen \in 1 .. MaxGen /\ thr[u].gen - 1 \in Gens /\ manifests[thr[u].gen - 1] # None
        BY <2>5, <4>1 DEF Numbered, Gens
      <4>3. thr[u].gen - 1 < NextGeneration
        BY <2>3, <4>2
      <4> QED
        BY <2>4, <4>1, <4>2, <4>3
    <3> QED
      BY <3>1, <3>2
  <2>6. ASSUME NEW u \in Threads PROVE Numbered(u)'
    <3>1. CASE u = t
      BY <2>1, <2>2, <2>3, <2>4, <2>5, <3>1 DEF Numbered
    <3>2. CASE u # t
      <4>1. Numbered(u) /\ thr'[u] = thr[u]
        BY <2>1, <3>2 DEF OrderInv, Only
      <4> QED
        BY <2>1, <2>2, <3>2, <4>1 DEF Numbered
    <3> QED
      BY <3>1, <3>2
  <2> QED
    BY <2>2, <2>6 DEF OrderInv
<1>3. ASSUME NEW t \in Threads, Pause(t) \/ Built(t) PROVE OrderInv'
  <2>1. UNCHANGED <<manifests, commits, lock>> /\ thr[t].pc # "idle"
    BY <1>3 DEF Pause, Built, store
  <2>2. Only(t) /\ thr'[t].pc \in {"paused", "upload"} /\ thr'[t].gen = thr[t].gen /\ thr'[t].why = thr[t].why
    BY <1>0, <1>3, MoveEffects DEF Moves
  <2> QED
    BY <2>1, <2>2, OrderKept DEF Only
<1>4. ASSUME NEW t \in Threads, UploadManifest(t) PROVE OrderInv'
  <2>1. /\ UNCHANGED <<commits, lock>> /\ thr[t].pc # "idle" /\ manifests[thr[t].gen] = None
        /\ manifests' = [manifests EXCEPT ![thr[t].gen] = thr[t].tree]
    BY <1>4 DEF UploadManifest
  <2>2. Moves(t, "commit") /\ thr[t].gen \in Gens
    BY <1>0, <1>4, MoveEffects DEF TypeOK, EngineTypeOK, Thread
  <2>3. /\ \A g \in Gens : manifests[g] # None => manifests'[g] = manifests[g]
        /\ manifests'[thr[t].gen] = thr[t].tree
    BY <1>0, <2>1, <2>2
  <2> QED
    BY <2>1, <2>2, <2>3, OrderKept DEF Moves, Only
<1>5. ASSUME NEW t \in Threads, Commit(t) PROVE OrderInv'
  <2>1. UNCHANGED <<manifests, lock>> /\ commits \subseteq commits' /\ thr[t].pc = "commit"
    BY <1>5 DEF Commit
  <2>2. Moves(t, "receipt")
    BY <1>0, <1>5, MoveEffects
  <2> QED
    BY <2>1, <2>2, OrderKept DEF Moves, Only
<1>6. ASSUME NEW t \in Threads, Flush(t) \/ \E f \in Files : ReadFile(t, f) PROVE OrderInv'
  <2>1. UNCHANGED <<manifests, commits, lock>> /\ thr[t].pc # "idle"
    BY <1>6 DEF Flush, ReadFile, store
  <2>2. Only(t) /\ thr'[t].pc = "reading" /\ thr'[t].gen = thr[t].gen /\ thr'[t].why = thr[t].why
    BY <1>0, <1>6, FlushEffects, ReadEffects
  <2> QED
    BY <2>1, <2>2, OrderKept DEF Only
<1>7. ASSUME NEW t \in Threads,
             \/ Receipt(t) \/ ReceiptFails(t)
             \/ Refused(t) \/ RequestFails(t) \/ LocalStateFails(t) \/ AnswerLost(t)
      PROVE  OrderInv'
  <2>1. Leaves(t) /\ Release(t) /\ Idle.pc = "idle"
    BY <1>0, <1>7, EndEffects DEF Idle
  <2>2. thr[t].gen \in Gens
    BY <1>0 DEF TypeOK, EngineTypeOK, Thread
  <2>3. /\ commits \subseteq commits'
        /\ \/ manifests' = manifests
           \/ /\ manifests[thr[t].gen] = None
              /\ manifests' = [manifests EXCEPT ![thr[t].gen] = thr[t].tree]
    BY <1>7 DEF Receipt, ReceiptFails, Refused, RequestFails, LocalStateFails, AnswerLost, store
  <2>4. \A g \in Gens : manifests[g] # None => manifests'[g] = manifests[g]
    BY <1>0, <2>2, <2>3
  <2>5. lock' = IF lock = t THEN None ELSE lock
    BY <2>1 DEF Release
  <2> QED
    BY <2>1, <2>3, <2>4, <2>5, OrderKept DEF Leaves, Only
<1> QED
  BY <1>1, <1>2, <1>3, <1>4, <1>5, <1>6, <1>7 DEF Next, ThreadStep

LEMMA OrderInit == Init => OrderInv
BY DEF Init, OrderInv, Numbered, Active, Idle

------------------------------------------------------------------------------
\* The gateway's files and the newest generation.

LEMMA LiveSteps ==
    ASSUME TypeOK
    PROVE  /\ \A x \in Trees : past' = Append(past, x) => Live' = x /\ Len(past') = Len(past) + 1
           /\ past' = past => Live' = Live
           /\ GatewayStart => Live' = disk
           /\ Live \in Trees /\ disk \in Trees /\ Len(past) \in Nat
<1>1. past \in Seq(Trees) /\ past # <<>> /\ disk \in Trees
  BY DEF TypeOK, GatewayTypeOK
<1>2. \A x \in Trees : past' = Append(past, x) => Live' = x /\ Len(past') = Len(past) + 1
  BY <1>1 DEF Live
<1>3. past' = past => Live' = Live
  BY DEF Live
<1>4. GatewayStart => Live' = disk
  BY <1>1, <1>2, <1>3 DEF GatewayStart
<1> QED
  BY <1>1, <1>2, <1>3, <1>4, LiveTyped DEF TypeOK

LEMMA WriteEffects ==
    ASSUME TypeOK, NEW f \in Files, Write(f)
    PROVE  /\ ~stopped /\ ~stopped'
           /\ Live' = [Live EXCEPT ![f] = Len(past)] /\ Len(past') = Len(past) + 1
           /\ IF f \in StagedFiles THEN disk' = disk ELSE disk' = [disk EXCEPT ![f] = Len(past)]
<1>1. Live \in Trees /\ Len(past) \in Nat
  BY LiveSteps
<1>2. Len(past) \in Contents
  <2>1. Len(past) <= MaxWrites
    BY DEF Write
  <2> QED
    BY <1>1, <2>1, EngineAssumption DEF Contents
<1>3. [Live EXCEPT ![f] = Len(past)] \in Trees
  BY <1>1, <1>2 DEF Trees
<1>4. past' = Append(past, [Live EXCEPT ![f] = Len(past)])
  BY DEF Write
<1> QED
  BY <1>3, <1>4, LiveSteps DEF Write

Top(S) == CHOOSE m \in S : \A h \in S : h <= m

\* The largest number of a set is the one chosen for it.
LEMMA ChosenLargest ==
    ASSUME NEW S, S \subseteq Gens, NEW g \in S, \A h \in S : h <= g
    PROVE  Top(S) = g
<1>1. Top(S) \in S /\ \A h \in S : h <= Top(S)
  BY DEF Top
<1>2. g <= Top(S) /\ Top(S) <= g
  BY <1>1
<1>3. \A h \in S : h \in Int
  BY EngineAssumption DEF Gens
<1>4. g \in Int /\ Top(S) \in Int
  BY <1>1, <1>3
<1> QED
  BY <1>2, <1>4

LEMMA NewestIs ==
    ASSUME TypeOK, 0 \in commits
    PROVE  Newest \in commits /\ \A h \in commits : h <= Newest
<1>1. commits \subseteq 0 .. MaxGen /\ commits # {} /\ MaxGen \in Nat
  BY EngineAssumption DEF TypeOK, StoreTypeOK, Gens
<1>2. \E g \in commits : \A h \in commits : h <= g
  BY <1>1, Largest
<1> QED
  BY <1>2 DEF Newest

LEMMA NumbersTyped ==
    ASSUME TypeOK, 0 \in commits, NEW t \in Threads
    PROVE  thr[t].gen \in Int /\ Newest \in Int
<1>1. Gens \subseteq Int
  BY EngineAssumption DEF Gens
<1>2. thr[t].gen \in Gens
  BY DEF TypeOK, EngineTypeOK, Thread
<1>3. Newest \in Gens
  BY NewestIs DEF TypeOK, StoreTypeOK
<1> QED
  BY <1>1, <1>2, <1>3

\* What is saved stays saved while files and commits stay.
LEMMA SavedKept ==
    ASSUME IInv, 0 \in commits, Live' = Live, commits' = commits,
           \A g \in Gens : manifests[g] # None => manifests'[g] = manifests[g]
    PROVE  Newest' = Newest /\ (Saved => Saved')
<1>1. Newest' = Newest
  BY DEF Newest
<1>2. Newest \in commits
  BY NewestIs DEF IInv
<1>3. Newest \in Gens /\ manifests[Newest] # None
  BY <1>2 DEF IInv, TypeOK, StoreTypeOK, CommitsHaveManifests
<1>4. manifests'[Newest] = manifests[Newest]
  BY <1>3
<1> QED
  BY <1>1, <1>4 DEF Saved

\* The store grows by one commit above all others.
LEMMA NewestCommitted ==
    ASSUME TypeOK, 0 \in commits, NEW t \in Threads, Committable(t),
           commits' = commits \cup {thr[t].gen}
    PROVE  Newest' = thr[t].gen /\ Newest < thr[t].gen
<1>1. thr[t].gen \in Gens /\ commits \subseteq Gens
  BY DEF TypeOK, EngineTypeOK, StoreTypeOK, Thread
<1>2. \A h \in commits' : h <= thr[t].gen
  BY <1>1, EngineAssumption DEF Committable, Gens
<1>3. commits' \subseteq Gens /\ thr[t].gen \in commits'
  BY <1>1
<1>4. Newest' = Top(commits')
  BY DEF Newest, Top
<1>5. Top(commits') = thr[t].gen
  BY <1>2, <1>3, ChosenLargest
<1> QED
  BY <1>4, <1>5, NewestIs DEF Committable

------------------------------------------------------------------------------
\* The frozen gateway.  A final checkpoint reads a gateway that stays as it is
\* for as long as it stays frozen, unless another thread has frozen it too, and
\* that thread thaws it when it ends.

Homes == \A f \in Files \ StagedFiles : Live[f] = disk[f]

SameAs(t) == \A f \in Files \ thr[t].unread : thr[t].tree[f] = Live[f]

OnlyFinalPausing == \A u \in Threads : Pausing(u) => Final(u)

FrozenBuild ==
    stopped /\ OnlyFinalPausing =>
        \A t \in Threads : Final(t) /\ thr[t].pc \in {"reading", "upload", "commit"} =>
            SameAs(t) /\ (thr[t].pc = "reading" => disk = Live)

Frozen == stopped /\ \A t \in Threads : ~Pausing(t)

FrozenSaved ==
    Frozen => /\ Saved
              /\ \A u \in Threads : thr[u].pc \in {"upload", "commit"} => thr[u].gen <= Newest

FrozenInv == Homes /\ FrozenBuild /\ FrozenSaved

\* There is at most one final checkpoint.
LEMMA OneFinal ==
    ASSUME OrderInv, NEW t \in Threads, NEW u \in Threads, Final(t), Final(u), Active(t), Active(u)
    PROVE  t = u
BY DEF OrderInv, Numbered, Final

\* Once thawed, the gateway can be in any state.
LEMMA Thawed == ASSUME Homes', ~stopped' PROVE FrozenInv'
BY DEF FrozenInv, FrozenBuild, FrozenSaved, Frozen

\* Steps that neither write nor freeze nor thaw.
LEMMA FrozenQuiet ==
    ASSUME IInv, 0 \in commits, FrozenInv, UNCHANGED <<past, disk, stopped, thr, manifests, commits>>
    PROVE  FrozenInv'
<1>1. Live' = Live
  BY LiveSteps DEF IInv
<1>2. Homes' /\ FrozenBuild'
  BY <1>1 DEF FrozenInv, Homes, FrozenBuild, OnlyFinalPausing, Pausing, Walking, Final, SameAs
<1>3. Newest' = Newest /\ (Saved => Saved')
  BY <1>1, SavedKept
<1>4. FrozenSaved'
  BY <1>3 DEF FrozenInv, FrozenSaved, Frozen, Pausing, Walking, Final
<1> QED
  BY <1>2, <1>4 DEF FrozenInv

LEMMA FrozenGateway == ASSUME IInv, 0 \in commits, FrozenInv, GatewayStep PROVE FrozenInv'
<1>0. TypeOK /\ Live \in Trees /\ disk \in Trees
  BY LiveSteps DEF IInv
<1>1. ASSUME NEW f \in Files, Write(f) PROVE FrozenInv'
  <2>1. Homes'
    BY <1>0, <1>1, WriteEffects DEF FrozenInv, Homes, Trees
  <2> QED
    BY <1>0, <1>1, <2>1, WriteEffects, Thawed
<1>2. CASE GatewayStart
  <2>1. Live' = disk /\ disk' = disk /\ ~stopped'
    BY <1>0, <1>2, LiveSteps DEF GatewayStart
  <2> QED
    BY <2>1, Thawed DEF Homes
<1>3. CASE GatewayDies \/ GatewayStartFails
  <2>1. past' = past /\ disk' = disk /\ ~stopped'
    BY <1>3 DEF GatewayDies, GatewayStartFails
  <2>2. Live' = Live
    BY <1>0, <2>1, LiveSteps
  <2> QED
    BY <2>1, <2>2, Thawed DEF FrozenInv, Homes
<1>4. CASE GatewayReady \/ Tick
  BY <1>4, FrozenQuiet DEF GatewayReady, Tick, engine, store
<1> QED
  BY <1>1, <1>2, <1>3, <1>4 DEF GatewayStep

\* The start of an attempt, up to the walk.
LEMMA FrozenEarly ==
    ASSUME IInv, OrderInv, FrozenInv, NEW t \in Threads,
           (\E why \in Callers : Begin(t, why)) \/ Pause(t)
    PROVE  FrozenInv'
<1>0. TypeOK
  BY DEF IInv
<1>1. UNCHANGED <<past, disk, manifests, commits>> /\ (stopped' = stopped \/ Pause(t))
  BY DEF Begin, Pause, gateway, store
<1>2. Live' = Live /\ Newest' = Newest /\ (Saved => Saved')
  BY <1>0, <1>1, LiveSteps, SavedKept DEF OrderInv
<1>3. /\ Only(t) /\ thr'[t].pc \in {"begun", "paused"}
      /\ Pause(t) => thr'[t].pc = "paused" /\ thr'[t].why = thr[t].why /\ thr[t].pc = "begun"
      /\ ~Pause(t) => thr'[t].pc = "begun" /\ thr[t].pc = "idle"
  BY <1>0, BeginEffects, MoveEffects DEF Moves, Pause, Begin
<1>4. Homes'
  BY <1>1, <1>2 DEF FrozenInv, Homes
<1>5. FrozenSaved'
  <2>1. CASE Pause(t)
    BY <1>3, <2>1 DEF FrozenSaved, Frozen, Pausing, Walking
  <2>2. CASE ~Pause(t)
    <3>1. Frozen' => Frozen
      BY <1>1, <1>3, <2>2 DEF Frozen, Pausing, Walking, Final, Only
    <3> QED
      BY <1>2, <1>3, <3>1 DEF FrozenInv, FrozenSaved, Only
  <2> QED
    BY <2>1, <2>2
<1>6. FrozenBuild'
  <2> SUFFICES ASSUME stopped', OnlyFinalPausing', NEW u \in Threads, Final(u)',
                      thr'[u].pc \in {"reading", "upload", "commit"}
               PROVE  SameAs(u)' /\ (thr'[u].pc = "reading" => disk' = Live')
    BY DEF FrozenBuild
  <2>1. u # t /\ thr'[u] = thr[u]
    BY <1>3 DEF Only
  <2>2. Final(u) /\ Active(u)
    BY <2>1 DEF Final, Active
  <2>3. ~Pause(t)
    <3> SUFFICES ASSUME Pause(t) PROVE FALSE
      OBVIOUS
    <3>1. Final(t)' /\ Active(t)
      BY <1>3 DEF OnlyFinalPausing, Pausing, Walking, Active
    <3>2. Final(t)
      BY <1>3, <3>1 DEF Final
    <3> QED
      BY <2>1, <2>2, <3>1, <3>2, OneFinal
  <2>4. stopped /\ OnlyFinalPausing
    BY <1>1, <1>3, <2>3 DEF OnlyFinalPausing, Pausing, Walking, Final, Only
  <2> QED
    BY <1>1, <1>2, <2>1, <2>2, <2>4 DEF FrozenInv, FrozenBuild, SameAs
<1> QED
  BY <1>4, <1>5, <1>6 DEF FrozenInv

\* The walk over the files, and the end of the build.
LEMMA FrozenWalk ==
    ASSUME IInv, ClockInv, OrderInv, FrozenInv, NEW t \in Threads,
           Flush(t) \/ (\E f \in Files : ReadFile(t, f)) \/ Built(t)
    PROVE  FrozenInv'
<1>0. TypeOK /\ Live \in Trees /\ disk \in Trees /\ Active(t)
  BY LiveSteps DEF IInv, Active, Flush, ReadFile, Built
<1>1. Live' = Live
  BY <1>0, LiveSteps DEF Flush, ReadFile, Built, gateway
<1>2. Homes'
  BY <1>0, <1>1 DEF FrozenInv, Homes, Flush, ReadFile, Built, gateway, Trees
<1>3. CASE Built(t) /\ ~Final(t)
  BY <1>2, <1>3, Thawed DEF Built
<1>4. CASE ~Built(t) \/ Final(t)
  <2>1. /\ Only(t) /\ thr'[t].why = thr[t].why /\ thr[t].pc \in {"paused", "reading"}
        /\ \/ thr'[t].pc = "reading"
           \/ thr'[t].pc = "upload" /\ Built(t) /\ Final(t)
    BY <1>0, <1>4, FlushEffects, ReadEffects, MoveEffects DEF Moves, Flush, ReadFile, Built
  <2>2. stopped' => stopped
    BY DEF Flush, ReadFile, Built, gateway
  <2>3. Pausing(t) /\ Pausing(t)' /\ (Final(t)' <=> Final(t))
    BY <2>1 DEF Pausing, Walking, Final
  <2>4. FrozenSaved'
    BY <2>3 DEF FrozenSaved, Frozen
  <2>5. FrozenBuild'
    <3> SUFFICES ASSUME stopped', OnlyFinalPausing', NEW u \in Threads, Final(u)',
                        thr'[u].pc \in {"reading", "upload", "commit"}
                 PROVE  SameAs(u)' /\ (thr'[u].pc = "reading" => disk' = Live')
      BY DEF FrozenBuild
    <3>1. Final(t) /\ OnlyFinalPausing
      BY <2>1, <2>3 DEF OnlyFinalPausing, Pausing, Walking, Final, Only
    <3>2. u = t
      <4> SUFFICES ASSUME u # t PROVE FALSE
        OBVIOUS
      <4>1. Final(u) /\ Active(u)
        BY <2>1 DEF Only, Final, Active
      <4> QED
        BY <1>0, <3>1, <4>1, OneFinal
    <3>3. thr[t].pc = "reading" => SameAs(t) /\ disk = Live
      BY <2>2, <3>1 DEF FrozenInv, FrozenBuild
    <3>4. CASE Flush(t)
      <4>1. \A f \in Files : disk'[f] = Live[f]
        BY <3>4 DEF Flush, FrozenInv, Homes
      <4>2. disk' = Live
        BY <1>0, <3>4, <4>1 DEF Flush, Trees
      <4>3. thr'[t].unread = Files
        BY <1>0, <3>4, FlushEffects
      <4> QED
        BY <1>1, <3>2, <4>2, <4>3 DEF SameAs
    <3>5. ASSUME NEW f \in Files, ReadFile(t, f)
          PROVE  SameAs(t)' /\ disk' = Live'
      <4>1. UNCHANGED <<disk>> /\ thr[t].pc = "reading" /\ thr[t].tree \in Trees
        BY <1>0, <3>5 DEF ReadFile, gateway, TypeOK, EngineTypeOK, Thread
      <4>2. Reusable(f) => baseline[f].content = disk[f]
        BY DEF ClockInv, Sound, Reusable
      <4>3. thr'[t].unread = thr[t].unread \ {f} /\ thr'[t].tree = [thr[t].tree EXCEPT ![f] = disk[f]]
        BY <1>0, <3>5, <4>2, ReadEffects, ZenonT(60)
      <4> QED
        BY <1>1, <3>3, <4>1, <4>3 DEF SameAs, Trees
    <3>6. CASE Built(t)
      BY <1>0, <1>1, <3>2, <3>3, <3>6, MoveEffects DEF Built, Moves, SameAs
    <3> QED
      BY <3>2, <3>4, <3>5, <3>6
  <2> QED
    BY <1>2, <2>4, <2>5 DEF FrozenInv
<1> QED
  BY <1>3, <1>4

\* The manifest is put.
LEMMA FrozenManifest ==
    ASSUME IInv, OrderInv, FrozenInv, NEW t \in Threads, UploadManifest(t)
    PROVE  FrozenInv'
<1>0. TypeOK /\ thr[t].pc = "upload" /\ UNCHANGED <<past, disk, stopped, commits>>
  BY DEF IInv, UploadManifest, gateway
<1>1. Moves(t, "commit")
  BY <1>0, MoveEffects
<1>2. thr[t].gen \in Gens /\ manifests \in [Gens -> Trees \cup {None}]
  BY <1>0 DEF TypeOK, EngineTypeOK, StoreTypeOK, Thread
<1>3. \A g \in Gens : manifests[g] # None => manifests'[g] = manifests[g]
  BY <1>2 DEF UploadManifest
<1>4. Live' = Live /\ Newest' = Newest /\ (Saved => Saved')
  BY <1>0, <1>3, LiveSteps, SavedKept DEF OrderInv
<1>5. \A u \in Threads : (Pausing(u)' <=> Pausing(u)) /\ (Final(u)' <=> Final(u))
  BY <1>0, <1>1 DEF Moves, Only, Pausing, Walking, Final
<1>6. \A u \in Threads : thr'[u].gen = thr[u].gen /\ (SameAs(u)' <=> SameAs(u))
  BY <1>1, <1>4 DEF Moves, Only, SameAs
<1>7. \A u \in Threads : thr'[u] = thr[u] \/ (thr'[u].pc = "commit" /\ thr[u].pc = "upload")
  BY <1>0, <1>1 DEF Moves, Only
<1>8. Homes' /\ FrozenBuild'
  BY <1>0, <1>4, <1>5, <1>6, <1>7 DEF FrozenInv, Homes, FrozenBuild, OnlyFinalPausing
<1>9. FrozenSaved'
  BY <1>0, <1>4, <1>5, <1>6, <1>7 DEF FrozenInv, FrozenSaved, Frozen
<1> QED
  BY <1>8, <1>9 DEF FrozenInv

\* A commit while the gateway is frozen is a final checkpoint's.
LEMMA FrozenCommit ==
    ASSUME IInv, OrderInv, FrozenInv, NEW t \in Threads, Commit(t)
    PROVE  FrozenInv'
<1>0. /\ TypeOK /\ thr[t].pc = "commit" /\ UNCHANGED <<past, disk, stopped, manifests>>
      /\ Committable(t) /\ commits' = commits \cup {thr[t].gen}
  BY DEF IInv, Commit, gateway
<1>1. Moves(t, "receipt")
  BY <1>0, MoveEffects DEF Commit
<1>2. Live' = Live /\ Live \in Trees
  BY <1>0, LiveSteps
<1>3. Newest' = thr[t].gen /\ Newest < thr[t].gen
  BY <1>0, NewestCommitted DEF OrderInv
<1>4. \A u \in Threads : (Final(u)' <=> Final(u)) /\ (u # t => thr'[u] = thr[u])
  BY <1>1 DEF Moves, Only, Final
<1>5. \A u \in Threads \ {t} : Pausing(u)' <=> Pausing(u)
  BY <1>4 DEF Pausing, Walking, Final
<1>6. Pausing(t) <=> Final(t)
  BY <1>0 DEF Pausing, Walking
<1>7. OnlyFinalPausing' => OnlyFinalPausing
  BY <1>4, <1>5, <1>6 DEF OnlyFinalPausing
<1>8. Homes'
  BY <1>0, <1>2 DEF FrozenInv, Homes
<1>9. FrozenBuild'
  <2>1. thr'[t].pc = "receipt"
    BY <1>1 DEF Moves
  <2> QED
    BY <1>0, <1>2, <1>4, <1>7, <2>1 DEF FrozenInv, FrozenBuild, SameAs
<1>10. FrozenSaved'
  <2> SUFFICES ASSUME Frozen'
               PROVE  /\ Saved'
                      /\ \A u \in Threads : thr'[u].pc \in {"upload", "commit"} => thr'[u].gen <= Newest'
    BY DEF FrozenSaved
  <2>1. stopped /\ \A u \in Threads \ {t} : ~Pausing(u)
    BY <1>0, <1>5 DEF Frozen
  <2>2. CASE ~Final(t)
    <3>1. Frozen
      BY <1>6, <2>1, <2>2 DEF Frozen
    <3>2. thr[t].gen <= Newest
      BY <1>0, <3>1 DEF FrozenInv, FrozenSaved
    <3>3. thr[t].gen \in Int /\ Newest \in Int
      BY <1>0, NumbersTyped DEF OrderInv
    <3> QED
      BY <1>3, <3>2, <3>3
  <2>3. CASE Final(t)
    <3>1. OnlyFinalPausing
      BY <2>1, <2>3 DEF OnlyFinalPausing
    <3>2. SameAs(t) /\ thr[t].unread = {}
      BY <1>0, <2>1, <2>3, <3>1 DEF FrozenInv, FrozenBuild, IInv, BuildCovered
    <3>3. thr[t].tree \in Trees
      BY <1>0 DEF TypeOK, EngineTypeOK, Thread
    <3>4. thr[t].tree = Live
      BY <1>2, <3>2, <3>3 DEF SameAs, Trees
    <3>5. /\ manifests[thr[t].gen] = thr[t].tree
          /\ \A u \in Threads : Active(u) => thr[u].gen <= thr[t].gen
      BY <1>0, <2>3 DEF OrderInv, Numbered, Active, Drafted, Final
    <3>6. Saved'
      BY <1>0, <1>2, <1>3, <3>4, <3>5 DEF Saved
    <3>7. \A u \in Threads : thr'[u].pc \in {"upload", "commit"} => thr'[u].gen <= Newest'
      BY <1>1, <1>3, <1>4, <3>5 DEF Moves, Active
    <3> QED
      BY <3>6, <3>7
  <2> QED
    BY <2>2, <2>3
<1> QED
  BY <1>8, <1>9, <1>10 DEF FrozenInv

\* The end of an attempt, that thaws what it has frozen.
LEMMA FrozenEnd ==
    ASSUME IInv, OrderInv, FrozenInv, NEW t \in Threads,
           \/ Receipt(t) \/ ReceiptFails(t)
           \/ Refused(t) \/ RequestFails(t) \/ LocalStateFails(t) \/ AnswerLost(t)
    PROVE  FrozenInv'
<1>0. TypeOK
  BY DEF IInv
<1>1. Leaves(t) /\ UNCHANGED <<past, disk>> /\ Idle.pc = "idle"
  BY <1>0, EndEffects DEF Idle
<1>2. Live' = Live
  BY <1>0, <1>1, LiveSteps
<1>3. Homes'
  BY <1>1, <1>2 DEF FrozenInv, Homes
<1>4. stopped' = (stopped /\ ~Pausing(t))
  <2>1. CASE Receipt(t) \/ ReceiptFails(t)
    <3>1. stopped' = stopped /\ thr[t].pc = "receipt" /\ stopped \in BOOLEAN
      BY <1>0, <2>1 DEF Receipt, ReceiptFails, gateway, TypeOK, GatewayTypeOK
    <3> QED
      BY <3>1 DEF Pausing, Walking
  <2>2. CASE Abandon(t)
    BY <2>2 DEF Abandon, Resumed
  <2> QED
    BY <2>1, <2>2 DEF Refused, RequestFails, LocalStateFails, AnswerLost
<1>5. CASE Pausing(t)
  BY <1>3, <1>4, <1>5, Thawed
<1>6. CASE ~Pausing(t)
  <2>1. ~Pausing(t)' /\ thr'[t].pc = "idle"
    BY <1>1 DEF Pausing, Walking, Leaves
  <2>2. \A u \in Threads \ {t} : thr'[u] = thr[u] /\ (Final(u)' <=> Final(u)) /\ (Pausing(u)' <=> Pausing(u))
    BY <1>1 DEF Leaves, Only, Final, Pausing, Walking
  <2>3. (stopped' => stopped) /\ (OnlyFinalPausing' => OnlyFinalPausing) /\ (Frozen' => Frozen)
    BY <1>4, <1>6, <2>2 DEF OnlyFinalPausing, Frozen
  <2>4. FrozenBuild'
    BY <1>1, <1>2, <2>1, <2>2, <2>3 DEF FrozenInv, FrozenBuild, SameAs
  <2>5. FrozenSaved'
    <3> SUFFICES ASSUME Frozen PROVE FrozenSaved'
      BY <2>3 DEF FrozenSaved
    <3>1. thr[t].gen \in Gens /\ manifests \in [Gens -> Trees \cup {None}]
      BY <1>0 DEF TypeOK, EngineTypeOK, StoreTypeOK, Thread
    <3>2. \/ manifests' = manifests
          \/ /\ manifests[thr[t].gen] = None
             /\ manifests' = [manifests EXCEPT ![thr[t].gen] = thr[t].tree]
      BY DEF Receipt, ReceiptFails, Refused, RequestFails, LocalStateFails, AnswerLost, store
    <3>3. \A g \in Gens : manifests[g] # None => manifests'[g] = manifests[g]
      BY <3>1, <3>2
    <3>4. \/ commits' = commits
          \/ thr[t].pc = "commit" /\ Committable(t) /\ commits' = commits \cup {thr[t].gen}
      BY DEF Receipt, ReceiptFails, Refused, RequestFails, LocalStateFails, AnswerLost, store
    <3>5. CASE commits' = commits
      <4>1. Newest' = Newest /\ (Saved => Saved')
        BY <1>2, <3>3, <3>5, SavedKept DEF OrderInv
      <4> QED
        BY <2>1, <2>2, <4>1 DEF FrozenInv, FrozenSaved
    <3>6. CASE thr[t].pc = "commit" /\ Committable(t) /\ commits' = commits \cup {thr[t].gen}
      <4>1. thr[t].gen <= Newest /\ Newest < thr[t].gen
        BY <1>0, <3>6, NewestCommitted DEF FrozenInv, FrozenSaved, OrderInv
      <4>2. thr[t].gen \in Int /\ Newest \in Int
        BY <1>0, NumbersTyped DEF OrderInv
      <4> QED
        BY <4>1, <4>2
    <3> QED
      BY <3>4, <3>5, <3>6
  <2> QED
    BY <1>3, <2>4, <2>5 DEF FrozenInv
<1> QED
  BY <1>5, <1>6

LEMMA FrozenStep == ASSUME IInv, ClockInv, OrderInv, FrozenInv, Next PROVE FrozenInv'
<1>1. CASE PeriodicWake \/ FingerprintFails \/ Shutdown \/ \E t \in Threads : UploadChunk(t)
  BY <1>1, FrozenQuiet DEF OrderInv, PeriodicWake, FingerprintFails, Shutdown, UploadChunk,
     gateway, engine, store
<1>2. CASE GatewayStep
  BY <1>2, FrozenGateway DEF OrderInv
<1> QED
  BY <1>1, <1>2, FrozenEarly, FrozenWalk, FrozenManifest, FrozenCommit, FrozenEnd
  DEF Next, ThreadStep

LEMMA FrozenInit == Init => FrozenInv
<1> SUFFICES ASSUME Init PROVE FrozenInv
  OBVIOUS
<1>1. TypeOK /\ ~stopped /\ past = <<disk>> /\ Live = disk
  BY InitSafe DEF Init, IInv, Live
<1> QED
  BY <1>1 DEF FrozenInv, Homes, FrozenBuild, FrozenSaved, Frozen

\* What the engine's frozen reads rest on.
EngineInv == IInv /\ ClockInv /\ OrderInv /\ FrozenInv

\* The three invariants hold together with the engine's own.
THEOREM EngineInvHolds == Spec => []EngineInv
<1>1. Init => EngineInv
  BY InitSafe, ClockInit, OrderInit, FrozenInit DEF EngineInv
<1>2. EngineInv /\ IInv' /\ [Next]_vars => EngineInv'
  <2> SUFFICES ASSUME EngineInv, IInv', [Next]_vars PROVE EngineInv'
    OBVIOUS
  <2>1. CASE Next
    BY <2>1, ClockStep, OrderStep, FrozenStep DEF EngineInv, IInv
  <2>2. CASE UNCHANGED vars
    <3>1. FrozenInv'
      BY <2>2, FrozenQuiet DEF EngineInv, OrderInv, vars
    <3>2. ClockInv' /\ OrderInv'
      BY <2>2 DEF EngineInv, ClockInv, OrderInv, Numbered, Active, vars
    <3> QED
      BY <3>1, <3>2 DEF EngineInv
  <2> QED
    BY <2>1, <2>2
<1> QED
  BY <1>1, <1>2, EngineInvariance, PTL DEF Spec

\* A gateway is only ever left frozen with everything saved:
\* a gateway that is frozen while no checkpoint runs holds nothing that the
\* newest generation does not, whichever threads, deaths and failures came
\* before (checkpoint.py, the finally clause; supervisor.py, pause).
THEOREM FrozenIsSaved == Spec => []FrozenMeansSaved
<1>1. EngineInv => FrozenMeansSaved
  BY DEF EngineInv, FrozenInv, FrozenSaved, Frozen, FrozenMeansSaved
<1> QED
  BY EngineInvHolds, <1>1, PTL

------------------------------------------------------------------------------
\* The skipped checkpoint.  A content that no other content of its file is
\* mistaken for is named by its own write, and writes are numbered upwards: a
\* fingerprint that shows such a content has shown it since it was taken.

\* Fingerprint x shows file f as disk d has it, under the marks m.
Shows(x, f, d, m) == x \in Trees /\ m[d[f]] = d[f] /\ x[f] = d[f]

MarkBounds ==
    /\ \A c \in Contents : mark[c] <= c
    /\ \A k \in 1 .. Len(past) : \A f \in Files : past[k][f] < Len(past)
    /\ \A f \in Files : disk[f] <= Live[f]

Older(x) == x \in Trees => \A f \in Files : x[f] <= disk[f]

Fingerprints ==
    /\ Older(lastFp) /\ Older(loop)
    /\ loop \in Trees => phase = "serving"

Building(t) == thr[t].pc \in {"reading", "upload", "commit"}

LoopHolds(t) == lock = t /\ thr[t].why = "periodic"

\* What the build has read of the files x shows is still their content.
ReadAs(t, x) ==
    \A f \in Files \ thr[t].unread : Shows(x, f, disk, mark) => thr[t].tree[f] = disk[f]

\* The newest generation has the files x shows.
Holds(x) == \A f \in Files : Shows(x, f, disk, mark) => manifests[Newest][f] = disk[f]

SkipBuild ==
    \A t \in Threads :
        Building(t) => ReadAs(t, lastFp) /\ (LoopHolds(t) => ReadAs(t, loop))

SkipSaved ==
    /\ Holds(lastFp)
    /\ \A t \in Threads : LoopHolds(t) /\ thr[t].pc = "receipt" => Holds(loop)

SkipInv == MarkBounds /\ Fingerprints /\ SkipBuild /\ SkipSaved

\* A file changes to a younger content only, and a content keeps its mark.
FilesGrow ==
    \A f \in Files :
        /\ disk[f] <= disk'[f]
        /\ disk'[f] = disk[f] => mark'[disk[f]] = mark[disk[f]]

LEMMA ContentsAreNumbers ==
    ASSUME TypeOK
    PROVE  /\ Contents \subseteq Nat
           /\ \A x \in Trees, f \in Files : x[f] \in Contents
           /\ disk \in Trees /\ Live \in Trees /\ Len(past) \in Nat
           /\ \A k \in 1 .. Len(past) : past[k] \in Trees
           /\ mark \in [Contents -> Contents]
<1>1. Contents \subseteq Nat
  BY EngineAssumption DEF Contents
<1>2. past \in Seq(Trees) /\ mark \in [Contents -> Contents]
  BY DEF TypeOK, GatewayTypeOK
<1>3. \A x \in Trees, f \in Files : x[f] \in Contents
  BY DEF Trees
<1>4. \A k \in 1 .. Len(past) : past[k] \in Trees
  BY <1>2
<1> QED
  BY <1>1, <1>2, <1>3, <1>4, LiveSteps

\* What a fingerprint shows after a step it showed before, unchanged.
LEMMA ShowsBefore ==
    ASSUME TypeOK, TypeOK', FilesGrow, NEW x, Older(x), NEW f \in Files, Shows(x, f, disk', mark')
    PROVE  disk'[f] = disk[f] /\ Shows(x, f, disk, mark)
<1>1. disk[f] \in Nat /\ disk'[f] \in Nat
  BY EngineAssumption DEF TypeOK, GatewayTypeOK, Trees, Contents
<1>2. x \in Trees /\ x[f] = disk'[f] /\ x[f] <= disk[f]
  BY DEF Shows, Older
<1>3. disk'[f] = disk[f]
  BY <1>1, <1>2 DEF FilesGrow
<1> QED
  BY <1>2, <1>3 DEF Shows, FilesGrow

LEMMA FilesKept ==
    ASSUME TypeOK, TypeOK', FilesGrow, NEW x, Older(x)
    PROVE  /\ x \in Trees => \A f \in Files : x[f] <= disk'[f]
           /\ \A t \in Threads : ReadAs(t, x) =>
                 \A f \in Files \ thr[t].unread :
                     Shows(x, f, disk', mark') => thr[t].tree[f] = disk'[f]
           /\ Holds(x) =>
                 \A f \in Files : Shows(x, f, disk', mark') => manifests[Newest][f] = disk'[f]
<1>1. ASSUME NEW f \in Files, x \in Trees PROVE x[f] <= disk'[f]
  <2>1. x[f] \in Nat /\ disk[f] \in Nat /\ disk'[f] \in Nat
    BY <1>1, EngineAssumption DEF TypeOK, GatewayTypeOK, Trees, Contents
  <2> QED
    BY <1>1, <2>1 DEF Older, FilesGrow
<1>2. ASSUME NEW t \in Threads, ReadAs(t, x), NEW f \in Files \ thr[t].unread,
             Shows(x, f, disk', mark')
      PROVE  thr[t].tree[f] = disk'[f]
  BY <1>2, ShowsBefore DEF ReadAs
<1>3. ASSUME Holds(x), NEW f \in Files, Shows(x, f, disk', mark')
      PROVE  manifests[Newest][f] = disk'[f]
  BY <1>3, ShowsBefore DEF Holds
<1> QED
  BY <1>1, <1>2, <1>3

\* The newest generation stays the one it is.
LEMMA NewestKept ==
    ASSUME EngineInv, commits' = commits,
           \A g \in Gens : manifests[g] # None => manifests'[g] = manifests[g]
    PROVE  Newest' = Newest /\ manifests'[Newest'] = manifests[Newest]
<1>1. Newest' = Newest
  BY DEF Newest
<1>2. Newest \in commits
  BY NewestIs DEF EngineInv, IInv, OrderInv
<1>3. Newest \in Gens /\ manifests[Newest] # None
  BY <1>2 DEF EngineInv, IInv, TypeOK, StoreTypeOK, CommitsHaveManifests
<1> QED
  BY <1>1, <1>3

\* The files may change; the threads, the loop and the bucket do not.
LEMMA SkipFiles ==
    ASSUME EngineInv, IInv', SkipInv, FilesGrow, MarkBounds',
           UNCHANGED <<thr, lock, loop, lastFp, phase, manifests, commits>>
    PROVE  SkipInv'
<1>0. TypeOK /\ TypeOK' /\ Older(lastFp) /\ Older(loop)
  BY DEF EngineInv, IInv, SkipInv, Fingerprints
<1>1. manifests'[Newest'] = manifests[Newest]
  BY NewestKept
<1>2. Fingerprints'
  BY <1>0, FilesKept DEF SkipInv, Fingerprints, Older
<1>3. SkipBuild'
  BY <1>0, FilesKept DEF SkipInv, SkipBuild, Building, LoopHolds, ReadAs
<1>4. SkipSaved'
  BY <1>0, <1>1, FilesKept DEF SkipInv, SkipSaved, LoopHolds, Holds
<1> QED
  BY <1>2, <1>3, <1>4 DEF SkipInv

\* Nothing the argument is about changes.
LEMMA SkipQuiet ==
    ASSUME EngineInv, IInv', SkipInv,
           UNCHANGED <<past, disk, mark, thr, lock, loop, lastFp, phase, manifests, commits>>
    PROVE  SkipInv'
<1>0. TypeOK
  BY DEF EngineInv, IInv
<1>1. MarkBounds'
  BY <1>0, LiveSteps DEF SkipInv, MarkBounds
<1>2. FilesGrow
  BY <1>0, ContentsAreNumbers DEF FilesGrow
<1> QED
  BY <1>1, <1>2, SkipFiles

LEMMA SkipRestart == ASSUME EngineInv, IInv', SkipInv, GatewayStart PROVE SkipInv'
<1>0. TypeOK /\ past \in Seq(Trees)
  BY DEF EngineInv, IInv, TypeOK, GatewayTypeOK
<1>1. UNCHANGED <<disk, mark, thr, lock, loop, lastFp, phase, manifests, commits>>
  BY DEF GatewayStart, engine, store
<1>2. Live' = disk /\ (past' = past \/ past' = Append(past, disk))
  BY <1>0, LiveSteps DEF GatewayStart
<1>3. MarkBounds'
  <2>1. \A f \in Files : disk[f] < Len(past)
    <3>1. Len(past) \in 1 .. Len(past)
      BY <1>0 DEF TypeOK, GatewayTypeOK
    <3>2. ASSUME NEW f \in Files PROVE disk[f] < Len(past)
      <4>1. disk[f] <= Live[f] /\ Live[f] < Len(past)
        BY <3>1 DEF SkipInv, MarkBounds, Live
      <4> QED
        BY <1>0, <4>1, ContentsAreNumbers
    <3> QED
      BY <3>2
  <2>2. ASSUME NEW k \in 1 .. Len(past'), NEW f \in Files PROVE past'[k][f] < Len(past')
    <3>1. CASE past' = past
      BY <2>2, <3>1 DEF SkipInv, MarkBounds
    <3>2. CASE past' = Append(past, disk)
      <4>1. Len(past') = Len(past) + 1 /\ Len(past) \in Nat
        BY <1>0, <3>2, LiveSteps
      <4>2. past'[k] = IF k \in 1 .. Len(past) THEN past[k] ELSE disk
        BY <1>0, <2>2, <3>2, <4>1
      <4>3. past'[k][f] < Len(past)
        BY <2>1, <4>2 DEF SkipInv, MarkBounds
      <4>4. past'[k][f] \in Nat
        BY <1>0, <2>2, <4>2, ContentsAreNumbers
      <4> QED
        BY <4>1, <4>3, <4>4
    <3> QED
      BY <1>2, <3>1, <3>2
  <2>3. \A f \in Files : disk'[f] <= Live'[f]
    BY <1>0, <1>1, <1>2, ContentsAreNumbers
  <2> QED
    BY <1>1, <2>2, <2>3 DEF SkipInv, MarkBounds
<1>4. FilesGrow
  BY <1>0, <1>1, ContentsAreNumbers DEF FilesGrow
<1> QED
  BY <1>1, <1>3, <1>4, SkipFiles

LEMMA SkipWrite ==
    ASSUME EngineInv, IInv', SkipInv, NEW f \in Files, Write(f) PROVE SkipInv'
<1> DEFINE n == Len(past)
<1>0. TypeOK /\ past \in Seq(Trees) /\ n \in Nat /\ n \in 1 .. n /\ n \in Contents
  <2>1. TypeOK /\ past \in Seq(Trees) /\ past # <<>>
    BY DEF EngineInv, IInv, TypeOK, GatewayTypeOK
  <2>2. n <= MaxWrites
    BY DEF Write
  <2> QED
    BY <2>1, <2>2, EngineAssumption DEF Contents
<1>1. UNCHANGED <<thr, lock, loop, lastFp, phase, manifests, commits>>
  BY DEF Write, engine, store
<1>2. /\ Live' = [Live EXCEPT ![f] = n] /\ Len(past') = n + 1
      /\ disk' = disk \/ disk' = [disk EXCEPT ![f] = n]
  BY <1>0, WriteEffects
<1>3. past' = Append(past, [Live EXCEPT ![f] = n])
  BY DEF Write
<1>4. PICK m \in {n} \cup {mark[past[k][f]] : k \in 1 .. n} : mark' = [mark EXCEPT ![n] = m]
  BY DEF Write
<1>5. \A x \in Files : disk[x] <= Live[x] /\ Live[x] < n /\ disk[x] < n
  <2>1. ASSUME NEW x \in Files PROVE disk[x] <= Live[x] /\ Live[x] < n
    BY <1>0 DEF SkipInv, MarkBounds, Live
  <2> QED
    BY <1>0, <2>1, ContentsAreNumbers
<1>6. m <= n
  <2>1. ASSUME NEW k \in 1 .. n PROVE mark[past[k][f]] <= n
    <3>1. past[k][f] < n /\ past[k][f] \in Contents
      BY <1>0, ContentsAreNumbers DEF SkipInv, MarkBounds
    <3>2. mark[past[k][f]] <= past[k][f]
      BY <3>1 DEF SkipInv, MarkBounds
    <3> QED
      BY <1>0, <3>1, <3>2, ContentsAreNumbers
  <2> QED
    BY <1>0, <1>4, <2>1
<1>7. FilesGrow
  <2>1. ASSUME NEW x \in Files PROVE /\ disk[x] <= disk'[x]
                                     /\ mark'[disk[x]] = mark[disk[x]]
    <3>1. disk'[x] = disk[x] \/ disk'[x] = n
      BY <1>0, <1>2, ContentsAreNumbers DEF Trees
    <3>2. disk[x] \in Contents /\ disk[x] # n /\ disk[x] \in Nat
      BY <1>0, <1>5, ContentsAreNumbers
    <3> QED
      BY <1>0, <1>4, <1>5, <3>1, <3>2, ContentsAreNumbers
  <2> QED
    BY <2>1 DEF FilesGrow
<1>8. MarkBounds'
  <2>1. ASSUME NEW c \in Contents PROVE mark'[c] <= c
    <3>1. mark'[c] = IF c = n THEN m ELSE mark[c]
      BY <1>0, <1>4, ContentsAreNumbers
    <3> QED
      BY <1>6, <3>1 DEF SkipInv, MarkBounds
  <2>2. \A x \in Files : Live'[x] = Live[x] \/ Live'[x] = n
    BY <1>0, <1>2, ContentsAreNumbers DEF Trees
  <2>3. ASSUME NEW k \in 1 .. Len(past'), NEW x \in Files PROVE past'[k][x] < Len(past')
    <3>1. CASE k \in 1 .. n
      <4>1. past'[k] = past[k]
        BY <1>0, <1>3, <3>1
      <4>2. past[k][x] < n /\ past[k][x] \in Nat
        BY <1>0, <3>1, ContentsAreNumbers DEF SkipInv, MarkBounds
      <4> QED
        BY <1>0, <1>2, <4>1, <4>2
    <3>2. CASE k = n + 1
      <4>1. past'[k] = Live'
        BY <1>2, <3>2 DEF Live
      <4> QED
        BY <1>0, <1>2, <1>5, <2>2, <4>1, ContentsAreNumbers
    <3> QED
      BY <1>0, <1>2, <3>1, <3>2
  <2>4. ASSUME NEW x \in Files PROVE disk'[x] <= Live'[x]
    <3>1. CASE x = f
      <4>1. Live'[f] = n /\ (disk'[f] = disk[f] \/ disk'[f] = n)
        BY <1>0, <1>2, ContentsAreNumbers DEF Trees
      <4> QED
        BY <1>0, <1>5, <3>1, <4>1, ContentsAreNumbers
    <3>2. CASE x # f
      <4>1. Live'[x] = Live[x] /\ disk'[x] = disk[x]
        BY <1>0, <1>2, <3>2, ContentsAreNumbers DEF Trees
      <4> QED
        BY <1>5, <4>1
    <3> QED
      BY <3>1, <3>2
  <2> QED
    BY <2>1, <2>3, <2>4 DEF MarkBounds
<1> QED
  BY <1>1, <1>7, <1>8, SkipFiles

\* The loop's own steps.
LEMMA SkipLoop ==
    ASSUME EngineInv, IInv', SkipInv, PeriodicWake \/ FingerprintFails \/ Shutdown
    PROVE  SkipInv'
<1>0. TypeOK /\ None \notin Trees /\ Ended \notin Trees
  BY EngineAssumption DEF EngineInv, IInv
<1>1. UNCHANGED <<past, disk, mark, thr, lastFp, manifests, commits>>
  BY DEF PeriodicWake, FingerprintFails, Shutdown, gateway, store
<1>2. manifests'[Newest'] = manifests[Newest] /\ Live' = Live
  BY <1>0, <1>1, NewestKept, LiveSteps
<1>3. \A t \in Threads : ~LoopHolds(t)'
  BY <1>0, EngineAssumption DEF PeriodicWake, FingerprintFails, Shutdown, TypeOK, EngineTypeOK, LoopHolds
<1>4. loop' \in Trees => loop' = Seen /\ phase' = "serving"
  BY <1>0 DEF PeriodicWake, FingerprintFails, Shutdown
<1>5. \A f \in Files : Seen[f] <= disk[f]
  BY <1>0, ContentsAreNumbers DEF Seen, SkipInv, MarkBounds
<1>6. Fingerprints'
  BY <1>1, <1>4, <1>5 DEF SkipInv, Fingerprints, Older
<1>7. SkipBuild' /\ SkipSaved'
  BY <1>1, <1>2, <1>3 DEF SkipInv, SkipBuild, SkipSaved, Building, ReadAs, Holds
<1>8. MarkBounds'
  BY <1>1, <1>2 DEF SkipInv, MarkBounds
<1> QED
  BY <1>6, <1>7, <1>8 DEF SkipInv

\* An attempt begins, freezes the gateway, reads on or has its manifest stored.
LEMMA SkipThread ==
    ASSUME EngineInv, IInv', SkipInv, NEW t \in Threads, Only(t),
           UNCHANGED <<past, disk, mark, loop, lastFp, commits>>,
           loop \in Trees => phase' = "serving",
           \A g \in Gens : manifests[g] # None => manifests'[g] = manifests[g],
           lock' = t \/ lock' = lock, thr'[t].pc # "receipt",
           Building(t)' => ReadAs(t, lastFp)' /\ (LoopHolds(t)' => ReadAs(t, loop)')
    PROVE  SkipInv'
<1>0. TypeOK
  BY DEF EngineInv, IInv
<1>1. manifests'[Newest'] = manifests[Newest] /\ Live' = Live
  BY <1>0, NewestKept, LiveSteps
<1>2. MarkBounds' /\ Fingerprints'
  BY <1>1 DEF SkipInv, MarkBounds, Fingerprints, Older
<1>3. \A u \in Threads \ {t} : thr'[u] = thr[u] /\ (LoopHolds(u)' => LoopHolds(u))
  BY DEF Only, LoopHolds
<1>4. \A u \in Threads \ {t} : Building(u)' => ReadAs(u, lastFp)' /\ (LoopHolds(u)' => ReadAs(u, loop)')
  BY <1>3 DEF SkipInv, SkipBuild, Building, ReadAs
<1>5. SkipBuild'
  BY <1>4 DEF SkipBuild
<1>6. SkipSaved'
  BY <1>1, <1>3 DEF SkipInv, SkipSaved, Holds
<1> QED
  BY <1>2, <1>5, <1>6 DEF SkipInv

LEMMA SkipEarly ==
    ASSUME EngineInv, IInv', SkipInv, NEW t \in Threads,
           (\E why \in Callers : Begin(t, why)) \/ Pause(t)
    PROVE  SkipInv'
<1>0. TypeOK
  BY DEF EngineInv, IInv
<1>1. UNCHANGED <<past, disk, mark, loop, lastFp, manifests, commits>>
  BY DEF Begin, Pause, gateway, store
<1>2. /\ Only(t) /\ thr'[t].pc \in {"begun", "paused"}
      /\ lock' = t \/ lock' = lock
  <2>1. CASE Pause(t)
    BY <1>0, <2>1, MoveEffects DEF Moves, Pause
  <2> QED
    BY <1>0, <2>1, BeginEffects
<1>3. loop \in Trees => phase' = "serving"
  BY DEF SkipInv, Fingerprints, Begin, Pause
<1> QED
  BY <1>1, <1>2, <1>3, SkipThread DEF Building

\* An attempt mirrors the staged files back and starts its walk.
LEMMA SkipFlush == ASSUME EngineInv, IInv', SkipInv, NEW t \in Threads, Flush(t) PROVE SkipInv'
<1>0. TypeOK /\ TypeOK' /\ Older(lastFp) /\ Older(loop)
  BY DEF EngineInv, IInv, SkipInv, Fingerprints
<1>1. UNCHANGED <<past, mark, lock, loop, lastFp, phase, manifests, commits>>
  BY DEF Flush, store
<1>2. manifests'[Newest'] = manifests[Newest] /\ Live' = Live
  BY <1>0, <1>1, NewestKept, LiveSteps
<1>3. \A f \in Files : disk'[f] = disk[f] \/ disk'[f] = Live[f]
  BY DEF Flush
<1>4. \A f \in Files : disk[f] <= disk'[f] /\ disk'[f] <= Live[f]
  <2>1. \A f \in Files : disk[f] \in Nat /\ Live[f] \in Nat /\ disk[f] <= Live[f]
    BY <1>0, ContentsAreNumbers DEF SkipInv, MarkBounds
  <2> QED
    BY <1>3, <2>1
<1>5. FilesGrow
  BY <1>1, <1>4 DEF FilesGrow
<1>6. MarkBounds'
  BY <1>1, <1>2, <1>4 DEF SkipInv, MarkBounds
<1>7. Fingerprints'
  BY <1>0, <1>1, <1>5, FilesKept DEF SkipInv, Fingerprints, Older
<1>8. Only(t) /\ thr'[t].pc = "reading" /\ thr'[t].unread = Files
  BY <1>0, FlushEffects
<1>9. ASSUME NEW u \in Threads, Building(u)' PROVE ReadAs(u, lastFp)' /\ (LoopHolds(u)' => ReadAs(u, loop)')
  <2>1. CASE u = t
    BY <1>8, <2>1 DEF ReadAs
  <2>2. CASE u # t
    <3>1. thr'[u] = thr[u]
      BY <1>8, <2>2 DEF Only
    <3> QED
      BY <1>0, <1>1, <1>5, <1>9, <3>1, FilesKept DEF SkipInv, SkipBuild, Building, LoopHolds, ReadAs
  <2> QED
    BY <2>1, <2>2
<1>10. SkipSaved'
  <2>1. \A u \in Threads : LoopHolds(u)' /\ thr'[u].pc = "receipt" => LoopHolds(u) /\ thr[u].pc = "receipt"
    BY <1>1, <1>8 DEF LoopHolds, Only
  <2> QED
    BY <1>0, <1>1, <1>2, <1>5, <2>1, FilesKept DEF SkipInv, SkipSaved, Holds
<1> QED
  BY <1>6, <1>7, <1>9, <1>10 DEF SkipInv, SkipBuild

\* An attempt reads a file, completes its build and stores its manifest.
LEMMA SkipWalk ==
    ASSUME EngineInv, IInv', SkipInv, NEW t \in Threads,
           (\E f \in Files : ReadFile(t, f)) \/ Built(t) \/ UploadManifest(t)
    PROVE  SkipInv'
<1>0. TypeOK
  BY DEF EngineInv, IInv
<1>1. UNCHANGED <<past, disk, mark, lock, loop, lastFp, phase, commits>>
  BY DEF ReadFile, Built, UploadManifest, gateway, store
<1>2. \A g \in Gens : manifests[g] # None => manifests'[g] = manifests[g]
  BY <1>0 DEF ReadFile, Built, UploadManifest, store, TypeOK, EngineTypeOK, StoreTypeOK, Thread
<1>3. /\ Only(t) /\ thr'[t].why = thr[t].why /\ Building(t)
      /\ thr'[t].pc \in {"reading", "upload", "commit"}
  BY <1>0, ReadEffects, MoveEffects DEF Moves, Building, ReadFile, Built, UploadManifest
<1>4. ASSUME NEW x, ReadAs(t, x)
      PROVE  \A g \in Files \ thr'[t].unread : Shows(x, g, disk, mark) => thr'[t].tree[g] = disk[g]
  <2>1. ASSUME NEW f \in Files, ReadFile(t, f)
        PROVE  \A g \in Files \ thr'[t].unread : Shows(x, g, disk, mark) => thr'[t].tree[g] = disk[g]
    <3>1. thr[t].tree \in Trees
      BY <1>0 DEF TypeOK, EngineTypeOK, Thread
    <3>2. Reusable(f) => baseline[f].content = disk[f]
      BY DEF EngineInv, ClockInv, Sound, Reusable
    <3>3. thr'[t].unread = thr[t].unread \ {f} /\ thr'[t].tree = [thr[t].tree EXCEPT ![f] = disk[f]]
      BY <1>0, <2>1, <3>2, ReadEffects, ZenonT(60)
    <3> QED
      BY <1>4, <3>1, <3>3 DEF ReadAs, Trees
  <2>2. CASE Built(t) \/ UploadManifest(t)
    <3>1. thr'[t].unread = thr[t].unread /\ thr'[t].tree = thr[t].tree
      BY <1>0, <2>2, MoveEffects DEF Moves
    <3> QED
      BY <1>4, <3>1 DEF ReadAs
  <2> QED
    BY <2>1, <2>2
<1>5. ReadAs(t, lastFp)' /\ (LoopHolds(t)' => ReadAs(t, loop)')
  BY <1>1, <1>3, <1>4 DEF SkipInv, SkipBuild, LoopHolds, ReadAs
<1>6. loop \in Trees => phase' = "serving"
  BY <1>1 DEF SkipInv, Fingerprints
<1> QED
  BY <1>1, <1>2, <1>3, <1>5, <1>6, SkipThread

\* A commit saves the files that the fingerprints it answers for show.
LEMMA CommitSaves ==
    ASSUME EngineInv, SkipInv, NEW t \in Threads, thr[t].pc = "commit", Committable(t),
           commits' = commits \cup {thr[t].gen}, UNCHANGED <<disk, mark, manifests>>
    PROVE  /\ \A f \in Files : Shows(lastFp, f, disk, mark) => manifests'[Newest'][f] = disk[f]
           /\ LoopHolds(t) => \A f \in Files : Shows(loop, f, disk, mark) => manifests'[Newest'][f] = disk[f]
<1>1. Newest' = thr[t].gen
  BY NewestCommitted DEF EngineInv, IInv, OrderInv
<1>2. manifests[thr[t].gen] = thr[t].tree /\ thr[t].unread = {}
  BY DEF EngineInv, OrderInv, Numbered, Active, Drafted, IInv, BuildCovered
<1>3. ReadAs(t, lastFp) /\ (LoopHolds(t) => ReadAs(t, loop))
  BY DEF SkipInv, SkipBuild, Building
<1> QED
  BY <1>1, <1>2, <1>3 DEF ReadAs

\* While the loop's checkpoint has the lock, nobody else is in the engine.
LEMMA LoopAlone ==
    ASSUME EngineInv, SkipInv, NEW t \in Threads, NEW u \in Threads, LoopHolds(t), Active(u)
    PROVE  u = t
<1>1. loop \in Trees /\ (lock # u => phase # "serving")
  BY EngineAssumption DEF EngineInv, IInv, TypeOK, EngineTypeOK, Active, LoopHolds
<1> QED
  BY <1>1 DEF SkipInv, Fingerprints, LoopHolds

LEMMA SkipCommit ==
    ASSUME EngineInv, IInv', SkipInv, NEW t \in Threads, Commit(t) PROVE SkipInv'
<1>0. /\ TypeOK /\ thr[t].pc = "commit" /\ UNCHANGED <<past, disk, mark, manifests, lock, loop, lastFp, phase>>
      /\ Committable(t) /\ commits' = commits \cup {thr[t].gen}
  BY DEF EngineInv, IInv, Commit, gateway
<1>1. Moves(t, "receipt") /\ Live' = Live
  BY <1>0, MoveEffects, LiveSteps DEF Commit
<1>2. MarkBounds' /\ Fingerprints'
  BY <1>0, <1>1 DEF SkipInv, MarkBounds, Fingerprints, Older
<1>3. SkipBuild'
  BY <1>0, <1>1 DEF SkipInv, SkipBuild, Building, LoopHolds, ReadAs, Moves, Only
<1>4. SkipSaved'
  <2>1. Holds(lastFp)'
    BY <1>0, CommitSaves DEF Holds
  <2>2. ASSUME NEW u \in Threads, LoopHolds(u)' PROVE Holds(loop)'
    <3>1. LoopHolds(u) /\ Active(t)
      BY <1>0, <1>1, <2>2 DEF Moves, Only, Active, LoopHolds
    <3>2. u = t
      BY <3>1, LoopAlone
    <3> QED
      BY <1>0, <3>1, <3>2, CommitSaves DEF Holds
  <2> QED
    BY <2>1, <2>2 DEF SkipSaved
<1> QED
  BY <1>2, <1>3, <1>4 DEF SkipInv

\* An attempt ends; a receipt's fingerprint is remembered.
LEMMA SkipEnd ==
    ASSUME EngineInv, IInv', SkipInv, NEW t \in Threads,
           \/ Receipt(t) \/ ReceiptFails(t)
           \/ Refused(t) \/ RequestFails(t) \/ LocalStateFails(t) \/ AnswerLost(t)
    PROVE  SkipInv'
<1>0. TypeOK
  BY DEF EngineInv, IInv
<1>1. /\ Leaves(t) /\ Release(t) /\ Active(t) /\ UNCHANGED <<past, disk, phase>>
      /\ Idle.pc = "idle"
  BY <1>0, EndEffects DEF Active, Idle
<1>2. Live' = Live /\ mark' = mark
  <2>1. mark' = mark
    BY DEF Receipt, ReceiptFails, Refused, RequestFails, LocalStateFails, AnswerLost, Abandon, gateway
  <2> QED
    BY <1>0, <1>1, <2>1, LiveSteps
<1>3. /\ lastFp' # lastFp => LoopHolds(t) /\ lastFp' = loop /\ thr[t].pc = "receipt"
      /\ lastFp' # lastFp => UNCHANGED <<manifests, commits>>
  BY DEF Receipt, ReceiptFails, Refused, RequestFails, LocalStateFails, AnswerLost, Abandon,
     Fingerprint, store, LoopHolds
<1>4. \/ manifests' = manifests
      \/ /\ manifests[thr[t].gen] = None
         /\ manifests' = [manifests EXCEPT ![thr[t].gen] = thr[t].tree]
  BY DEF Receipt, ReceiptFails, Refused, RequestFails, LocalStateFails, AnswerLost, store
<1>5. \A g \in Gens : manifests[g] # None => manifests'[g] = manifests[g]
  BY <1>0, <1>4 DEF TypeOK, EngineTypeOK, StoreTypeOK, Thread
<1>6. \/ commits' = commits
      \/ /\ thr[t].pc = "commit" /\ Committable(t) /\ commits' = commits \cup {thr[t].gen}
         /\ manifests' = manifests
  BY DEF Receipt, ReceiptFails, Refused, RequestFails, LocalStateFails, AnswerLost, store
<1>7. \A u \in Threads : lock' = u => lock = u /\ u # t /\ loop' = loop
  BY <1>1, EngineAssumption DEF Release
<1>8. loop' \in Trees => loop' = loop
  BY <1>1, EngineAssumption DEF Release
<1>9. \A f \in Files : Shows(lastFp', f, disk, mark) => manifests'[Newest'][f] = disk[f]
  <2>1. commits' = commits => manifests'[Newest'] = manifests[Newest]
    BY <1>5, NewestKept
  <2>2. CASE lastFp' # lastFp
    BY <1>3, <2>1, <2>2 DEF SkipInv, SkipSaved, Holds
  <2>3. CASE lastFp' = lastFp /\ commits' = commits
    BY <2>1, <2>3 DEF SkipInv, SkipSaved, Holds
  <2>4. CASE lastFp' = lastFp /\ commits' # commits
    BY <1>1, <1>2, <1>6, <2>4, CommitSaves
  <2> QED
    BY <2>2, <2>3, <2>4
<1>10. Fingerprints'
  BY <1>1, <1>3, <1>8 DEF SkipInv, Fingerprints, Older
<1>11. ASSUME NEW u \in Threads, Active(u)'
       PROVE  u # t /\ thr'[u] = thr[u] /\ Active(u) /\ lastFp' = lastFp /\ (LoopHolds(u)' => FALSE)
  <2>1. u # t /\ thr'[u] = thr[u] /\ Active(u)
    BY <1>1, <1>11 DEF Leaves, Only, Active
  <2>2. lastFp' = lastFp
    BY <1>3, <2>1, LoopAlone
  <2>3. LoopHolds(u)' => LoopHolds(u)
    BY <1>7, <2>1 DEF LoopHolds
  <2> QED
    BY <1>1, <2>1, <2>2, <2>3, LoopAlone
<1>12. SkipBuild'
  <2>1. \A u \in Threads : Building(u)' => Active(u)'
    BY DEF Building, Active
  <2>2. ASSUME NEW u \in Threads, Building(u)' PROVE ReadAs(u, lastFp)' /\ ~LoopHolds(u)'
    BY <1>1, <1>2, <1>11, <2>1, <2>2 DEF SkipInv, SkipBuild, ReadAs, Building
  <2> QED
    BY <2>2 DEF SkipBuild
<1>13. SkipSaved'
  <2>1. ASSUME NEW u \in Threads, LoopHolds(u)', thr'[u].pc = "receipt" PROVE FALSE
    BY <1>11, <2>1 DEF Active
  <2> QED
    BY <1>1, <1>2, <1>9, <2>1 DEF SkipSaved, Holds
<1>14. MarkBounds'
  BY <1>1, <1>2 DEF SkipInv, MarkBounds
<1> QED
  BY <1>10, <1>12, <1>13, <1>14 DEF SkipInv

LEMMA SkipStep == ASSUME EngineInv, IInv', SkipInv, Next PROVE SkipInv'
<1>1. CASE GatewayDies \/ GatewayReady \/ GatewayStartFails \/ Tick \/ \E t \in Threads : UploadChunk(t)
  BY <1>1, SkipQuiet DEF GatewayDies, GatewayReady, GatewayStartFails, Tick, UploadChunk,
     gateway, engine, store
<1> QED
  BY <1>1, SkipRestart, SkipWrite, SkipLoop, SkipEarly, SkipFlush, SkipWalk, SkipCommit, SkipEnd
  DEF Next, GatewayStep, ThreadStep

LEMMA SkipInit == Init => SkipInv
<1> SUFFICES ASSUME Init PROVE SkipInv
  OBVIOUS
<1>1. TypeOK /\ past = <<disk>> /\ Live = disk /\ Len(past) = 1 /\ \A f \in Files : disk[f] = 0
  BY InitSafe DEF Init, IInv, Live
<1>2. None \notin Trees /\ Idle.pc = "idle" /\ Contents \subseteq Nat
  BY EngineAssumption DEF Idle, Contents
<1>3. MarkBounds
  <2>1. \A c \in Contents : mark[c] <= c
    BY <1>2 DEF Init
  <2>2. \A k \in 1 .. Len(past) : past[k] = disk
    BY <1>1
  <2> QED
    BY <1>1, <2>1, <2>2 DEF MarkBounds
<1>4. lastFp = None /\ loop = None /\ lock = None /\ \A t \in Threads : thr[t] = Idle
  BY DEF Init
<1> QED
  BY <1>2, <1>3, <1>4, EngineAssumption DEF SkipInv, Fingerprints, Older, SkipBuild, SkipSaved,
     Building, LoopHolds, Holds, Shows

\* When an unchanged fingerprint makes the loop skip its checkpoint, the newest
\* generation holds every file of the workspace whose last write left a mode, an
\* mtime and a size of its own, staged files too: through orphaned threads,
\* deaths, lost answers and checkpoints the loop did not ask for
\* (run_periodic_checkpoints, workspace_fingerprint).
THEOREM SkippedIsSaved == Spec => []SkipMeansSaved
<1>1. EngineInv /\ EngineInv' /\ SkipInv /\ [Next]_vars => SkipInv'
  <2> SUFFICES ASSUME EngineInv, IInv', SkipInv, [Next]_vars PROVE SkipInv'
    BY DEF EngineInv
  <2>1. CASE Next
    BY <2>1, SkipStep
  <2>2. CASE UNCHANGED vars
    BY <2>2, SkipQuiet DEF vars
  <2> QED
    BY <2>1, <2>2
<1>2. EngineInv /\ SkipInv => SkipMeansSaved
  <2> SUFFICES ASSUME EngineInv, SkipInv, Seen = lastFp, NEW f \in Files, Visible(disk[f])
               PROVE  manifests[Newest][f] = disk[f]
    BY DEF SkipMeansSaved
  <2>1. Seen \in Trees
    BY SeenTyped DEF EngineInv, IInv, TypeOK
  <2>2. Shows(lastFp, f, disk, mark)
    BY <2>1 DEF Shows, Seen, Visible
  <2> QED
    BY <2>2 DEF SkipInv, SkipSaved, Holds
<1> QED
  BY SkipInit, EngineInvHolds, <1>1, <1>2, PTL DEF Spec

------------------------------------------------------------------------------
\* Atomic generations: from a flush to the end of the walk the workspace is the
\* gateway's files, unless the gateway writes, and then the number is torn.

InPast(x, p) == \E k \in 1 .. Len(p) : p[k] = x

AtomicBuild(t) ==
    thr[t].gen \notin torn =>
        /\ thr[t].pc = "reading" => disk = Live /\ SameAs(t)
        /\ thr[t].pc = "upload" => InPast(thr[t].tree, past)

AtomicStore ==
    \A g \in Gens \ torn : manifests[g] # None => InPast(manifests[g], past)

AtomicInv == (\A t \in Threads : AtomicBuild(t)) /\ AtomicStore

\* The past only grows, and the present is part of it.
LEMMA PastKept ==
    ASSUME TypeOK
    PROVE  /\ InPast(Live, past)
           /\ \A x \in Trees : \A y : past' = Append(past, x) /\ InPast(y, past) => InPast(y, past')
<1>1. past \in Seq(Trees) /\ past # <<>>
  BY DEF TypeOK, GatewayTypeOK
<1>2. InPast(Live, past)
  <2>1. Len(past) \in 1 .. Len(past)
    BY <1>1
  <2> QED
    BY <2>1 DEF InPast, Live
<1>3. ASSUME NEW x \in Trees, NEW y, past' = Append(past, x), InPast(y, past) PROVE InPast(y, past')
  <2>1. PICK k \in 1 .. Len(past) : past[k] = y
    BY <1>3 DEF InPast
  <2>2. k \in 1 .. Len(past') /\ past'[k] = y
    BY <1>1, <1>3, <2>1
  <2> QED
    BY <2>2 DEF InPast
<1> QED
  BY <1>2, <1>3

\* Neither the threads nor the bucket change, and no walk meets a write.
LEMMA AtomicQuiet ==
    ASSUME TypeOK, AtomicInv, UNCHANGED <<past, disk, torn, thr, manifests>>
    PROVE  AtomicInv'
<1>1. Live' = Live
  BY LiveSteps
<1> QED
  BY <1>1 DEF AtomicInv, AtomicBuild, AtomicStore, SameAs

\* The gateway's own steps.
LEMMA AtomicGateway ==
    ASSUME TypeOK, AtomicInv, GatewayStart \/ \E f \in Files : Write(f)
    PROVE  AtomicInv'
<1>1. CASE GatewayStart
  <2>1. UNCHANGED <<disk, torn, thr, manifests>> /\ (past' = past \/ past' = Append(past, disk))
    BY <1>1 DEF GatewayStart, engine, store
  <2>2. Live' = disk /\ disk \in Trees
    BY <1>1, LiveSteps
  <2>3. \A y : InPast(y, past) => InPast(y, past')
    BY <2>1, <2>2, PastKept
  <2>4. \A t \in Threads : AtomicBuild(t)'
    BY <2>1, <2>2, <2>3 DEF AtomicInv, AtomicBuild, SameAs
  <2> QED
    BY <2>1, <2>3, <2>4 DEF AtomicInv, AtomicStore
<1>2. ASSUME NEW f \in Files, Write(f) PROVE AtomicInv'
  <2>1. /\ UNCHANGED <<thr, manifests>>
        /\ torn' = torn \cup {thr[t].gen : t \in {u \in Threads : Walking(u)}}
    BY <1>2 DEF Write, engine, store
  <2>2. PICK x \in Trees : past' = Append(past, x)
    <3>1. Live \in Trees /\ Len(past) \in Nat /\ Len(past) <= MaxWrites
      BY <1>2, LiveSteps DEF Write
    <3>2. Len(past) \in Contents
      BY <3>1, EngineAssumption DEF Contents
    <3>3. [Live EXCEPT ![f] = Len(past)] \in Trees
      BY <3>1, <3>2 DEF Trees
    <3> QED
      BY <1>2, <3>3 DEF Write
  <2>3. \A y : InPast(y, past) => InPast(y, past')
    BY <2>2, PastKept
  <2>4. ASSUME NEW t \in Threads PROVE AtomicBuild(t)'
    <3>1. thr'[t] = thr[t] /\ (thr[t].pc = "reading" => thr[t].gen \in torn')
      BY <2>1 DEF Walking
    <3> QED
      BY <2>1, <2>3, <3>1 DEF AtomicInv, AtomicBuild
  <2>5. AtomicStore'
    BY <2>1, <2>3 DEF AtomicInv, AtomicStore
  <2> QED
    BY <2>4, <2>5 DEF AtomicInv
<1> QED
  BY <1>1, <1>2

\* A step of one thread.
LEMMA AtomicThread ==
    ASSUME TypeOK, AtomicInv, NEW t \in Threads, Only(t), UNCHANGED <<past, torn>>,
           disk' = disk \/ disk' = Live, AtomicBuild(t)',
           \/ manifests' = manifests
           \/ /\ thr[t].pc = "upload"
              /\ manifests' = [manifests EXCEPT ![thr[t].gen] = thr[t].tree]
    PROVE  AtomicInv'
<1>1. Live' = Live
  BY LiveSteps
<1>2. \A u \in Threads \ {t} : AtomicBuild(u)'
  BY <1>1 DEF Only, AtomicInv, AtomicBuild, SameAs
<1>3. thr[t].gen \in Gens /\ manifests \in [Gens -> Trees \cup {None}]
  BY DEF TypeOK, EngineTypeOK, StoreTypeOK, Thread
<1>4. AtomicStore'
  BY <1>3 DEF AtomicInv, AtomicBuild, AtomicStore
<1> QED
  BY <1>2, <1>4 DEF AtomicInv

LEMMA AtomicStep == ASSUME IInv, ClockInv, FrozenInv, AtomicInv, Next PROVE AtomicInv'
<1>0. TypeOK /\ Live \in Trees /\ disk \in Trees
  BY LiveSteps DEF IInv
<1>1. ASSUME NEW t \in Threads, ThreadStep(t) PROVE AtomicInv'
  <2>1. ASSUME NEW why \in Callers, Begin(t, why) PROVE AtomicInv'
    <3>1. Only(t) /\ thr'[t].pc = "begun" /\ UNCHANGED <<past, disk, torn, manifests>>
      BY <1>0, <2>1, BeginEffects DEF Begin, gateway, store
    <3> QED
      BY <1>0, <3>1, AtomicThread DEF AtomicBuild
  <2>2. CASE Pause(t) \/ Commit(t)
    <3>1. Only(t) /\ thr'[t].pc \in {"paused", "receipt"} /\ UNCHANGED <<past, disk, torn, manifests>>
      BY <1>0, <2>2, MoveEffects DEF Pause, Commit, Moves, gateway, store
    <3> QED
      BY <1>0, <3>1, AtomicThread DEF AtomicBuild
  <2>3. CASE Flush(t)
    <3>1. /\ Only(t) /\ thr'[t].pc = "reading" /\ thr'[t].unread = Files
          /\ UNCHANGED <<past, torn, manifests>>
      BY <1>0, <2>3, FlushEffects DEF Flush, store
    <3>2. Live' = Live
      BY <1>0, <3>1, LiveSteps
    <3>3. \A f \in Files : disk'[f] = Live[f]
      BY <2>3 DEF Flush, FrozenInv, Homes
    <3>4. disk' = Live
      BY <1>0, <2>3, <3>3 DEF Flush, Trees
    <3>5. AtomicBuild(t)'
      BY <3>1, <3>2, <3>4 DEF AtomicBuild, SameAs
    <3> QED
      BY <1>0, <3>1, <3>4, <3>5, AtomicThread
  <2>4. ASSUME NEW f \in Files, ReadFile(t, f) PROVE AtomicInv'
    <3>1. UNCHANGED <<past, disk, torn, manifests>> /\ thr[t].pc = "reading"
      BY <2>4 DEF ReadFile, gateway, store
    <3>2. Live' = Live /\ thr[t].tree \in Trees
      BY <1>0, <3>1, LiveSteps DEF TypeOK, EngineTypeOK, Thread
    <3>3. Reusable(f) => baseline[f].content = disk[f]
      BY DEF ClockInv, Sound, Reusable
    <3>4. /\ Only(t) /\ thr'[t].pc = "reading" /\ thr'[t].unread = thr[t].unread \ {f}
          /\ thr'[t].tree = [thr[t].tree EXCEPT ![f] = disk[f]] /\ thr'[t].gen = thr[t].gen
      BY <1>0, <2>4, <3>3, ReadEffects
    <3>5. thr[t].gen \notin torn => disk = Live /\ SameAs(t)
      BY <3>1 DEF AtomicInv, AtomicBuild
    <3>6. thr[t].gen \notin torn => SameAs(t)'
      BY <3>2, <3>4, <3>5 DEF SameAs, Trees
    <3>7. AtomicBuild(t)'
      BY <3>1, <3>2, <3>4, <3>5, <3>6 DEF AtomicBuild
    <3> QED
      BY <1>0, <3>1, <3>4, <3>7, AtomicThread
  <2>5. CASE Built(t)
    <3>1. /\ Only(t) /\ thr'[t].pc = "upload" /\ thr'[t].tree = thr[t].tree /\ thr'[t].gen = thr[t].gen
          /\ UNCHANGED <<past, disk, torn, manifests>> /\ thr[t].pc = "reading" /\ thr[t].unread = {}
      BY <1>0, <2>5, MoveEffects DEF Built, Moves, store
    <3>2. thr[t].tree \in Trees
      BY <1>0 DEF TypeOK, EngineTypeOK, Thread
    <3>3. thr[t].gen \notin torn => thr[t].tree = Live
      BY <1>0, <3>1, <3>2 DEF AtomicInv, AtomicBuild, SameAs, Trees
    <3>4. AtomicBuild(t)'
      BY <1>0, <3>1, <3>3, PastKept DEF AtomicBuild
    <3> QED
      BY <1>0, <3>1, <3>4, AtomicThread
  <2>6. CASE UploadManifest(t)
    <3>1. /\ Only(t) /\ thr'[t].pc = "commit" /\ UNCHANGED <<past, disk, torn>> /\ thr[t].pc = "upload"
          /\ manifests' = [manifests EXCEPT ![thr[t].gen] = thr[t].tree]
      BY <1>0, <2>6, MoveEffects DEF UploadManifest, Moves, gateway
    <3> QED
      BY <1>0, <3>1, AtomicThread DEF AtomicBuild
  <2>7. CASE \/ Receipt(t) \/ ReceiptFails(t)
             \/ Refused(t) \/ RequestFails(t) \/ LocalStateFails(t) \/ AnswerLost(t)
    <3>1. Leaves(t) /\ UNCHANGED <<past, disk>> /\ Idle.pc = "idle"
      BY <1>0, <2>7, EndEffects DEF Idle
    <3>2. torn' = torn
      BY <2>7 DEF Receipt, ReceiptFails, Refused, RequestFails, LocalStateFails, AnswerLost,
         Abandon, gateway
    <3>3. \/ manifests' = manifests
          \/ /\ thr[t].pc = "upload"
             /\ manifests' = [manifests EXCEPT ![thr[t].gen] = thr[t].tree]
      BY <2>7 DEF Receipt, ReceiptFails, Refused, RequestFails, LocalStateFails, AnswerLost, store
    <3>4. Only(t) /\ AtomicBuild(t)'
      BY <3>1 DEF Leaves, AtomicBuild
    <3> QED
      BY <1>0, <3>1, <3>2, <3>3, <3>4, AtomicThread
  <2>8. CASE UploadChunk(t)
    BY <1>0, <2>8, AtomicQuiet DEF UploadChunk, gateway, engine
  <2> QED
    BY <1>1, <2>1, <2>2, <2>3, <2>4, <2>5, <2>6, <2>7, <2>8 DEF ThreadStep
<1>2. CASE GatewayDies \/ GatewayReady \/ GatewayStartFails \/ Tick
           \/ PeriodicWake \/ FingerprintFails \/ Shutdown
  BY <1>0, <1>2, AtomicQuiet DEF GatewayDies, GatewayReady, GatewayStartFails, Tick, PeriodicWake,
     FingerprintFails, Shutdown, gateway, engine, store
<1> QED
  BY <1>0, <1>1, <1>2, AtomicGateway DEF Next, GatewayStep

LEMMA AtomicInit == Init => AtomicInv
<1> SUFFICES ASSUME Init PROVE AtomicInv
  OBVIOUS
<1>1. TypeOK /\ Live = disk /\ Idle.pc = "idle"
  BY InitSafe DEF Init, IInv, Live, Idle
<1>2. InPast(disk, past)
  BY <1>1, PastKept
<1>3. \A g \in Gens : manifests[g] # None => manifests[g] = disk
  BY DEF Init
<1>4. \A t \in Threads : AtomicBuild(t)
  BY <1>1 DEF Init, AtomicBuild
<1> QED
  BY <1>2, <1>3, <1>4 DEF AtomicInv, AtomicStore

\* "every chunk and the manifest were read while the gateway was frozen": a
\* committed generation is a state all of the gateway's files had at one moment,
\* staged ones included, however attempts fail, whoever calls and whatever is
\* orphaned, unless the gateway wrote while an attempt at that number read.
THEOREM GenerationsAtomic == Spec => []CommitsAtomic
<1>1. EngineInv /\ AtomicInv /\ [Next]_vars => AtomicInv'
  <2> SUFFICES ASSUME EngineInv, AtomicInv, UNCHANGED vars PROVE AtomicInv'
    BY AtomicStep DEF EngineInv
  <2> QED
    BY AtomicQuiet DEF vars, EngineInv, IInv
<1>2. EngineInv /\ AtomicInv => CommitsAtomic
  BY DEF EngineInv, IInv, TypeOK, StoreTypeOK, CommitsHaveManifests, AtomicInv, AtomicStore,
     InPast, CommitsAtomic
<1> QED
  BY AtomicInit, EngineInvHolds, <1>1, <1>2, PTL DEF Spec

------------------------------------------------------------------------------
\* What it takes for the gateway to write while a checkpoint reads.

Undisturbed == Faults \cap {"death", "shutdown"} = {}

FrozenWalks ==
    /\ torn = {} /\ phase = "serving" /\ Alive
    /\ \A t \in Threads : Walking(t) => stopped

\* While the container serves only one thread is in the engine.
LEMMA OneActive ==
    ASSUME TypeOK, phase = "serving", NEW t \in Threads, NEW u \in Threads, Active(t), Active(u)
    PROVE  t = u
BY EngineAssumption DEF TypeOK, EngineTypeOK, Active

LEMMA FrozenWalksStep == ASSUME Undisturbed, TypeOK, FrozenWalks, Next PROVE FrozenWalks'
<1>0. "death" \notin Faults /\ "shutdown" \notin Faults
  BY DEF Undisturbed
<1>1. ASSUME NEW f \in Files, Write(f) PROVE FrozenWalks'
  <2>1. UNCHANGED <<thr, phase, proc>> /\ ~stopped
    BY <1>1 DEF Write, engine
  <2>2. \A t \in Threads : ~Walking(t)
    BY <2>1 DEF FrozenWalks
  <2>3. torn' = torn \cup {thr[t].gen : t \in {u \in Threads : Walking(u)}}
    BY <1>1 DEF Write
  <2>4. torn' = {}
    BY <2>2, <2>3 DEF FrozenWalks
  <2> QED
    BY <2>1, <2>2, <2>4 DEF FrozenWalks, Walking, Alive
<1>2. CASE GatewayReady \/ Tick \/ PeriodicWake \/ FingerprintFails \/ \E t \in Threads : UploadChunk(t)
  <2>1. UNCHANGED <<stopped, thr, phase, torn>> /\ proc' # "down"
    BY <1>2 DEF GatewayReady, Tick, PeriodicWake, FingerprintFails, UploadChunk, gateway, engine,
       FrozenWalks, Alive
  <2> QED
    BY <2>1 DEF FrozenWalks, Walking, Alive
<1>3. ~GatewayDies /\ ~GatewayStartFails /\ ~Shutdown /\ ~GatewayStart
  BY <1>0 DEF GatewayDies, GatewayStartFails, Shutdown, GatewayStart, Fault, FrozenWalks, Alive
<1>4. ASSUME NEW t \in Threads, ThreadStep(t), ~UploadChunk(t) PROVE FrozenWalks'
  <2>1. \A u \in Threads \ {t} : ~Active(u)
    <3> SUFFICES ASSUME NEW u \in Threads, u # t, Active(u) PROVE FALSE
      OBVIOUS
    <3>1. Active(t) \/ \E why \in Callers : Begin(t, why)
      BY <1>4 DEF ThreadStep, Active, Pause, Flush, Built, UploadChunk, UploadManifest, ReadFile,
         Commit, Receipt, ReceiptFails, Refused, RequestFails, LocalStateFails, AnswerLost
    <3>2. lock = u
      BY DEF TypeOK, EngineTypeOK, Active, FrozenWalks
    <3> QED
      BY <3>1, <3>2, OneActive, EngineAssumption DEF Begin, FrozenWalks
  <2>2. /\ Only(t) /\ UNCHANGED <<torn, proc>>
        /\ Walking(t)' => stopped'
        /\ phase' = "serving"
    <3>1. CASE \E why \in Callers : Begin(t, why)
      BY <3>1, BeginEffects DEF Begin, gateway, FrozenWalks, Walking
    <3>2. CASE Pause(t)
      BY <3>2, MoveEffects DEF Pause, Moves, FrozenWalks, Walking
    <3>3. CASE Flush(t)
      BY <3>3, FlushEffects DEF Flush, FrozenWalks, Walking
    <3>4. ASSUME NEW f \in Files, ReadFile(t, f)
          PROVE  Only(t) /\ UNCHANGED <<torn, proc, stopped, phase>> /\ Walking(t)
      BY <3>4, ReadEffects DEF ReadFile, gateway, Walking
    <3>5. CASE Built(t) \/ UploadManifest(t) \/ Commit(t)
      BY <3>5, MoveEffects DEF Built, UploadManifest, Commit, Moves, FrozenWalks, Walking, gateway
    <3>6. CASE \/ Receipt(t) \/ ReceiptFails(t)
               \/ Refused(t) \/ RequestFails(t) \/ LocalStateFails(t) \/ AnswerLost(t)
      <4>1. Leaves(t) /\ phase' = phase /\ Idle.pc = "idle"
        BY <3>6, EndEffects DEF Idle
      <4>2. UNCHANGED <<torn, proc>>
        BY <3>6 DEF Receipt, ReceiptFails, Refused, RequestFails, LocalStateFails, AnswerLost,
           Abandon, gateway
      <4> QED
        BY <4>1, <4>2 DEF Leaves, FrozenWalks, Walking
    <3> QED
      BY <1>4, <3>1, <3>2, <3>3, <3>4, <3>5, <3>6 DEF ThreadStep, FrozenWalks
  <2>3. \A u \in Threads \ {t} : ~Walking(u)'
    BY <2>1, <2>2 DEF Only, Active, Walking
  <2> QED
    BY <2>2, <2>3 DEF FrozenWalks, Alive
<1> QED
  BY <1>1, <1>2, <1>3, <1>4 DEF Next, GatewayStep

\* While the gateway does not die and no shutdown orphans a thread, every walk
\* reads a frozen gateway: no generation is torn, so all of them are atomic.
THEOREM WalksAreFrozen == ASSUME Undisturbed PROVE Spec => [](torn = {})
<1>1. Init => FrozenWalks
  BY DEF Init, FrozenWalks, Walking, Alive, Idle
<1>2. TypeOK /\ FrozenWalks /\ [Next]_vars => FrozenWalks'
  BY FrozenWalksStep DEF vars, FrozenWalks, Walking, Alive
<1>3. FrozenWalks => torn = {}
  BY DEF FrozenWalks
<1>4. IInv => TypeOK
  BY DEF IInv
<1> QED
  BY EngineInvariance, <1>1, <1>2, <1>3, <1>4, PTL DEF Spec
==============================================================================

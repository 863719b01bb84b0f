------------------------ MODULE RestoreEngineProofs ------------------------
(***************************************************************************)
(* Proofs about restores, checkpoints and sweeps over one bucket, for any  *)
(* number of entries, generations and faults.                              *)
(***************************************************************************)
EXTENDS RestoreEngine, WellFoundedInduction, FiniteSetTheorems, TLAPS

(***************************************************************************)
(* The inductive invariant.                                                *)
(***************************************************************************)

Installing == {"out", "in", "undo", "clean"}

Saving == {"upload", "manifest", "commit", "record"}

\* The collector stands still while a container runs, the manifest that is
\* being installed is there, and every attempt begins with nothing moved.
BoxInv ==
    /\ box.pc # "down" => gc.doomed = {}
    /\ box.pc \in {"fetch"} \cup Installing \cup Saving => box.gen \in Gens
    /\ box.pc \in Installing => store.man[box.gen] # None
    /\ box.undone => box.pc \in {"fetch", "failed"}
    /\ box.pc \in {"choose", "fetch"} => box.moved = {} /\ box.installed = {} /\ box.oldState = None

\* What a generation the collector keeps needs is stored and not being removed.
RetainInv ==
    \A g \in LatestK(Retain) :
        /\ store.man[g] # None /\ Used(store.man[g]) \subseteq store.chunks
        /\ g \notin gc.doomed /\ Used(store.man[g]) \cap gc.doomed = {}

\* A checkpoint adds a generation above all others whose chunks are stored.
SaveInv ==
    /\ box.index # None => box.index \subseteq store.chunks
    /\ box.pc = "down" => box.index = None
    /\ box.pc = "upload" => box.index \in SUBSET store.chunks
    /\ box.pc \in {"upload", "manifest", "commit"} => \A g \in store.commits : g < box.gen
    /\ box.pc \in {"manifest", "commit"} => Used(box.snap) \subseteq store.chunks
    /\ box.pc = "commit" => store.man[box.gen] = box.snap

\* The entries of t that no copy broke off in are those of truth.
Agrees(t) == \A n \in Names \ disk.torn : t[n] = truth[n]

\* A workspace that claims to be a generation is what was served of it.
ClaimInv ==
    /\ box.pc \in Up => Agrees(Served)
    /\ box.pc \notin Up /\ disk.state # None => Agrees(disk.ws)
    /\ box.pc = "clean" => disk.state # None

\* An install that may still have to be rolled back.
Undoable == box.pc \in {"out", "undo"} \/ (box.pc = "in" /\ disk.state = None)

\* What an install that is going on has moved, and can put back.
InstallInv ==
    /\ Undoable =>
         /\ box.prior[2] # None => Agrees(box.prior[1])
         /\ \A n \in box.moved : box.old[n] = box.prior[1][n]
         /\ IF box.oldState = None THEN disk.state = box.prior[2]
            ELSE disk.state = None /\ box.oldState = box.prior[2]
    /\ box.pc = "out" =>
         /\ box.stage = store.man[box.gen] /\ box.installed = {}
         /\ \A n \in Names : disk.ws[n] = IF n \in box.moved THEN None ELSE box.prior[1][n]
    /\ box.pc = "in" =>
         /\ \A n \in Names \ box.moved : box.prior[1][n] = None
         /\ \A n \in Names : IF box.stage[n] = None THEN disk.ws[n] = store.man[box.gen][n]
                             ELSE box.stage[n] = store.man[box.gen][n]
         /\ \A n \in Names \ box.installed : disk.ws[n] = None
         /\ disk.state # None => box.stage = Empty
    /\ box.pc = "undo" => \A n \in Names \ (box.moved \cup disk.torn) :
         IF n \in box.installed THEN box.prior[1][n] = None ELSE disk.ws[n] = box.prior[1][n]
    /\ box.pc \in {"out", "undo"} /\ disk.state # None => box.moved = {} /\ box.installed = {}
    /\ box.undone /\ box.pc \in {"fetch", "failed"} =>
         /\ disk.state = box.prior[2]
         /\ \A n \in Names \ disk.torn : disk.ws[n] = box.prior[1][n]

RestoreInv == TypeOK /\ BoxInv /\ RetainInv /\ SaveInv /\ ClaimInv /\ InstallInv

(***************************************************************************)
(* Generations.                                                            *)
(***************************************************************************)

\* A non-empty set of bounded numbers has a largest one.
LEMMA Largest ==
    ASSUME NEW N \in Nat, NEW S, S \subseteq 0 .. N, S # {}
    PROVE  Greatest(S) \in S /\ \A k \in S : k <= Greatest(S)
<1> DEFINE R == OpToRel(<, Nat)
           T == {n \in Nat : N - n \in S}
<1>1. IsWellFoundedOn(R, Nat)
  BY NatLessThanWellFounded, Zenon
<1>2. T \subseteq Nat /\ T # {}
  <2>1. PICK s \in S : s \in 0 .. N
    OBVIOUS
  <2>2. N - s \in Nat /\ N - (N - s) = s
    BY <2>1
  <2> QED
    BY <2>2
<1>3. PICK x \in T : \A y \in T : <<y, x>> \notin R
  <2> HIDE DEF R, T
  <2> QED
    BY <1>1, <1>2, WFMin
<1>4. \A y \in T : ~(y < x)
  BY <1>3 DEF OpToRel
<1>5. ASSUME NEW k \in S PROVE k <= N - x
  <2>1. k \in 0 .. N /\ N - k \in Nat /\ N - (N - k) = k
    OBVIOUS
  <2>2. N - k \in T
    BY <2>1
  <2>3. ~(N - k < x)
    BY <1>4, <2>2
  <2> QED
    BY <2>1, <2>3
<1>6. \E m \in S : \A k \in S : k <= m
  BY <1>5
<1> QED
  BY <1>6 DEF Greatest

\* committed[-k:] of any set of commits.
Top(S, k) == {g \in S : Cardinality({h \in S : h > g}) < k}

\* Sets of generations are finite, and their sizes grow with them.
LEMMA Sizes ==
    ASSUME NEW S, S \subseteq Gens, NEW T, T \subseteq S
    PROVE  Cardinality(T) \in Nat /\ Cardinality(S) \in Nat /\ Cardinality(T) <= Cardinality(S)
<1>1. IsFiniteSet(Gens)
  BY ConstantsAssumption, FS_Interval DEF Gens
<1>2. IsFiniteSet(S)
  BY <1>1, FS_Subset
<1>3. IsFiniteSet(T) /\ Cardinality(T) <= Cardinality(S)
  BY <1>2, FS_Subset
<1> QED
  BY <1>2, <1>3, FS_CardinalityType

LEMMA TopGrows ==
    ASSUME NEW S, S \subseteq Gens, NEW k \in Nat, NEW m \in Gens, NEW g, g \in Top(S \cup {m}, k)
    PROVE  g \in Top(S, k) \/ g = m
<1> DEFINE A == {h \in S : h > g}
           B == {h \in S \cup {m} : h > g}
<1>1. A \subseteq B /\ B \subseteq Gens
  OBVIOUS
<1>2. Cardinality(A) \in Nat /\ Cardinality(B) \in Nat /\ Cardinality(A) <= Cardinality(B)
  BY <1>1, Sizes
<1>3. Cardinality(B) < k /\ g \in S \cup {m}
  BY DEF Top
<1> QED
  BY <1>2, <1>3 DEF Top

LEMMA TopKept ==
    ASSUME NEW S, S \subseteq Gens, NEW k \in Nat, NEW x \in S, x \notin Top(S, k), NEW g, g \in Top(S \ {x}, k)
    PROVE  g \in Top(S, k)
<1> DEFINE A == {h \in S \ {x} : h > g}
           B == {h \in S : h > g}
           C == {h \in S : h > x}
<1>1. g \in S /\ g \in Nat /\ x \in Nat /\ g # x /\ Cardinality(A) < k
  BY DEF Top, Gens
<1>2. ~(Cardinality(C) < k)
  BY DEF Top
<1>3. CASE x > g
  <2>1. \A h \in S : h > x => h > g /\ h # x
    BY <1>1, <1>3 DEF Gens
  <2>2. C \subseteq A /\ A \subseteq Gens
    BY <2>1
  <2>3. Cardinality(A) \in Nat /\ Cardinality(C) \in Nat /\ Cardinality(C) <= Cardinality(A)
    BY <2>2, Sizes
  <2> QED
    BY <1>1, <1>2, <2>3
<1>4. CASE ~(x > g)
  <2>1. A = B
    BY <1>4
  <2> QED
    BY <1>1, <2>1 DEF Top
<1> QED
  BY <1>3, <1>4

LEMMA TopTwo ==
    ASSUME NEW S, S \subseteq Gens, NEW g, g \in Top(S, 2)
    PROVE  g \in Top(S, Retain)
<1>1. Cardinality({h \in S : h > g}) \in Nat
  BY Sizes
<1> QED
  BY <1>1, ConstantsAssumption DEF Top

LEMMA LatestIsTop == \A k : LatestK(k) = Top(store.commits, k)
BY DEF LatestK, Top

(***************************************************************************)
(* Types.                                                                  *)
(***************************************************************************)

Contents == Values \cup {None, Torn}

LEMMA Trees ==
    /\ Empty \in Files /\ \A n \in Names : Empty[n] = None
    /\ \A f \in Files, n \in Names, v \in Contents :
         [f EXCEPT ![n] = v] \in Files
    /\ \A f \in Files, n \in Names : f[n] \in Contents
BY DEF Empty, Files, Contents

LEMMA OffIs ==
    /\ Off \in Box /\ Off.pc = "down"
    /\ [Off EXCEPT !.pc = "choose"] \in Box /\ [Off EXCEPT !.pc = "choose"].pc = "choose"
    /\ \A b \in {Off, [Off EXCEPT !.pc = "choose"]} :
          /\ b.index = None /\ ~b.undone /\ b.moved = {} /\ b.installed = {} /\ b.oldState = None
<1>1. None \in States
  BY DEF States
<1>2. Empty \in Files
  BY Trees
<1>3. Off \in Box
  BY <1>1, <1>2 DEF Off, Box
<1>4. /\ Off.pc = "down" /\ Off.index = None /\ Off.undone = FALSE /\ Off.moved = {} /\ Off.installed = {}
      /\ Off.oldState = None
  BY DEF Off
<1>5. PICK c : c = [Off EXCEPT !.pc = "choose"]
  BY Zenon
<1>6. c \in Box
  BY <1>3, <1>5 DEF Box
<1>7. /\ c.pc = "choose" /\ c.index = None /\ c.undone = FALSE /\ c.moved = {} /\ c.installed = {}
      /\ c.oldState = None
  BY <1>3, <1>4, <1>5 DEF Box
<1> QED
  BY <1>3, <1>4, <1>5, <1>6, <1>7

\* What is left of a container's restore of one generation.
LEMMA AnotherIs ==
    ASSUME TypeOK, NEW b \in Box, b.gen \in Gens
    PROVE  /\ Another(b) \in Box /\ Another(b).pc \in {"fetch", "failed"}
           /\ Another(b).pc = "fetch" => Another(b).gen \in Gens
           /\ Another(b).prior = b.prior /\ Another(b).undone = b.undone /\ Another(b).index = None
           /\ Another(b).moved = {} /\ Another(b).installed = {} /\ Another(b).oldState = None
<1> DEFINE before == {g \in store.commits : g < b.gen}
           rest == [Off EXCEPT !.prior = b.prior, !.undone = b.undone]
<1>1. /\ rest \in Box /\ rest.prior = b.prior /\ rest.undone = b.undone /\ rest.index = None
      /\ rest.moved = {} /\ rest.installed = {} /\ rest.oldState = None
  <2>1. Off \in Box /\ Off.index = None /\ Off.moved = {} /\ Off.installed = {} /\ Off.oldState = None
    BY OffIs
  <2> QED
    BY <2>1, ZenonT(60) DEF Box
<1>2. before # {} => Greatest(before) \in Gens
  <2>1. before \subseteq 0 .. MaxGen /\ before \subseteq Gens
    BY ConstantsAssumption DEF TypeOK, Store, Gens
  <2> QED
    BY <2>1, Largest, ConstantsAssumption
<1>3. Another(b) = IF b.second \/ before = {} THEN [rest EXCEPT !.pc = "failed"]
                   ELSE [rest EXCEPT !.pc = "fetch", !.gen = Greatest(before), !.second = TRUE]
  BY DEF Another
<1> HIDE DEF before, rest
<1>4. CASE b.second \/ before = {}
  BY <1>1, <1>3, <1>4 DEF Box
<1>5. CASE ~(b.second \/ before = {})
  <2>1. PICK g \in Gens : g = Greatest(before)
    BY <1>2, <1>5
  <2>2. Another(b) = [rest EXCEPT !.pc = "fetch", !.gen = g, !.second = TRUE]
    BY <1>3, <1>5, <2>1
  <2> QED
    BY <1>1, <2>2, ZenonT(60) DEF Box
<1> QED
  BY <1>4, <1>5

LEMMA ServingIs ==
    ASSUME TypeOK
    PROVE  /\ Serving \in Box /\ Serving.pc = "serve" /\ ~Serving.undone
           /\ Serving.index = box.index /\ Serving.live = box.live /\ Serving.synced = box.synced
<1>1. Off \in Box /\ ~Off.undone /\ box \in Box
  BY OffIs DEF TypeOK
<1> QED
  BY <1>1, ZenonT(60) DEF Serving, Box

LEMMA MaterializeIs ==
    ASSUME TypeOK, Materialize
    PROVE  /\ box' \in Box /\ box'.pc = "serve" /\ ~box'.undone /\ box'.index = box.index
           /\ StateHome # None => box'.live = disk.ws[StateHome]
<1> DEFINE home == IF StateHome = None THEN None ELSE disk.ws[StateHome]
<1>1. home \in Contents
  BY Trees, ConstantsAssumption DEF TypeOK, Disk, Contents
<1>2. Serving \in Box /\ Serving.pc = "serve" /\ ~Serving.undone /\ Serving.index = box.index
  BY ServingIs
<1>3. box' = [Serving EXCEPT !.live = home, !.synced = home]
  BY DEF Materialize
<1>4. StateHome # None => home = disk.ws[StateHome]
  OBVIOUS
<1> HIDE DEF home
<1> QED
  BY <1>1, <1>2, <1>3, <1>4 DEF Box, Contents

LEMMA Commits ==
    ASSUME TypeOK
    PROVE  /\ store.commits \subseteq Gens
           /\ store.commits # {} => Latest \in store.commits /\ \A g \in store.commits : g <= Latest
           /\ NextGeneration \in Nat
           /\ \A g \in store.commits : g < NextGeneration
<1>1. MaxGen \in Nat
  BY ConstantsAssumption
<1>2. store.commits \subseteq Gens /\ store.commits \subseteq 0 .. MaxGen
  BY <1>1 DEF TypeOK, Store, Gens
<1>3. store.commits # {} => Latest \in store.commits /\ \A g \in store.commits : g <= Latest
  BY <1>1, <1>2, Largest DEF Latest
<1> DEFINE all == {0} \cup store.commits \cup {g \in Gens : store.man[g] # None}
<1>4. all # {} /\ all \subseteq 0 .. MaxGen /\ store.commits \subseteq all
  BY <1>1, <1>2 DEF Gens
<1>5. NextGeneration = Greatest(all) + 1
  BY DEF NextGeneration
<1> HIDE DEF all
<1>6. Greatest(all) \in all /\ \A g \in all : g <= Greatest(all)
  BY <1>1, <1>4, Largest
<1>7. Greatest(all) \in 0 .. MaxGen
  BY <1>4, <1>6
<1> QED
  BY <1>1, <1>2, <1>3, <1>4, <1>5, <1>6, <1>7

\* A fault is counted, or there is none.
LEMMA Faults == TypeOK /\ (Fault \/ UNCHANGED faults) => faults' \in 0 .. MaxFaults
BY ConstantsAssumption DEF TypeOK, Fault

LEMMA TypeNext == TypeOK /\ BoxInv /\ SaveInv /\ [Next]_vars => TypeOK'
<1> SUFFICES ASSUME TypeOK, BoxInv, SaveInv, [Next]_vars PROVE TypeOK'
  OBVIOUS
<1>1. /\ store \in Store /\ disk \in Disk /\ box \in Box /\ gc \in Collector /\ truth \in Files
      /\ faults \in 0 .. MaxFaults
  BY DEF TypeOK
<1>2. disk.ws \in Files /\ disk.state \in States /\ disk.torn \in SUBSET Names
  BY <1>1 DEF Disk
<1>3. None \in States /\ Foreign \in States /\ Gens \subseteq States
  BY DEF States
<1>4. Torn \in Contents /\ None \in Contents /\ Values \subseteq Contents
  BY DEF Contents
<1>5. box.pc \in Installing => store.man[box.gen] \in Files
  BY <1>1 DEF BoxInv, Store
<1>6. Cleared(disk) \in Disk /\ Cleared(disk).ws = disk.ws /\ Cleared(disk).state = disk.state /\ Cleared(disk).torn = disk.torn
  BY <1>1 DEF Cleared, Disk
<1>7. WithoutInstalled \in Files
  BY <1>2, Trees DEF WithoutInstalled, Files
<1>8. CASE Boot
  <2>1. box' \in Box /\ disk' \in Disk
    <3>1. box' \in Box
      BY <1>8, OffIs DEF Boot
    <3>2. Blank \in Disk
      BY <1>3, Trees DEF Blank, Disk
    <3>3. [disk EXCEPT !.state = Foreign] \in Disk
      BY <1>1, <1>3 DEF Disk
    <3> QED
      BY <1>1, <1>8, <3>1, <3>2, <3>3 DEF Boot
  <2> QED
    BY <1>1, <1>8, <2>1 DEF Boot, TypeOK
<1>9. CASE Initialize \/ KeepLocal \/ Serve
  <2>1. box' \in Box
    BY <1>9, MaterializeIs DEF Initialize, KeepLocal, Serve
  <2> QED
    BY <1>1, <1>2, <1>6, <1>9, <2>1 DEF Initialize, KeepLocal, Serve, TypeOK
<1>10. CASE Choose
  <2>1. Latest \in Gens
    BY <1>10, Commits DEF Choose
  <2>2. box' \in Box
    BY <1>1, <1>10, <2>1 DEF Choose, Box
  <2> QED
    BY <1>1, <1>10, <2>2 DEF Choose, TypeOK
<1>11. CASE Stage
  <2>1. box.gen \in Gens /\ store.man[box.gen] \in Files
    BY <1>1, <1>11 DEF Stage, BoxInv, Readable, Decodes, Store
  <2>2. <<disk.ws, disk.state>> \in Files \X States
    BY <1>2
  <2>3. box' = [box EXCEPT !.pc = "out", !.stage = store.man[box.gen], !.undone = FALSE,
                             !.prior = <<disk.ws, disk.state>>]
    BY <1>11 DEF Stage
  <2>4. box' \in Box
    BY <1>1, <2>1, <2>2, <2>3 DEF Box
  <2>5. disk' \in Disk
    BY <1>6, <1>11 DEF Stage, Disk
  <2> QED
    BY <1>1, <1>11, <2>4, <2>5 DEF Stage, TypeOK
<1>12. CASE FetchFails \/ UndoFails \/ CleanFails
  <2>1. box.gen \in Gens
    BY <1>12 DEF FetchFails, UndoFails, CleanFails, BoxInv, Installing
  <2>2. box' \in Box
    BY <1>1, <1>12, <2>1, AnotherIs DEF FetchFails, UndoFails, CleanFails
  <2>3. [disk EXCEPT !.ws = WithoutInstalled] \in Disk
    BY <1>1, <1>7 DEF Disk
  <2>4. disk' \in Disk
    BY <1>1, <1>6, <1>12, <2>3 DEF FetchFails, UndoFails, CleanFails
  <2>5. faults' \in 0 .. MaxFaults
    BY <1>12, Faults DEF FetchFails, UndoFails, CleanFails
  <2> QED
    BY <1>1, <1>12, <2>2, <2>4, <2>5 DEF FetchFails, UndoFails, CleanFails, TypeOK
<1>13. CASE StateOut
  <2>1. box' \in Box
    BY <1>1, <1>2, <1>13 DEF StateOut, Box
  <2>2. disk' \in Disk
    BY <1>1, <1>3, <1>13 DEF StateOut, Disk
  <2> QED
    BY <1>1, <1>13, <2>1, <2>2 DEF StateOut, TypeOK
<1>14. ASSUME NEW n \in Names, MoveOut(n) PROVE TypeOK'
  <2>1. [disk.ws EXCEPT ![n] = None] \in Files /\ [box.old EXCEPT ![n] = disk.ws[n]] \in Files
    BY <1>1, <1>2, <1>4, Trees DEF Box
  <2>2. disk' = [disk EXCEPT !.ws = [disk.ws EXCEPT ![n] = None]]
    BY <1>1, <1>14 DEF MoveOut, Disk
  <2>3. box' = [box EXCEPT !.moved = box.moved \cup {n}, !.old = [box.old EXCEPT ![n] = disk.ws[n]]]
    BY <1>1, <1>14 DEF MoveOut, Box
  <2>4. disk' \in Disk
    BY <1>1, <2>1, <2>2 DEF Disk
  <2>5. box' \in Box
    BY <1>1, <2>1, <2>3 DEF Box
  <2> QED
    BY <1>1, <1>14, <2>4, <2>5 DEF MoveOut, TypeOK
<1>15. CASE AllOut \/ AllIn
  <2>1. box' \in Box
    BY <1>1, <1>15 DEF AllOut, AllIn, Goto, Box
  <2> QED
    BY <1>1, <1>15, <2>1 DEF AllOut, AllIn, TypeOK
<1>16. ASSUME NEW n \in Names, MoveIn(n) PROVE TypeOK'
  <2>1. [disk.ws EXCEPT ![n] = box.stage[n]] \in Files /\ [box.stage EXCEPT ![n] = None] \in Files
    BY <1>1, <1>2, <1>4, Trees DEF Box
  <2>2. disk' = [disk EXCEPT !.ws = [disk.ws EXCEPT ![n] = box.stage[n]]]
    BY <1>1, <1>16 DEF MoveIn, Disk
  <2>3. box' = [box EXCEPT !.installed = box.installed \cup {n}, !.stage = [box.stage EXCEPT ![n] = None]]
    BY <1>1, <1>16 DEF MoveIn, Box
  <2>4. disk' \in Disk
    BY <1>1, <2>1, <2>2 DEF Disk
  <2>5. box' \in Box
    BY <1>1, <2>1, <2>3 DEF Box
  <2> QED
    BY <1>1, <1>16, <2>4, <2>5 DEF MoveIn, TypeOK
<1>17. CASE StateIn
  <2>1. box.gen \in States /\ truth' \in Files
    BY <1>3, <1>5, <1>17 DEF StateIn, BoxInv, Installing
  <2>2. disk' \in Disk
    BY <1>1, <1>17, <2>1 DEF StateIn, Disk
  <2> QED
    BY <1>1, <1>17, <2>1, <2>2 DEF StateIn, TypeOK
<1>18. CASE MoveFails
  <2>1. box' \in Box
    BY <1>1, <1>18 DEF MoveFails, Goto, Box
  <2>2. ASSUME NEW n \in Names, NEW S \in SUBSET Names, disk' = [disk EXCEPT !.ws[n] = Torn, !.torn = S]
        PROVE  disk' \in Disk
    <3>1. [disk.ws EXCEPT ![n] = Torn] \in Files
      BY <1>2, <1>4, Trees
    <3>2. disk' = [disk EXCEPT !.ws = [disk.ws EXCEPT ![n] = Torn], !.torn = S]
      BY <1>1, <2>2 DEF Disk
    <3> QED
      BY <1>1, <3>1, <3>2 DEF Disk
  <2>3. \/ disk' = disk
        \/ \E n \in Names : \E S \in SUBSET Names : disk' = [disk EXCEPT !.ws[n] = Torn, !.torn = S]
    BY <1>2, <1>18 DEF MoveFails
  <2>4. disk' \in Disk
    BY <1>1, <2>2, <2>3
  <2>5. faults' \in 0 .. MaxFaults
    BY <1>18, Faults DEF MoveFails
  <2> QED
    BY <1>1, <1>18, <2>1, <2>4, <2>5 DEF MoveFails, TypeOK
<1>19. ASSUME NEW n \in Names, UndoMove(n) PROVE TypeOK'
  <2>1. [WithoutInstalled EXCEPT ![n] = box.old[n]] \in Files
    BY <1>1, <1>7, Trees DEF Box
  <2>2. disk' \in Disk
    BY <1>1, <1>19, <2>1 DEF UndoMove, Disk
  <2>3. box' \in Box
    BY <1>1, <1>19 DEF UndoMove, Box
  <2> QED
    BY <1>1, <1>19, <2>2, <2>3 DEF UndoMove, TypeOK
<1>20. CASE Undone
  <2>1. [box EXCEPT !.undone = TRUE] \in Box /\ [box EXCEPT !.undone = TRUE].gen = box.gen /\ box.gen \in Gens
    BY <1>1, <1>20 DEF Undone, Box, BoxInv, Installing
  <2>2. box' \in Box
    BY <1>20, <2>1, AnotherIs DEF Undone
  <2>3. disk' \in Disk
    BY <1>1, <1>7, <1>20 DEF Undone, Disk, Box
  <2> QED
    BY <1>1, <1>20, <2>2, <2>3 DEF Undone, TypeOK
<1>21. CASE TryAgain
  BY <1>1, <1>21, OffIs DEF TryAgain, TypeOK
<1>22. ASSUME NEW n \in Names, NEW v \in Values \cup {None}, Edit(n, v) PROVE TypeOK'
  <2>1. v \in Contents
    BY <1>4
  <2>2. truth' \in Files
    BY <1>1, <1>22, <2>1, Trees DEF Edit
  <2>3. CASE n = StateHome
    <3>1. box' \in Box
      BY <1>1, <1>22, <2>1, <2>3 DEF Edit, Box, Contents
    <3> QED
      BY <1>1, <1>22, <2>2, <2>3, <3>1 DEF Edit, TypeOK
  <2>4. CASE n # StateHome
    <3>1. disk' = [disk EXCEPT !.ws = [disk.ws EXCEPT ![n] = v]]
      BY <1>1, <1>22, <2>4 DEF Edit, Disk
    <3>2. [disk.ws EXCEPT ![n] = v] \in Files
      BY <1>2, <2>1, Trees
    <3>3. disk' \in Disk
      BY <1>1, <3>1, <3>2 DEF Disk
    <3> QED
      BY <1>1, <1>22, <2>2, <2>4, <3>3 DEF Edit, TypeOK
  <2> QED
    BY <2>3, <2>4
<1>23. CASE Flush
  <2>1. StateHome \in Names
    BY <1>23, ConstantsAssumption DEF Flush
  <2>2. disk' = [disk EXCEPT !.ws = [disk.ws EXCEPT ![StateHome] = None]]
    BY <1>1, <1>23 DEF Flush, Disk
  <2>3. [disk.ws EXCEPT ![StateHome] = None] \in Files
    BY <1>2, <1>4, <2>1, Trees
  <2>4. disk' \in Disk
    BY <1>1, <2>2, <2>3 DEF Disk
  <2>5. box' \in Box
    BY <1>1, <1>23 DEF Flush, Goto, Box
  <2> QED
    BY <1>1, <1>23, <2>4, <2>5 DEF Flush, TypeOK
<1>24. CASE Checkpoint
  <2>1. Synchronized \in Files
    BY <1>1, <1>2, Trees, ConstantsAssumption DEF Synchronized, Box, Contents
  <2>2. disk' \in Disk
    BY <1>1, <1>24, <2>1 DEF Checkpoint, Disk
  <2>3. (IF box.index = None THEN store.chunks ELSE box.index) \in (SUBSET Values) \cup {None}
    BY <1>1 DEF Box, Store
  <2>4. NextGeneration \in Gens \cup {None}
    BY <1>24 DEF Checkpoint
  <2>5. box' = [box EXCEPT !.pc = "upload", !.gen = NextGeneration, !.snap = Synchronized,
                          !.synced = box.live, !.index = IF box.index = None THEN store.chunks ELSE box.index]
    BY <1>1, <1>24 DEF Checkpoint, Box
  <2>6. box' \in Box
    BY <1>1, <2>1, <2>3, <2>4, <2>5, ZenonT(60) DEF Box
  <2> QED
    BY <1>1, <1>24, <2>2, <2>6 DEF Checkpoint, TypeOK
<1>25. CASE Upload
  <2>1. Used(box.snap) \subseteq Values /\ store.chunks \subseteq Values /\ box.index \subseteq store.chunks
    BY <1>1, <1>25 DEF Upload, Used, Store, SaveInv
  <2>2. box.index \cup Used(box.snap) \in (SUBSET Values) \cup {None}
    BY <2>1
  <2>3. box' = [box EXCEPT !.pc = "manifest", !.index = box.index \cup Used(box.snap)]
    BY <1>1, <1>25 DEF Upload, Box
  <2>4. box' \in Box
    BY <1>1, <2>2, <2>3 DEF Box
  <2>5. store' = [store EXCEPT !.chunks = store.chunks \cup (Used(box.snap) \ box.index)]
    BY <1>1, <1>25 DEF Upload, Store
  <2>6. store' \in Store
    BY <1>1, <2>1, <2>5 DEF Store
  <2> QED
    BY <1>1, <1>25, <2>4, <2>6 DEF Upload, TypeOK
<1>26. CASE PutManifest
  <2>1. box.gen \in Gens /\ box.snap \in Files
    BY <1>1, <1>26 DEF PutManifest, BoxInv, Saving, Box
  <2>2. store' = [store EXCEPT !.man = [store.man EXCEPT ![box.gen] = box.snap]]
    BY <1>1, <1>26 DEF PutManifest, Store
  <2>3. [store.man EXCEPT ![box.gen] = box.snap] \in [Gens -> Files \cup {None}]
    BY <1>1, <2>1 DEF Store
  <2>4. store' \in Store
    BY <1>1, <2>2, <2>3 DEF Store
  <2>5. box' \in Box
    BY <1>1, <1>26 DEF PutManifest, Goto, Box
  <2> QED
    BY <1>1, <1>26, <2>4, <2>5 DEF PutManifest, TypeOK
<1>27. CASE Commit
  <2>1. box.gen \in Gens
    BY <1>27 DEF Commit, BoxInv, Saving
  <2>2. store' \in Store
    BY <1>1, <1>27, <2>1 DEF Commit, Store
  <2>3. box' \in Box
    BY <1>1, <1>27 DEF Commit, Goto, Box
  <2> QED
    BY <1>1, <1>27, <2>2, <2>3 DEF Commit, TypeOK
<1>28. CASE Record
  <2>1. box.gen \in States
    BY <1>3, <1>28 DEF Record, BoxInv, Saving
  <2>2. disk' \in Disk /\ box' \in Box
    BY <1>1, <1>28, <2>1, ServingIs DEF Record, Disk
  <2> QED
    BY <1>1, <1>28, <2>2 DEF Record, TypeOK
<1>29. CASE CheckpointFails
  <2>1. box' \in Box /\ faults' \in 0 .. MaxFaults
    BY <1>29, ServingIs, Faults DEF CheckpointFails
  <2> QED
    BY <1>1, <1>29, <2>1 DEF CheckpointFails, TypeOK
<1>30. CASE End
  <2>1. box' \in Box /\ faults' \in 0 .. MaxFaults
    BY <1>30, OffIs, Faults DEF End
  <2>2. CASE StateHome = None
    BY <1>1, <1>30, <2>1, <2>2 DEF End, Left, TypeOK
  <2>3. CASE StateHome # None
    <3>1. StateHome \in Names /\ box.synced \in Contents
      BY <1>1, <2>3, ConstantsAssumption DEF Box, Contents
    <3>2. disk' \in Disk
      <4>1. PICK S \in SUBSET Names : disk' = [disk EXCEPT !.torn = S]
        BY <1>2, <1>30, <2>3, <3>1 DEF End, Left
      <4> QED
        BY <1>1, <4>1 DEF Disk
    <3>3. truth' \in Files
      BY <1>1, <1>30, <2>3, <3>1, Trees DEF End, Left
    <3> QED
      BY <1>1, <1>30, <2>1, <3>2, <3>3 DEF End, TypeOK
  <2> QED
    BY <2>2, <2>3
<1>31. CASE Corrupt
  <2>1. store' \in Store
    BY <1>1, <1>31 DEF Corrupt, Store
  <2>2. faults' \in 0 .. MaxFaults
    BY <1>31, Faults DEF Corrupt
  <2> QED
    BY <1>1, <1>31, <2>1, <2>2 DEF Corrupt, TypeOK
<1>32. CASE Mark \/ Sweep \/ SweepDies
  <2>1. Candidates \subseteq Gens \cup Values
    BY <1>1 DEF Candidates, Store
  <2>2. gc' \in Collector
    BY <1>1, <1>32, <2>1 DEF Mark, Sweep, SweepDies, Collector
  <2>3. faults' \in 0 .. MaxFaults
    BY <1>32, Faults DEF Mark, Sweep, SweepDies
  <2> QED
    BY <1>1, <1>32, <2>2, <2>3 DEF Mark, Sweep, SweepDies, TypeOK
<1>33. ASSUME NEW x \in Gens \cup Values, Remove(x) PROVE TypeOK'
  <2>1. gc' \in Collector
    BY <1>1, <1>33 DEF Remove, Collector
  <2>2. store' \in Store
    <3>1. [store EXCEPT !.chunks = store.chunks \ {x}] \in Store /\ [store EXCEPT !.commits = store.commits \ {x}] \in Store
      BY <1>1 DEF Store
    <3>2. ASSUME x \in Gens PROVE [store EXCEPT !.man = [store.man EXCEPT ![x] = None]] \in Store
      <4>1. [store.man EXCEPT ![x] = None] \in [Gens -> Files \cup {None}]
        BY <1>1, <3>2 DEF Store
      <4> QED
        BY <1>1, <4>1 DEF Store
    <3>3. \/ store' = [store EXCEPT !.chunks = store.chunks \ {x}]
          \/ store' = [store EXCEPT !.commits = store.commits \ {x}]
          \/ x \in Gens /\ store' = [store EXCEPT !.man = [store.man EXCEPT ![x] = None]]
      BY <1>1, <1>33 DEF Remove, Store
    <3> QED
      BY <3>1, <3>2, <3>3
  <2> QED
    BY <1>1, <1>33, <2>1, <2>2 DEF Remove, TypeOK
<1>34. CASE UNCHANGED vars
  BY <1>1, <1>34 DEF vars, TypeOK
<1> QED
  BY <1>8, <1>9, <1>10, <1>11, <1>12, <1>13, <1>14, <1>15, <1>16, <1>17, <1>18, <1>19, <1>20, <1>21, <1>22,
     <1>23, <1>24, <1>25, <1>26, <1>27, <1>28, <1>29, <1>30, <1>31, <1>32, <1>33, <1>34 DEF Next

(***************************************************************************)
(* Containers and the collector.                                           *)
(***************************************************************************)

LEMMA BoxNext == TypeOK /\ BoxInv /\ [Next]_vars => BoxInv'
<1> SUFFICES ASSUME TypeOK, BoxInv, [Next]_vars PROVE BoxInv'
  OBVIOUS
<1> USE DEF Installing, Saving
<1>1. store \in Store /\ box \in Box /\ store.man \in [Gens -> Files \cup {None}] /\ None \notin Files
  BY ConstantsAssumption DEF TypeOK, Store, Files
<1>2. CASE Boot \/ TryAgain \/ End
  <2>1. /\ box'.pc \in {"down", "choose"} /\ ~box'.undone
        /\ box'.moved = {} /\ box'.installed = {} /\ box'.oldState = None
    BY <1>2, OffIs DEF Boot, TryAgain, End
  <2>2. box'.pc = "choose" => gc'.doomed = {}
    BY <1>2, OffIs DEF Boot, TryAgain, End, BoxInv
  <2> QED
    BY <2>1, <2>2 DEF BoxInv
<1>3. CASE Initialize \/ KeepLocal \/ Serve
  <2>1. box'.pc = "serve" /\ ~box'.undone
    BY <1>3, MaterializeIs DEF Initialize, KeepLocal, Serve
  <2>2. gc' = gc /\ box.pc # "down"
    BY <1>3 DEF Initialize, KeepLocal, Serve
  <2> QED
    BY <2>1, <2>2 DEF BoxInv
<1>4. CASE Choose
  <2>1. Latest \in Gens
    BY <1>4, Commits DEF Choose
  <2>2. /\ box'.pc = "fetch" /\ box'.gen = Latest /\ gc' = gc /\ box.pc = "choose"
        /\ box'.moved = box.moved /\ box'.installed = box.installed /\ box'.oldState = box.oldState
    BY <1>1, <1>4 DEF Choose, Box
  <2> QED
    BY <2>1, <2>2 DEF BoxInv
<1>5. CASE Stage
  <2>1. box'.pc = "out" /\ box'.gen = box.gen /\ ~box'.undone /\ gc' = gc /\ store' = store /\ box.pc = "fetch"
    BY <1>1, <1>5 DEF Stage, Box
  <2>2. store.man[box.gen] # None
    BY <1>5 DEF Stage, Readable, Decodes
  <2> QED
    BY <2>1, <2>2 DEF BoxInv
<1>6. CASE FetchFails \/ UndoFails \/ CleanFails
  <2>1. box.gen \in Gens /\ box.pc # "down" /\ gc' = gc
    BY <1>6 DEF FetchFails, UndoFails, CleanFails, BoxInv
  <2>2. /\ box'.pc \in {"fetch", "failed"} /\ (box'.pc = "fetch" => box'.gen \in Gens)
        /\ box'.moved = {} /\ box'.installed = {} /\ box'.oldState = None
    BY <1>1, <1>6, <2>1, AnotherIs DEF FetchFails, UndoFails, CleanFails
  <2> QED
    BY <2>1, <2>2 DEF BoxInv
<1>7. CASE Undone
  <2>1. [box EXCEPT !.undone = TRUE] \in Box /\ [box EXCEPT !.undone = TRUE].gen = box.gen /\ box.gen \in Gens
    BY <1>1, <1>7 DEF Undone, Box, BoxInv
  <2>2. /\ box'.pc \in {"fetch", "failed"} /\ (box'.pc = "fetch" => box'.gen \in Gens)
        /\ box'.moved = {} /\ box'.installed = {} /\ box'.oldState = None
    BY <1>7, <2>1, AnotherIs DEF Undone
  <2> QED
    BY <1>7, <2>2 DEF BoxInv, Undone
<1>8. ASSUME box.pc \in {"out", "in", "undo"}, box'.pc \in Installing, box'.gen = box.gen,
             box'.undone = box.undone, gc' = gc, store' = store
      PROVE  BoxInv'
  BY <1>8 DEF BoxInv
<1>9. CASE StateOut \/ AllOut \/ StateIn \/ AllIn \/ MoveFails
           \/ \E n \in Names : MoveOut(n) \/ MoveIn(n) \/ UndoMove(n)
  <2>1. box.pc \in {"out", "in", "undo"} /\ gc' = gc /\ store' = store
    BY <1>9 DEF StateOut, AllOut, StateIn, AllIn, MoveFails, MoveOut, MoveIn, UndoMove
  <2>2. box'.pc \in Installing /\ box'.gen = box.gen /\ box'.undone = box.undone
    BY <1>1, <1>9, <2>1, ZenonT(60) DEF StateOut, AllOut, StateIn, AllIn, MoveFails, MoveOut, MoveIn, UndoMove, Goto, Box
  <2> QED
    BY <1>8, <2>1, <2>2
<1>10. ASSUME box.pc \in Up, box'.pc \in Up, box'.pc \in Saving => box'.gen \in Gens, gc' = gc,
              box'.undone = box.undone \/ ~box'.undone
       PROVE  BoxInv'
  BY <1>10 DEF BoxInv, Up
<1>11. ASSUME NEW n \in Names, NEW v \in Values \cup {None}, Edit(n, v) PROVE BoxInv'
  <2>1. box'.pc = box.pc /\ box'.gen = box.gen /\ box.pc \in Up /\ gc' = gc /\ box'.undone = box.undone
    BY <1>1, <1>11 DEF Edit, Box
  <2> QED
    BY <1>10, <2>1 DEF BoxInv
<1>12. CASE Flush
  <2>1. box'.pc = "flush" /\ box.pc = "serve" /\ gc' = gc /\ box'.undone = box.undone
    BY <1>1, <1>12 DEF Flush, Goto, Box
  <2> QED
    BY <1>10, <2>1 DEF Up
<1>13. CASE Checkpoint
  <2>1. /\ box'.pc = "upload" /\ box'.gen = NextGeneration /\ NextGeneration \in Gens /\ box.pc \in Up
        /\ gc' = gc /\ box'.undone = box.undone
    BY <1>1, <1>13 DEF Checkpoint, Box, Up
  <2> QED
    BY <1>10, <2>1 DEF Up
<1>14. CASE Upload \/ PutManifest \/ Commit
  <2>1. box'.pc \in Saving /\ box'.gen = box.gen /\ box.pc \in Saving /\ gc' = gc /\ box'.undone = box.undone
    BY <1>1, <1>14 DEF Upload, PutManifest, Commit, Goto, Box
  <2> QED
    BY <1>10, <2>1 DEF Up, BoxInv
<1>15. CASE Record \/ CheckpointFails
  <2>1. box'.pc = "serve" /\ box.pc \in Up /\ gc' = gc /\ ~box'.undone
    BY <1>15, ServingIs DEF Record, CheckpointFails, Up
  <2> QED
    BY <1>10, <2>1 DEF Up
<1>16. CASE Corrupt \/ UNCHANGED vars
  <2>1. store'.man = store.man /\ box' = box /\ gc' = gc
    BY <1>1, <1>16 DEF Corrupt, vars, Store
  <2> QED
    BY <2>1 DEF BoxInv
<1>17. CASE Mark \/ Sweep \/ SweepDies \/ \E x \in Gens \cup Values : Remove(x)
  <2>1. box' = box /\ box.pc = "down"
    BY <1>17 DEF Mark, Sweep, SweepDies, Remove, Markable, Collectable, BoxInv
  <2> QED
    BY <2>1 DEF BoxInv
<1> QED
  BY <1>2, <1>3, <1>4, <1>5, <1>6, <1>7, <1>9, <1>11, <1>12, <1>13, <1>14, <1>15, <1>16, <1>17 DEF Next

\* What the collector keeps stays while the store only changes elsewhere.
LEMMA RetainStays ==
    ASSUME TypeOK, RetainInv, store'.commits = store.commits,
           \A g \in store.commits : store'.man[g] = store.man[g],
           store.chunks \subseteq store'.chunks, gc'.doomed \in {gc.doomed, {}}
    PROVE  RetainInv'
<1>1. \A k : LatestK(k)' = LatestK(k)
  BY DEF LatestK
<1>2. LatestK(Retain) \subseteq store.commits
  BY DEF LatestK
<1> QED
  BY <1>1, <1>2 DEF RetainInv

LEMMA RetainNext == TypeOK /\ BoxInv /\ RetainInv /\ SaveInv /\ [Next]_vars => RetainInv'
<1> SUFFICES ASSUME TypeOK, BoxInv, RetainInv, SaveInv, [Next]_vars PROVE RetainInv'
  OBVIOUS
<1>1. store \in Store /\ box \in Box /\ gc \in Collector /\ None \notin Files /\ store.commits \subseteq Gens
  BY ConstantsAssumption DEF TypeOK, Store, Files
<1>2. ASSUME store' = store, gc'.doomed \in {gc.doomed, {}} PROVE RetainInv'
  BY <1>2, RetainStays
<1>3. CASE Upload
  <2>1. store'.commits = store.commits /\ store'.man = store.man /\ store.chunks \subseteq store'.chunks /\ gc' = gc
    BY <1>1, <1>3 DEF Upload, Store
  <2> QED
    BY <2>1, RetainStays
<1>4. CASE PutManifest
  <2>1. store'.commits = store.commits /\ store'.chunks = store.chunks /\ gc' = gc
    BY <1>1, <1>4 DEF PutManifest, Store
  <2>2. box.gen \notin store.commits /\ box.gen \in Gens
    BY <1>1, <1>4 DEF PutManifest, SaveInv, BoxInv, Saving, Gens
  <2>3. \A g \in store.commits : store'.man[g] = store.man[g]
    BY <1>1, <1>4, <2>2 DEF PutManifest, Store
  <2> QED
    BY <2>1, <2>3, RetainStays
<1>5. CASE Commit
  <2> DEFINE m == box.gen
  <2>1. store'.commits = store.commits \cup {m} /\ store'.chunks = store.chunks /\ store'.man = store.man /\ gc' = gc
    BY <1>1, <1>5 DEF Commit, Store
  <2>2. m \in Gens /\ store.man[m] = box.snap /\ Used(box.snap) \subseteq store.chunks /\ gc.doomed = {} /\ box.snap # None
    BY <1>1, <1>5 DEF Commit, BoxInv, Saving, SaveInv, Box
  <2>3. ASSUME NEW g \in LatestK(Retain)' PROVE g \in LatestK(Retain) \/ g = m
    <3>1. g \in Top(store.commits \cup {m}, Retain)
      BY <2>1, <2>3 DEF LatestK, Top
    <3>2. g \in Top(store.commits, Retain) \/ g = m
      BY <1>1, <2>2, <3>1, TopGrows, ConstantsAssumption
    <3> QED
      BY <3>2, LatestIsTop
  <2> QED
    BY <2>1, <2>2, <2>3 DEF RetainInv
<1>6. CASE Corrupt
  <2>1. store'.commits = store.commits /\ store'.chunks = store.chunks /\ store'.man = store.man /\ gc' = gc
    BY <1>1, <1>6 DEF Corrupt, Store
  <2> QED
    BY <2>1, RetainStays
<1>7. CASE Sweep
  <2>1. PICK due \in SUBSET Candidates : gc'.doomed = due
    BY <1>7 DEF Sweep
  <2>2. store' = store
    BY <1>7 DEF Sweep
  <2>3. ASSUME NEW g \in LatestK(Retain) PROVE g \notin due /\ Used(store.man[g]) \cap due = {}
    <3>1. g \in Gens /\ \A v \in Values : v \notin Gens
      BY <1>1, ConstantsAssumption DEF LatestK, Gens
    <3>2. g \notin due
      BY <1>1, <2>1, <2>3, <3>1 DEF Candidates, Store
    <3>3. ASSUME NEW v \in Used(store.man[g]), v \in due PROVE FALSE
      <4>1. v \in Values
        BY DEF Used
      <4>2. v \in UNION {Used(store.man[h]) : h \in LatestK(Retain)}
        BY <2>3, <3>3
      <4>3. v \notin store.commits
        BY <1>1, <3>1, <4>1
      <4> QED
        BY <2>1, <3>3, <4>2, <4>3 DEF Candidates
    <3> QED
      BY <3>2, <3>3
  <2>4. LatestK(Retain)' = LatestK(Retain)
    BY <2>2 DEF LatestK
  <2> QED
    BY <2>1, <2>2, <2>3, <2>4 DEF RetainInv
<1>8. ASSUME NEW x \in Gens \cup Values, Remove(x) PROVE RetainInv'
  <2>1. x \in gc.doomed /\ gc'.doomed \subseteq gc.doomed /\ x \notin LatestK(Retain)
    BY <1>1, <1>8 DEF Remove, Collector, RetainInv
  <2>2. CASE store' = [store EXCEPT !.chunks = @ \ {x}]
    <3>1. store'.commits = store.commits /\ store'.man = store.man /\ store'.chunks = store.chunks \ {x}
      BY <1>1, <2>2 DEF Store
    <3>2. LatestK(Retain)' = LatestK(Retain)
      BY <3>1 DEF LatestK
    <3> QED
      BY <2>1, <3>1, <3>2 DEF RetainInv
  <2>3. CASE x \in Gens /\ store' = [store EXCEPT !.man[x] = None]
    <3>1. /\ store'.commits = store.commits /\ store'.chunks = store.chunks
          /\ \A g \in Gens : g # x => store'.man[g] = store.man[g]
      BY <1>1, <2>3 DEF Store
    <3>2. LatestK(Retain)' = LatestK(Retain) /\ LatestK(Retain) \subseteq Gens
      BY <1>1, <3>1 DEF LatestK
    <3> QED
      BY <2>1, <3>1, <3>2 DEF RetainInv
  <2>4. CASE store' = [store EXCEPT !.commits = @ \ {x}]
    <3>1. store'.commits = store.commits \ {x} /\ store'.man = store.man /\ store'.chunks = store.chunks
      BY <1>1, <2>4 DEF Store
    <3>2. ASSUME NEW g \in LatestK(Retain)' PROVE g \in LatestK(Retain)
      <4>1. g \in Top(store.commits \ {x}, Retain)
        BY <3>1, <3>2 DEF LatestK, Top
      <4>2. CASE x \in store.commits
        <5>1. x \notin Top(store.commits, Retain)
          BY <2>1, LatestIsTop
        <5>2. g \in Top(store.commits, Retain)
          BY <1>1, <4>1, <4>2, <5>1, TopKept, ConstantsAssumption
        <5> QED
          BY <5>2, LatestIsTop
      <4>3. CASE x \notin store.commits
        <5>1. store.commits \ {x} = store.commits
          BY <4>3
        <5> QED
          BY <4>1, <5>1, LatestIsTop
      <4> QED
        BY <4>2, <4>3
    <3> QED
      BY <2>1, <3>1, <3>2 DEF RetainInv
  <2> QED
    BY <1>8, <2>2, <2>3, <2>4 DEF Remove
<1>9. CASE Mark \/ SweepDies
  BY <1>1, <1>2, <1>9 DEF Mark, SweepDies, Collector
<1>10. CASE UNCHANGED vars
  BY <1>2, <1>10 DEF vars
<1>11. CASE \/ Boot \/ Initialize \/ KeepLocal \/ Choose \/ Stage \/ FetchFails
            \/ StateOut \/ AllOut \/ StateIn \/ AllIn \/ MoveFails
            \/ \E n \in Names : MoveOut(n) \/ MoveIn(n) \/ UndoMove(n)
            \/ Undone \/ UndoFails \/ Serve \/ CleanFails \/ TryAgain
            \/ \E n \in Names, v \in Values \cup {None} : Edit(n, v)
            \/ Flush \/ Checkpoint \/ Record \/ CheckpointFails \/ End
  <2>1. store' = store /\ gc' = gc
    BY <1>11 DEF Boot, Initialize, KeepLocal, Choose, Stage, FetchFails, StateOut, AllOut, StateIn, AllIn,
         MoveFails, MoveOut, MoveIn, UndoMove, Undone, UndoFails, Serve, CleanFails, TryAgain, Edit, Flush,
         Checkpoint, Record, CheckpointFails, End
  <2> QED
    BY <1>2, <2>1
<1> QED
  BY <1>3, <1>4, <1>5, <1>6, <1>7, <1>8, <1>9, <1>10, <1>11 DEF Next

LEMMA SaveNext == TypeOK /\ BoxInv /\ SaveInv /\ [Next]_vars => SaveInv'
<1> SUFFICES ASSUME TypeOK, BoxInv, SaveInv, [Next]_vars PROVE SaveInv'
  OBVIOUS
<1>1. store \in Store /\ box \in Box /\ gc \in Collector
  BY DEF TypeOK
<1>2. ASSUME store' = store, box'.index = box.index \/ box'.index = None,
             box'.pc \notin {"upload", "manifest", "commit"}, box'.pc = "down" => box'.index = None
      PROVE  SaveInv'
  BY <1>2 DEF SaveInv
<1>3. CASE Boot \/ TryAgain \/ End
  BY <1>2, <1>3, OffIs DEF Boot, TryAgain, End
<1>4. CASE Initialize \/ KeepLocal \/ Serve
  BY <1>2, <1>4, MaterializeIs DEF Initialize, KeepLocal, Serve
<1>5. CASE Choose \/ Stage
  <2>1. store' = store /\ box'.pc \in {"fetch", "out"} /\ box'.index = box.index
    BY <1>1, <1>5 DEF Choose, Stage, Box
  <2> QED
    BY <1>2, <2>1
<1>6. CASE FetchFails \/ UndoFails \/ CleanFails
  <2>1. box.gen \in Gens /\ store' = store
    BY <1>6 DEF FetchFails, UndoFails, CleanFails, BoxInv, Installing
  <2>2. box'.pc \in {"fetch", "failed"} /\ box'.index = None
    BY <1>1, <1>6, <2>1, AnotherIs DEF FetchFails, UndoFails, CleanFails
  <2> QED
    BY <1>2, <2>1, <2>2
<1>7. CASE Undone
  <2>1. [box EXCEPT !.undone = TRUE] \in Box /\ [box EXCEPT !.undone = TRUE].gen \in Gens
    BY <1>1, <1>7 DEF Undone, Box, BoxInv, Installing
  <2>2. box'.pc \in {"fetch", "failed"} /\ box'.index = None /\ store' = store
    BY <1>7, <2>1, AnotherIs DEF Undone
  <2> QED
    BY <1>2, <2>2
<1>8. CASE StateOut \/ AllOut \/ StateIn \/ AllIn \/ MoveFails
           \/ \E n \in Names : MoveOut(n) \/ MoveIn(n) \/ UndoMove(n)
  <2>1. store' = store
    BY <1>8 DEF StateOut, AllOut, StateIn, AllIn, MoveFails, MoveOut, MoveIn, UndoMove
  <2>2. box'.pc \in Installing /\ box'.index = box.index
    BY <1>1, <1>8, ZenonT(60) DEF StateOut, AllOut, StateIn, AllIn, MoveFails, MoveOut, MoveIn, UndoMove, Goto, Box, Installing
  <2> QED
    BY <1>2, <2>1, <2>2 DEF Installing
<1>9. ASSUME NEW n \in Names, NEW v \in Values \cup {None}, Edit(n, v) PROVE SaveInv'
  <2>1. /\ box'.pc = box.pc /\ box'.gen = box.gen /\ box'.index = box.index /\ box'.snap = box.snap
        /\ store' = store
    BY <1>1, <1>9 DEF Edit, Box
  <2> QED
    BY <2>1 DEF SaveInv
<1>10. CASE Flush
  <2>1. box'.pc = "flush" /\ box'.index = box.index /\ store' = store
    BY <1>1, <1>10 DEF Flush, Goto, Box
  <2> QED
    BY <1>2, <2>1
<1>11. CASE Checkpoint
  <2>1. /\ box'.pc = "upload" /\ box'.gen = NextGeneration /\ store' = store
        /\ box'.index = IF box.index = None THEN store.chunks ELSE box.index
    BY <1>1, <1>11 DEF Checkpoint, Box
  <2>2. \A g \in store.commits : g < NextGeneration
    BY Commits
  <2>3. box'.index \subseteq store.chunks
    BY <2>1 DEF SaveInv
  <2> QED
    BY <2>1, <2>2, <2>3 DEF SaveInv
<1>12. CASE Upload
  <2>1. /\ box'.pc = "manifest" /\ box'.gen = box.gen /\ box'.snap = box.snap
        /\ box'.index = box.index \cup Used(box.snap)
        /\ store'.commits = store.commits /\ store'.chunks = store.chunks \cup (Used(box.snap) \ box.index)
    BY <1>1, <1>12 DEF Upload, Box, Store
  <2>2. box.pc = "upload" /\ box.index \subseteq store.chunks
    BY <1>12 DEF Upload, SaveInv
  <2>3. Used(box.snap) \subseteq store'.chunks /\ box'.index \subseteq store'.chunks
    BY <2>1, <2>2
  <2>4. Used(box'.snap) = Used(box.snap)
    BY <2>1
  <2> QED
    BY <2>1, <2>2, <2>3, <2>4 DEF SaveInv
<1>13. CASE PutManifest
  <2>1. /\ box'.pc = "commit" /\ box'.gen = box.gen /\ box'.snap = box.snap /\ box'.index = box.index
        /\ store'.commits = store.commits /\ store'.chunks = store.chunks /\ box.pc = "manifest"
    BY <1>1, <1>13 DEF PutManifest, Goto, Box, Store
  <2>2. store'.man[box.gen] = box.snap
    <3>1. box.gen \in Gens
      BY <2>1 DEF BoxInv, Saving
    <3> QED
      BY <1>1, <1>13, <3>1 DEF PutManifest, Store
  <2>3. Used(box'.snap) = Used(box.snap)
    BY <2>1
  <2> QED
    BY <2>1, <2>2, <2>3 DEF SaveInv
<1>14. CASE Commit
  <2>1. box'.pc = "record" /\ box'.index = box.index /\ store'.chunks = store.chunks
    BY <1>1, <1>14 DEF Commit, Goto, Box, Store
  <2> QED
    BY <2>1 DEF SaveInv
<1>15. CASE Record \/ CheckpointFails
  BY <1>2, <1>15, ServingIs DEF Record, CheckpointFails
<1>16. CASE Corrupt \/ UNCHANGED vars
  <2>1. store'.man = store.man /\ store'.commits = store.commits /\ store'.chunks = store.chunks /\ box' = box
    BY <1>1, <1>16 DEF Corrupt, vars, Store
  <2> QED
    BY <2>1 DEF SaveInv, Used
<1>17. CASE Mark \/ Sweep \/ SweepDies
  <2>1. store' = store /\ box' = box
    BY <1>17 DEF Mark, Sweep, SweepDies
  <2> QED
    BY <2>1 DEF SaveInv, Used
<1>18. ASSUME NEW x \in Gens \cup Values, Remove(x) PROVE SaveInv'
  <2>1. box' = box /\ box.pc = "down"
    BY <1>18 DEF Remove, BoxInv
  <2>2. box.index = None
    BY <2>1 DEF SaveInv
  <2> QED
    BY <2>1, <2>2 DEF SaveInv
<1> QED
  BY <1>3, <1>4, <1>5, <1>6, <1>7, <1>8, <1>9, <1>10, <1>11, <1>12, <1>13, <1>14, <1>15, <1>16, <1>17, <1>18
     DEF Next

(***************************************************************************)
(* What the workspace claims, and what an install can put back.            *)
(***************************************************************************)

\* A container with no install under way, and none just rolled back.
LEMMA NoInstall ==
    ASSUME box'.pc \notin {"out", "in", "undo"}, ~(box'.undone /\ box'.pc \in {"fetch", "failed"})
    PROVE  InstallInv'
BY DEF InstallInv, Undoable

\* The steps that begin, decide and end a container's work.
LEMMA ClaimChoice ==
    ASSUME TypeOK, BoxInv, ClaimInv, InstallInv,
           \/ Boot \/ Initialize \/ KeepLocal \/ Choose \/ Serve \/ TryAgain \/ End
    PROVE  ClaimInv' /\ InstallInv'
<1>1. box \in Box /\ disk \in Disk /\ truth \in Files /\ disk.ws \in Files
  BY DEF TypeOK, Disk
<1>2. None \notin Names /\ None \notin Gens /\ StateHome \in Names \cup {None}
  BY ConstantsAssumption DEF Gens
<1>3. CASE Boot
  <2>1. box'.pc = "choose" /\ ~box'.undone /\ truth' = truth /\ box.pc = "down"
    BY <1>3, OffIs DEF Boot
  <2>2. CASE disk' = disk
    BY <2>1, <2>2, NoInstall DEF ClaimInv, Agrees, Up
  <2>3. CASE disk' = Blank
    <3>1. disk'.state = None
      BY <2>3 DEF Blank
    <3> QED
      BY <2>1, <3>1, NoInstall DEF ClaimInv, Up
  <2>4. CASE disk.state # None /\ disk' = [disk EXCEPT !.state = Foreign]
    <3>1. disk'.ws = disk.ws /\ disk'.torn = disk.torn
      BY <1>1, <2>4 DEF Disk
    <3> QED
      BY <2>1, <2>4, <3>1, NoInstall DEF ClaimInv, Agrees, Up
  <2> QED
    BY <1>3, <2>2, <2>3, <2>4 DEF Boot
<1>4. CASE Initialize \/ KeepLocal \/ Serve
  <2>1. box'.pc = "serve" /\ ~box'.undone /\ (StateHome # None => box'.live = disk.ws[StateHome])
    BY <1>4, MaterializeIs DEF Initialize, KeepLocal, Serve
  <2>2. disk'.ws = disk.ws /\ disk'.torn = disk.torn
    BY <1>1, <1>4 DEF Initialize, KeepLocal, Serve, Cleared, Disk
  <2>3. \A n \in Names : Served'[n] = disk.ws[n]
    BY <1>2, <2>1, <2>2 DEF Served
  <2>4. \A n \in Names \ disk.torn : disk.ws[n] = truth'[n]
    <3>1. CASE Initialize
      BY <3>1 DEF Initialize
    <3>2. CASE KeepLocal
      <4>1. disk.state # None
        BY <1>2, <3>2, Commits DEF KeepLocal
      <4> QED
        BY <3>2, <4>1 DEF KeepLocal, ClaimInv, Agrees, Up
    <3>3. CASE Serve
      BY <3>3 DEF Serve, ClaimInv, Agrees, Up
    <3> QED
      BY <1>4, <3>1, <3>2, <3>3
  <2>5. Agrees(Served)'
    BY <2>2, <2>3, <2>4 DEF Agrees
  <2> QED
    BY <2>1, <2>5, NoInstall DEF ClaimInv, Up
<1>5. CASE Choose
  <2>1. box.pc = "choose" /\ box'.pc = "fetch" /\ box'.undone = box.undone /\ disk' = disk /\ truth' = truth
    BY <1>1, <1>5 DEF Choose, Box
  <2>2. ~box'.undone
    BY <2>1 DEF BoxInv
  <2> QED
    BY <2>1, <2>2, NoInstall DEF ClaimInv, Agrees, Up
<1>6. CASE TryAgain
  <2>1. box.pc = "failed" /\ box'.pc = "choose" /\ ~box'.undone /\ disk' = disk /\ truth' = truth
    BY <1>6, OffIs DEF TryAgain
  <2> QED
    BY <2>1, NoInstall DEF ClaimInv, Agrees, Up
<1>7. CASE End
  <2>1. box'.pc = "down" /\ ~box'.undone
    BY <1>7, OffIs DEF End
  <2>2. CASE StateHome = None
    <3>1. disk' = disk /\ truth' = truth
      BY <1>7, <2>2 DEF End, Left
    <3>2. \A n \in Names : Served[n] = disk.ws[n]
      BY <1>2, <2>2 DEF Served
    <3>3. disk.state # None => Agrees(disk.ws)
      BY <3>2 DEF ClaimInv, Agrees
    <3> QED
      BY <2>1, <3>1, <3>3, NoInstall DEF ClaimInv, Agrees, Up
  <2>3. CASE StateHome # None
    <3> DEFINE half == box.pc \in Up /\ disk.ws[StateHome] # box.synced
    <3>1. disk' = [disk EXCEPT !.torn = IF half THEN disk.torn \cup {StateHome} ELSE disk.torn]
      BY <1>1, <1>7, <2>3 DEF End, Left, Disk
    <3>2. /\ disk'.ws = disk.ws /\ disk'.state = disk.state
          /\ disk'.torn = IF half THEN disk.torn \cup {StateHome} ELSE disk.torn
      BY <1>1, <3>1 DEF Disk
    <3>3. truth' = IF box.pc \in Up THEN [truth EXCEPT ![StateHome] = box.synced] ELSE truth
      BY <1>7, <2>3 DEF End, Left
    <3>4. CASE box.pc \in Up
      <4>1. ASSUME NEW n \in Names, n \notin disk'.torn PROVE disk.ws[n] = truth'[n]
        <5>1. n \notin disk.torn
          BY <3>2, <4>1
        <5>2. CASE n = StateHome
          <6>1. truth'[n] = box.synced
            BY <1>1, <3>3, <3>4, <5>2 DEF Files
          <6>2. ~half
            BY <3>2, <4>1, <5>2
          <6> QED
            BY <3>4, <5>2, <6>1, <6>2
        <5>3. CASE n # StateHome
          <6>1. truth'[n] = truth[n]
            BY <1>1, <3>3, <3>4, <5>3 DEF Files
          <6>2. Served[n] = disk.ws[n]
            BY <5>3 DEF Served
          <6> QED
            BY <3>4, <5>1, <6>1, <6>2 DEF ClaimInv, Agrees
        <5> QED
          BY <5>2, <5>3
      <4>2. Agrees(disk.ws)'
        BY <3>2, <4>1 DEF Agrees
      <4> QED
        BY <2>1, <4>2, NoInstall DEF ClaimInv, Up
    <3>5. CASE box.pc \notin Up
      <4>1. truth' = truth /\ disk'.torn = disk.torn
        BY <3>2, <3>3, <3>5
      <4> QED
        BY <2>1, <3>2, <3>5, <4>1, NoInstall DEF ClaimInv, Agrees, Up
    <3> QED
      BY <3>4, <3>5
  <2> QED
    BY <2>2, <2>3
<1> QED
  BY <1>3, <1>4, <1>5, <1>6, <1>7

\* Serving and checkpoints.
LEMMA ClaimServing ==
    ASSUME TypeOK, BoxInv, ClaimInv,
           \/ \E n \in Names, v \in Values \cup {None} : Edit(n, v)
           \/ Flush \/ Checkpoint \/ Upload \/ PutManifest \/ Commit \/ Record \/ CheckpointFails
    PROVE  ClaimInv' /\ InstallInv'
<1>1. box \in Box /\ disk \in Disk /\ truth \in Files /\ disk.ws \in Files
  BY DEF TypeOK, Disk
<1>2. None \notin Names /\ StateHome \in Names \cup {None}
  BY ConstantsAssumption
<1>3. ASSUME box.pc \in Up, box'.pc \in Up, Agrees(Served)' PROVE ClaimInv' /\ InstallInv'
  BY <1>3, NoInstall DEF ClaimInv, Up
<1>4. ASSUME box.pc \in Up, box'.pc \in Up, truth' = truth, disk'.torn = disk.torn,
             \A n \in Names : Served'[n] = Served[n]
      PROVE  ClaimInv' /\ InstallInv'
  <2>1. Agrees(Served)'
    BY <1>4 DEF ClaimInv, Agrees
  <2> QED
    BY <1>3, <1>4, <2>1
<1>5. ASSUME NEW n \in Names, NEW v \in Values \cup {None}, Edit(n, v) PROVE ClaimInv' /\ InstallInv'
  <2>1. box.pc \in Up /\ box'.pc = box.pc /\ disk'.torn = disk.torn
    BY <1>1, <1>5 DEF Edit, Box, Disk
  <2>2. ASSUME NEW m \in Names
        PROVE  Served'[m] = (IF m = n THEN v ELSE Served[m]) /\ truth'[m] = (IF m = n THEN v ELSE truth[m])
    <3>1. truth'[m] = (IF m = n THEN v ELSE truth[m])
      BY <1>1, <1>5 DEF Edit, Files
    <3>2. CASE n = StateHome
      <4>1. box'.live = v /\ disk' = disk
        BY <1>1, <1>5, <3>2 DEF Edit, Box
      <4> QED
        BY <3>1, <3>2, <4>1 DEF Served
    <3>3. CASE n # StateHome
      <4>1. box' = box /\ disk'.ws = [disk.ws EXCEPT ![n] = v]
        BY <1>1, <1>5, <3>3 DEF Edit, Disk
      <4> QED
        BY <1>1, <3>1, <3>3, <4>1 DEF Served, Files
    <3> QED
      BY <3>2, <3>3
  <2>3. Agrees(Served)'
    BY <2>1, <2>2 DEF ClaimInv, Agrees
  <2> QED
    BY <1>3, <2>1, <2>3
<1>6. CASE Flush
  <2>1. box.pc = "serve" /\ box'.pc = "flush" /\ box'.live = box.live /\ truth' = truth
    BY <1>1, <1>6 DEF Flush, Goto, Box
  <2>2. disk'.torn = disk.torn /\ disk'.ws = [disk.ws EXCEPT ![StateHome] = None]
    BY <1>1, <1>6 DEF Flush, Disk
  <2>3. \A n \in Names : Served'[n] = Served[n]
    BY <1>1, <2>1, <2>2 DEF Served, Files
  <2> QED
    BY <1>4, <2>1, <2>2, <2>3 DEF Up
<1>7. CASE Checkpoint
  <2>1. box.pc \in {"serve", "flush"} /\ box'.pc = "upload" /\ box'.live = box.live /\ truth' = truth
    BY <1>1, <1>7 DEF Checkpoint, Box
  <2>2. disk'.torn = disk.torn /\ disk'.ws = Synchronized
    BY <1>1, <1>7 DEF Checkpoint, Disk
  <2>3. \A n \in Names : Served'[n] = Served[n]
    BY <1>1, <1>2, <2>1, <2>2 DEF Served, Synchronized, Files
  <2> QED
    BY <1>4, <2>1, <2>2, <2>3 DEF Up
<1>8. CASE Upload \/ PutManifest \/ Commit
  <2>1. box.pc \in Up /\ box'.pc \in Up /\ box'.live = box.live /\ truth' = truth /\ disk' = disk
    BY <1>1, <1>8 DEF Upload, PutManifest, Commit, Goto, Box, Up
  <2>2. \A n \in Names : Served'[n] = Served[n]
    BY <2>1 DEF Served
  <2> QED
    BY <1>4, <2>1, <2>2
<1>9. CASE Record \/ CheckpointFails
  <2>1. box.pc \in Up /\ box'.pc = "serve" /\ box'.live = box.live /\ truth' = truth
    BY <1>9, ServingIs DEF Record, CheckpointFails, Up
  <2>2. disk'.torn = disk.torn /\ disk'.ws = disk.ws
    BY <1>1, <1>9 DEF Record, CheckpointFails, Disk
  <2>3. \A n \in Names : Served'[n] = Served[n]
    BY <2>1, <2>2 DEF Served
  <2> QED
    BY <1>4, <2>1, <2>2, <2>3 DEF Up
<1> QED
  BY <1>5, <1>6, <1>7, <1>8, <1>9

\* An install that goes well: the state file out first and in last.
LEMMA ClaimMoving ==
    ASSUME TypeOK, BoxInv, ClaimInv, InstallInv,
           \/ Stage \/ StateOut \/ AllOut \/ StateIn \/ AllIn
           \/ \E n \in Names : MoveOut(n) \/ MoveIn(n)
    PROVE  ClaimInv' /\ InstallInv'
<1>1. /\ box \in Box /\ disk \in Disk /\ truth \in Files /\ disk.ws \in Files
      /\ box.stage \in Files /\ box.old \in Files /\ box.prior \in Files \X States
  BY DEF TypeOK, Disk, Box
<1>2. None \notin Gens
  BY ConstantsAssumption DEF Gens
<1>3. CASE Stage
  <2>1. /\ box.pc = "fetch" /\ box'.pc = "out" /\ box'.stage = store.man[box.gen] /\ box'.gen = box.gen
        /\ box'.undone = FALSE /\ box'.prior = <<disk.ws, disk.state>> /\ box'.moved = box.moved
        /\ box'.installed = box.installed /\ box'.oldState = box.oldState
    BY <1>1, <1>3 DEF Stage, Box
  <2>2. disk'.ws = disk.ws /\ disk'.state = disk.state /\ disk'.torn = disk.torn
    BY <1>1, <1>3 DEF Stage, Cleared, Disk
  <2>3. store' = store /\ truth' = truth
    BY <1>3 DEF Stage
  <2>4. box.moved = {} /\ box.installed = {} /\ box.oldState = None
    BY <2>1 DEF BoxInv
  <2>5. box'.prior[1] = disk.ws /\ box'.prior[2] = disk.state
    BY <2>1
  <2>6. disk.state # None => Agrees(disk.ws)
    BY <2>1 DEF ClaimInv, Up
  <2>7. ClaimInv'
    BY <2>1, <2>2, <2>3, <2>6 DEF ClaimInv, Agrees, Up
  <2>8. InstallInv'
    BY <2>1, <2>2, <2>3, <2>4, <2>5, <2>6 DEF InstallInv, Undoable, Agrees
  <2> QED
    BY <2>7, <2>8
<1>4. CASE StateOut
  <2>1. /\ box.pc = "out" /\ box'.pc = "out" /\ box'.oldState = disk.state /\ disk.state # None
        /\ box'.stage = box.stage /\ box'.gen = box.gen /\ box'.installed = box.installed
        /\ box'.moved = box.moved /\ box'.prior = box.prior /\ box'.old = box.old /\ box'.undone = box.undone
    BY <1>1, <1>4 DEF StateOut, Box
  <2>2. disk'.ws = disk.ws /\ disk'.state = None /\ disk'.torn = disk.torn
    BY <1>1, <1>4 DEF StateOut, Disk
  <2>3. store' = store /\ truth' = truth
    BY <1>4 DEF StateOut
  <2>4. ClaimInv'
    BY <2>1, <2>2 DEF ClaimInv, Up
  <2>5. InstallInv'
    BY <2>1, <2>2, <2>3 DEF InstallInv, Undoable, Agrees
  <2> QED
    BY <2>4, <2>5
<1>5. ASSUME NEW n \in Names, MoveOut(n) PROVE ClaimInv' /\ InstallInv'
  <2>1. /\ box.pc = "out" /\ box'.pc = "out" /\ box'.oldState = box.oldState
        /\ box'.stage = box.stage /\ box'.gen = box.gen /\ box'.installed = box.installed
        /\ box'.moved = box.moved \cup {n} /\ box'.prior = box.prior /\ box'.undone = box.undone
        /\ box'.old = [box.old EXCEPT ![n] = disk.ws[n]]
    BY <1>1, <1>5 DEF MoveOut, Box
  <2>2. disk'.ws = [disk.ws EXCEPT ![n] = None] /\ disk'.state = disk.state /\ disk'.torn = disk.torn
    BY <1>1, <1>5 DEF MoveOut, Disk
  <2>3. store' = store /\ truth' = truth /\ disk.state = None /\ disk.ws[n] # None
    BY <1>5 DEF MoveOut
  <2>4. n \notin box.moved /\ disk.ws[n] = box.prior[1][n]
    BY <2>1, <2>3 DEF InstallInv
  <2>5. \A m \in Names : disk'.ws[m] = IF m = n THEN None ELSE disk.ws[m]
    BY <1>1, <2>2 DEF Files
  <2>6. \A m \in Names : box'.old[m] = IF m = n THEN disk.ws[n] ELSE box.old[m]
    BY <1>1, <2>1 DEF Files
  <2>7. box.moved \subseteq Names
    BY <1>1 DEF Box
  <2>8. ClaimInv'
    BY <2>1, <2>2, <2>3 DEF ClaimInv, Up
  <2>9. InstallInv'
    BY <2>1, <2>2, <2>3, <2>4, <2>5, <2>6, <2>7 DEF InstallInv, Undoable, Agrees
  <2> QED
    BY <2>8, <2>9
<1>6. CASE AllOut
  <2>1. /\ box.pc = "out" /\ box'.pc = "in" /\ box'.oldState = box.oldState
        /\ box'.stage = box.stage /\ box'.gen = box.gen /\ box'.installed = box.installed
        /\ box'.moved = box.moved /\ box'.prior = box.prior /\ box'.old = box.old /\ box'.undone = box.undone
    BY <1>1, <1>6 DEF AllOut, Goto, Box
  <2>2. disk' = disk /\ store' = store /\ truth' = truth /\ disk.state = None /\ disk.ws = Empty
    BY <1>6 DEF AllOut
  <2>3. \A n \in Names : disk.ws[n] = None
    BY <2>2 DEF Empty
  <2>4. ClaimInv'
    BY <2>1, <2>2 DEF ClaimInv, Up
  <2>5. InstallInv'
    BY <2>1, <2>2, <2>3 DEF InstallInv, Undoable, Agrees
  <2> QED
    BY <2>4, <2>5
<1>7. ASSUME NEW n \in Names, MoveIn(n) PROVE ClaimInv' /\ InstallInv'
  <2>1. /\ box.pc = "in" /\ box'.pc = "in" /\ box'.oldState = box.oldState /\ box.stage[n] # None
        /\ box'.stage = [box.stage EXCEPT ![n] = None] /\ box'.gen = box.gen
        /\ box'.installed = box.installed \cup {n} /\ box'.old = box.old
        /\ box'.moved = box.moved /\ box'.prior = box.prior /\ box'.undone = box.undone
    BY <1>1, <1>7 DEF MoveIn, Box
  <2>2. /\ disk'.ws = [disk.ws EXCEPT ![n] = box.stage[n]] /\ disk'.state = disk.state
        /\ disk'.torn = disk.torn
    BY <1>1, <1>7 DEF MoveIn, Disk
  <2>3. store' = store /\ truth' = truth
    BY <1>7 DEF MoveIn
  <2>4. disk.state = None
    BY <2>1 DEF InstallInv, Empty
  <2>5. \A m \in Names : disk'.ws[m] = IF m = n THEN box.stage[n] ELSE disk.ws[m]
    BY <1>1, <2>2 DEF Files
  <2>6. \A m \in Names : box'.stage[m] = IF m = n THEN None ELSE box.stage[m]
    BY <1>1, <2>1 DEF Files
  <2>7. ClaimInv'
    BY <2>1, <2>2, <2>4 DEF ClaimInv, Up
  <2>8. InstallInv'
    BY <2>1, <2>2, <2>3, <2>4, <2>5, <2>6 DEF InstallInv, Undoable, Agrees
  <2> QED
    BY <2>7, <2>8
<1>8. CASE StateIn
  <2>1. box.pc = "in" /\ box' = box /\ store' = store /\ truth' = store.man[box.gen] /\ box.stage = Empty
    BY <1>8 DEF StateIn, StateLast
  <2>2. disk'.ws = disk.ws /\ disk'.state = box.gen /\ disk'.torn = {}
    BY <1>1, <1>8 DEF StateIn, Disk
  <2>3. box.gen \in Gens
    BY <2>1 DEF BoxInv, Installing
  <2>4. \A n \in Names : disk.ws[n] = store.man[box.gen][n]
    BY <2>1 DEF InstallInv, Empty
  <2>5. ClaimInv'
    BY <1>2, <2>1, <2>2, <2>3, <2>4 DEF ClaimInv, Agrees, Up
  <2>6. InstallInv'
    BY <1>2, <2>1, <2>2, <2>3 DEF InstallInv, Undoable
  <2> QED
    BY <2>5, <2>6
<1>9. CASE AllIn
  <2>1. /\ box.pc = "in" /\ box'.pc = "clean" /\ disk' = disk /\ truth' = truth /\ disk.state = box.gen
        /\ box'.undone = box.undone
    BY <1>1, <1>9 DEF AllIn, Goto, Box
  <2>2. box.gen \in Gens
    BY <2>1 DEF BoxInv, Installing
  <2> QED
    BY <1>2, <2>1, <2>2, NoInstall DEF ClaimInv, Agrees, Up
<1> QED
  BY <1>3, <1>4, <1>5, <1>6, <1>7, <1>8, <1>9

\* A step that ends an attempt on one generation and undoes nothing.
LEMMA ClaimGivenUp ==
    ASSUME TypeOK, BoxInv, ClaimInv, InstallInv, FetchFails \/ UndoFails \/ CleanFails
    PROVE  ClaimInv' /\ InstallInv'
<1>1. box \in Box /\ disk \in Disk /\ disk.ws \in Files
  BY DEF TypeOK, Disk
<1>2. box.pc \in {"fetch", "undo", "clean"} /\ box.gen \in Gens
  BY DEF FetchFails, UndoFails, CleanFails, BoxInv, Installing
<1>3. box'.pc \in {"fetch", "failed"} /\ box'.prior = box.prior /\ box'.undone = box.undone
  BY <1>1, <1>2, AnotherIs DEF FetchFails, UndoFails, CleanFails
<1>4. disk'.state = disk.state /\ disk'.torn = disk.torn /\ truth' = truth
  BY <1>1 DEF FetchFails, UndoFails, CleanFails, Cleared, Disk
<1>5. CASE FetchFails \/ CleanFails
  <2>1. disk'.ws = disk.ws
    BY <1>1, <1>5 DEF FetchFails, CleanFails, Cleared, Disk
  <2>2. ClaimInv'
    BY <1>2, <1>3, <1>4, <2>1 DEF ClaimInv, Agrees, Up
  <2>3. box.undone => box.pc = "fetch"
    BY <1>2 DEF BoxInv
  <2>4. InstallInv'
    BY <1>2, <1>3, <1>4, <2>1, <2>3 DEF InstallInv, Undoable
  <2> QED
    BY <2>2, <2>4
<1>6. CASE UndoFails
  <2>1. box.pc = "undo" /\ ~box.undone
    BY <1>6 DEF UndoFails, BoxInv
  <2>2. disk'.ws = WithoutInstalled
    BY <1>1, <1>6 DEF UndoFails, Disk
  <2>3. disk.state # None => \A n \in Names : WithoutInstalled[n] = disk.ws[n]
    BY <2>1 DEF InstallInv, WithoutInstalled
  <2>4. ClaimInv'
    BY <1>3, <1>4, <2>1, <2>2, <2>3 DEF ClaimInv, Agrees, Up
  <2>5. InstallInv'
    BY <1>3, <2>1, NoInstall
  <2> QED
    BY <2>4, <2>5
<1> QED
  BY <1>5, <1>6

\* A move that fails, and the rollback.
LEMMA ClaimUndoing ==
    ASSUME TypeOK, BoxInv, ClaimInv, InstallInv,
           MoveFails \/ Undone \/ \E n \in Names : UndoMove(n)
    PROVE  ClaimInv' /\ InstallInv'
<1>1. /\ box \in Box /\ disk \in Disk /\ truth \in Files /\ disk.ws \in Files
      /\ box.stage \in Files /\ box.old \in Files /\ box.prior \in Files \X States
  BY DEF TypeOK, Disk, Box
<1>2. CASE MoveFails
  <2>1. /\ box.pc = "out" \/ (box.pc = "in" /\ disk.state = None)
        /\ box'.pc = "undo" /\ box'.oldState = box.oldState /\ box'.installed = box.installed
        /\ box'.old = box.old /\ box'.moved = box.moved /\ box'.prior = box.prior /\ box'.undone = box.undone
    BY <1>1, <1>2 DEF MoveFails, Goto, Box
  <2>2. truth' = truth /\ Undoable /\ ~box.undone
    BY <1>2, <2>1 DEF MoveFails, Undoable, BoxInv
  <2>3. ASSUME disk'.state = disk.state, disk.torn \subseteq disk'.torn,
               disk' # disk => disk.state = None,
               \A n \in Names \ (box.moved \cup disk'.torn) : disk'.ws[n] = disk.ws[n]
        PROVE  ClaimInv' /\ InstallInv'
    <3>1. ClaimInv'
      BY <2>1, <2>2, <2>3 DEF ClaimInv, Agrees, Up
    <3>2. Undoable' /\ box'.pc = "undo"
      BY <2>1 DEF Undoable
    <3>3. /\ box'.prior[2] # None => Agrees(box.prior[1])'
          /\ \A n \in box'.moved : box'.old[n] = box'.prior[1][n]
          /\ IF box'.oldState = None THEN disk'.state = box'.prior[2]
             ELSE disk'.state = None /\ box'.oldState = box'.prior[2]
      BY <2>1, <2>2, <2>3 DEF InstallInv, Agrees
    <3>4. \A n \in Names \ (box'.moved \cup disk'.torn) :
             IF n \in box'.installed THEN box'.prior[1][n] = None ELSE disk'.ws[n] = box'.prior[1][n]
      BY <2>1, <2>3 DEF InstallInv
    <3>5. disk'.state # None => box'.moved = {} /\ box'.installed = {}
      BY <2>1, <2>3 DEF InstallInv
    <3> QED
      BY <2>1, <2>2, <3>1, <3>2, <3>3, <3>4, <3>5 DEF InstallInv, Agrees
  <2>4. CASE disk' = disk
    BY <2>3, <2>4
  <2>5. ASSUME NEW n \in Names, disk.state = None,
               disk' = [disk EXCEPT !.ws[n] = Torn, !.torn = disk.torn \cup {n}]
        PROVE  ClaimInv' /\ InstallInv'
    <3>1. disk'.ws = [disk.ws EXCEPT ![n] = Torn] /\ disk'.torn = disk.torn \cup {n} /\ disk'.state = disk.state
      BY <1>1, <2>5 DEF Disk
    <3>2. \A m \in Names : m # n => disk'.ws[m] = disk.ws[m]
      BY <1>1, <3>1 DEF Files
    <3> QED
      BY <2>3, <2>5, <3>1, <3>2
  <2>6. ASSUME NEW n \in Names, n \in box.moved, disk.state = None,
               disk' = [disk EXCEPT !.ws[n] = Torn, !.torn = disk.torn]
        PROVE  ClaimInv' /\ InstallInv'
    <3>1. disk'.ws = [disk.ws EXCEPT ![n] = Torn] /\ disk'.torn = disk.torn /\ disk'.state = disk.state
      BY <1>1, <2>6 DEF Disk
    <3>2. \A m \in Names : m # n => disk'.ws[m] = disk.ws[m]
      BY <1>1, <3>1 DEF Files
    <3> QED
      BY <2>3, <2>6, <3>1, <3>2
  <2>7. CASE \E n \in Names, gone \in BOOLEAN :
               /\ box.pc = "out" /\ disk.state = None /\ disk.ws[n] # None
               /\ IF gone THEN disk' = [disk EXCEPT !.ws[n] = Torn, !.torn = @ \cup {n}]
                          ELSE UNCHANGED disk
    BY <2>4, <2>5, <2>7
  <2>8. CASE \E n \in Names :
               /\ box.pc = "in" /\ box.stage[n] # None
               /\ disk' = [disk EXCEPT !.ws[n] = Torn,
                                       !.torn = IF n \in box.moved THEN @ ELSE @ \cup {n}]
    <3>1. PICK n \in Names :
               /\ box.pc = "in" /\ box.stage[n] # None
               /\ disk' = [disk EXCEPT !.ws[n] = Torn,
                                       !.torn = IF n \in box.moved THEN disk.torn ELSE disk.torn \cup {n}]
      BY <2>8
    <3>2. disk.state = None
      BY <2>1, <3>1
    <3>3. CASE n \in box.moved
      BY <2>6, <3>1, <3>2, <3>3
    <3>4. CASE n \notin box.moved
      BY <2>5, <3>1, <3>2, <3>4
    <3> QED
      BY <3>3, <3>4
  <2> QED
    BY <1>2, <2>4, <2>7, <2>8 DEF MoveFails
<1>3. ASSUME NEW n \in Names, UndoMove(n) PROVE ClaimInv' /\ InstallInv'
  <2>1. /\ box.pc = "undo" /\ box'.pc = "undo" /\ box'.oldState = box.oldState /\ box'.installed = {}
        /\ box'.old = box.old /\ box'.moved = box.moved \ {n} /\ box'.prior = box.prior
        /\ box'.undone = box.undone /\ n \in box.moved
    BY <1>1, <1>3 DEF UndoMove, Box
  <2>2. /\ disk'.ws = [WithoutInstalled EXCEPT ![n] = box.old[n]] /\ disk'.state = disk.state
        /\ disk'.torn = disk.torn /\ truth' = truth
    BY <1>1, <1>3 DEF UndoMove, Disk
  <2>3. disk.state = None
    BY <2>1 DEF InstallInv
  <2>4. \A m \in Names : disk'.ws[m] = IF m = n THEN box.old[n]
                                       ELSE IF m \in box.installed THEN None ELSE disk.ws[m]
    BY <2>2 DEF WithoutInstalled
  <2>5. ~box.undone
    BY <2>1 DEF BoxInv
  <2>6. ClaimInv'
    BY <2>1, <2>2, <2>3 DEF ClaimInv, Up
  <2>7. InstallInv'
    BY <2>1, <2>2, <2>3, <2>4, <2>5 DEF InstallInv, Undoable, Agrees
  <2> QED
    BY <2>6, <2>7
<1>4. CASE Undone
  <2>1. box.pc = "undo" /\ box.moved = {} /\ truth' = truth /\ box.gen \in Gens
    BY <1>4 DEF Undone, BoxInv, Installing
  <2>2. PICK b : b = [box EXCEPT !.undone = TRUE]
    BY Zenon
  <2>3. b \in Box /\ b.gen = box.gen /\ b.prior = box.prior /\ b.undone = TRUE
    BY <1>1, <2>2 DEF Box
  <2>4. box'.pc \in {"fetch", "failed"} /\ box'.prior = box.prior /\ box'.undone = TRUE
    BY <1>4, <2>1, <2>2, <2>3, AnotherIs DEF Undone
  <2>5. /\ disk'.ws = WithoutInstalled /\ disk'.torn = disk.torn
        /\ disk'.state = IF box.oldState = None THEN disk.state ELSE box.oldState
    BY <1>1, <1>4 DEF Undone, Disk
  <2>6. disk'.state = box.prior[2] /\ (box.prior[2] # None => Agrees(box.prior[1]))
    BY <2>1, <2>5 DEF InstallInv, Undoable
  <2>7. \A n \in Names \ disk.torn : disk'.ws[n] = box.prior[1][n]
    BY <2>1, <2>5 DEF InstallInv, WithoutInstalled
  <2>8. ClaimInv'
    BY <2>1, <2>4, <2>5, <2>6, <2>7 DEF ClaimInv, Agrees, Up
  <2>9. InstallInv'
    BY <2>4, <2>5, <2>6, <2>7 DEF InstallInv, Undoable
  <2> QED
    BY <2>8, <2>9
<1> QED
  BY <1>2, <1>3, <1>4

\* The collector, and damage to what is stored.
LEMMA ClaimAside ==
    ASSUME TypeOK, BoxInv, ClaimInv, InstallInv,
           \/ Corrupt \/ Mark \/ Sweep \/ SweepDies \/ UNCHANGED vars
           \/ \E x \in Gens \cup Values : Remove(x)
    PROVE  ClaimInv' /\ InstallInv'
<1>1. disk' = disk /\ box' = box /\ truth' = truth
  BY DEF Corrupt, Mark, Sweep, SweepDies, Remove, vars
<1>2. box.pc # "down" => store'.man = store.man
  <2>1. store \in Store
    BY DEF TypeOK
  <2>2. CASE Corrupt
    BY <2>1, <2>2 DEF Corrupt, Store
  <2>3. CASE Mark \/ Sweep \/ SweepDies \/ UNCHANGED vars
    BY <2>3 DEF Mark, Sweep, SweepDies, vars
  <2>4. CASE \E x \in Gens \cup Values : Remove(x)
    BY <2>4 DEF Remove, BoxInv
  <2> QED
    BY <2>2, <2>3, <2>4
<1>3. Served' = Served
  BY <1>1 DEF Served
<1>4. ClaimInv'
  BY <1>1, <1>3 DEF ClaimInv, Agrees
<1>5. InstallInv'
  BY <1>1, <1>2 DEF InstallInv, Undoable, Agrees
<1> QED
  BY <1>4, <1>5

LEMMA ClaimNext == TypeOK /\ BoxInv /\ ClaimInv /\ InstallInv /\ [Next]_vars => ClaimInv' /\ InstallInv'
BY ClaimChoice, ClaimServing, ClaimMoving, ClaimGivenUp, ClaimUndoing, ClaimAside DEF Next

(***************************************************************************)
(* The theorems.                                                           *)
(***************************************************************************)

LEMMA RestoreInit == Init => RestoreInv
<1> SUFFICES ASSUME Init PROVE RestoreInv
  OBVIOUS
<1>1. /\ store = [man |-> [g \in Gens |-> None], commits |-> {}, chunks |-> {}, bad |-> {}]
      /\ disk = Blank /\ box = Off /\ gc = [marks |-> {}, doomed |-> {}] /\ truth = Empty /\ faults = 0
  BY DEF Init
<1>2. Empty \in Files /\ None \in States
  BY Trees DEF States
<1>3. box \in Box /\ box.pc = "down" /\ ~box.undone /\ box.index = None
  BY <1>1, OffIs
<1>4. disk \in Disk /\ disk.state = None
  BY <1>1, <1>2 DEF Blank, Disk
<1>5. store \in Store /\ gc \in Collector /\ faults \in 0 .. MaxFaults
  BY <1>1, ConstantsAssumption DEF Store, Collector
<1>6. TypeOK
  BY <1>1, <1>2, <1>3, <1>4, <1>5 DEF TypeOK
<1>7. BoxInv /\ SaveInv
  BY <1>3 DEF BoxInv, SaveInv, Installing, Saving
<1>8. RetainInv
  BY <1>1 DEF RetainInv, LatestK
<1>9. ClaimInv /\ InstallInv
  BY <1>3, <1>4 DEF ClaimInv, InstallInv, Undoable, Up
<1> QED
  BY <1>6, <1>7, <1>8, <1>9 DEF RestoreInv

(***************************************************************************)
(* Every step of a restore (RestoreEngine), a checkpoint or a sweep        *)
(* (RetentionManager) keeps the state well typed, the retained generations *)
(* stored, the chunk index true, and an install able to be undone.         *)
(***************************************************************************)
THEOREM RestoreInvariant == Spec => []RestoreInv
<1>1. RestoreInv /\ [Next]_vars => RestoreInv'
  BY TypeNext, BoxNext, RetainNext, SaveNext, ClaimNext DEF RestoreInv
<1> QED
  BY RestoreInit, <1>1, PTL DEF Spec

(***************************************************************************)
(* The audit of the latest two commits (IntegrityAuditor.run) finds only   *)
(* what was damaged, whatever checkpoints and sweeps died half way.        *)
(***************************************************************************)
THEOREM RetainedAreReadable == Spec => []RetainedReadable
<1>1. RestoreInv => RetainedReadable
  <2> SUFFICES ASSUME RestoreInv, NEW g \in LatestK(2), ~Readable(g) PROVE g \in store.bad
    BY DEF RetainedReadable, AuditFailures
  <2>1. store.commits \subseteq Gens
    BY DEF RestoreInv, TypeOK, Store
  <2>2. g \in LatestK(Retain)
    BY <2>1, LatestIsTop, TopTwo
  <2>3. store.man[g] # None /\ Used(store.man[g]) \subseteq store.chunks
    BY <2>2 DEF RestoreInv, RetainInv
  <2> QED
    BY <2>3 DEF Readable, Decodes
<1> QED
  BY RestoreInvariant, <1>1, PTL

(***************************************************************************)
(* What a container serves is one generation, whole, but for the entries a *)
(* move or a mirror was broken off in, whatever installs and rollbacks     *)
(* (_install) the disk has been through.                                   *)
(***************************************************************************)
THEOREM ServedWhole == Spec => []ServedIsWhole
<1>1. RestoreInv => ServedIsWhole
  BY DEF RestoreInv, ClaimInv, Agrees, ServedIsWhole
<1> QED
  BY RestoreInvariant, <1>1, PTL

(***************************************************************************)
(* An install that failed and was rolled back (_install) left the          *)
(* workspace and its state file as they were, unless a move broke half     *)
(* way.                                                                    *)
(***************************************************************************)
THEOREM RolledBack == Spec => []RollbackRestores
<1>1. RestoreInv => RollbackRestores
  <2> SUFFICES ASSUME RestoreInv, box.undone, box.pc \in {"fetch", "failed"}, disk.torn = {}
               PROVE  <<disk.ws, disk.state>> = box.prior
    BY DEF RollbackRestores
  <2>1. disk.ws \in Files /\ box.prior \in Files \X States
    BY DEF RestoreInv, TypeOK, Disk, Box
  <2>2. disk.state = box.prior[2] /\ \A n \in Names : disk.ws[n] = box.prior[1][n]
    BY DEF RestoreInv, InstallInv
  <2>3. box.prior[1] \in Files /\ box.prior = <<box.prior[1], box.prior[2]>>
    BY <2>1
  <2>4. disk.ws = box.prior[1]
    BY <2>1, <2>2, <2>3 DEF Files
  <2> QED
    BY <2>2, <2>3, <2>4
<1> QED
  BY RestoreInvariant, <1>1, PTL
============================================================================

-------------------------- MODULE TeamContextProofs --------------------------
(***************************************************************************)
(* Proofs about TeamContext: its types, and that no sync ever touches a    *)
(* file the user made.                                                     *)
(***************************************************************************)
EXTENDS TeamContext, TLAPS

\* A thread that is not between Load and its return owns nothing, and what it
\* has left to remove is in the manifest it has read.
ThreadOK(t) ==
    /\ sync[t].pc \in {"off", "idle", "fetch", "list", "load"} =>
          sync[t].owned = {} /\ sync[t].installed = {}
    /\ sync[t].at # None => sync[t].pc = "install"
    /\ sync[t].pc = "remove" => sync[t].todo \subseteq sync[t].owned

\* Nobody believes a user's file to be the sync's.
Unclaimed(n) ==
    /\ n \notin disk.manifest
    /\ \A t \in Threads :
          /\ n \notin sync[t].owned
          /\ n \notin sync[t].installed
          /\ sync[t].at # n

OwnershipOK ==
    /\ \A t \in Threads : ThreadOK(t)
    /\ \A n \in Names : UsersFile(disk.steering[n]) => Unclaimed(n)
    /\ \A n \in Names : UsersFile(saved.steering[n]) => n \notin saved.manifest

Inv == TypeOK /\ OwnershipOK

---------------------------------------------------------------------------
(* Types.                                                                  *)

\* What the loop over the mirror collects is a tree again.
LEMMA WantedType ==
    ASSUME NEW tree \in Tree
    PROVE Wanted(tree) \in Tree
BY DEF Wanted, Tree

\* A thread that has returned, and two that boot, have the right fields.
LEMMA RestingType ==
    ASSUME NEW pc \in {"off", "idle", "fetch"}
    PROVE Resting(pc) \in Sync
BY DEF Resting, Sync, Tree

LEMMA BootingType == Booting \in [Threads -> Sync]
BY RestingType DEF Booting, Threads

LEMMA InitType == Init => TypeOK
BY BootingType, TeamAssumption DEF Init, TypeOK, EmptyHome, Disk, Tree

\* A lock of git's changes nothing else in a home.
LEMMA LocksHome ==
    ASSUME disk \in Disk, NEW home \in Locks
    PROVE  home \in Disk /\ home.steering = disk.steering /\ home.manifest = disk.manifest
BY DEF Locks, Disk

\* The steps of a sync keep the types.
LEMMA SyncType ==
    ASSUME TypeOK, NEW t \in Threads, SyncStep(t)
    PROVE TypeOK'
<1> USE TeamAssumption
<1>1. CASE Fetch(t)
  BY <1>1 DEF Fetch, Moves, TypeOK, Disk, Sync
<1>2. CASE FetchFails(t)
  <2>1. sync' \in [Threads -> Sync] /\ events' \in 0 .. MaxEvents
    BY <1>2, RestingType DEF FetchFails, Returns, Event, TypeOK
  <2>2. disk' \in Disk
    BY <1>2 DEF FetchFails, PartlyReset, TypeOK, Disk
  <2> QED BY <1>2, <2>1, <2>2 DEF FetchFails, TypeOK
<1>0. CASE GitKilled(t)
  <2>1. sync' \in [Threads -> Sync] /\ events' \in 0 .. MaxEvents
    BY <1>0, RestingType DEF GitKilled, Returns, Event, TypeOK
  <2>2. disk' \in Disk
    BY <1>0 DEF GitKilled, PartlyReset, TypeOK, Disk
  <2> QED BY <1>0, <2>1, <2>2 DEF GitKilled, TypeOK
<1>3. CASE List(t)
  <2> DEFINE w == Wanted(disk.mirror)
             r == [sync[t] EXCEPT !.pc = "load", !.wanted = w,
                                  !.todo = {n \in Names : w[n] # None}]
  <2>1. w \in Tree
    BY WantedType DEF TypeOK, Disk
  <2>2. r \in Sync
    BY <2>1 DEF TypeOK, Sync
  <2> QED BY <1>3, <2>2 DEF List, TypeOK
<1>4. CASE Load(t)
  <2>0. sync[t] \in Sync /\ disk.manifest \in SUBSET Names
    BY DEF TypeOK, Disk
  <2>1. [sync[t] EXCEPT !.pc = "install", !.owned = disk.manifest] \in Sync
    BY <2>0 DEF Sync
  <2> QED BY <1>4, <2>1 DEF Load, TypeOK
<1>5. CASE Consider(t)
  <2>1. PICK n \in Names : Skip(t, n) \/ Keep(t, n) \/ Write(t, n)
    BY <1>5 DEF Consider, First, TypeOK, Sync
  <2>2. /\ [sync[t] EXCEPT !.todo = @ \ {n}] \in Sync
        /\ [sync[t] EXCEPT !.todo = @ \ {n}, !.installed = @ \cup {n}] \in Sync
        /\ [sync[t] EXCEPT !.todo = @ \ {n}, !.at = n] \in Sync
    BY DEF TypeOK, Sync
  <2>3. [disk EXCEPT !.temp[n] = sync[t].wanted[n]] \in Disk
    <3>1. sync[t].wanted[n] \in Contents \cup {None}
      BY DEF TypeOK, Sync, Tree
    <3>2. disk \in Disk /\ disk.temp \in Tree
      BY DEF TypeOK, Disk
    <3>3. [disk.temp EXCEPT ![n] = sync[t].wanted[n]] \in Tree
      BY <3>1, <3>2 DEF Tree
    <3> QED BY <3>2, <3>3 DEF Disk
  <2>4. sync' \in [Threads -> Sync]
    BY <2>1, <2>2 DEF Skip, Keep, Write, TypeOK
  <2>5. disk' \in Disk
    BY <2>1, <2>3 DEF Skip, Keep, Write, TypeOK
  <2> QED BY <1>5, <2>4, <2>5 DEF Consider, TypeOK
<1>6. CASE Replace(t)
  <2> DEFINE n == sync[t].at
             f == [by |-> "team", content |-> disk.temp[n]]
  <2>1. n \in Names
    BY <1>6 DEF Replace, TypeOK, Sync
  <2>2. [sync[t] EXCEPT !.at = None, !.installed = @ \cup {n}] \in Sync
    BY <2>1 DEF TypeOK, Sync
  <2>3. CASE disk.temp[n] # None
    <3>1. f \in File
      BY <2>1, <2>3 DEF TypeOK, Disk, Tree, File
    <3>2. [disk EXCEPT !.steering[n] = f, !.temp[n] = None] \in Disk
      BY <2>1, <3>1 DEF TypeOK, Disk, Tree
    <3>3. sync' \in [Threads -> Sync]
      BY <1>6, <2>2, <2>3 DEF Replace, TypeOK
    <3>4. disk' \in Disk
      BY <1>6, <2>3, <3>2 DEF Replace
    <3> QED BY <1>6, <3>3, <3>4 DEF Replace, TypeOK
  <2>4. CASE disk.temp[n] = None
    BY <1>6, <2>4, RestingType DEF Replace, Returns, TypeOK
  <2> QED BY <2>3, <2>4
<1>7. CASE BeginRemoval(t)
  <2>1. [sync[t] EXCEPT !.pc = "remove", !.todo = sync[t].owned \ sync[t].installed] \in Sync
    BY DEF TypeOK, Sync
  <2> QED BY <1>7, <2>1 DEF BeginRemoval, TypeOK
<1>8. CASE Remove(t)
  <2>1. PICK n \in Names :
            /\ disk' = [disk EXCEPT !.steering[n] = None]
            /\ sync' = [sync EXCEPT ![t].todo = @ \ {n}]
    BY <1>8 DEF Remove, First, TypeOK, Sync
  <2>2. disk' \in Disk
    BY <2>1 DEF TypeOK, Disk
  <2>3. [sync[t] EXCEPT !.todo = @ \ {n}] \in Sync
    BY DEF TypeOK, Sync
  <2>4. sync' \in [Threads -> Sync]
    BY <2>1, <2>3 DEF TypeOK
  <2> QED BY <1>8, <2>2, <2>4 DEF Remove, TypeOK
<1>9. CASE WriteManifest(t)
  BY <1>9, RestingType DEF WriteManifest, Returns, TypeOK, Disk, Sync
<1>10. CASE InstallFails(t)
  BY <1>10, RestingType DEF InstallFails, Returns, Event, TypeOK
<1> QED BY <1>0, <1>1, <1>2, <1>3, <1>4, <1>5, <1>6, <1>7, <1>8, <1>9, <1>10 DEF SyncStep

\* So does everything around them.
LEMMA NextType ==
    ASSUME TypeOK, [Next]_vars
    PROVE TypeOK'
<1> USE TeamAssumption
<1>1. CASE \E t \in Threads : SyncStep(t)
  BY <1>1, SyncType
<1>2. CASE Initialized
  BY <1>2 DEF Initialized, Moves, TypeOK, Threads, Sync
<1>3. CASE Refresh
  BY <1>3 DEF Refresh, Moves, TypeOK, Threads, Sync
<1>4. CASE Restart
  BY <1>4 DEF Restart, Moves, Event, TypeOK, Threads, Sync
<1>5. CASE Checkpoint
  <2>1. PICK home \in Locks : saved' = [home EXCEPT !.temp = [n \in Names |-> None]]
    BY <1>5 DEF Checkpoint
  <2>2. home \in Disk
    BY <2>1, LocksHome DEF TypeOK
  <2>3. saved' \in Disk
    BY <2>1, <2>2 DEF Disk, Tree
  <2> QED BY <1>5, <2>3 DEF Checkpoint, TypeOK
<1>6. CASE End
  BY <1>6, BootingType, LocksHome DEF End, Event, TypeOK
<1>7. CASE Push
  BY <1>7 DEF Push, Event, TypeOK, Tree
<1>8. ASSUME NEW n \in Names, UserWrites(n) PROVE TypeOK'
  <2>1. [by |-> By(n), content |-> Own] \in File
    BY DEF By, File
  <2> QED BY <1>8, <2>1 DEF UserWrites, Event, TypeOK, Disk
<1>9. CASE UNCHANGED vars
  BY <1>9 DEF vars, TypeOK
<1> QED BY <1>1, <1>2, <1>3, <1>4, <1>5, <1>6, <1>7, <1>8, <1>9 DEF Next

\* The fields of the home directories and of the two threads always have
\* their types.
THEOREM TypeCorrect == Spec => []TypeOK
BY InitType, NextType, PTL DEF Spec

---------------------------------------------------------------------------
(* The user's files.                                                       *)

\* What a step of thread t does to the files the user made: it leaves them
\* alone and goes on not believing them its own.
Respects(t) ==
    /\ \A u \in Threads \ {t} : sync'[u] = sync[u]
    /\ saved' = saved
    /\ ThreadOK(t)'
    /\ \A n \in Names :
          UsersFile(disk.steering[n]) \/ UsersFile(disk'.steering[n]) =>
              disk'.steering[n] = disk.steering[n]
    /\ \A n \in Names :
          UsersFile(disk.steering[n]) =>
              /\ n \notin disk'.manifest
              /\ n \notin sync'[t].owned
              /\ n \notin sync'[t].installed
              /\ sync'[t].at # n

LEMMA InitOwnership == Init => OwnershipOK
BY DEF Init, OwnershipOK, ThreadOK, Unclaimed, UsersFile, EmptyHome, Booting, Resting, Threads

\* Returning forgets everything.
LEMMA ReturnsRespects ==
    ASSUME Inv, NEW t \in Threads, Returns(t), saved' = saved,
           disk'.steering = disk.steering,
           \A n \in Names : UsersFile(disk.steering[n]) => n \notin disk'.manifest
    PROVE Respects(t)
<1>1. sync'[t] = Resting("idle") /\ \A u \in Threads \ {t} : sync'[u] = sync[u]
  BY DEF Returns, Inv, TypeOK
<1>2. /\ sync'[t].pc = "idle" /\ sync'[t].at = None
      /\ sync'[t].owned = {} /\ sync'[t].installed = {}
  BY <1>1 DEF Resting
<1>3. ThreadOK(t)'
  BY <1>2 DEF ThreadOK
<1> QED BY <1>1, <1>2, <1>3, TeamAssumption DEF Respects

\* Every step of a sync respects the user's files.
LEMMA SyncRespects ==
    ASSUME Inv, NEW t \in Threads, SyncStep(t)
    PROVE Respects(t)
<1> USE TeamAssumption
<1>u. \A n \in Names : UsersFile(disk.steering[n]) =>
          /\ n \notin disk.manifest /\ n \notin sync[t].owned
          /\ n \notin sync[t].installed /\ sync[t].at # n
  BY DEF Inv, OwnershipOK, Unclaimed
<1>t. ThreadOK(t) /\ sync \in [Threads -> Sync] /\ sync[t] \in Sync /\ disk \in Disk
  BY DEF Inv, OwnershipOK, TypeOK
<1>1. CASE Fetch(t)
  <2>1. /\ sync'[t] = [sync[t] EXCEPT !.pc = "list"]
        /\ \A u \in Threads \ {t} : sync'[u] = sync[u]
    BY <1>1, <1>t DEF Fetch, Moves
  <2>2. disk'.steering = disk.steering /\ disk'.manifest = disk.manifest /\ saved' = saved
    BY <1>1, <1>t DEF Fetch, Disk
  <2>3. ThreadOK(t)'
    BY <1>1, <2>1, <1>t DEF Fetch, ThreadOK, Sync
  <2> QED BY <2>1, <2>2, <2>3, <1>u, <1>t DEF Respects, Sync
<1>2. CASE FetchFails(t)
  <2>1. disk'.steering = disk.steering /\ disk'.manifest = disk.manifest /\ saved' = saved
    BY <1>2, <1>t DEF FetchFails, Disk
  <2> QED BY <1>2, <2>1, <1>u, ReturnsRespects DEF FetchFails
<1>0. CASE GitKilled(t)
  <2>1. disk'.steering = disk.steering /\ disk'.manifest = disk.manifest /\ saved' = saved
    BY <1>0, <1>t DEF GitKilled, Disk
  <2> QED BY <1>0, <2>1, <1>u, ReturnsRespects DEF GitKilled
<1>3. CASE List(t)
  <2>1. /\ sync'[t].pc = "load" /\ sync'[t].at = sync[t].at
        /\ sync'[t].owned = sync[t].owned /\ sync'[t].installed = sync[t].installed
        /\ \A u \in Threads \ {t} : sync'[u] = sync[u]
    BY <1>3, <1>t DEF List, Sync
  <2>2. ThreadOK(t)'
    BY <1>3, <2>1, <1>t DEF List, ThreadOK
  <2> QED BY <1>3, <2>1, <2>2, <1>u DEF List, Respects
<1>4. CASE Load(t)
  <2>1. /\ sync'[t].pc = "install" /\ sync'[t].at = sync[t].at
        /\ sync'[t].owned = disk.manifest /\ sync'[t].installed = sync[t].installed
        /\ \A u \in Threads \ {t} : sync'[u] = sync[u]
    BY <1>4, <1>t DEF Load, Sync
  <2>2. ThreadOK(t)'
    BY <2>1 DEF ThreadOK
  <2> QED BY <1>4, <2>1, <2>2, <1>u DEF Load, Respects
<1>5. CASE Consider(t)
  <2>1. PICK n \in Names : Skip(t, n) \/ Keep(t, n) \/ Write(t, n)
    BY <1>5, <1>t DEF Consider, First, Sync
  <2>s. /\ \/ sync'[t] = [sync[t] EXCEPT !.todo = @ \ {n}]
           \/ ~Foreign(t, n) /\ sync'[t] = [sync[t] EXCEPT !.todo = @ \ {n},
                                                           !.installed = @ \cup {n}]
           \/ ~Foreign(t, n) /\ sync'[t] = [sync[t] EXCEPT !.todo = @ \ {n}, !.at = n]
        /\ \A u \in Threads \ {t} : sync'[u] = sync[u]
    BY <2>1, <1>t DEF Skip, Keep, Write
  <2>2. sync'[t].pc = sync[t].pc /\ sync'[t].owned = sync[t].owned
    BY <2>s, <1>t DEF Sync
  <2>3. /\ \/ sync'[t].installed = sync[t].installed
           \/ ~Foreign(t, n) /\ sync'[t].installed = sync[t].installed \cup {n}
        /\ \/ sync'[t].at = sync[t].at
           \/ ~Foreign(t, n) /\ sync'[t].at = n
    BY <2>s, <1>t DEF Sync
  <2>4. disk'.steering = disk.steering /\ disk'.manifest = disk.manifest
    BY <2>1, <1>t DEF Skip, Keep, Write, Disk
  <2>5. UsersFile(disk.steering[n]) => Foreign(t, n)
    BY <1>u DEF UsersFile, Foreign
  <2>6. ThreadOK(t)'
    BY <1>5, <2>2 DEF Consider, ThreadOK
  <2> QED BY <1>5, <2>s, <2>2, <2>3, <2>4, <2>5, <2>6, <1>u DEF Consider, Respects
<1>6. CASE Replace(t)
  <2> DEFINE n == sync[t].at
             f == [by |-> "team", content |-> disk.temp[n]]
  <2>1. n \in Names /\ ~UsersFile(disk.steering[n]) /\ saved' = saved
    BY <1>6, <1>t, <1>u DEF Replace, Sync
  <2>2. CASE disk.temp[n] = None
    BY <1>6, <2>1, <2>2, <1>u, ReturnsRespects DEF Replace
  <2>3. CASE disk.temp[n] # None
    <3>s. /\ sync'[t] = [sync[t] EXCEPT !.at = None, !.installed = @ \cup {n}]
          /\ \A u \in Threads \ {t} : sync'[u] = sync[u]
      BY <1>6, <2>3, <1>t DEF Replace
    <3>1. /\ sync'[t].pc = sync[t].pc /\ sync'[t].at = None
          /\ sync'[t].owned = sync[t].owned /\ sync'[t].installed = sync[t].installed \cup {n}
      BY <3>s, <1>t DEF Sync
    <3>2. disk'.steering = [disk.steering EXCEPT ![n] = f] /\ disk'.manifest = disk.manifest
      BY <1>6, <2>3, <1>t DEF Replace, Disk
    <3>3. /\ disk'.steering[n] = f /\ ~UsersFile(f)
          /\ \A m \in Names \ {n} : disk'.steering[m] = disk.steering[m]
      BY <3>2, <2>1, <1>t DEF Disk, UsersFile
    <3>4. ThreadOK(t)'
      BY <1>6, <3>1, <1>t DEF Replace, ThreadOK
    <3>5. \A m \in Names : UsersFile(disk.steering[m]) => m # n /\ m \notin sync'[t].installed
      BY <3>1, <2>1, <1>u
    <3> QED BY <3>s, <3>1, <3>2, <3>3, <3>4, <3>5, <2>1, <1>u DEF Respects
  <2> QED BY <2>2, <2>3
<1>7. CASE BeginRemoval(t)
  <2>1. /\ sync'[t].pc = "remove" /\ sync'[t].at = sync[t].at
        /\ sync'[t].owned = sync[t].owned /\ sync'[t].installed = sync[t].installed
        /\ sync'[t].todo = sync[t].owned \ sync[t].installed
        /\ \A u \in Threads \ {t} : sync'[u] = sync[u]
    BY <1>7, <1>t DEF BeginRemoval, Sync
  <2>2. ThreadOK(t)'
    BY <1>7, <2>1, <1>t DEF BeginRemoval, ThreadOK
  <2> QED BY <1>7, <2>1, <2>2, <1>u DEF BeginRemoval, Respects
<1>8. CASE Remove(t)
  <2>1. PICK n \in sync[t].todo :
            /\ disk' = [disk EXCEPT !.steering[n] = None]
            /\ sync' = [sync EXCEPT ![t].todo = @ \ {n}]
    BY <1>8 DEF Remove, First
  <2>2. n \in Names /\ n \in sync[t].owned
    BY <1>8, <1>t DEF Remove, ThreadOK, Sync
  <2>3. /\ sync'[t].pc = sync[t].pc /\ sync'[t].at = sync[t].at
        /\ sync'[t].owned = sync[t].owned /\ sync'[t].installed = sync[t].installed
        /\ sync'[t].todo = sync[t].todo \ {n}
        /\ \A u \in Threads \ {t} : sync'[u] = sync[u]
    BY <2>1, <1>t DEF Sync
  <2>4. disk'.steering = [disk.steering EXCEPT ![n] = None] /\ disk'.manifest = disk.manifest
    BY <2>1, <1>t DEF Disk
  <2>5. /\ disk'.steering[n] = None
        /\ \A m \in Names \ {n} : disk'.steering[m] = disk.steering[m]
    BY <2>4, <2>2, <1>t DEF Disk
  <2>6. ThreadOK(t)'
    BY <2>3, <1>t DEF ThreadOK
  <2>7. ~UsersFile(disk.steering[n]) /\ ~UsersFile(None)
    BY <2>2, <1>u DEF UsersFile
  <2> QED BY <1>8, <2>3, <2>4, <2>5, <2>6, <2>7, <1>u DEF Remove, Respects
<1>9. CASE WriteManifest(t)
  <2>1. disk'.steering = disk.steering /\ disk'.manifest = sync[t].installed /\ saved' = saved
    BY <1>9, <1>t DEF WriteManifest, Disk
  <2> QED BY <1>9, <2>1, <1>u, ReturnsRespects DEF WriteManifest
<1>10. CASE InstallFails(t)
  BY <1>10, <1>u, ReturnsRespects DEF InstallFails
<1> QED BY <1>0, <1>1, <1>2, <1>3, <1>4, <1>5, <1>6, <1>7, <1>8, <1>9, <1>10 DEF SyncStep

\* Ownership is kept by the syncs, ...
LEMMA SyncOwnership ==
    ASSUME Inv, NEW t \in Threads, SyncStep(t)
    PROVE OwnershipOK'
<1>1. Respects(t)
  BY SyncRespects
<1>2. \A u \in Threads : ThreadOK(u)'
  BY <1>1 DEF Respects, ThreadOK, Inv, OwnershipOK
<1>3. \A n \in Names : UsersFile(disk'.steering[n]) => Unclaimed(n)'
  BY <1>1 DEF Respects, Unclaimed, Inv, OwnershipOK
<1>4. \A n \in Names : UsersFile(saved'.steering[n]) => n \notin saved'.manifest
  BY <1>1 DEF Respects, Inv, OwnershipOK
<1> QED BY <1>2, <1>3, <1>4 DEF OwnershipOK, UsersFile

\* ... by a thread that begins or is created, ...
LEMMA BeginOwnership ==
    ASSUME Inv, NEW t \in Threads, NEW pc \in {"idle", "fetch"}, sync[t].pc \in {"idle", "off"},
           Moves(t, pc), disk' = disk, saved' = saved
    PROVE OwnershipOK'
<1>1. \A u \in Threads :
          /\ sync'[u].owned = sync[u].owned /\ sync'[u].installed = sync[u].installed
          /\ sync'[u].at = sync[u].at /\ sync'[u].todo = sync[u].todo
          /\ sync'[u].pc = IF u = t THEN pc ELSE sync[u].pc
  BY DEF Moves, Inv, TypeOK, Sync
<1>2. \A u \in Threads : ThreadOK(u)'
  BY <1>1 DEF ThreadOK, Inv, OwnershipOK
<1> QED BY <1>1, <1>2 DEF OwnershipOK, Inv, Unclaimed, UsersFile

\* ... and by everything else.
LEMMA NextOwnership ==
    ASSUME Inv, [Next]_vars
    PROVE OwnershipOK'
<1>1. CASE \E t \in Threads : SyncStep(t)
  BY <1>1, SyncOwnership
<1>2. CASE Initialized
  BY <1>2, BeginOwnership DEF Initialized, Threads
<1>3. CASE Refresh
  BY <1>3, BeginOwnership DEF Refresh, Threads
<1>4. CASE Restart
  BY <1>4, BeginOwnership DEF Restart, Threads
<1>5. CASE Checkpoint
  <2>1. PICK home \in Locks : saved' = [home EXCEPT !.temp = [n \in Names |-> None]]
    BY <1>5 DEF Checkpoint
  <2>2. home \in Disk /\ home.steering = disk.steering /\ home.manifest = disk.manifest
    BY <2>1, LocksHome DEF Inv, TypeOK
  <2>3. saved'.steering = disk.steering /\ saved'.manifest = disk.manifest
    BY <2>1, <2>2 DEF Disk
  <2>4. disk' = disk /\ sync' = sync
    BY <1>5 DEF Checkpoint
  <2> QED BY <2>3, <2>4 DEF Inv, OwnershipOK, ThreadOK, Unclaimed, UsersFile
<1>6. CASE End
  <2>1. \A t \in Threads :
            /\ sync'[t].owned = {} /\ sync'[t].installed = {} /\ sync'[t].at = None
            /\ sync'[t].pc \in {"fetch", "off"}
    BY <1>6 DEF End, Booting, Resting
  <2>2. \A t \in Threads : ThreadOK(t)'
    BY <2>1 DEF ThreadOK
  <2>3. /\ saved' = saved
        /\ \/ disk'.steering = disk.steering /\ disk'.manifest = disk.manifest
           \/ disk' = saved
    BY <1>6, LocksHome DEF End, Inv, TypeOK
  <2>4. \A n \in Names : UsersFile(disk'.steering[n]) => n \notin disk'.manifest
    BY <2>3 DEF Inv, OwnershipOK, Unclaimed
  <2>5. \A n \in Names : UsersFile(disk'.steering[n]) => Unclaimed(n)'
    BY <2>1, <2>4, TeamAssumption DEF Unclaimed
  <2> QED BY <2>2, <2>3, <2>5 DEF OwnershipOK, Inv, UsersFile
<1>7. CASE Push
  BY <1>7 DEF Push, Inv, OwnershipOK, ThreadOK, Unclaimed, UsersFile
<1>8. ASSUME NEW n \in Names, UserWrites(n) PROVE OwnershipOK'
  <2>1. PICK f \in {None, [by |-> By(n), content |-> Own]} :
            disk' = [disk EXCEPT !.steering[n] = f]
    BY <1>8 DEF UserWrites
  <2>2. disk'.steering = [disk.steering EXCEPT ![n] = f] /\ disk'.manifest = disk.manifest
    BY <2>1 DEF Inv, TypeOK, Disk
  <2>3. /\ disk'.steering[n] = f
        /\ \A m \in Names \ {n} : disk'.steering[m] = disk.steering[m]
    BY <2>2 DEF Inv, TypeOK, Disk
  <2>4. UsersFile(f) => n \notin disk.manifest /\ Idle
    BY <2>1 DEF UsersFile, By
  <2>5. Idle => \A t \in Threads :
                   sync[t].owned = {} /\ sync[t].installed = {} /\ sync[t].at = None
    BY DEF Idle, Inv, OwnershipOK, ThreadOK
  <2>6. UsersFile(disk'.steering[n]) => Unclaimed(n)'
    BY <1>8, <2>2, <2>3, <2>4, <2>5, TeamAssumption DEF UserWrites, Unclaimed
  <2>7. \A m \in Names \ {n} : UsersFile(disk'.steering[m]) => Unclaimed(m)'
    BY <1>8, <2>2, <2>3 DEF UserWrites, Unclaimed, Inv, OwnershipOK
  <2> QED BY <1>8, <2>6, <2>7 DEF UserWrites, Inv, OwnershipOK, ThreadOK, UsersFile
<1>9. CASE UNCHANGED vars
  BY <1>9 DEF vars, Inv, OwnershipOK, ThreadOK, Unclaimed, UsersFile
<1> QED BY <1>1, <1>2, <1>3, <1>4, <1>5, <1>6, <1>7, <1>8, <1>9 DEF Next

LEMMA Inductive == Spec => []Inv
<1>1. Init => Inv
  BY InitType, InitOwnership DEF Inv
<1>2. Inv /\ [Next]_vars => Inv'
  BY NextType, NextOwnership DEF Inv
<1> QED BY <1>1, <1>2, PTL DEF Spec

\* No step of a sync overwrites or deletes a file that the user made under a
\* name the sync did not own (_install), for any files, any limit and any
\* number of failures, restarts, restores and overlapping syncs.
THEOREM UsersFilesAreKept == Spec => UsersFilesKept
<1> DEFINE A == (\E t \in Threads : SyncStep(t)) =>
                    \A n \in Names : UsersFile(disk.steering[n]) =>
                                        disk'.steering[n] = disk.steering[n]
<1>1. Inv /\ [Next]_vars => [A]_vars
  BY SyncRespects DEF Respects
<1>2. Spec => [][A]_vars
  BY <1>1, Inductive, PTL DEF Spec
<1> QED BY <1>2 DEF UsersFilesKept
==============================================================================

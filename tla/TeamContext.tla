----------------------------- MODULE TeamContext -----------------------------
(***************************************************************************)
(* The team context: a Git repository of steering files that every sandbox *)
(* mirrors and installs among its user's own (TeamContextSync, and its two *)
(* callers: the supervisor before it starts a gateway, and the runtime's   *)
(* refresh loop, which runs it in a thread of its own).                    *)
(*                                                                         *)
(* Which files are the sync's is written in a manifest when an install is  *)
(* complete, and only there.  So the hard part is what happens when an     *)
(* install is not alone or does not come to its end: a gateway restart     *)
(* syncs while the refresh does, a file operation fails, the container     *)
(* ends, or a checkpoint taken in the middle is restored.                  *)
(*                                                                         *)
(* An entry of the repository that _install skips (a symbolic link, an odd *)
(* name, a file that is too long) has the effect of no entry, and is none  *)
(* here.                                                                   *)
(***************************************************************************)
EXTENDS Integers, FiniteSets

CONSTANTS
    Names,          \* names of steering files, in the order sorted() gives them
    Contents,       \* what the repository's files may hold
    Own,            \* what the user writes
    None,
    MaxFiles,       \* _MAX_FILES
    Events,         \* which of EventKinds can happen
    MaxEvents       \* bound: events of one behaviour

\* fetch: git fails; kill: its timeout kills it; disk: a file operation of an install fails; end: the
\* container ends; restart: the gateway dies and is started again; user: the
\* user writes or deletes a steering file; push: the repository changes.
EventKinds == {"fetch", "kill", "disk", "end", "restart", "user", "push"}

ASSUME TeamAssumption ==
    /\ Names \subseteq Nat /\ IsFiniteSet(Names)
    /\ None \notin Contents \cup {Own} \cup Names /\ Own \notin Contents
    /\ MaxFiles \in Nat /\ MaxEvents \in Nat
    /\ Events \subseteq EventKinds

VARIABLES
    repo,       \* the branch of the remote repository
    disk,       \* the sandbox's home directory
    saved,      \* the home directory in the last checkpoint
    sync,       \* the two threads that may be inside TeamContextSync.sync
    events

vars == <<repo, disk, saved, sync, events>>

Threads == {"startup", "refresh"}

Tree == [Names -> Contents \cup {None}]

(***************************************************************************)
(* A steering file named team--<n>.md.  `by' is history: "user" for a file *)
(* that the user made while no sync ran and under a name the manifest did  *)
(* not have, "race" for one made during a sync, "team" for all others.     *)
(***************************************************************************)
File == [by : {"team", "user", "race"}, content : Contents \cup {Own}]

Disk ==
    [mirror : Tree,             \* the working tree of team-context/repo
     locked : BOOLEAN,          \* its .git has a dead git's lock, or is half a clone
     steering : [Names -> File \cup {None}],
     temp : Tree,               \* .team--<n>.md.tmp
     manifest : SUBSET Names]

Sync ==
    [pc : {"off", "idle", "fetch", "list", "load", "install", "remove"},
     wanted : Tree, owned : SUBSET Names, installed : SUBSET Names,
     todo : SUBSET Names, at : Names \cup {None}]

Resting(pc) ==
    [pc |-> pc, wanted |-> [n \in Names |-> None], owned |-> {}, installed |-> {},
     todo |-> {}, at |-> None]

\* A container starts: the supervisor syncs, and there is no refresh loop yet.
Booting == [t \in Threads |-> Resting(IF t = "startup" THEN "fetch" ELSE "off")]

EmptyHome ==
    [mirror |-> [n \in Names |-> None], locked |-> FALSE, steering |-> [n \in Names |-> None],
     temp |-> [n \in Names |-> None], manifest |-> {}]

Init ==
    /\ repo \in Tree
    /\ disk = EmptyHome
    /\ saved = EmptyHome
    /\ sync = Booting
    /\ events = 0

Event(kind) == kind \in Events /\ events < MaxEvents /\ events' = events + 1

Idle == \A t \in Threads : sync[t].pc \in {"idle", "off"}

---------------------------------------------------------------------------
(* TeamContextSync.sync, one file operation at a time.                     *)

Moves(t, pc) == sync' = [sync EXCEPT ![t].pc = pc]

\* sync() returns, with or without an error.
Returns(t) == sync' = [sync EXCEPT ![t] = Resting("idle")]

\* _fetch: clone, or fetch, reset --hard and clean.
Fetch(t) ==
    /\ sync[t].pc = "fetch"
    /\ ~disk.locked
    /\ disk' = [disk EXCEPT !.mirror = repo]
    /\ Moves(t, "list")
    /\ UNCHANGED <<repo, saved, events>>

\* What a reset that does not come to its end may make of the mirror.
PartlyReset ==
    {tree \in Tree : \A n \in Names : tree[n] \in {disk.mirror[n], repo[n], None}}

\* git fails: always at a left-over lock, which _fetch neither removes nor
\* clones around; else before or after it changed the mirror, the other
\* thread's git, which holds the repository's lock, being one reason.
FetchFails(t) ==
    /\ sync[t].pc = "fetch"
    /\ \/ disk.locked /\ UNCHANGED <<disk, events>>
       \/ /\ ~disk.locked
          /\ IF \E u \in Threads \ {t} : sync[u].pc = "fetch"
                THEN UNCHANGED events ELSE Event("fetch")
          /\ \E tree \in PartlyReset : disk' = [disk EXCEPT !.mirror = tree]
    /\ Returns(t)
    /\ UNCHANGED <<repo, saved>>

\* The 60 s timeout kills git, which leaves its lock or half a clone behind.
GitKilled(t) ==
    /\ sync[t].pc = "fetch"
    /\ ~disk.locked
    /\ Event("kill")
    /\ \E tree \in PartlyReset : disk' = [disk EXCEPT !.mirror = tree, !.locked = TRUE]
    /\ Returns(t)
    /\ UNCHANGED <<repo, saved>>

\* The files _install would have: the first MaxFiles it does not skip.
Wanted(tree) ==
    [n \in Names |->
        IF tree[n] # None /\ Cardinality({m \in Names : m < n /\ tree[m] # None}) < MaxFiles
        THEN tree[n] ELSE None]

\* The loop over the mirror's steering directory.
List(t) ==
    /\ sync[t].pc = "list"
    /\ LET w == Wanted(disk.mirror)
       IN sync' = [sync EXCEPT ![t] = [sync[t] EXCEPT !.pc = "load", !.wanted = w,
                                                !.todo = {n \in Names : w[n] # None}]]
    /\ UNCHANGED <<repo, disk, saved, events>>

\* Variant: the prefix alone says whose a file is.
LoadByPrefix(t) ==
    /\ sync[t].pc = "load"
    /\ sync' = [sync EXCEPT ![t] = [sync[t] EXCEPT !.pc = "install",
                                             !.owned = {n \in Names : disk.steering[n] # None}]]
    /\ UNCHANGED <<repo, disk, saved, events>>

\* _read_manifest.
Load(t) ==
    /\ sync[t].pc = "load"
    /\ sync' = [sync EXCEPT ![t] = [sync[t] EXCEPT !.pc = "install", !.owned = disk.manifest]]
    /\ UNCHANGED <<repo, disk, saved, events>>

\* sorted(): the loops take the least name first.
First(S) == {n \in S : \A m \in S : n <= m}

\* Is there a file, and not one of ours?
Foreign(t, n) == disk.steering[n] # None /\ n \notin sync[t].owned

\* Variant: without the comparison of bytes.
Present(t, n) == disk.steering[n] # None

UpToDate(t, n) ==
    disk.steering[n] # None /\ disk.steering[n].content = sync[t].wanted[n]

\* The next wanted file is skipped, ...
Skip(t, n) ==
    /\ Foreign(t, n)
    /\ sync' = [sync EXCEPT ![t] = [sync[t] EXCEPT !.todo = @ \ {n}]]
    /\ UNCHANGED disk

\* ... is as it should be already, ...
Keep(t, n) ==
    /\ ~Foreign(t, n) /\ UpToDate(t, n)
    /\ sync' = [sync EXCEPT ![t] = [sync[t] EXCEPT !.todo = @ \ {n}, !.installed = @ \cup {n}]]
    /\ UNCHANGED disk

\* ... or is written to its temporary name.
Write(t, n) ==
    /\ ~Foreign(t, n) /\ ~UpToDate(t, n)
    /\ sync' = [sync EXCEPT ![t] = [sync[t] EXCEPT !.todo = @ \ {n}, !.at = n]]
    /\ disk' = [disk EXCEPT !.temp[n] = sync[t].wanted[n]]

Consider(t) ==
    /\ sync[t].pc = "install" /\ sync[t].at = None
    /\ \E n \in First(sync[t].todo) : Skip(t, n) \/ Keep(t, n) \/ Write(t, n)
    /\ UNCHANGED <<repo, saved, events>>

\* Variant: takes the temporary file for granted.
ReplaceBlindly(t) ==
    /\ sync[t].at # None
    /\ LET n == sync[t].at
       IN /\ disk' = [disk EXCEPT !.steering[n] = [by |-> "team", content |-> disk.temp[n]],
                                  !.temp[n] = None]
          /\ sync' = [sync EXCEPT ![t] = [sync[t] EXCEPT !.at = None, !.installed = @ \cup {n}]]
    /\ UNCHANGED <<repo, saved, events>>

\* temporary.replace(target).  Both threads use one temporary name.
Replace(t) ==
    /\ sync[t].at # None
    /\ LET n == sync[t].at
       IN \/ /\ disk.temp[n] # None
             /\ disk' = [disk EXCEPT !.steering[n] = [by |-> "team", content |-> disk.temp[n]],
                                     !.temp[n] = None]
             /\ sync' = [sync EXCEPT ![t] = [sync[t] EXCEPT !.at = None, !.installed = @ \cup {n}]]
          \/ /\ disk.temp[n] = None
             /\ Returns(t)
             /\ UNCHANGED disk
    /\ UNCHANGED <<repo, saved, events>>

\* What the manifest has and this install has not.
BeginRemoval(t) ==
    /\ sync[t].pc = "install" /\ sync[t].at = None /\ sync[t].todo = {}
    /\ sync' = [sync EXCEPT ![t] = [sync[t] EXCEPT !.pc = "remove",
                                             !.todo = sync[t].owned \ sync[t].installed]]
    /\ UNCHANGED <<repo, disk, saved, events>>

Remove(t) ==
    /\ sync[t].pc = "remove"
    /\ \E n \in First(sync[t].todo) :
          /\ disk' = [disk EXCEPT !.steering[n] = None]
          /\ sync' = [sync EXCEPT ![t].todo = @ \ {n}]
    /\ UNCHANGED <<repo, saved, events>>

\* _write_manifest.
WriteManifest(t) ==
    /\ sync[t].pc = "remove" /\ sync[t].todo = {}
    /\ disk' = [disk EXCEPT !.manifest = sync[t].installed]
    /\ Returns(t)
    /\ UNCHANGED <<repo, saved, events>>

\* An OSError anywhere in _install, a file of the mirror that the other
\* thread's reset took away included.
InstallFails(t) ==
    /\ sync[t].pc \in {"list", "load", "install", "remove"}
    /\ Event("disk")
    /\ Returns(t)
    /\ UNCHANGED <<repo, disk, saved>>

---------------------------------------------------------------------------
(* When it runs, and what happens around it.                               *)

\* The session is initialized: _team_context_refresh is started.
Initialized ==
    /\ sync["startup"].pc = "idle" /\ sync["refresh"].pc = "off"
    /\ Moves("refresh", "idle")
    /\ UNCHANGED <<repo, disk, saved, events>>

\* Its timer.
Refresh ==
    /\ sync["refresh"].pc = "idle"
    /\ Moves("refresh", "fetch")
    /\ UNCHANGED <<repo, disk, saved, events>>

\* ensure_gateway starts a dead gateway again.
Restart ==
    /\ Event("restart")
    /\ sync["startup"].pc = "idle" /\ sync["refresh"].pc # "off"
    /\ Moves("startup", "fetch")
    /\ UNCHANGED <<repo, disk, saved>>

\* The home with git's locks as they are: a git at work may hold one.
Locks ==
    IF \E t \in Threads : sync[t].pc = "fetch" THEN {disk, [disk EXCEPT !.locked = TRUE]} ELSE {disk}

\* A checkpoint: the quiescer stops the gateway, not the adapter's threads.
\* The policy leaves out *.tmp; *.lock is saved.
Checkpoint ==
    /\ \E home \in Locks : saved' = [home EXCEPT !.temp = [n \in Names |-> None]]
    /\ saved' # saved
    /\ UNCHANGED <<repo, disk, sync, events>>

\* The container ends, and git with it.  The next one finds the workspace as
\* it was, or restores the checkpoint.
End ==
    /\ Event("end")
    /\ disk' \in Locks \cup {saved}
    /\ sync' = Booting
    /\ UNCHANGED <<repo, saved>>

\* The user or the agent writes or deletes a steering file.
By(n) ==
    CASE n \in disk.manifest -> "team" [] n \notin disk.manifest /\ Idle -> "user" [] OTHER -> "race"

UserWrites(n) ==
    /\ Event("user")
    /\ \E f \in {None, [by |-> By(n), content |-> Own]} :
          disk' = [disk EXCEPT !.steering[n] = f]
    /\ UNCHANGED <<repo, saved, sync>>

Push ==
    /\ Event("push")
    /\ \E n \in Names, c \in Contents \cup {None} : repo' = [repo EXCEPT ![n] = c]
    /\ UNCHANGED <<disk, saved, sync>>

SyncStep(t) ==
    \/ Fetch(t) \/ FetchFails(t) \/ GitKilled(t) \/ List(t) \/ Load(t) \/ Consider(t) \/ Replace(t)
    \/ BeginRemoval(t) \/ Remove(t) \/ WriteManifest(t) \/ InstallFails(t)

Next ==
    \/ \E t \in Threads : SyncStep(t)
    \/ Initialized \/ Refresh \/ Restart \/ Checkpoint \/ End \/ Push
    \/ \E n \in Names : UserWrites(n)

Spec == Init /\ [][Next]_vars

\* Threads are scheduled and the refresh timer keeps firing.
FairSpec ==
    /\ Spec
    /\ \A t \in Threads : WF_vars(SyncStep(t))
    /\ WF_vars(Initialized) /\ WF_vars(Refresh)

---------------------------------------------------------------------------
(* Properties.                                                             *)

\* The fields of the home directories and of the two threads.
TypeOK ==
    /\ repo \in Tree
    /\ disk \in Disk
    /\ saved \in Disk
    /\ sync \in [Threads -> Sync]
    /\ events \in 0 .. MaxEvents

UsersFile(f) == f # None /\ f.by = "user"

(***************************************************************************)
(* A file that the user made under a name the sync does not own is never   *)
(* overwritten or deleted by it (docs/design-team-context.md: "a file the  *)
(* sync did not install is never overwritten or deleted"): not after a     *)
(* failed install, not by two syncs at once, and not after a restore of a  *)
(* checkpoint that was taken in the middle of one.                         *)
(***************************************************************************)
UsersFilesKept ==
    [][(\E t \in Threads : SyncStep(t)) =>
            \A n \in Names : UsersFile(disk.steering[n]) =>
                                disk'.steering[n] = disk.steering[n]]_vars

\* What a name holds.
Content(n) == IF disk.steering[n] = None THEN None ELSE disk.steering[n].content

(***************************************************************************)
(* The sandbox follows the repository: once it stops changing, every name  *)
(* that the manifest has or nobody has comes to hold what the repository   *)
(* holds, and stays so, unless a git that was killed, or caught by a       *)
(* checkpoint, has left its lock in the mirror: then no later sync gets    *)
(* past its fetch.  A file the sync wrote in an install that did not come  *)
(* to its manifest is not such a name: it counts as the user's.            *)
(***************************************************************************)
OwnedFollows ==
    <>[](disk.locked \/ \A n \in Names :
            n \in disk.manifest \/ disk.steering[n] = None => Content(n) = Wanted(repo)[n])
==============================================================================

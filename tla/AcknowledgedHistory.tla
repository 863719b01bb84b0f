------------------------ MODULE AcknowledgedHistory ------------------------
(***************************************************************************)
(* What checkpoints promise the owner of a sandbox, whatever containers,   *)
(* sessions and buckets are behind them: saves that were acknowledged form *)
(* one history, and whoever serves the sandbox next starts from all of it. *)
(* Work that was not acknowledged may be lost, or may turn up again.       *)
(***************************************************************************)
EXTENDS Integers

CONSTANTS
    Gen,        \* numbers of saves
    Servers,    \* who can serve the sandbox
    Nobody

VARIABLES
    history,    \* the acknowledged saves
    saved,      \* for each of them, the work it holds
    server,     \* who serves the sandbox
    work        \* the work its copy holds

vars == <<history, saved, server, work>>

Init ==
    /\ history = {} /\ saved = [g \in {} |-> {}]
    /\ server = Nobody /\ work = {}

\* Somebody begins to serve, with all that was ever acknowledged.
Open(i) ==
    /\ server' = i
    /\ \E w \in SUBSET Gen : history \subseteq w /\ work' = w
    /\ UNCHANGED <<history, saved>>

\* The server goes, at any time.
Close ==
    /\ server' = Nobody /\ work' = {}
    /\ UNCHANGED <<history, saved>>

\* New work, that will be save g if it is ever saved.
Work(g) ==
    /\ server # Nobody
    /\ \A h \in history : h < g
    /\ work' = work \cup {g}
    /\ UNCHANGED <<history, saved, server>>

\* The server's copy is saved, and the save acknowledged.
Acknowledge(g) ==
    /\ server # Nobody /\ g \in work
    /\ \A h \in history : h < g
    /\ history' = history \cup {g}
    /\ saved' = [h \in history \cup {g} |-> IF h = g THEN work ELSE saved[h]]
    /\ UNCHANGED <<server, work>>

Next ==
    \/ \E i \in Servers : Open(i)
    \/ Close
    \/ \E g \in Gen : Work(g) \/ Acknowledge(g)

Spec == Init /\ [][Next]_vars

============================================================================

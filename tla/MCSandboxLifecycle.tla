------------------------ MODULE MCSandboxLifecycle ------------------------
(* SandboxLifecycle on small instances: the identifiers are interchangeable. *)
EXTENDS SandboxLifecycle, TLC

Symmetry ==
    Permutations(Sessions) \cup Permutations(Instances) \cup Permutations(Requests)
==========================================================================

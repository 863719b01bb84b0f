------------------------ MODULE MCCheckpointChain ------------------------
(* CheckpointChain on small instances: containers are interchangeable. *)
EXTENDS CheckpointChain, TLC

Symmetry == Permutations(Containers)
==========================================================================

------------------------- MODULE MCCheckpointEngine -------------------------
(***************************************************************************)
(* CheckpointEngine for TLC.  Threads are interchangeable; a staged file  *)
(* and one that is not are not.  No step reads the history variable torn: *)
(* a run that does not check CommitsAtomic may leave it out of the state. *)
(***************************************************************************)
EXTENDS CheckpointEngine, TLC

Symmetry == Permutations(Threads)

WithoutTorn ==
    <<past, disk, stamp, mark, now, proc, stopped, engine, store, faults>>
==============================================================================

-------------------------- MODULE MCRestoreEngine --------------------------
(***************************************************************************)
(* RestoreEngine for TLC.                                                  *)
(***************************************************************************)
EXTENDS RestoreEngine

CONSTANTS a, b, v, w, none, torn

============================================================================

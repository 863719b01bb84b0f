------------------------------ MODULE MCWaker ------------------------------
(***************************************************************************)
(* Waker for TLC: one sandbox, a job every eight ticks.                    *)
(***************************************************************************)
EXTENDS Waker

CONSTANTS a, b, u, none, never

===========================================================================

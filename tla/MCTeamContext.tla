--------------------------- MODULE MCTeamContext ---------------------------
(* TeamContext for TLC. *)
EXTENDS TeamContext

TwoNames == {1, 2}
=============================================================================

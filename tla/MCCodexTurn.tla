----------------------------- MODULE MCCodexTurn -----------------------------
(***************************************************************************)
(* CodexTurn for TLC: two or three prompts, so that what is left over from *)
(* one turn meets the next.                                                *)
(***************************************************************************)
EXTENDS CodexTurn

=============================================================================

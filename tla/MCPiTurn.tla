------------------------------ MODULE MCPiTurn ------------------------------
(***************************************************************************)
(* PiTurn for TLC: a few prompts, and enough requests for aborts that come *)
(* too early, time out or are answered late.                               *)
(***************************************************************************)
EXTENDS PiTurn

=============================================================================

---------------------------- MODULE MCClaudeTurn ----------------------------
(***************************************************************************)
(* ClaudeTurn for TLC: enough turns for the stream of an earlier query to  *)
(* outlive the start of the next and a third to resume either.             *)
(***************************************************************************)
EXTENDS ClaudeTurn

=============================================================================

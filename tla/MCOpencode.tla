----------------------------- MODULE MCOpencode -----------------------------
(***************************************************************************)
(* Opencode for TLC: the session's owner and another caller of acquire(),  *)
(* so that two may start, join or lose a server, and servers enough for    *)
(* one to be replaced by a second.                                         *)
(***************************************************************************)
EXTENDS Opencode

=============================================================================

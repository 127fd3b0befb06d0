----------------------------- MODULE MCTimeline -----------------------------
(***************************************************************************)
(* Timeline for TLC: two turns of each agent, with two messages and two    *)
(* permission requests between them.                                       *)
(***************************************************************************)
EXTENDS Timeline

=============================================================================

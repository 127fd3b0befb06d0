----------------------------- MODULE MCLibrary -----------------------------
(***************************************************************************)
(* Library for TLC: one session of this software and one row of the legacy *)
(* file for either kind of agent, and conversations for both to begin.     *)
(***************************************************************************)
EXTENDS Library, TLC

CONSTANTS t1, t2, n1, n2, c1, c2

MCLegacy == (t1 :> t1) @@ (c1 :> n1)

=============================================================================

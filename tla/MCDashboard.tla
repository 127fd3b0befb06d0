---------------------------- MODULE MCDashboard ----------------------------
(***************************************************************************)
(* Dashboard for TLC: a session that is created in one of two projects,    *)
(* and closed, resumed and deleted; at most one resume and one close or    *)
(* deletion of it are awaited at once.                                     *)
(***************************************************************************)
EXTENDS Dashboard, TLC

CONSTANTS s1, w1, w2, o1, c1

MCCwdOf == s1 :> w1
MCRank == s1 :> 1

=============================================================================

--------------------------- MODULE MCHistoryScan ---------------------------
(***************************************************************************)
(* HistoryScan for TLC: a file and a copy of it, of each of the agents.    *)
(***************************************************************************)
EXTENDS HistoryScan

=============================================================================

--------------------------- MODULE MCAgentManager ---------------------------
(* Small instances of AgentManager for TLC.                                *)
EXTENDS AgentManager, TLC

CONSTANTS d1, d2, m1, m2, low

\* agent.create asks for the project d1, without model or thinking option.
MCCreateConfigs ==
    {[cwd |-> d1, model |-> None, level |-> None, handle |-> FALSE]}

\* An earlier run left a session of project d1, or one imported without cwd.
MCStoredRows ==
    {[cwd |-> d1, model |-> m1, level |-> low, handle |-> TRUE],
     [cwd |-> None, model |-> None, level |-> None, handle |-> TRUE]}

\* The same with the row of d1 alone.
MCOneStoredRow == {[cwd |-> d1, model |-> m1, level |-> None, handle |-> TRUE]}

Symmetry ==
    Permutations(Ids) \cup Permutations(Instances) \cup Permutations(Requests)

=============================================================================

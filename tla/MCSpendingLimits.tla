-------------------------- MODULE MCSpendingLimits --------------------------
\* SpendingLimits with a flow of two agents of which the first has a budget.
EXTENDS SpendingLimits

CONSTANTS claude, codex

MCAgents == {claude, codex}
MCFlow == <<claude, codex>>
MCAgentLimit == (claude :> 1) @@ (codex :> 0)

\* No commit is special.
Commuting == Permutations(Commits)
=============================================================================

\* Reviews of two commits by a flow of two agents.
CONSTANTS
    Commits = {c1, c2}
    claude = claude
    codex = codex
    Agents <- MCAgents
    Flow <- MCFlow
    Workers = 2
    BudgetLimit = 2
    BudgetWindow = 1
    AgentLimit <- MCAgentLimit
    AgentWindow = 3
    CommitCap = 2
    CommitWindow = 3
    RepoCap = 1
    RepoWindow = 2
    FailureLimit = 2
    FailureWindow = 2
    BaseDelay = 1
    MaxDelay = 2
    Retention = 3
    MaxTime = 4
    MaxRuns = 3
    MaxTroubles = 1
SPECIFICATION Spec
INVARIANTS AgentBudgetKept
CHECK_DEADLOCK FALSE
SYMMETRY Commuting

SPECIFICATION Spec
CONSTANTS
    p = p
    q = q
    Family = "deep"
    Preds <- MCPreds
    Truths <- MCTruths
    Configs <- MCConfigs
    MapOf <- MCMapOf
    MaxTokens = 8
    Depth = 1
    Horizon = 2
    MaxRuleId = 9
    RuntimeVersion = 2
    EnabledProbes = {"READ"}
INVARIANTS CacheIsCoherent FirstMatchWins
PROPERTY ImplementsPostfixMachine
CHECK_DEADLOCK FALSE

SPECIFICATION Spec
CONSTANTS
    Cpus = {c1, c2}
    Procs = {a}
    Files = {f}
    Images = {i1}
    Modes = {m1}
    Chosen = {"ALLOW_EVENT", "BLOCK_EVENT"}
    Rules <- MCRules
    Envs = {{}}
    MaxEvents = 3
PROPERTY CachedDecisionIsCurrent
SYMMETRY Symmetry
CHECK_DEADLOCK FALSE

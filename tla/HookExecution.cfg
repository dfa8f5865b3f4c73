SPECIFICATION Spec
CONSTANTS
    Cpus = {c1, c2}
    Procs = {a, b}
    Files = {f}
    Images = {i1, i2}
    Modes = {m1, m2}
    Chosen = {"ALLOW_EVENT", "BLOCK_KILL_PROCESS", "EXCLUDE_EVENT"}
    Rules <- MCRules
    Envs = {{"softirq"}, {"evict"}, {"ringbuf_full"}, {"exec", "file_change"}}
    MaxEvents = 2
INVARIANTS DecidedInTask OneReportEach SentIsConsistent GlobalVerdictIsRules CachedDenyIsRules
PROPERTY KilledForOwnAction
SYMMETRY Symmetry
CHECK_DEADLOCK FALSE

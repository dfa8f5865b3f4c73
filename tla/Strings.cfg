CONSTANTS
    Chars = {"a", "b", "c"}
    Family = "all"
    MAX_REGEX_DFA_STATES = 6
    Predicates <- MCPredicates
    MaxNeedle = 3
    DFA_NUM_STATES = 7
    PathMax = 5
    MaxHaystack = 4
SPECIFICATION Spec
CHECK_DEADLOCK FALSE
INVARIANTS RegexIsExact StringIsExact

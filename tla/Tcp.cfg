SPECIFICATION Spec
CONSTANTS
  Procs = {p, q}
  Peers = {a, b}
  Socks = {s}
  Chosen = {"ALLOW_EVENT", "BLOCK_EVENT", "EXCLUDE_EVENT"}
  Envs = {{"outgoing"}, {"outgoing", "ignored"}, {"outgoing", "poll"}, {"outgoing", "poll", "overlap"},
          {"incoming"}, {"incoming", "ignored"}, {"incoming", "backlog"},
          {"incoming", "overlap", "backlog"}}
  MaxRules = 2
  MaxCalls = 4
  None = None
SYMMETRY Symmetry
INVARIANTS OutgoingIsExact PairIsJudged ReportsAreReal SerialIsExact
CHECK_DEADLOCK FALSE

SPECIFICATION Spec
CONSTANTS
  Trees <- MCTrees
  Capacities = {6, 64}
  MAX_CHAIN_CMDS = 4
  MAX_SUBSHELL_CMDS = 2
  MaxLayers = 4
  MaxStages = 3
  MaxArgs = 2
  MaxRedirects = 1
INVARIANTS PlainIsExact NothingIsInvented

SPECIFICATION Spec
CONSTANTS
  Pids = {1, 2}
  Envs = {{}, {"continued", "notify"}, {"sourced", "notify"}, {"exec"}, {"reuse", "exec"},
          {"ringbuf_full", "reuse"}, {"crowded"}, {"preempt"}, {"preexist", "exec"},
          {"preexist", "reuse"}}
  MaxExecs = 1
  MaxUids = 4
  MaxLines = 3
INVARIANTS CommandIsOwn CommandIsCurrent ExitLeavesNothing ScriptsAreSilent
CHECK_DEADLOCK FALSE

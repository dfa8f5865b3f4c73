CONSTANTS
  f1 = f1
  f2 = f2
  f3 = f3
  NoFile = NoFile
  NoPath = NoPath
  Files = {f1, f2, f3}
  Paths = {"bash", "rbash", "zsh"}
  ShellPaths = {"bash", "rbash", "zsh"}
  ZshPaths = {"zsh"}
  EtcShells = {"bash"}
  Known = {f1, f2, f3}
  Start0 <- MCStart0
  Envs = {{"upgrade", "killed"}, {"link", "insert_fails"}, {"killed", "db_fails", "attach_fails"}}
  MaxStarts = 2
  MaxChanges = 1
  MaxImages = 2
SPECIFICATION Spec
INVARIANTS HookedOnce RecordedIsHooked
PROPERTY DiscoveredIsHooked
CHECK_DEADLOCK FALSE

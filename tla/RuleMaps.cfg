CONSTANTS
  Instances = {1, 2, 3}
  Ids = {1}
  MaxObjs = 6
  Envs = {{"killed"}, {"killed", "cleanup_fails"}, {"no_bpffs", "load_fails"}, {"load_fails", "cleanup_fails"}, {"create_fails", "fill_fails", "cleanup_fails"}}
SPECIFICATION Spec
INVARIANT LoadedIsCurrent
PROPERTY StartSucceeds
CHECK_DEADLOCK FALSE

SPECIFICATION Spec
CONSTANTS
  file = file
  sd = sd
  Checks = {file, sd}
  FileChecks = {file}
  Deprecated = {file}
  Untagged = {}
  States = {"good", "none", "yaml", "class"}
  AutoRestart = TRUE
  MaxSignals = 1
  MaxChanges = 1
  MaxFailures = 0
CHECK_DEADLOCK FALSE
INVARIANTS TypeOK OnePerName RunningOrFailed

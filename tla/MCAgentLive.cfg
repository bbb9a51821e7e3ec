SPECIFICATION FairSpec
CONSTANTS
  file = file
  sd = sd
  Checks = {file, sd}
  FileChecks = {file}
  Deprecated = {file}
  Untagged = {sd}
  States = {"good"}
  AutoRestart = FALSE
  MaxSignals = 1
  MaxChanges = 1
  MaxFailures = 1
CHECK_DEADLOCK FALSE
PROPERTIES TermExits ChangesLoaded SighupHeeded

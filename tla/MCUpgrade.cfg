\* The daemon and two commands, two releases, the second migration not repeatable.
SPECIFICATION FairSpec
CONSTANTS
  Daemon = daemon
  Tool = {t1, t2}
  Last = 2
  Repeatable = {1}
  MaxTool = 2
  MaxCrash = 1
INVARIANTS
  SchemaMatchesLog ServesItsSchema InstalledIsVerified
PROPERTY
  ServesAgain
CHECK_DEADLOCK FALSE

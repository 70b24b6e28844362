\* Two updates to either release, forced or not, and two resets or failing
\* operations at any point.
SPECIFICATION FairSpec
CONSTANTS
  Boot = boot  Main = main  Version = version  extra = extra
  None = None  Partial = Partial  NoFile = NoFile
  File = {boot, main, version, extra}
  MaxRelease = 2
  Bundle <- MCBundle
  MaxUpdate = 2
  MaxFault = 2
INVARIANTS
  FlashIsSound
PROPERTIES
  RollbackRestores PendingIsSettled
CHECK_DEADLOCK FALSE

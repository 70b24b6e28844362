\* One update that loses power: "without the possibility of bricking the remote device".
SPECIFICATION Spec
CONSTANTS
  Boot = boot  Main = main  Version = version  extra = extra
  None = None  Partial = Partial  NoFile = NoFile
  File = {boot, main, version, extra}
  MaxRelease = 2
  Bundle <- MCBundle
  MaxUpdate = 1
  MaxFault = 1
INVARIANTS
  NeverBricked
CHECK_DEADLOCK FALSE

\* The button is held while the device, configured, is switched on.
SPECIFICATION FairSpec
CONSTANTS
  Ssid = ssid  Unknown = unknown  Key = {ssid, token}  Secret = {token}
  MaxQueue = 0
  MaxEvent = 1
PROPERTY
  HeldButtonProvisions
CHECK_DEADLOCK FALSE

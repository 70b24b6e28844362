\* A button that bounces, a central that configures, and one reset.
SPECIFICATION FairSpec
CONSTANTS
  Ssid = ssid  Unknown = unknown  Key = {ssid, token}  Secret = {token}
  MaxQueue = 2
  MaxEvent = 3
INVARIANTS
  TogglesAreClosings BluetoothFollowsMode
PROPERTIES
  SecretsKept ReturnsToService
CHECK_DEADLOCK FALSE

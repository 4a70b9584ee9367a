SPECIFICATION CommandSpec
CONSTANTS
  Paths = {p1, p2}
  Devices = {d1, d2}
  OldDevices = {d2}
  Retries = 2
  MaxChanges = 2
  NoPath = NoPath
  NoDevice = NoDevice
INVARIANTS
  NotToTheBootloader
  DoneIfReported
  RepeatedOnlyIfLost
  Identified
  NeverTheWrongDevice
  ReconnectFinds
  InfoListComplete
PROPERTY Returns
CHECK_DEADLOCK FALSE

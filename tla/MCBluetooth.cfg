SPECIFICATION Spec
CONSTANTS
  wii = wii
  wii2 = wii2
  phone = phone
  Devices = {wii, wii2, phone}
  InputDevices = {wii, wii2}
  WiiRemotes = {wii, wii2}
  WiiSlots = {0}
  QSIZE = 32
  Handles = {1, 2}
  Scenarios <- MCScenarios
CHECK_DEADLOCK FALSE
INVARIANTS TypeOK SocketsOwned HandleTracksLink SdpAsksOpenChannel WiiSlotsHeld WiiHoldersLinked
PROPERTIES PipeSpec HeardOut HeardBack

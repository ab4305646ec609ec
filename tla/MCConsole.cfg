SPECIFICATION Spec
CONSTANTS
  ak_tbl <- MC_ak_tbl
  ak_tbl_s <- MC_ak_tbl_s
  hid_to_emu <- MC_hid_to_emu
  HoldCount = 5
  I2cEvery = 2
  wonderHouseKeyData <- MC_Script
  Strips = 2
  Pictures = {"A", "B"}
  Cleared = "A"
  Scenarios <- MC_Scenarios
  RomMode <- MC_RomMode
  Files = 2
  HasUp = TRUE
  Bursts <- MC_Bursts
  JoyPositions <- MC_Joy
  Cards <- MC_Cards
  HidStates <- MC_Hid
INVARIANTS TypeOK
PROPERTIES StrokeSpec TypedComesOut QuietAtLast KeyboardFollowed ScreenCatchesUp

SPECIFICATION MCSpec
CONSTANTS
  PageSize = 2
  WorkClear = 1
  ScreenClear = 1
  Zero = zero
  White = white
  Unset = rom7
  Byte = {zero, white, rom7}
  Rom700 = {rom7}
  Mmio = mmio
  Accessed <- MCAccessed
  Images <- MCImages
  MaxStores = 2
INVARIANTS TypeOK BankTable TypeMatchesRom
PROPERTY BankedSpec

SPECIFICATION PitSpec
CONSTANTS
  ByteBase = 2
  Used = {1, 2}
  Commands <- MCCommands
  Written = {0, 1}
INVARIANT PitTypeOK
PROPERTY ClockSpec

SPECIFICATION PitSpec
CONSTANTS
  ByteBase = 2
  Used = {1, 2}
  Commands <- MCStrobeCommands
  Written = {0, 1}
PROPERTY StrobeOnce

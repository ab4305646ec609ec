SPECIFICATION Spec
CONSTANTS
  ByteBase = 3
  Used = {1, 2}
  Commands <- MCCommands
  Written = {1, 2}
  cval = 3
  Half = 9
  Cycles = {2}
  Rst = 1
  Nop = 1
  Program <- MCProgram
PROPERTY EiChecksIrq

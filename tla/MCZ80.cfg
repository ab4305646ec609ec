\* Multiplication, division, decimal arithmetic, block moves, searches and
\* recursion with up to two alarms at any point; every opcode on its own.
CONSTANTS
  Ram <- MCRam
  In <- MCIn
  Routines <- MCRoutines
  Start <- MCStart
  Want <- MCWant
  Single <- MCSingle
  Scratch <- MCScratch
  Stack <- MCStack
  MaxAlarms = 2
SPECIFICATION Spec
INVARIANTS TypeOK RoutinesCorrect
PROPERTIES FlagsMeanArithmetic RoutinesEnd ProgramSpec
CHECK_DEADLOCK FALSE

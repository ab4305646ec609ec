SPECIFICATION Spec
CONSTANTS
  Packet = {p, q}
  QSIZE = 4
  Wide = 12
  Nothing = nothing
INVARIANTS TypeOK OnlyWrapAborts
PROPERTY FifoSpec
CHECK_DEADLOCK FALSE

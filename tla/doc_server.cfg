SPECIFICATION Spec
CONSTANTS
  K = 4
  AddressBits = 16
INVARIANTS
  ClientIsNotServer
CHECK_DEADLOCK FALSE

SPECIFICATION Spec
CONSTANTS
  K = 8
  AddressBits = 16
INVARIANTS
  TypeOK
  Wired
  AssignmentSucceeds
  ServersListen
CHECK_DEADLOCK FALSE

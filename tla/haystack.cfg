SPECIFICATION FairSpec
CONSTANTS
  Clients = {c1, c2}
  Ids = {i1, i2, i3}
  IllegalIds = {i3}
  Photos = {p1, p2}
  NoPhoto = NoPhoto
INVARIANTS
  TypeOK
  PhotoIsCurrent
PROPERTIES
  EveryRequestAnswered

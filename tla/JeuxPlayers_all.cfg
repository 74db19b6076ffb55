SPECIFICATION Spec
CONSTANTS
  c1 = c1
  c2 = c2
  c3 = c3
  c4 = c4
  ann = ann
  bob = bob
  eve = eve
  Clients <- FourClients
  Names <- ThreeNames
  MaxUsers = 3
SYMMETRY FourClientsThreeNames
INVARIANTS
  DuplicatesAdjacent
  LoginName
  AliveForTwoListings
CHECK_DEADLOCK FALSE

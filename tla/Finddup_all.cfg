SPECIFICATION Spec
CONSTANTS
  Inodes <- ThreeInodes
  Contents <- FourContents
  Crc <- Checksums
  Width = 3
  MaxNames = 4
  Chunk = 4
INVARIANTS
  NothingLost
  DuplicatesAreEqual
  DuplicatesAreFound
  LinksAreFound
CHECK_DEADLOCK FALSE

SPECIFICATION Spec
CONSTANTS
  Char = {37, 48, 70, 97}
  MaxName = 6
  MaxFiles = 5
  ChunkSize = 2
INVARIANTS
  TypeOK
  DecodeMatchesReference
  ListingComplete

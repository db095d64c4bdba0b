CONSTANTS
  a = a
  b = b
  x = x
  y = y
  z = z
  Sessions = {p, q}
  Names = {a, b}
  Contents = {x, y, z}
  Feed <- MCFeed
  Uploads <- MCUploads
  Configs = {g, h}
  NoConfig = NoConfig
  Ordinals = 2
  MaxWork = 10
  MaxFaults = 1
SPECIFICATION Spec
SYMMETRY Symmetry
INVARIANTS CursorCoversFeed VersionsAreAccounted ChunkSetsAreWhole OnlySyncsDeadlock
PROPERTY VectorsPrecedeRecords
CHECK_DEADLOCK FALSE

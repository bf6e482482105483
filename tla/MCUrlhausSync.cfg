SPECIFICATION Spec
CONSTANTS
  a = a
  aSlash = aSlash
  b = b
  NoUrl = NoUrl
  BadUrl = BadUrl
  BadLine = BadLine
  Ids = {1, 2, 3, 4}
  HugeIds = {4}
  Urls = {a, aSlash, b}
  Key <- MCKey
  Feeds <- MCFeeds
  Variants <- MCVariants
  ChunkSize = 2
  MaxRuns = 1
  MaxBoots = 1
INVARIANTS
  UrlsAreUnique
  RowsAreAccounted
  CountedIsCommitted
PROPERTIES
  ImplementsFeedTable
  SyncEnds
CHECK_DEADLOCK FALSE

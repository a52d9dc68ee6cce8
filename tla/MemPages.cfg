SPECIFICATION Spec
CONSTANTS
  Key <- MCKey  AreaOf <- MCAreaOf  HashOf <- MCHashOf  BucketOf <- MCBucketOf
  Area <- MCTwo  Hash <- MCTwo
  Slab <- MCSlab  SlabSize <- MCSlabSize  PerSlab <- MCPerSlab
  PartialPageBucket = 1  EvictSearch = 2
  VersionMod = 1  Epoch = 5  Loads <- MCLoads
INVARIANTS BooksExact SlabKeepsPage  ScanComplete
CHECK_DEADLOCK FALSE

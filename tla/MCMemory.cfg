SPECIFICATION Spec
CONSTANTS
  Proc = {1, 2, 3}
  Heaps = {0, 1, 2, 3, 4, 5, 6, 7, 8, 9, 10, 11, 12, 13, 14, 15, 16, 17}
INVARIANTS
  TypeOK
  FreeListEnds
  NoPageShared
  NoPageLost
  MemoryAsserts
  EnoughIsEnough
PROPERTIES
  UserPagesArePrivate
  IsPagePool

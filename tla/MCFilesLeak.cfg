SPECIFICATION Spec
CONSTANTS
  Proc = {p1, p2, p3}
  NumFd = 2
  NumDesc = 3
  even = even
  odd = odd
  File = {even, odd}
  FileSize <- MCFileSize
  ClusterSize = 2
  MaxRead = 2
  MaxCount = 3
  NULL = NULL
INVARIANT
  UnheldDescIsFree

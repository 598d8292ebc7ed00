SPECIFICATION Spec
CONSTANTS
  Char = {"A", " ", ".", "/", "E5", "NUL"}
  MAX_FILENAME = 2
  MAX_FILE_EXT_NAME = 1
  ClusterSize = 2
  MaxCluster = 4
  MaxFileSize = 5
  Image <- MCImage
  Path <- MCPath
  MaxRead = 6
  NONE = NONE
INVARIANTS
  FindsByName
  ReadsAreSequential
  StopsOnlyAtFullEnd
PROPERTIES
  ReadsAllOrNothing

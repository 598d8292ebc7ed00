SPECIFICATION KernelSpec
CONSTANTS
  NUM_PROC = 4
  MaxPid = 3
  MaxSleep = 1
  Char = {a}
  Nul = Nul
  Size = 2
  NumFd = 1
  NumDesc = 2
  File = {bin}
  FileSize <- MCFileSize
  ClusterSize = 1
  MaxRead = 1
  MaxCount = 2
  NULL = NULL
PROPERTIES
  IsKeyboard
  IsFiles

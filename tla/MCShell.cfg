SPECIFICATION ShellSpec
CONSTANTS
  NUM_PROC = 4
  MaxPid = 5
  MaxSleep = 0
  x = x
  Enter = Enter
  Backspace = Backspace
  Char = {x, Enter, Backspace}
  Nul = Nul
  Size = 3
  NumFd = 1
  NumDesc = 7
  InitBin = "INIT.BIN"
  ConsoleBin = "CONSOLE.BIN"
  File = {"INIT.BIN", "CONSOLE.BIN", "LS.BIN"}
  FileSize <- MCFileSize
  ClusterSize = 2
  MaxRead = 0
  MaxCount = 3
  NULL = NULL
  Limit = 2
  BufferSize = 4
  Command <- MCCommand
INVARIANTS
  SlotsSuffice
  LineFits
PROPERTIES
  KeysAreQueued
  SleeperGetsKey
  PromptReturns

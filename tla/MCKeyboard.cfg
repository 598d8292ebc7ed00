SPECIFICATION UartSpec
CONSTANTS
  Reader = {shell}
  Char = {a, b}
  Nul = Nul
  Size = 4
INVARIANTS
  NoLostKeyPress
PROPERTIES
  IsKeyQueue

SPECIFICATION UartSpec
CONSTANTS
  Reader = {shell, child}
  Char = {a, b}
  Nul = Nul
  Size = 4
PROPERTY
  ReadsOnlyKeys

SPECIFICATION Spec
CONSTANTS
  Scripts <- AllScripts
  Garbage = {"NUL", "hex", "quote"}
  BufSize = 32
  DataSize = 32
  LenValues = 9
INVARIANTS
  ExitZeroMeansConverted
  SoundScriptsPass
  OnlyLastRecordMayBeWrong
  ScannerStaysInText
  DataFits
CHECK_DEADLOCK FALSE

SPECIFICATION FairSpec
CONSTANTS
  Glyphs = {"help", "trace", "ip", "start", "stop", "info", " "}
  InputSize = 4
  MsgbufSize = 5
  PrefixBytes = 4
  Beyond <- MCBeyond
  NUL = NUL
INVARIANTS
  TypeOK
  NothingBehindTheLine
  PositionsAreFresh
  ParameterIsThere
PROPERTIES
  ImplementsConsole
  LinesAreAnswered

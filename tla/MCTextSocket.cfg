SPECIFICATION TextSpec
CONSTANTS
  NewLine = "nl"
  Sep <- CRLF
  SizeMod = 256
  PageSize = 3
  Lines <- SomeLines
  Texts <- SomeTexts
  MaxCalls = 3
INVARIANTS TextInv
PROPERTIES AllLinesRead
CHECK_DEADLOCK FALSE

SPECIFICATION MCSpec
CONSTANTS
  Texts <- MCTexts
  Empty = ""
  Flat <- MCFlat
  Cut <- MCCut
  Behind <- MCBehind
  Keys <- MCKeys
  NoKey = "none"
  Canon <- MCCanon
  CharsetKey = "Charset"
  CharsetText = "a"
  MaxOrd = 2
  MaxLines = 3
  MaxValues = 2
INVARIANTS
  TypeOK
  FieldsInPlace
  LastOptionCounts
  RoundTrip
CHECK_DEADLOCK FALSE

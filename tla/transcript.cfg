SPECIFICATION FairSpec
CONSTANTS
  Texts <- MCTexts
  Size = 4
  Overlap = 2
  MaxLength = 8
  Items <- MCItems
  Key <- MCKey
  Confidence <- MCConfidence
  Near <- MCNear
  MaxAnswer = 2
INVARIANTS Covered EachTextOnce BestIsKept
PROPERTIES Terminates
CHECK_DEADLOCK FALSE

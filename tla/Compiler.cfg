SPECIFICATION Spec
CONSTANTS
  NaN = NaN
  True = True
  False = False
  Text = Text
  Err = Err
  Hosts <- MCHosts
  Texts <- MCTexts
INVARIANTS
  ReadsAsWritten
  RepairedAsMeant
  InferredTypesHold
  LocalsShadow
  LoweringKeepsMeaning
  NamedLikePositional
CHECK_DEADLOCK FALSE

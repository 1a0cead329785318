SPECIFICATION Spec
CONSTANTS
  Chars <- MCChars
  Blanks <- MCBlanks
  Fold <- MCFold
  RefusalPrefix <- MCRefusalPrefix
  Opening = "["
  Closing = "]"
  Digits <- MCDigits
  DigitOf <- MCDigitOf
  Ascii = {"0", "1", "7"}
  Sources = {1, 2}
  Answers <- MCAnswers
CHECK_DEADLOCK FALSE
INVARIANTS TypeOK SplitIndependent StoredAsUnstreamed MarkersResolve

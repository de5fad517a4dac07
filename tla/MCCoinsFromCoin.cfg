CONSTANTS
  a = a
  b = b
  Colon = Colon
  Comma = Comma
  LetterSeq <- MCLetters
  Denoms <- MCDenoms
  DenomInputs <- MCDenomInputs
  Width = 1
  MaxLen = 7
  MaxCoins = 2

SPECIFICATION ParseSpec


\* A behaviour is a single call of a pure conversion: it stops after it.
CHECK_DEADLOCK FALSE
INVARIANT ConversionsYieldNonZero

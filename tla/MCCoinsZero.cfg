CONSTANTS
  Denoms <- MCDenoms
  Width  <- MCWidth
  Inputs <- AllInputs

SPECIFICATION Spec

INVARIANT NoZeroEntries

CONSTANTS
  Denoms <- MCDenoms
  Width  <- MCWidth
  Inputs <- PositiveInputs

SPECIFICATION Spec

INVARIANT TypeOK
INVARIANT NoZeroEntries
PROPERTY AmountsRefinement

SPECIFICATION Spec
CONSTANTS
  None = None
  Unit <- UnitsOfChip
  Core <- CoresOfChip
  Jobs <- FanOut
INVARIANTS
  LiveResultsFit

SPECIFICATION SessionSpec
CONSTANTS
  None = None
  Unit <- UnitsOfChip
  Core <- CoresOfChip
  Jobs <- FirstPrograms
  Followers <- Dependent
INVARIANTS
  OnlyTimeNeverDeadlocks

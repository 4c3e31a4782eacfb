SPECIFICATION FairSession
CONSTANTS
  None = None
  Unit <- UnitsOfChip
  Core <- CoresOfChip
  Jobs <- FirstPrograms
  Followers <- Dependent
INVARIANTS
  ReuseFailsLoudly
  WideningHelps
PROPERTIES
  ResultsKept
  CallsEnd

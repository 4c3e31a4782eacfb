CONSTANTS
  a = a
  b = b
  c = c
  d = d
  Unit <- MCUnit
  Chips <- MCChips
SPECIFICATION FairSpec
INVARIANTS
  TypeOK
  ReportedCycleIsReal
  AcceptedIsAcyclic
PROPERTY Termination

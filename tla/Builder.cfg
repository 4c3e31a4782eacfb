CONSTANTS
  None = None
  Dicts <- MCDicts
  Chips <- NoChips
SPECIFICATION Spec
INVARIANTS
  TypeOK
  CollisionsAreLostNames
  VerdictReplicates
PROPERTIES
  RoundTrips
  CountsReplicate

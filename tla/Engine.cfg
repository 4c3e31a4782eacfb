SPECIFICATION Spec
CONSTANTS
  None = None
  Unit <- UnitsOfChip
  Core <- CoresOfChip
  Jobs <- AllPrograms
INVARIANTS
  TypeOK
  Accounted
  BufferWithinCapacity
  ProgramOrder
  DataflowTiming
  EagerTiming
  WellOrderedNeverDeadlocks
  DeadlockIsReal
  TotalIsLastRetirement
PROPERTIES
  ImplementsBAS
  NoMissedWakeup

CONSTANTS
  None = None
  Raises = None
  Jobs = {}
  Unit <- MCUnit
  Core = {"AICore", "AICore1"}
  Tensor <- MCTensor
  Graphs <- MCGraphs
  Chips <- MCChips
  Links <- MCLinks
  OddDims <- MCOddDims
SPECIFICATION ScriptsSpec
INVARIANT DocumentedSchedules

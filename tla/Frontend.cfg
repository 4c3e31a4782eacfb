CONSTANTS
  None = None
  Tensor = {"tensor"}
  Graphs <- MCGraphs
  Texts <- MCTexts
  OutsUsed = FALSE
SPECIFICATION FrontendSpec
INVARIANTS
  TypeOK
  ParsedGraphsLower
  InputsArrive
  ProducersFirst
  ResolvesAll
  DataflowKept
  StoredOrStreamed

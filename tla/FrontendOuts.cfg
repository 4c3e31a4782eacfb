CONSTANTS
  None = None
  Tensor = {"tensor"}
  Graphs = {}
  Texts <- MCTexts
  OutsUsed = TRUE
SPECIFICATION FrontendSpec
INVARIANT FusedFeedsOneOp

SPECIFICATION Spec
INVARIANT SweepableSurvive
CONSTANTS
  p1 = p1
  p2 = p2
  h1 = h1
  h2 = h2
  o1 = o1
  o2 = o2
  None = None
  Pays <- MCPays
  Htlcs <- MCHtlcs
  Outs <- MCOuts
  Answers <- MCAnswers
  BlockSize = 4
  TxSize = 4
  OutSize = 4
  CltvSize = 4
  MaxCalls = 2
CHECK_DEADLOCK FALSE

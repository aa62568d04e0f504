SPECIFICATION EndpointSpec
INVARIANTS OkMeansConfirmed PaysWhatWasAsked RegisteredAsAgreed
CONSTANTS
  p1 = p1
  p2 = p2
  p3 = p3
  p4 = p4
  h1 = h1
  h2 = h2
  None = None
  Pays <- MCPays
  Htlcs <- MCHtlcs
  Outs = {}
  Answers <- MCAnswers
  Written <- MCWritten
  Bodies <- MCBodies
  Checkouts <- MCCheckouts
  BlockSize = 4
  TxSize = 4
  OutSize = 4
  CltvSize = 4
  BtcMsat = 10000
  LspCltv = 3
  MaxCalls = 2
CHECK_DEADLOCK FALSE

CONSTANTS
  Blocks <- MCBlocks
  Genesis = "g"
  Chain <- MCChain
  Height <- MCHeight
  Txs <- MCTxs
  Funding = "f"
  TxsIn <- MCTxsIn
  Spends <- MCSpends
  Pos <- MCPos
  Ours <- MCOurs
  AntiReorgDelay = 3
  MaxIterations = 6
  MaxFaults = 1
  MaxCrashes = 1
  None = None
SPECIFICATION FairSpec
INVARIANTS
  TypeOK
  SyncedMeansAgreed
  NoOutputUnattended
PROPERTIES
  ParentsFirst
  ToldIsCurrent
  Honours
  AlarmAlive
  EventuallySynced
  ClaimReachesNetwork
CHECK_DEADLOCK FALSE

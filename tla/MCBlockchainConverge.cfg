SPECIFICATION FairSpec
CONSTANTS
  Block <- TinyBlock
  Path <- TinyPath
  Weight <- TinyWeight
  Pos = {}
  Proof <- TinyProof
  Time <- TinyTime
  WellFormed <- TinyBlock
  RewardOk <- TinyBlock
  Tx <- MCTx
  TxsOf <- TinyTxsOf
  KeyImage <- MCKeyImage
  KeysOf <- MCKeysOf
  StakeOf <- TinyStakeOf
  Needs <- MCNeeds
  UnlockTime <- LockedUntilA2
  Checkpoints <- NoCheckpoints
  Clocks = {15}
  FutureLimit = 2
  PosFutureLimit = 1
  MaxBlockNumber = 10
  LockedDelta = 1
  LockedBlocks = 1
  Window = 1
  AltLivetime = 2
  Events = {}
  NoBlock = NoBlock
PROPERTIES Converges

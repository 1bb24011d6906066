SPECIFICATION Spec
CONSTANTS
  Block <- MCBlock
  Path <- MCPath
  Weight <- MCWeight
  Pos <- MCPos
  Proof <- MCProof
  Time <- MCTime
  WellFormed <- MCBlock
  RewardOk <- MCRewardOk
  Tx <- MCTx
  TxsOf <- MCTxsOf
  KeyImage <- MCKeyImage
  KeysOf <- MCKeysOf
  StakeOf <- MCStakeOf
  Needs <- MCNeeds
  UnlockTime <- LockedUntilA2
  Checkpoints <- NoCheckpoints
  Clocks = {15}
  FutureLimit = 2
  PosFutureLimit = 1
  MaxBlockNumber = 10
  LockedDelta = 1
  LockedBlocks = 1
  Window = 1
  AltLivetime = 2
  Events = {"stuck", "truncate", "prune"}
  NoBlock = NoBlock
INVARIANTS TypeOK ChainConsistent AltTxsCounted AltKeyImagesExact AltTxsAvailable NoBetterAlt InvalidOnlyIfBroken
PROPERTIES OnlyToBetter AddedIsStored NoReadmission

SPECIFICATION Spec
CONSTANTS
  Block <- ZoneBlock
  Path <- ZonePath
  Weight <- ZoneWeight
  Pos <- ZonePos
  Proof <- ZoneProof
  Time <- ZoneTime
  WellFormed <- ZoneBlock
  RewardOk <- ZoneBlock
  Tx <- MCTx
  TxsOf <- ZoneTxsOf
  KeyImage <- MCKeyImage
  KeysOf <- MCKeysOf
  StakeOf <- ZoneStakeOf
  Needs <- MCNeeds
  UnlockTime <- LockedUntilTime
  Checkpoints <- CheckpointAtA3
  Clocks = {12, 16}
  FutureLimit = 2
  PosFutureLimit = 1
  MaxBlockNumber = 10
  LockedDelta = 1
  LockedBlocks = 1
  Window = 1
  AltLivetime = 1
  Events = {"crash", "exception", "purge", "clear", "prune", "stuck"}
  NoBlock = NoBlock
INVARIANTS ChainConsistent
PROPERTIES CheckpointFinality

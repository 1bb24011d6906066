SPECIFICATION Spec
CONSTANTS
  Tx <- MCTx
  NoTx = "none"
  Images <- MCImages
  Source <- MCSource
  Signed = {"a", "c", "e"}
  Fee <- MCFee
  Size <- MCSize
  Alias <- MCAlias
  Updates = {}
  Cancels <- MCCancels
  Granted = {"e"}
  Contracts = {}
  MsIns <- MCMsIns
  MsOuts <- MCMsOuts
  Expiry <- MCExpiry
  MinFee = 1
  FreeSize = 2
  MaxAliases = 1
  MaxBlockSize = 2
  Reward <- MCReward
  Checkpoints = {0, 1}
  MaxBlocks = 3
  MaxEvents = 3
  MaxForeign = 1
INVARIANTS TypeOK KeyImagesCounted
PROPERTIES TemplateSound Blamed NoTxLost
CHECK_DEADLOCK FALSE

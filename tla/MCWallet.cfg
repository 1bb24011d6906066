SPECIFICATION FairSpec
CONSTANTS
  Out = {"p", "q", "m", "c"}
  Tx <- MCTx
  Outs <- MCOuts
  Ins <- MCIns
  Own = {"buy", "gift"}
  Mined = {"mint"}
  Attached = {"buy"}
  Block <- MCBlock
  Path <- MCPath
  Weight <- MCWeight
  Txs <- MCTxs
  SolidSize = 1
  BatchSize = 3
  Tries = 1
  SpendableAge = 1
  MaxFaults = 2
INVARIANTS TypeOK KeyImagesIndexed BooksMatchChain
PROPERTIES SelectionSound CatchesUp
CHECK_DEADLOCK FALSE

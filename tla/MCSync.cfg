SPECIFICATION FairSpec
CONSTANTS
  Block <- MCBlock
  Path <- MCPath
  Weight <- MCWeight
  Fault <- MCFault
  Peer = {"p", "q"}
  Tops <- MCTops
  Grows <- MCGrows
  OwnTops = {"m1"}
  RemoteCheckpoint <- MCCheckpoint
  OwnCheckpoint = 0
  SolidSize = 1
  MaxIds = 6
  MaxBlocks = 4
  FailsBeforeBlock = 1
  MaxAllowed = 1
INVARIANTS TypeOK NoStuckConnection RelayedOnce
PROPERTIES AllObtained InStep

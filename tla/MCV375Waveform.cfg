SPECIFICATION FairSpec
CONSTANTS
  Chnl = {0, 1}
  MemSize = 2
  Size = {1, 2}
  Block = {0, 1}
  Value = {"high", "low", "zero"}
  Zero = "zero"
  Files <- MCFiles
INVARIANTS
  TypeOK
  PlaysRequested
  CountsFit
PROPERTIES
  OthersPlayOn
  ConfigReturns

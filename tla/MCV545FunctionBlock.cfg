SPECIFICATION FairSpec
CONSTANTS
  Code = {"synchro_resolver_output", "lvdt_rvdt_output"}
  Value = {zero, one}
  Cleared = zero
  Left = left
  NumSettings = 2
  Status <- MCStatus
  MaxPolls = 2
INVARIANTS
  SuccessIsOwn
PROPERTIES
  BoardTakesWhole
  NoMoveOnError
  ConfigReturns

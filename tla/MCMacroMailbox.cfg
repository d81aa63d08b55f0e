SPECIFICATION FairSpec
CONSTANTS
  Code = {flash_write, reset}
  ResetCode = {reset}
  Error = {failure}
  Ready = ready
  Param = {p, q}
  Registers = 2
  MaxCalls = 2
INVARIANTS
  ResultIsOwn
PROPERTIES
  BoardUndisturbed
  CallReturns
  ResetHappens
  ImplementsService
\* Calls are bounded by MaxCalls, after which an idle system stops.
CHECK_DEADLOCK FALSE

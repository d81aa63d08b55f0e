SPECIFICATION RelaySpec
CONSTANTS
  NumRegs = 2
  PerReg = 2
  Channel <- MCChannel
INVARIANTS
  RelaysAsAsked

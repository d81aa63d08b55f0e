SPECIFICATION ExcitationSpec
CONSTANTS
  NumDDS = 3
  NumCoils = 3
  Channel = {0, 1, 2}
  Frequency = {0, 1, 2, 3}
  MaxFrequency = 2
INVARIANTS
  ExcitedCoilsRun
  RefusalHarmless

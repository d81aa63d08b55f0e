SPECIFICATION Spec
CONSTANTS
  NumFB = 2
  NumOB = 2
  NumEntries = 2
  PowerEntries = 1
  Function = {"lvdt_rvdt_output"}
  Position = {0, 1}
  Velocity = {0}
  Uses = {"clear_regfile", "read_power_supply", "load_flash", "verify_flash"}
INVARIANTS
  TypeOK
  ArmedTargetsUntilSpoiled
  ExclusivePairs
PROPERTY ClearLeavesNothing

SPECIFICATION Spec
CONSTANTS
  NumFB = 2
  NumOB = 1
  NumEntries = 2
  PowerEntries = 1
  Function = {"synchro_resolver_output"}
  Position = {0, 1}
  Velocity = {0}
  Uses = {}
INVARIANT ArmedTargets

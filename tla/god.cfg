SPECIFICATION FairSpec
CONSTANTS
  N = 2
  Respawn <- ForeverAndOnce
  ForkMayFail = TRUE
  MaxErrors = 3
INVARIANTS TypeOK RunningIsKnown OneIncarnation RespawnBudget
PROPERTY HandlerReturns
CHECK_DEADLOCK FALSE

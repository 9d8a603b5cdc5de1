SPECIFICATION Spec
CONSTANTS
  N = 2
  Respawn <- ForeverAndOnce
  ForkMayFail = FALSE
  MaxErrors = 2
INVARIANT ReapedAreRespawned
CHECK_DEADLOCK FALSE

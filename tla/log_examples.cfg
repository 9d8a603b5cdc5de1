SPECIFICATION Spec
CONSTANTS
  Envs <- MCEnvs
  Categories <- MCCategories
  Levels = {1, 5}
  Threads = {t1, t2}
INVARIANTS IntegersAccepted

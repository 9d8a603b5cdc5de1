SPECIFICATION FairSpec
CONSTANTS
  Envs <- MCEnvs
  Categories <- MCCategories
  Levels = {1, 5}
  Threads = {t1, t2}
INVARIANTS GlobIsLayout ReadAsDocumented PrintedAsConfigured
PROPERTIES EveryCallReturns

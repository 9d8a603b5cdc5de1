SPECIFICATION Spec
CONSTANTS
  Envs <- PairEnvs
  Categories <- MCCategories
  Levels = {1, 5}
  Threads = {t1, t2}
INVARIANTS OthersLeftAlone

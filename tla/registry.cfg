SPECIFICATION Spec
CONSTANTS
  Prefix <- MCPrefix
  Hash <- MCHash
  Ids <- MCIds
  Runtime <- MCRuntime
  Literals <- MCLiterals
  r = r
  w = w
  Readers = {r}
  Writers = {w}
  MaxWrites = 2
INVARIANTS MappingsOwned
PROPERTIES ImplementsTopicMap

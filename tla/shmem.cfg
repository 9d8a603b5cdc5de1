SPECIFICATION Spec
CONSTANTS
  p1 = p1  p2 = p2  n1 = n1  s1 = s1  s2 = s2
  wr = wr  rd = rd  rd2 = rd2  alien = alien  A = A  B = B
  Names <- OneName
  Procs <- TwoProcs
  Objects <- AllObjects
  ProcOf <- AllProcs
  Writers <- TheWriter
  Types <- TwoTypes
  TypeOf <- AllTypes
  DataCells <- SameData
  FormatCells <- FormatSizes
  HashOf <- Hashes
  FormatOf <- Formats
  Segments <- TwoSegments
  NoSegment = NoSegment
  MaxWrites = 2
SYMMETRY Symmetric
CONSTRAINT NotBoth
INVARIANTS TypeOK AttachedTypesAgree EagainRepeats
PROPERTY DataOnlyByWrite

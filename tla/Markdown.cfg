SPECIFICATION Spec
CONSTANTS
  Width <- McWidth
  Fold <- McFold
  Hash <- McHash
  Named <- McNamed
  RawNames <- McRawNames
  RawStarts <- McRawNames
  BlockNames <- McBlockNames
  Answers <- McAnswers
  Languages <- McLanguages
  Running <- McRunning
INVARIANTS
  TypeOK
  ContainersMatchBuilt
  PivotIsCurrent
  LinesInOrder
  KillerAgrees
  MemoryAgrees
  OutputBounded
  TagsNest
  TextInOrder
PROPERTY Advances

SPECIFICATION Spec
CONSTANTS
  Width <- McWidth
  Fold <- McFold
  Hash <- McHash
  Named <- McNamed
  RawNames <- McRawNames
  RawStarts <- McRawNames
  BlockNames <- McBlockNames
  Answers <- McImages
  Languages <- McLanguages
  Running <- McRunning
INVARIANTS AltIsText

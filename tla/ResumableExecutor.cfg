SPECIFICATION FairSpec
CONSTANTS
  Calls = {c1, c2}
  NodeCount <- ThreeNodes
  NoLock = NoLock
INVARIANTS
  OneNodeAtATime
  ResultIsWhole
PROPERTIES
  KeepsLog
  EveryCallEnds

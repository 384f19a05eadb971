CONSTANTS
  KeepCount = 2
  Grace = 1
  MaxPush = 8
  Tables <- MCTables
  Limit <- MCLimit
  Scenes <- MCScenes
SPECIFICATION StoreSpec
INVARIANTS SliceNeverPanics SavedOrInMemory PayloadIsListed WrittenInOrder
CHECK_DEADLOCK FALSE

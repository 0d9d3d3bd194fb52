SPECIFICATION FairSpec
CONSTANTS
  Task = {"group", "single"}
  Files <- MCFiles
  Chunks <- MCChunks
  Grouped = {"group"}
  Clipboard = {"group"}
  Window = 1
  MaxTasks = 2
  MaxIncoming = 1
  MaxGroups = 1
  Dir = {"b"}
  First = "a"
  Fragile = {1}
INVARIANTS SentIsReceived ReceivedOnce GroupWhole GroupInOneDir
CHECK_DEADLOCK FALSE
PROPERTIES CancelLasts SendSettles

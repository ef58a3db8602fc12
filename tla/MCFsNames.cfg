\* Deaths and failed writes in every operation on names; directories that fill up,
\* names that are cut; three free blocks.
SPECIFICATION Spec
CONSTANTS
  n1 = n1
  n2 = n2
  n3 = n3
  long = long
  d1 = d1
  d2 = d2
  NULL = NULL
  MaxPath = 2
  Names <- FourNames
  Clip <- CutClip4
  Calls <- NameCalls
  MaxComponents = 2
  DirSlots = 2
  MaxPtrs = 1
  BlockSize = 2
  DiskSize = 7
  Data = {d1, d2}
  Faulty = {"create", "mkdir", "unlink", "rmdir", "rename"}
INVARIANTS TypeOK BlocksOwnedOnce InUseMarked MarkedInUse
PROPERTY ImplementsFsTree

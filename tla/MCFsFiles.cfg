\* Two files of up to two blocks on three free blocks; names that are cut;
\* deaths and failed writes in fs_write.
SPECIFICATION Spec
CONSTANTS
  n1 = n1
  n2 = n2
  n3 = n3
  long = long
  d1 = d1
  d2 = d2
  NULL = NULL
  MaxPath = 1
  Names <- ThreeNames
  Clip <- CutClip
  Calls <- FileCalls
  MaxComponents = 2
  DirSlots = 2
  MaxPtrs = 2
  BlockSize = 2
  DiskSize = 7
  Data = {d1, d2}
  Faulty = {"write"}
INVARIANTS BlocksOwnedOnce InUseMarked MarkedInUse
PROPERTY ImplementsFsTree

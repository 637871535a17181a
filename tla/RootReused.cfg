SPECIFICATION CrashSpec
CONSTANTS
  n1 = n1
  n2 = n2
  Names = {n1, n2}
  BitsPerByte = 1
  NumInodes = 3
  InodesPerBlock = 1
  NumDataBlocks = 5
  DirentsPerBlock = 3
  NumDirect = 2
  PtrsPerBlock = 2
  BlockSize = 2
  LinkModulus = 3
  Sizes = {}
  Perms = {TRUE}
  MaxMounts = 1
  MaxUnlinks = 0
CONSTRAINT FewUnlinks
SYMMETRY Symmetry
VIEW View
INVARIANT
  ReservesUnusedInode
CHECK_DEADLOCK FALSE

SPECIFICATION CrashSpec
CONSTANTS
  n1 = n1
  Names = {n1}
  BitsPerByte = 1
  NumInodes = 4
  InodesPerBlock = 2
  NumDataBlocks = 5
  DirentsPerBlock = 2
  NumDirect = 2
  PtrsPerBlock = 2
  BlockSize = 2
  LinkModulus = 5
  Sizes = {0, 5}
  Perms = {TRUE}
  MaxMounts = 1
  MaxUnlinks = 2
CONSTRAINT FewUnlinks
VIEW View
INVARIANTS
  CrashTypeOK
  NothingDangles
  BlocksSafeOnDisk
  ReturnedIsDurable
  
PROPERTIES
  AtomicOnDisk
CHECK_DEADLOCK FALSE

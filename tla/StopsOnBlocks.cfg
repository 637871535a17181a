SPECIFICATION Spec
CONSTANTS
  n1 = n1
  n2 = n2
  Names = {n1, n2}
  BitsPerByte = 3
  NumInodes = 3
  NumDataBlocks = 5
  DirentsPerBlock = 4
  NumDirect = 1
  PtrsPerBlock = 2
  BlockSize = 2
  LinkModulus = 6
  Sizes = {0, 4}
  Perms = {TRUE}
  MaxUnlinks = 2
INVARIANT
  ReservesUnusedBlock
CONSTRAINT FewUnlinks
SYMMETRY Symmetry
VIEW View
CHECK_DEADLOCK FALSE

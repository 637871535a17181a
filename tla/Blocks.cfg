SPECIFICATION Spec
CONSTANTS
  n1 = n1
  n2 = n2
  Names = {n1, n2}
  BitsPerByte = 3
  NumInodes = 3
  NumDataBlocks = 7
  DirentsPerBlock = 3
  NumDirect = 2
  PtrsPerBlock = 2
  BlockSize = 2
  LinkModulus = 6
  Sizes = {0, 3, 4, 5, 7, 9}
  Perms = {TRUE}
  MaxUnlinks = 2
CONSTRAINT FewUnlinks
SYMMETRY Symmetry
VIEW View
INVARIANTS
  TypeOK
  DataBitmapMatches
  NoBlockShared
  BlocksFitSize
  OvercommitOnlyWhenFull
PROPERTIES
  BlocksStay
CHECK_DEADLOCK FALSE

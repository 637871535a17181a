SPECIFICATION Spec
CONSTANTS
  n1 = n1
  n2 = n2
  Names = {n1, n2, n3}
  n3 = n3
  BitsPerByte = 2
  NumInodes = 4
  NumDataBlocks = 6
  DirentsPerBlock = 2
  NumDirect = 2
  PtrsPerBlock = 2
  BlockSize = 2
  LinkModulus = 6
  Sizes = {1}
  Perms = {TRUE, FALSE}
  MaxUnlinks = 0
CONSTRAINT FewUnlinks
SYMMETRY Symmetry
VIEW View
INVARIANTS
  DataBitmapMatches
  OneEntryEach
CHECK_DEADLOCK FALSE

SPECIFICATION Spec
CONSTANTS
  n1 = n1
  n2 = n2
  Names = {n1, n2}
  BitsPerByte = 2
  NumInodes = 4
  NumDataBlocks = 4
  DirentsPerBlock = 4
  NumDirect = 1
  PtrsPerBlock = 2
  BlockSize = 2
  LinkModulus = 6
  Sizes = {}
  Perms = {TRUE}
  MaxUnlinks = 2
CONSTRAINT FewUnlinks
SYMMETRY Symmetry
VIEW View
INVARIANTS
  InodeBitmapMatches
  OneEntryEach
  DotsLeadHome
  NoCutOffCircle
  LinkCounts
  
PROPERTIES
  ImplementsFileTree
CHECK_DEADLOCK FALSE

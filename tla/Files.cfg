SPECIFICATION FileSpec
CONSTANTS
  n1 = n1
  n2 = n2
  Names = {n1, n2}
  BitsPerByte = 1
  NumInodes = 3
  NumDataBlocks = 6
  DirentsPerBlock = 4
  NumDirect = 1
  PtrsPerBlock = 2
  BlockSize = 2
  LinkModulus = 6
  Sizes = {0, 3}
  Perms = {TRUE}
  Zero = "zero"
  Meta = "meta"
  Data = "data"
  Users <- MCUsers
  Owners <- MCOwners
  Modes <- MCModes
  Ranges <- MCRanges
  Values <- MCValues
  MaxUnlinks = 1
VIEW View
SYMMETRY Symmetry
INVARIANTS
  FileTypeOK
  NoMetaInFiles

  
CHECK_DEADLOCK FALSE

SPECIFICATION ListingSpec
CONSTANTS
  n1 = n1
  n2 = n2
  Names = {n1, n2}
  BitsPerByte = 1
  NumInodes = 3
  NumDataBlocks = 6
  DirentsPerBlock = 2
  NumDirect = 2
  PtrsPerBlock = 2
  BlockSize = 2
  LinkModulus = 6
  Sizes = {}
  Perms = {TRUE}
  MaxFill = 2
  MaxUnlinks = 1
PROPERTIES
  ListsWhatStayed
  ListingEnds
CHECK_DEADLOCK FALSE

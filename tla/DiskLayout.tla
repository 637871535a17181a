----------------------------- MODULE DiskLayout -----------------------------
(***************************************************************************)
(* Where init_super (refs.c) puts the regions of the disk file, and which  *)
(* blocks of the file the program reads and writes for an inode, a bitmap  *)
(* or a data block.  Addresses are in blocks (lba_t).                      *)
(*                                                                         *)
(*    super | inode bitmap | inode table | data bitmap | data blocks       *)
(***************************************************************************)
EXTENDS Bitmap

CONSTANTS
  BlockSize,       \* BLOCK_SIZE, in bytes
  NumInodes,       \* DEFAULT_NUM_INODES
  NumDataBlocks,   \* DEFAULT_NUM_DATA_BLOCKS
  InodesPerBlock   \* INODES_PER_BLOCK

SUPER_LBA == 0

(* BYTES_TO_BLKS(BLOCK_ROUND_UP(bytes)) *)
BlocksOf(bytes) == (bytes + BlockSize - 1) \div BlockSize

(* A bitmap is given room for a byte per bit, which is more than the bytes *)
(* that allocate_bitmap rounds up to whole blocks.                         *)
BitmapRoom(bits)   == BlocksOf(bits)
BitmapBlocks(bits) == BlocksOf((bits + BitsPerByte - 1) \div BitsPerByte)

(* Rounded down: the table has whole blocks only if InodesPerBlock divides *)
(* the number of inodes.                                                   *)
TableBlocks == NumInodes \div InodesPerBlock

i_bitmap_start == 1
i_table_start  == i_bitmap_start + BitmapRoom(NumInodes)
d_bitmap_start == i_table_start + TableBlocks
d_region_start == d_bitmap_start + BitmapRoom(NumDataBlocks)

init_super ==
  [num_inodes      |-> NumInodes,
   num_data_blocks |-> NumDataBlocks,
   i_bitmap_start  |-> i_bitmap_start,
   i_table_start   |-> i_table_start,
   d_bitmap_start  |-> d_bitmap_start,
   d_region_start  |-> d_region_start]

-----------------------------------------------------------------------------
(* The blocks that write_bitmap_to_disk writes for either bitmap, that     *)
(* write_inode writes for any inode, and that hold any valid data block.   *)

InodeBitmapRegion == i_bitmap_start .. i_bitmap_start + BitmapBlocks(NumInodes) - 1
DataBitmapRegion  == d_bitmap_start .. d_bitmap_start + BitmapBlocks(NumDataBlocks) - 1
InodeLba(i)       == i_table_start + i \div InodesPerBlock
DataLba(b)        == d_region_start + b

=============================================================================

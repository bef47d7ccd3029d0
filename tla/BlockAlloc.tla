----------------------------- MODULE BlockAlloc -----------------------------
(***************************************************************************)
(* diskblock.c: the part of the super block that hands out the blocks of   *)
(* the disk list, from the last to the first, over the buffer cache.  The  *)
(* cache is an instance of BufferCache; allocblock composes with its       *)
(* getblk.  The operations only: who calls them, and in which order, is    *)
(* FileSystem's.                                                           *)
(*                                                                         *)
(* "given" stands for the direct[] pointers of the inodes: the blocks      *)
(* allocblock has returned a buffer for.                                   *)
(***************************************************************************)
EXTENDS Naturals, Sequences, FiniteSets

CONSTANTS
  DEVICE_NUM, PRIMARY_BUFFERS, BLOCKS_PER_LIST,   \* as in BufferCache
  BLOCK_SIZE, Bytes, NULL,
  NUM_BLOCKS,     \* what sobj.freeblocks starts with
  Word            \* 2^32, the number of values of a uint32_t

VARIABLES
  headers, freelist, lent, blocks, proc,   \* of the cache
  next_free_block_index,                   \* of sobj
  freeblocks,
  given

\* hashfunction takes a block number as an int, and then as an unsigned long: DEVICE_NUM,
\* 4, divides 2^32 and 2^64, and the remainder is the same.
Cache == INSTANCE BufferCache WITH BlockNumbers <- 0..Word-1

----------------------------------------------------------------------------
\* Linknext (the one disk list), initBufferCache and InitialiseSuperBlock.

\* Mutant: the index starts at the number of buffers.
InitialiseLow ==
  /\ next_free_block_index = PRIMARY_BUFFERS
  /\ freeblocks = NUM_BLOCKS

InitialiseSuperBlock ==
  /\ next_free_block_index = BLOCKS_PER_LIST - 1
  /\ freeblocks = NUM_BLOCKS

Init ==
  /\ Cache!Init
  /\ InitialiseSuperBlock
  /\ given = {}

\* Mutant: the index is not moved when the count is odd.
EverySecondTime ==
  /\ freeblocks' = (freeblocks + Word - 1) % Word
  /\ next_free_block_index' =
       IF freeblocks % 2 = 1 THEN next_free_block_index
                             ELSE (next_free_block_index + Word - 1) % Word

\* Both are uint32_t.  The test for the end of the list, next_free_block_index < 0, is
\* therefore false whatever the index is: no second list is ever linked, and SBlocked
\* is never set.
Removeblockfromlist ==
  /\ freeblocks' = (freeblocks + Word - 1) % Word
  /\ next_free_block_index' = (next_free_block_index + Word - 1) % Word

\* The block is off the list before getblk looks for a buffer, and stays off when
\* getblk does not return.
allocblock ==
  LET blkno == next_free_block_index
  IN  /\ Removeblockfromlist
      /\ Cache!getblk(blkno)
      /\ given' = IF proc' = "running" THEN given \union {blkno} ELSE given

\* writefile and readfile ask for the buffer of a block again, and readfile releases the
\* one it has read.
getblk(b) ==
  /\ Cache!getblk(b)
  /\ UNCHANGED <<next_free_block_index, freeblocks, given>>

bread(b) ==
  /\ Cache!bread(b)
  /\ UNCHANGED <<next_free_block_index, freeblocks, given>>

brelse(buf) ==
  /\ Cache!brelse(buf)
  /\ UNCHANGED <<next_free_block_index, freeblocks, given>>
=============================================================================

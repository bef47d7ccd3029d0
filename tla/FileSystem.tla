----------------------------- MODULE FileSystem -----------------------------
(***************************************************************************)
(* writefile and readfile of syscalls.c, over the tables (FileTables) and  *)
(* the blocks (BlockAlloc, and with it BufferCache).  The process makes    *)
(* one call after another: createfile and openFile are steps, writefile    *)
(* and readfile take two steps for each round of their loops, one up to    *)
(* the return of allocblock, getblk or bread and one for the copying.      *)
(*                                                                         *)
(* Each of an inode's two nodes has a size and blocks of its own.  Times,  *)
(* the inode's lock (set and never read), writeoffset, ufdt.address and    *)
(* ufdt.RWbytes are left out.                                              *)
(***************************************************************************)
EXTENDS Integers, Sequences, FiniteSets

CONSTANTS
  DEVICE_NUM, PRIMARY_BUFFERS, BLOCKS_PER_LIST, NUM_BLOCKS, Word,   \* as in BlockAlloc
  MAX_INODES, FTABLE_SIZE, Names, Modes, NULL,                      \* as in FileTables
  BLOCK_SIZE,
  NUM_DIRECT_POINTERS,
  Bytes,         \* 0 is the byte of an empty block
  Unreadable,    \* the modes up to 0444
  LongWord,      \* 2^64, the number of values of a uint64_t
  Garbage,       \* what disklist_blkno, a uint32_t, may be in memory that malloc returns
  Wild,          \* a pointer to no entry of FTABLE
  Strings,       \* what is written in one call: main passes strlen, no byte is 0
  Counts,        \* how much is read in one call
  MaxOffset      \* bound: no read starts behind this offset

ASSUME BlockAssumption ==
  /\ BLOCK_SIZE \in Nat \ {0} /\ NUM_DIRECT_POINTERS \in Nat \ {0}
  /\ 0 \in Bytes /\ Strings \subseteq Seq(Bytes \ {0})
  /\ Unreadable \subseteq Modes
  /\ Garbage \subseteq 0..Word-1
  /\ Counts \subseteq Nat /\ MaxOffset \in Nat
  /\ \A c \in Counts : LongWord > 4 * (c + BLOCK_SIZE)

\* The sizes of the parts are as they assume them.
ASSUME SizesAssumption ==
  /\ DEVICE_NUM \in Nat \ {0} /\ PRIMARY_BUFFERS \in Nat \ {0} /\ BLOCKS_PER_LIST \in Nat
  /\ BLOCKS_PER_LIST > 2 * PRIMARY_BUFFERS
  /\ Word \in Nat /\ Word > BLOCKS_PER_LIST /\ LongWord \in Nat \ {0}
  /\ MAX_INODES \in Nat /\ MAX_INODES > 1
  /\ FTABLE_SIZE \in Nat /\ FTABLE_SIZE > MAX_INODES + 1

VARIABLES
  headers, freelist, lent, blocks, proc,               \* of BufferCache
  next_free_block_index, freeblocks, given,            \* of BlockAlloc
  filename, Permissions, freelisthead, free_inodes,    \* of FileTables
  indexofnextfree, freeinodescount, IITABLE, FTABLE, ufdt, call, ret,
  FileSize, direct, disklist_blkno,                    \* of each node
  readoffset,                                          \* of each entry of FTABLE
  returned,                                            \* descriptors that calls have returned
  act                                                  \* the writefile or readfile under way

cache  == <<headers, freelist, lent, blocks>>
alloc  == <<next_free_block_index, freeblocks, given>>
tables == <<filename, Permissions, freelisthead, free_inodes, indexofnextfree,
            freeinodescount, IITABLE, FTABLE, call, returned>>
files  == <<FileSize, direct, disklist_blkno>>
vars   == <<cache, proc, alloc, tables, ufdt, ret, files, readoffset, act>>

Tables == INSTANCE FileTables
Alloc  == INSTANCE BlockAlloc

Node    == Tables!Node
Entries == Tables!Entries
Index   == 0..NUM_DIRECT_POINTERS-1

ASSUME PointersAssumption ==
  /\ NULL \notin Nat \union Names \union Node
  /\ Wild \notin Entries \union {NULL}

Idle == [op |-> "none"]
Writing == act.op = "write"
Reading == act.op = "read"
Running == proc = "running"

----------------------------------------------------------------------------
\* CreateNewInode leaves disklist_blkno as malloc returns it.

Init ==
  /\ Tables!Init
  /\ Alloc!Init
  /\ FileSize = [n \in Node |-> 0]
  /\ direct = [n \in Node |-> [i \in Index |-> NULL]]
  /\ disklist_blkno \in {[n \in Node |-> g] : g \in Garbage}
  /\ readoffset = [e \in Entries |-> 0]
  /\ returned = {}
  /\ act = Idle

\* The caller keeps the descriptor createfile or openFile has returned.
CallerGets ==
  returned' = IF proc' = "running" /\ ret' # -1 THEN returned \union {ret'} ELSE returned

\* Some call of createfile or openFile.
CreateOrOpen ==
  /\ act = Idle
  /\ Tables!CreateOrOpen
  /\ CallerGets
  /\ UNCHANGED <<cache, alloc, files, readoffset, act>>

StopsHere == proc' = "crashed" /\ UNCHANGED <<cache, alloc, ufdt, ret, files, readoffset, act>>

\* writefile or readfile is called with a descriptor that ufdt.offset has overwritten
\* (OffsetStored): it reads the node through NULL, or through a small number.
CallFaults(fd) ==
  /\ Running /\ act = Idle
  /\ fd \in returned /\ ufdt[fd] \notin Entries
  /\ StopsHere
  /\ UNCHANGED tables

----------------------------------------------------------------------------
\* writefile(filedes, string, count).

\* Mutant: a block is full one byte early.
bmapEarly(offset) ==
  IF offset < BLOCK_SIZE * NUM_DIRECT_POINTERS THEN (offset + 1) \div BLOCK_SIZE ELSE -1

\* Past the direct blocks it returns -1.
bmap(offset) == IF offset < BLOCK_SIZE * NUM_DIRECT_POINTERS THEN offset \div BLOCK_SIZE ELSE -1

\* The descriptor is one that a call has returned, and leads to an entry.
WriteBegins(fd, string) ==
  /\ Running /\ act = Idle
  /\ ufdt[fd] \in Entries
  /\ act' = [op |-> "write", node |-> FTABLE[ufdt[fd]], string |-> string,
             iCnt |-> 0, step |-> "get", buff |-> NULL]
  /\ UNCHANGED <<cache, proc, alloc, tables, ufdt, ret, files, readoffset>>

position == FileSize[act.node]
blkno    == bmap(position)

\* The loop of writefile is at its top, and goes on.
NextChunk == Running /\ Writing /\ act.step = "get" /\ act.iCnt < Len(act.string)

\* getblk has lent the buffer of block b.
GotBuffer(b) == act' = [act EXCEPT !.step = "copy", !.buff = b]

\* The first chunk for this block of the file: a new block of the disk, recorded in the
\* inode.
WriteGetsBlock ==
  /\ NextChunk
  /\ blkno # -1
  /\ direct[act.node][blkno] = NULL
  /\ Alloc!allocblock
  /\ \/ \E buff \in lent' \ lent :
          /\ direct' = [direct EXCEPT ![act.node][blkno] = buff.ptr_to_block]
          /\ disklist_blkno' = [disklist_blkno EXCEPT ![act.node] = buff.block_number]
          /\ GotBuffer(buff.block_number)
     \/ /\ proc' # "running"
        /\ UNCHANGED <<direct, disklist_blkno, act>>
  /\ UNCHANGED <<tables, ufdt, ret, FileSize, readoffset>>

\* There is a block already: the buffer of the last block allocated for the inode.
WriteGetsBuffer ==
  /\ NextChunk
  /\ blkno # -1
  /\ direct[act.node][blkno] # NULL
  /\ Alloc!getblk(disklist_blkno[act.node])
  /\ IF proc' = "running" THEN GotBuffer(disklist_blkno[act.node]) ELSE UNCHANGED act
  /\ UNCHANGED <<tables, ufdt, ret, files, readoffset>>

\* direct[blkno] with the uint32_t -1.
WritePastDirect ==
  /\ NextChunk
  /\ blkno = -1
  /\ StopsHere
  /\ UNCHANGED tables

Least(a, b) == IF a <= b THEN a ELSE b

\* The chunk goes to the front of the buffer (Filled), and from there to the block: what
\* fits behind index.
copy    == Least(BLOCK_SIZE, Len(act.string) - act.iCnt)
index   == position % BLOCK_SIZE
written == Least(BLOCK_SIZE - index, copy)

\* Mutant: every chunk is taken from the front of the string.
FilledFromFront(data) ==
  [i \in 0..BLOCK_SIZE-1 |-> IF i < copy THEN act.string[i + 1] ELSE data[i]]

Filled(data) ==
  [i \in 0..BLOCK_SIZE-1 |-> IF i < copy THEN act.string[act.iCnt + i + 1] ELSE data[i]]

Stored(old, data) ==
  [i \in 0..BLOCK_SIZE-1 |-> IF i \in index..index + written - 1 THEN data[i - index] ELSE old[i]]

\* Mutant: with the call of brelse that is commented out (syscalls.c:309).
CopyAndRelease(buff) ==
  LET b == buff.block_number
      h == Alloc!Cache!hashfunction(b)
  IN  /\ blocks' = [blocks EXCEPT ![direct[act.node][blkno]] = Stored(@, Filled(buff.ptr_to_data))]
      /\ lent' = lent \ {buff}
      /\ freelist' = Append(freelist, Alloc!Cache!CreateNewBuffer(b))
      /\ headers' = [headers EXCEPT ![h] = Alloc!Cache!lock_unlock_buff(@, b, FALSE)]

\* The buffer stays lent: writefile has no brelse.
CopyToBlock(buff) ==
  /\ lent' = (lent \ {buff}) \union {[buff EXCEPT !.ptr_to_data = Filled(@)]}
  /\ blocks' = [blocks EXCEPT ![direct[act.node][blkno]] = Stored(@, Filled(buff.ptr_to_data))]
  /\ UNCHANGED <<headers, freelist>>

\* iCnt counts the whole chunk and is then taken back by what did not fit.  A buffer
\* that came without a ptr_to_block has put NULL into direct.
WriteCopies ==
  /\ Running /\ Writing /\ act.step = "copy"
  /\ IF direct[act.node][blkno] = NULL
     THEN StopsHere
     ELSE /\ \E buff \in lent : buff.block_number = act.buff /\ CopyToBlock(buff)
          /\ FileSize' = [FileSize EXCEPT ![act.node] = @ + written]
          /\ act' = [act EXCEPT !.step = "get", !.iCnt = @ + copy - (copy - written), !.buff = NULL]
          /\ UNCHANGED <<proc, alloc, ufdt, ret, direct, disklist_blkno, readoffset>>
  /\ UNCHANGED tables

WriteReturns ==
  /\ Running /\ Writing /\ act.step = "get" /\ act.iCnt >= Len(act.string)
  /\ ret' = act.iCnt
  /\ act' = Idle
  /\ UNCHANGED <<cache, proc, alloc, tables, ufdt, files, readoffset>>

----------------------------------------------------------------------------
\* readfile(filedes, buffer, count).

Readable(fd) == Permissions[FTABLE[ufdt[fd]].number] \notin Unreadable

ReadRefused(fd) ==
  /\ Running /\ act = Idle
  /\ ufdt[fd] \in Entries /\ ~Readable(fd)
  /\ ret' = -1
  /\ UNCHANGED <<cache, proc, alloc, tables, ufdt, files, readoffset, act>>

\* Mutant: ufdt.offset taken for the last element of the array.
OffsetInLastSlot(e) ==
  ufdt' = [ufdt EXCEPT ![MAX_INODES - 1] = IF readoffset[e] = 0 THEN @ ELSE Wild]

\* ufdt.offset = readoffset: these bytes are also descriptor MAX_INODES.
OffsetStored(e) ==
  ufdt' = [ufdt EXCEPT ![MAX_INODES] = IF readoffset[e] = 0 THEN NULL ELSE Wild]

ReadNothing(fd) ==
  /\ Running /\ act = Idle
  /\ ufdt[fd] \in Entries /\ Readable(fd)
  /\ OffsetStored(ufdt[fd])
  /\ ret' = 0
  /\ UNCHANGED <<cache, proc, alloc, tables, files, readoffset, act>>

ReadBegins(fd, n) ==
  /\ Running /\ act = Idle
  /\ ufdt[fd] \in Entries /\ Readable(fd)
  /\ n > 0
  /\ readoffset[ufdt[fd]] <= MaxOffset
  /\ OffsetStored(ufdt[fd])
  /\ act' = [op |-> "read", fd |-> fd, node |-> FTABLE[ufdt[fd]], count |-> n, yet |-> n,
             step |-> "get", buff |-> NULL]
  /\ UNCHANGED <<cache, proc, alloc, tables, ret, files, readoffset>>

entry == ufdt[act.fd]

\* Whatever block the offset is in, the last one allocated for the inode is read (bmap's
\* result is unsigned and thus always >= 0).
ReadGetsBuffer ==
  /\ Running /\ Reading /\ act.step = "get" /\ act.yet > 0
  /\ entry \in Entries
  /\ Alloc!bread(disklist_blkno[act.node])
  /\ IF proc' = "running" THEN GotBuffer(disklist_blkno[act.node]) ELSE UNCHANGED act
  /\ UNCHANGED <<tables, ufdt, ret, files, readoffset>>

\* The descriptor was number MAX_INODES, and is gone.
ReadThroughNull ==
  /\ Running /\ Reading /\ act.step = "get" /\ act.yet > 0
  /\ entry \notin Entries
  /\ StopsHere
  /\ UNCHANGED tables

\* It returns the larger one.
MIN(a, b) == IF a > b THEN a ELSE b

chars == MIN(BLOCK_SIZE - (readoffset[entry] % BLOCK_SIZE), act.yet)

\* Both are 64 bits wide.  This is done before the copying.
Advanced    == [readoffset EXCEPT ![entry] = (@ + chars) % LongWord]
StillToRead == (act.yet + LongWord - chars) % LongWord

\* Mutant: yet is not updated.
ReadsOnAndOn ==
  /\ Running /\ Reading /\ act.step = "copy"
  /\ chars <= LongWord \div 2
  /\ \E buff \in lent : buff.block_number = act.buff /\ Alloc!brelse(buff)
  /\ act' = [act EXCEPT !.step = "get", !.buff = NULL]
  /\ UNCHANGED <<tables, ufdt, ret, files, readoffset>>

\* chars bytes go to the caller, those behind the buffer's end included, and the buffer
\* is released.
ReadCopies ==
  /\ Running /\ Reading /\ act.step = "copy"
  /\ chars <= LongWord \div 2
  /\ \E buff \in lent : buff.block_number = act.buff /\ Alloc!brelse(buff)
  /\ readoffset' = Advanced
  /\ act' = [act EXCEPT !.step = "get", !.buff = NULL, !.yet = StillToRead]
  /\ UNCHANGED <<tables, ufdt, ret, files>>

\* The copying runs out of memory, as it must with almost 2^64 bytes, or brelse's free()
\* aborts.
ReadFaults ==
  /\ Running /\ Reading /\ act.step = "copy"
  /\ proc' = "crashed"
  /\ readoffset' = Advanced
  /\ act' = [act EXCEPT !.yet = StillToRead]
  /\ UNCHANGED <<cache, alloc, tables, ufdt, ret, files>>

\* count-yet is count here.
ReadReturns ==
  /\ Running /\ Reading /\ act.step = "get" /\ act.yet = 0
  /\ ret' = IF act.count - act.yet > 0 THEN -1 ELSE 0
  /\ act' = Idle
  /\ UNCHANGED <<cache, proc, alloc, tables, ufdt, files, readoffset>>

----------------------------------------------------------------------------

writefile ==
  \/ WriteGetsBlock
  \/ WriteGetsBuffer
  \/ WritePastDirect
  \/ WriteCopies
  \/ WriteReturns

readfile ==
  \/ ReadGetsBuffer
  \/ ReadThroughNull
  \/ ReadCopies
  \/ ReadFaults
  \/ ReadReturns

Calls ==
  \/ CreateOrOpen
  \/ \E fd \in DOMAIN ufdt :
       \/ \E string \in Strings : WriteBegins(fd, string)
       \/ \E n \in Counts : ReadBegins(fd, n)
       \/ ReadNothing(fd)
       \/ ReadRefused(fd)
       \/ CallFaults(fd)

Next == Calls \/ writefile \/ readfile

\* The one process goes on as long as it can; it need not make another call.
Fairness == WF_vars(writefile \/ readfile)

Spec == Init /\ [][Next]_vars /\ Fairness
----------------------------------------------------------------------------
\* Properties.

LentNumbers == Alloc!Cache!LentNumbers
Places == Node \X Index

\* The variables this module adds have their types, and as long as the process runs no
\* size or offset is beyond what its calls can make it.  Only descriptor MAX_INODES can
\* be a wild pointer.
TypeOK ==
  /\ FileSize \in [Node -> 0..BLOCK_SIZE * NUM_DIRECT_POINTERS]
  /\ direct \in [Node -> [Index -> 0..BLOCKS_PER_LIST-1 \union {NULL}]]
  /\ disklist_blkno \in [Node -> 0..Word-1]
  /\ readoffset \in [Entries -> 0..LongWord-1]
  /\ \A e \in Entries : Running => readoffset[e] <= MaxOffset + LongWord \div 2
  /\ ufdt \in [Tables!DescriptorSlots -> Entries \union {NULL, Wild}]
  /\ \A fd \in 0..MAX_INODES-1 : ufdt[fd] # Wild

\* A descriptor of the array, once returned, leads to the same node for ever: what
\* readfile stores in ufdt.offset destroys descriptor MAX_INODES and no other.
DescriptorsSurvive ==
  [][\A fd \in 0..MAX_INODES-1 :
       ufdt[fd] # NULL => ufdt'[fd] = ufdt[fd] /\ FTABLE'[ufdt[fd]] = FTABLE[ufdt[fd]]]_vars

\* diskblock.c tests the uint32_t index with < 0.  That it does not wrap around to a
\* block number of 2^32-1 is due to the cache: the buffers run out long before.  And no
\* block is given twice, or passed over.
IndexNeverWraps ==
  /\ next_free_block_index < BLOCKS_PER_LIST
  /\ Running => given = next_free_block_index+1..BLOCKS_PER_LIST-1

\* writefile takes ptr_to_block from the buffer allocblock returns, and only a miss in
\* getblk sets it: no stale node and no reused buffer ever makes a new block a hit,
\* whatever readfile has asked for before.
NewBlockWritable ==
  [][next_free_block_index' # next_free_block_index /\ proc' = "running" =>
       \E buff \in lent' \ lent :
         /\ buff.block_number = next_free_block_index
         /\ buff.ptr_to_block = next_free_block_index
         /\ buff.ptr_to_data = Alloc!Cache!Zero]_vars

\* syscalls.c:195, "%d block is free": each block DisplaySuperBlock prints can be had.
\* There are more of them than buffers, and writefile keeps its buffers, so that this
\* does not hold: getblk waits for ever.
FreeBlockObtainable ==
  [][next_free_block_index' # next_free_block_index => proc' = "running"]_vars

\* A file's blocks are those its size needs, and one more while writefile has it in
\* hand: allocblock is called for a chunk exactly when no block is there for it.
SizeMatchesBlocks ==
  \A n \in Node, i \in Index :
    direct[n][i] # NULL <=>
      \/ i * BLOCK_SIZE < FileSize[n]
      \/ Writing /\ act.step = "copy" /\ act.node = n /\ i = blkno

\* The block of every place in a file is a block of its own, and its buffer is lent for
\* ever (the brelse at syscalls.c:309 is commented out): all the files together never
\* have more than PRIMARY_BUFFERS blocks.
BlocksStayLent ==
  /\ \A p, q \in Places :
       direct[p[1]][p[2]] = direct[q[1]][q[2]] /\ direct[p[1]][p[2]] # NULL => p = q
  /\ \A p \in Places : direct[p[1]][p[2]] \in LentNumbers \union {NULL}
  /\ Cardinality(given) <= PRIMARY_BUFFERS

\* Files are AppendOnly's: what writefile says it has written can be found, in order,
\* in the blocks of that node, and nothing that is called later on any descriptor,
\* for reading or for writing, changes what is there.
Contents(n) ==
  [k \in 1..FileSize[n] |->
     blocks[direct[n][(k - 1) \div BLOCK_SIZE]][(k - 1) % BLOCK_SIZE]]

Appended == INSTANCE AppendOnly WITH
  Files    <- Node,
  contents <- [n \in Node |-> Contents(n)],
  writing  <- IF Writing THEN [file |-> {act.node}, string |-> act.string, done |-> act.iCnt]
                         ELSE [file |-> {}, string |-> <<>>, done |-> 0],
  up       <- Running

ImplementsAppendOnly == Appended!Spec

\* No call of writefile or readfile goes round its own loop for ever: it returns, or the
\* process stops for good.  Waiting in getblk, where nobody wakes it, and a fault are
\* such stops.
CallsEnd == (act # Idle) ~> (act = Idle \/ ~Running)

\* syscalls.c:491 and the lines after it read back, and print, what line 476 has
\* written: the readfile of a written file returns.  The file's last block is still
\* busy, so that it does not.
ReadCompletes ==
  \A n \in Node : (Reading /\ act.node = n /\ FileSize[n] > 0) ~> (act = Idle)
=============================================================================

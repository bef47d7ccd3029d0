# fsold in TLA+

`fsold` is a small Unix file system in memory, after Bach's *Design of the UNIX
Operating System*: a buffer cache over a list of disk blocks, in-core inodes, a
super block, and the tables and calls of a file interface (`createfile`,
`openFile`, `writefile`, `readfile`), about 1600 lines of C. `main` runs one fixed
script of calls. There is one thread (all uses of the mutexes are commented out) and
nothing is stored anywhere but in memory, so that crash recovery and interleavings of
threads do not arise. What is hard is elsewhere:

* the same thing is kept in two places: a buffer has a node in a hash queue and
  another in the free list, an inode too, and they are connected by a number only;
* numbers are reused: a buffer is renumbered each time it serves another block;
* limits: twelve buffers, 96 blocks, 100 inodes, 100 descriptors, and tests of these
  limits that are off by one, come too late or cannot succeed;
* calls that never return: every place where the original would sleep is a loop, and
  with one process nobody ever ends it.

## The system's parts

| Part | State | Operations | Module |
|---|---|---|---|
| Buffer cache (`buffer.c`) | hash queues, free list, the flags and data of each node | `initBufferCache`, `getblk`, `bread`, `bwrite`, `brelse` | `BufferCache`, abstractly `BufferPool` |
| Disk block allocator (`diskblock.c`, super block) | disk list, `next_free_block_index`, `freeblocks` | `Linknext`, `allocblock` | `BlockAlloc` |
| Inodes (`hashqueue.c`, super block) | hash queues and free list of inodes, `free_inodes`, `indexofnextfree`, `freeinodescount` | `CreateHashQueue`, `namei`, `ialloc`, `iget`, `SetParametersHashqueue` | `FileTables` |
| File interface (`syscalls.c`) | `IITABLE`, `FTABLE`, `ufdt` | `createfile`, `openFile`, `searchfd` | `FileTables`, abstractly `FileNames` |
| File contents (`syscalls.c`) | sizes, `direct[]`, offsets | `writefile`, `readfile`, `bmap` | `FileSystem`, abstractly `AppendOnly` |
| Circular lists (`DoublyCircularList.c`, `buffer.c`) | First, Last, next, prev | insert and delete at either end, remove by number, search | `CircularList`, abstractly `NumberList`; sequences elsewhere |
| `main` (`syscalls.c`) | the descriptors, what was typed | one script of calls | `Main` |

They interact by direct calls: `writefile` calls `allocblock`, which takes a block
number from the super block and calls `getblk` for it, or `getblk` itself for the last
block it wrote; `readfile` calls `bread` and `brelse`; the descriptor leads through
`ufdt` and `FTABLE` to an inode. All state is global or owned by `main`.

## The modules

### BufferPool, BufferCache

`BufferPool` is what the cache promises: `Capacity` buffers, each standing for one
block; `Reuse` of a block's own buffer, `Reassign` of the one unused for longest to a
block that has none, `Release`, and `Halt` for a process that stops for good.

`BufferCache` is `buffer.c`. `headers[h]` and `freelist` are the lists from First to
Last; `lent` is the set of buffers that `getblk` returned and `brelse` has not got back;
`blocks` is the disk list; `proc` says whether the process still runs, and how it
stopped ("spinning" in an endless loop, "exited" by `exit()`, "crashed" on a bad
pointer; "overrun" when memory has been overwritten of which nothing can be said). `getblk` has one action per way through it:

| Action | `buffer.c` | |
|---|---|---|
| `GetblkHit` | 341-366 | found, not busy: the flags go on the hash node, the caller gets the free list's node |
| `GetblkLost` | 361-364 | found, but there is no such node in the free list: `exit()` |
| `GetblkBusy` | 350-356 | found and busy: the loop has no end |
| `GetblkNoneFree` | 373-379 | not found, no free buffer: the loop has no end |
| `GetblkMiss` | 380-408 | not found: the first free buffer is renumbered |
| `GetblkRemoveFails` | 123-128 | the same, but `Removebuffer` refuses the old number |

`bread` is `getblk` plus the copy (`Lend`); `Fill` is what `writefile` does to the data;
`bwrite` and `brelse` have a second action each for the outcome that stops the process
(`bwrite` through NULL or past the disk list; `brelse` passes `free()` an array inside
the buffer, at which a C library may abort or not).

Both copies are `strcpy`, which knows no block size: `strcpy(to, from)` is what becomes of one
block, where the bytes behind a NUL keep their old values, and a `Full` block or buffer has no NUL.
From a full buffer `bwrite` goes on with what is behind it, the padding and the pointer with its
zero bytes, and writes that to the beginning of the next block. `bread` of a full block goes on
into the next block and, in the buffer, into the padding; if the text is longer (`RunsOn`) the
node's own pointers may be hit, and the model stops there. So a `bread` of a full block has
both outcomes, and the one of a number past the list copies any text, or faults.

Abstractions, and why they are sound:

* Of a hash node only the number and one flag are kept: `busy` and `locked` are always
  set together, the node's `ptr_to_block` is written (344) and never read, its data
  never used. Of a free list node the flags are never set.
* A list is a sequence and `Removebuffer`, `Removefreebuffer`, `lock_unlock_buff` act on
  the first node of a number. The code looks at First, then Last, then the middle;
  with each number at most once in a list, which is proved, that is the same.
* A walk from a NULL First would fault at once. It cannot happen: every queue starts
  with at least two nodes (`SizesAssumption`) and none ever shrinks
  (`QueuesNeverShrink`).
* `hashfunction` converts to `int`; 4 divides 2^32, so the remainder used is the same.
* `getblk` and `bread` are also called with a number past the disk list, as `allocblock`'s
  wrapped index and the uninitialised number of an empty file may be. What a `bwrite` past the
  list does to other memory is left out.
* A caller returns a buffer once and does not use it afterwards, as `readfile` does.

### BlockAlloc

`diskblock.c` over an instance of `BufferCache`: operations only, which `FileSystem` calls.
`allocblock` is one action: it moves
the index, both 32-bit counters modulo `Word`, and conjoins the cache's `getblk`.
`given` stands for the pointers in the inodes: the blocks `allocblock` has returned a
buffer for. `getblk`, `bread` and `brelse` are the calls of `writefile` (268) and `readfile`
(354, 373). The branch for the end of the list
(lines 60-71) tests an unsigned number for being negative and is therefore absent, and with
it the waiting for `SBlocked`.

### FileNames, FileTables

`FileNames` is what `createfile` and `openFile` promise: a file keeps its name and
permissions; the lowest free descriptor is returned and designates its file for ever;
and that `searchfd`, which nobody calls, finds the first descriptor of a file.

`FileTables` is the code: two nodes per inode number (`HashNode`, `FreeNode`), the
super block's three fields and the free list, `IITABLE`, `FTABLE`, `ufdt`, the
arguments (`call`) and the result (`ret`) of the last call. `ufdt` has one slot more than
its declaration: the scan of `AllocateinUAREA` runs on into `ufdt.offset`, which is 0.
The last inode is special (`CreateStops`): `free_inodes[100]` is the low byte of
`indexofnextfree` (`FlagBehind`); the value read as a `bool` is neither 0 nor 1, so either branch
is possible, and both stop the process: taken for false, `iget` goes round for ever; taken for true,
it empties the free list, clears that byte of the index and counts the inode, `createfile` names
the hash queue's node, and `DisplayFreeList` then reads through the NULL First. With a full `FTABLE` the entry behind it is
overwritten; the model stops there (`Overrun`) and says nothing of what follows.
File names the program has not set are uninitialised memory; they are taken to match no
name that is asked for. Which hash queue holds an inode does not matter: none
is ever removed, and `namei` searches all four.

`searchfd` compares a descriptor with NULL after it has gone through it: with a name that
has no descriptor it returns -1 only if all are taken, else the process faults, which
`FileNames` allows any call to do.

### NumberList, CircularList

All other modules take the lists of the code for sequences of numbers. `NumberList` says
what they promise as such, and `CircularList` is the code, pointer by pointer. The code writes
each operation out for next/prev and again for nextfree/prevfree, for inodes and for buffers;
a node is never in two lists by the same pair, so that one pair is modelled. The differences
that matter are in `kind`: in a hash queue of buffers (`"queue"`) `DeleteFirstBuffer`
and `DeleteLastBuffer` leave the node's own pointers, the former reads through a First that is
NULL, and `Removebuffer` frees a node in the middle and exits where
`Removefreebuffer` returns NULL. A loop takes a step per node (`Loop`); `walk` is its
position. The mutable data of a node other than its number are in the other modules.

| Action | Code |
|---|---|
| `InsertFirst`, `InsertLast` | `DoublyCircularList.c` 8-37, 82-112; `buffer.c` 50-79, 154-183 |
| `DeleteFirst`, `DeleteLast` | `DoublyCircularList.c` 39-79, 114-154; `buffer.c` 185-226 |
| `RemoveRefused`, `RemoveEnd`, `RemoveBegins` | `buffer.c` 124-136, 230-246 |
| `RemoveHere`, `RemoveElsewhere` | one turn of the loop, `buffer.c` 137-149, 247-257 |
| `SearchBegins`, `SearchOn` | the loops of `lock_unlock_buff`, `getblk`, `MapToHashQueue`, `namei`, the displays |

The lists are built from empty by any calls, also those nobody makes. A number is inserted
once only; that the program keeps to it is `EveryBufferOnce` and `FoundOnce`.

### AppendOnly, FileSystem

`AppendOnly` is what `writefile` promises: a file is the sequence of what was appended to
it; a call appends its string to one file, in pieces, and returns when all is there; the
process may stop for good at any point. Nothing else changes a file.

`FileSystem` composes everything. It instantiates `FileTables` (its
`CreateOrOpen`, without `searchfd`) and `BlockAlloc`, with blocks that are arrays of bytes, and shares
`proc` with both. `FileSize`, `direct` and `disklist_blkno` are kept for each NODE: a
file that is created again has a second node with a size and blocks of its own.
`act` is the call under way, `returned` the descriptors the program has been given. `writefile` and `readfile` take two steps for each round of
their loops:

| Action | `syscalls.c` | |
|---|---|---|
| `WriteGetsBlock`, `WriteGetsBuffer` | 258-272 | no block there yet: `allocblock`; else `getblk` |
| `WritePastDirect` | 258 | `bmap` returned -1: an index far outside `direct` |
| `WriteCopies` | 273-314 | string to buffer, buffer to block, size and `iCnt` |
| `ReadGetsBuffer`, `ReadThroughNull` | 351-358 | `bread` of the last block allocated |
| `ReadCopies`, `ReadFaults` | 364-380 | `readoffset` and `yet` modulo `LongWord`, then the copy and `brelse` |

When `getblk` does not return, `proc` stops running with the call still in `act`.
`OffsetStored` is the aliasing of `ufdt.offset` and descriptor `MAX_INODES`: `readfile`
turns that descriptor into NULL (offset 0) or a wild pointer (`Wild`); a later call with it
faults (`CallFaults`, 248 and 335). `Garbage` is what
`disklist_blkno` may contain before it is first written: any `uint32_t`, also one past the
disk list, where `bread` copies other memory or faults. As the inodes come from `malloc` before
anything has been freed, it is 0 in practice; `file_system` takes 0 and a number past the list. The number
matters: with that of a block that is still to be given, a read of the empty file puts the
block into the cache, `allocblock` later hits it, and `writefile` finds no `ptr_to_block`.
Of `readfile`, where the bytes go in the caller's memory is left out: with the larger
of two counts for the smaller they overrun it.

### Main

`Main` is `main` on top of `FileSystem`, with its calls in their order: three
`createfile` and two `openFile` (`Script`, with the descriptor each result goes to and the one
that is tested), the string typed, `writefile`, `readfile`. It has the sizes of
the code, but for blocks of 8 bytes. `line` is the next call, `act` the part of a call under
way. The displays between the calls are left out, and that the cache and the disk list are set
up after the files have been opened makes no difference to either. With nothing typed,
`arr` is uninitialised and its length whatever it is: it is one of the strings. With a line as
long as a block, `scanf`, which has no width, writes past `arr`: the model stops there
(`TypesTooMuch`).

## The runs

| Run | Module | Shows | States |
|---|---|---|---|
| `buffer_cache` | `BufferCache` | types; no buffer lost or doubled; locked exactly while lent; found once; queues never shrink; refines `BufferPool`; nothing of another block reaches a caller; `bwrite` reaches its block and the beginning of the next | 1 679 346 |
| `old_number` | `BufferCache` | *violated*: a renumbered buffer's old node is gone | |
| `pointer` | `BufferCache` | *violated*: a buffer's `ptr_to_block` is its block | |
| `full_block` | `BufferCache` | *violated*: a block is written only under its own buffer | |
| `file_tables` | `FileTables` | the two inode allocators agree; tables have room; entries and descriptors are kept; refines `FileNames` | 321 462 |
| `inode_flags` | `FileTables` | *violated*: flag n-1 belongs to inode n | |
| `open_missing` | `FileTables` | *violated*: opening a missing file returns -1 | |
| `file_system` | `FileSystem` | sizes agree with blocks; no block in two places; written blocks stay lent; the index stays in the list; a new block's buffer points to it; descriptors last; refines `AppendOnly`; no call of its own loops for ever | 556 331 |
| `free_block` | `FileSystem` | *violated*: a block shown as free can be had | |
| `read_back` | `FileSystem` | *violated*: a read of a written file returns | |
| `circular_list` | `CircularList` | the ring is closed both ways; refines `NumberList`; every loop ends | 315 207 |
| `main` | `Main` | five descriptors of three files; what was typed is stored in `python.txt`; how it ends | 4 617 |

Bounds. `buffer_cache`: 4 buffers over 2 queues, so that each queue starts with two
nodes as the code's twelve over four do with three; five numbers are asked for: two the
buffers are born with (1, 4), two others on the disk list in different queues (0, 5) and one
past it (7), so that every pair of "same queue, other queue" and "born with, new"
occurs, and all four buffers can be out; a block of one byte is empty or full, which is what
`strcpy` tells apart (`full_block` has two bytes). `file_tables`: three of four inodes can be used, there is a fifth descriptor (in
`ufdt.offset`) and a sixth entry, so that each table runs out in turn; names are symmetric.
`file_system`: one inode can be used (two nodes), a third descriptor is the one in
`ufdt.offset`; 11 blocks and 4 buffers keep the proportion the properties depend on
(`SizesAssumption`), more than twice as many blocks as buffers; `Word = 16` leaves room for a
wrapped index and for the number 12 past the list; blocks of two bytes; six places for blocks but four buffers, so that the
buffers run out, and a file too; one string fills a file in three chunks, the other ends
inside a block. A read of one byte makes `yet` wrap, one of three crosses a block and leaves an odd
offset; no read starts behind `MaxOffset`. `read_back` and `free_block` have `MaxOffset = 0`.
`circular_list`: four addresses and four numbers, of which 3 is past the disk list: with
three nodes First, Last and the middle differ, with four the middle has two nodes, so that
a removal may stop after either; a hash queue has three nodes (`MaxQueue`), because those it
has freed can be used again. `main`: every string of up to seven of two bytes, in
a block of eight; `Count` is 2 for 20, less than a block as there; a `writefile` of more than a
block is covered by `file_system`.
The runs do not check for deadlock: a process that exits, faults or spins takes no further step.

What they show together. `bwrite` keeps the pointer to its block, as the comment at
`buffer.c:436` asks, and still writes another: with a full buffer it reaches the next block
(`full_block`). `WritesStayClose` says that on the disk list
this is the worst of it.

`BlocksStayLent` is the reason for much else: since the `brelse` of `writefile` is
commented out (309), the twelve buffers bound all files together. That is why a block shown as free
cannot be had (`free_block`); why the dead test at `diskblock.c:60` does not matter
(`IndexNeverWraps`); why a chunk never meets a
partly filled block (the `getblk` at 268 finds it busy and spins), so that a chunk is never
split; and why a file can be written or read, not both (`read_back`). `NewBlockWritable` says why
`writefile` may store `buff->ptr_to_block` although a hit leaves it NULL: the numbers the
buffers are born with are too low ever to be reached, so that a new block is never a hit.

`EndsInRead` is what that means for `main`: it stores what was typed (`InputStored`), and
never prints it. If something was typed, the read waits for the buffer of the block the write
has kept; if nothing, the file has no block, the read takes the uninitialised number of one,
and `yet` wraps around because `MIN` is the larger of the two counts.

Fairness. `FileSystem` assumes weak fairness of `writefile \/ readfile`: one process,
which goes on as long as it can. It need not make another call. `CallsEnd` uses it.
`CircularList` assumes it of `Loop`, a loop under way, for `LoopsEnd`, and `Main` of everything
but the typing, for `EndsInRead`: the user may never type. All other properties of the passing runs are safety properties. A process that spins has no
other that could free it, so that there is no fair schedule in which it goes on.

## The proofs

Proved for every value of the constants: every safety property of the passing runs, among them
four refinements; two properties of `FileSystem` under a hypothesis on uninitialised memory. Each argument rests on an inductive invariant, `IInv` (in `MainProofs` `MainInv`
on top of that of `FileSystemProofs`), since the properties are not inductive: they say nothing
of the state the next step reads.

**The cache** (`BufferCacheLemmas`, `BufferCacheProofs`), for any
number of queues, buffers and blocks, any size of a block and any bytes. Assumptions:
`SizesAssumption` (at least two buffers per queue, every buffer's first number on the
disk list), `NumbersAssumption`, `DataAssumption`, `NULLAssumption`. That a locked node has
its buffer lent says nothing about a second node of the same number, or about the free
list; `IInv` is `TypeOK`, and while the process runs `Consistent`:

* `QueuesOK`: a node is in the queue of its number, and no number twice in a queue;
* `Owned`: free list and `lent` hold the buffers, each number once, `PRIMARY_BUFFERS`
  in all;
* `Indexed`: every buffer's block has a node in its queue. With `QueuesOK` it has only one;
* `Locks`: exactly the nodes of lent buffers are busy. A stale node is therefore never busy,
  which is why a miss may leave it behind;
* `Clean`: free buffers are empty and point nowhere, lent ones nowhere or to their
  own block.

`BufferCacheLemmas` says what `Unlink`, `lock_unlock_buff` and a
renumbering do to a list and to the queues as a whole, what `strcpy` leaves in a block, and
that `InitialQueue` enumerates the numbers of a queue. `BufferCacheProofs` has one
lemma per action, each stating what the step keeps and what it changes; `NextInvariant`
and the theorems are cases over them. The refinement of `BufferPool` adds that the list of
numbers changes as the list of buffers does. TLC has checked `IInv` as an invariant of
`buffer_cache`.

**The tables** (`FileTablesProofs`), for any number of inodes, entries,
names and permissions. Assumptions: `TableSizesAssumption`, and `NoNULL`, that the
values written into the tables differ from the one of an empty place. `IInv` is `TypeOK`,
`AllocatorsAgree`, an index below `MAX_INODES`, and

* `EntriesTaken`: the entries taken are the first ones;
* `OwnEntry`: the descriptor in use at place `fd` has the entry at place `fd`. Both
  tables are filled from the front and never emptied, which is why two calls can
  never meet in an entry;
* `InOrder`: the nodes of `IITABLE` are the inodes 1, 2, ... in the order `ialloc` gave
  them out. It makes the place of an inode in `IITABLE` a function of its number, so that an
  `openFile` finds the node the `createfile` filled.

`FirstFreePlace` says what the searches of the tables return, `DescribeStep` what the common
end of the calls does to descriptors and entries, `PlaceOfInode` and `PlaceOfNewInode`
where a node is; then one lemma per call. The refinement of `FileNames` needs two
more invariants: `OneName` (no name is given to two inodes, as `createfile` asks `namei` first) and
`NamedOnly` (entries lead to inodes with a name). `DescribeSeen` shows that the end of a
call is the `Grant` of `FileNames`, and `SearchSeen` that `searchfd` returns the first
descriptor of the file.

`ListLemmas` has what the proofs share: removal from a sequence, the pieces of one, division with
remainder, and that every nonempty set of numbers has a least one (`LeastNumber`, by which a
walk over a list stops at the first node of a number).

**Files** (`FileSystemProofs`), for any number of inodes, entries, queues, buffers and blocks, any
size of a block, any strings and counts. Assumptions: `SizesAssumption`, `BlockAssumption`,
`PointersAssumption`. `tlapm` 1.4.5 cannot use theorems of a module that is instantiated; the parts of the invariants
of the cache and of the tables that are needed are therefore stated again here. `IInv` says:

* while the process runs, `AllocInv`: no buffer is lost or doubled, every buffer is found in
  its hash queue (`CacheInv`), and the blocks given are those behind
  `next_free_block_index`;
* `LentInv`: the buffers of the blocks given are lent, as is the one `readfile` has in hand
  and nothing else. Hence not more than `PRIMARY_BUFFERS` blocks are ever given, less than there
  are, and the index cannot wrap;
* `FilesInv`: each place in `direct` has a block of its own, among those given; a place that is
  not in work has one exactly if the size reaches it; and `disklist_blkno` of a file with a
  block is that of a lent buffer. So `WriteGetsBuffer` never comes back
  (`WriteGetsBufferStops`), and
* `ActInv`: a chunk is always copied to the front of an empty block (`index = 0`, nothing is
  split); after its first round a `readfile` has `yet = 0` or a `yet` that has wrapped around
  and is larger than half of `LongWord`, with which no second round is ever copied. This
  is what bounds `readoffset`;
* `TablesInv`: the descriptors in use lead to nodes, and the calls find room.

`TypeCorrect`, `BlocksLentForEver`, `IndexStays` (from `AllocInv` and `LentInv`), `DescriptorsLast`
and `FilesAreAppendOnly` hold for all `Garbage`, any set of values of a `uint32_t`; for the
last, `CopySeen` shows that a chunk is the next piece of the string behind the old contents,
and `BlockGotSeen` that a new block is behind the end of its file. `SizesMatch` and `NewBlocksWritable` have the hypothesis
`GarbageNeverGiven`: the uninitialised number of an inode without a block is not one of the last
`PRIMARY_BUFFERS` of the disk list, as the 0 of a fresh heap is not. Without it both are
false, as is said above under `Garbage`. `WritableInv` is what it adds: nothing in the free list
has a number still to be given. TLC has checked `IInv` as an invariant of `file_system`, also
with `Garbage` for which `WritableInv` does not hold.

**The lists** (`CircularListProofs`), for any finite set of nodes and any numbers
(`ListAssumption`). `Nodes` is what is found by following `next` from `First`, a recursive
function; nothing is proved by induction over it. `IsRing(s, ...)` says without recursion that
the nodes of `s` are closed both ways, and `NodesOfRing` that following the pointers of such
a ring yields `s`: two solutions of the recursion would differ at a first place. `IInv` is
the types and

* `IsRing` of `Nodes`, and each of its nodes with a number of its own;
* `Searching`, `Removing`: a loop under way stands at a node of the ring, and no node before it
  has the number looked for; once a removal has found its node, no node at all. Without it
  nothing could be said of the result.

`RingInsert` and `RingRemove` are the pointer manipulations, for a ring of any pointers:
a new node between Last and First, and a node taken out at any place. `ListingInsertFirst`,
`ListingInsertLast` and `ListingRemove` say what becomes of the sequence of numbers;
then there is one lemma per action. TLC has checked `IInv` as an invariant of
`circular_list`.

**main** (`MainProofs`), for tables, a cache, a disk and blocks of any sizes, provided that the
tables have room for five descriptors and that a string and what is read are shorter than a block
(`MainAssumption`). Every step of `Main` is one of `FileSystem` or stops the process, so that the `IInv` of
`FileSystemProofs` holds. `MainInv` says what is added by the order of the calls:

* after `c` calls of the script, `InodesAfter(c)` and `EntriesAfter(c)` give the tables, and
  `Results(c)` the descriptors: every call takes the next inode, entry and descriptor. That is
  why no call is refused and all the tests of the descriptors come out the same;
* from then on `Opened`: neither `writefile` nor `readfile` touches these entries, as
  `ufdt.offset` is a later descriptor;
* `StoredInv`: while `writefile` is at work, the second file has the first `iCnt` bytes of what
  was typed, and nothing else has any; then all of it.

`FilesOpen` and `InputStored` follow. TLC has checked `MainInv` as an invariant of `main`.

Only model-checked is what the prover cannot do: liveness (`LoopsEnd`, `CallsEnd`,
`EndsInRead`), which needs `ENABLED`.

## Not modelled

What the `Display` functions print (they change nothing; their loops over lists are the
searches of `CircularList`), `iput` (empty), `struct DiskINODE` (never used), `freelist.h`
(comments), `test.c` (a scratch program), the binary and editor files.

## Plan

1. **done** `BufferPool`, `BufferCache`: the core, checked and proved.
2. **done** `BlockAlloc` over `BufferCache`; `FileNames`, `FileTables`, checked and proved.
3. **done** `AppendOnly`, `FileSystem`: `writefile` and `readfile` over all the others.
4. **done** `NumberList`, `CircularList`: the pointers of `DoublyCircularList.c` and
   `buffer.c`; `Main`: the script.
5. **done** `FileSystemProofs`, `CircularListProofs`, `MainProofs`: all safety
   properties.

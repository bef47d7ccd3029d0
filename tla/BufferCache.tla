----------------------------- MODULE BufferCache ----------------------------
(***************************************************************************)
(* The buffer cache of buffer.c, called by one process (nothing in the     *)
(* repository starts a thread).                                            *)
(*                                                                         *)
(* Two structures hold SEPARATE nodes for the same block: a node in one of *)
(* the DEVICE_NUM hash queues, which carries the busy and locked flags,    *)
(* and a node in the free list, which is what getblk hands to its caller.  *)
(* Both are looked up by block number.  A list is the sequence of its      *)
(* nodes from First to Last.                                               *)
(*                                                                         *)
(* Of a hash queue node only block_number and the flags are kept: busy and *)
(* locked are always set together, and its ptr_to_block is written by      *)
(* getblk and never read.  Of a free list node the flags are left out:     *)
(* they are never set.                                                     *)
(*                                                                         *)
(* Buffers and blocks are copied by strcpy, which stops at a NUL and not   *)
(* at the end of a block: a block may be full and have none.               *)
(***************************************************************************)
EXTENDS Naturals, Sequences, FiniteSets, SequencesExt

CONSTANTS
  DEVICE_NUM,       \* hash queues
  PRIMARY_BUFFERS,  \* buffers made by initBufferCache
  BLOCKS_PER_LIST,  \* blocks of the disk list
  BlockNumbers,     \* the block numbers getblk is called with
  BLOCK_SIZE,
  Bytes,            \* 0 is the NUL
  NULL

\* 12 buffers over 4 queues and 96 blocks in the code: every queue starts with
\* at least two nodes, and every first block number is one of the disk list.
ASSUME SizesAssumption ==
  /\ DEVICE_NUM \in Nat \ {0}
  /\ PRIMARY_BUFFERS \in Nat /\ PRIMARY_BUFFERS >= 2 * DEVICE_NUM
  /\ BLOCKS_PER_LIST \in Nat /\ PRIMARY_BUFFERS < BLOCKS_PER_LIST
ASSUME NumbersAssumption == BlockNumbers \subseteq Nat
ASSUME DataAssumption    == BLOCK_SIZE \in Nat \ {0} /\ 0 \in Bytes
ASSUME NULLAssumption    == NULL \notin Nat

VARIABLES
  headers,    \* buff_cache->headers: the hash queues
  freelist,   \* freebuffhead
  lent,       \* the buffers getblk and bread returned and brelse did not get back
  blocks,     \* the disk list: (*sobj.diskhead)->blocks
  proc        \* whether the calling process still runs, and how it stopped

vars == <<headers, freelist, lent, blocks, proc>>

Headers    == 0..DEVICE_NUM-1
DiskBlocks == 0..BLOCKS_PER_LIST-1
Numbers    == BlockNumbers \union 1..PRIMARY_BUFFERS

\* What a block or a buffer can contain, and what it contains when it is new.
Data == [0..BLOCK_SIZE-1 -> Bytes]
Zero == [i \in 0..BLOCK_SIZE-1 |-> 0]

Node   == [block_number : Numbers, busy : BOOLEAN]
Buffer == [block_number : Numbers,
           ptr_to_block : Numbers \union {NULL},
           ptr_to_data  : Data]

----------------------------------------------------------------------------
\* The lists.

hashfunction(b) == b % DEVICE_NUM

\* Mutant: line 18 for line 19, from when ptr_to_data was a pointer.
CreateWithoutData(b) ==
  [block_number |-> b, ptr_to_block |-> NULL, ptr_to_data |-> NULL]

\* CreateNewBuffer, as a free list node and as a hash queue node.
CreateNewBuffer(b) ==
  [block_number |-> b, ptr_to_block |-> NULL, ptr_to_data |-> Zero]

NewNode(b) == [block_number |-> b, busy |-> FALSE]

Holds(q, b) == \E i \in DOMAIN q : q[i].block_number = b

\* The node a walk from First stops at.
Position(q, b) ==
  CHOOSE i \in DOMAIN q :
    /\ q[i].block_number = b
    /\ \A j \in DOMAIN q : q[j].block_number = b => i <= j

\* Mutant: Removefreebuffer without its last two branches.
UnlinkFirstOnly(q, b) ==
  IF q # <<>> /\ q[1].block_number = b THEN Tail(q) ELSE q

Unlink(q, b) == IF Holds(q, b) THEN RemoveAt(q, Position(q, b)) ELSE q

\* Removebuffer gets to its end.
CanRemove(q, b) == b < BLOCKS_PER_LIST /\ ~(Len(q) = 1 /\ Holds(q, b))

\* Mutant: the flags of First are set, whatever its number.
LockFirst(q, b, status) == [q EXCEPT ![1].busy = status]

lock_unlock_buff(q, b, status) ==
  IF Holds(q, b)
  THEN [q EXCEPT ![Position(q, b)] = [block_number |-> b, busy |-> status]]
  ELSE q

\* Queue h as initBufferCache fills it: the numbers from 1 that hash to h.
FirstOf(h) == IF h = 0 THEN DEVICE_NUM ELSE h
InitialQueue(h) ==
  [k \in 1..((PRIMARY_BUFFERS + DEVICE_NUM - FirstOf(h)) \div DEVICE_NUM) |->
     NewNode(FirstOf(h) + DEVICE_NUM * (k - 1))]

Queue(b) == headers[hashfunction(b)]

----------------------------------------------------------------------------
\* initBufferCache, on the disk list Linknext has just linked.

Init ==
  /\ headers  = [h \in Headers |-> InitialQueue(h)]
  /\ freelist = [i \in 1..PRIMARY_BUFFERS |-> CreateNewBuffer(i)]
  /\ lent     = {}
  /\ blocks   = [b \in DiskBlocks |-> Zero]
  /\ proc     = "running"

Stops(how) == proc' = how /\ UNCHANGED <<lent, blocks>>

\* What a buffer or a block that held "to" contains after strcpy(to, from), as far as
\* its end: what was behind the NUL stays.
strcpy(to, from) ==
  [i \in 0..BLOCK_SIZE-1 |-> IF \A j \in 0..i-1 : from[j] # 0 THEN from[i] ELSE to[i]]

\* There is no NUL, so that strcpy goes on into what is behind.
Full(data) == \A i \in 0..BLOCK_SIZE-1 : data[i] # 0

\* The string that starts at block b: any, if that is not a block of the disk list.
Text(b) == IF b \in DiskBlocks THEN {blocks[b]} ELSE Data

\* It goes on in the block behind, or in the pointer behind the last one.
RunsOn(b) ==
  b \in DiskBlocks =>
    Full(blocks[b]) /\ (b + 1 \in DiskBlocks => blocks[b + 1][0] # 0)

\* The caller gets buf.  bread also copies the block into it.  What does not fit goes to
\* the padding behind ptr_to_data; if it is longer than that, to the pointers of the
\* node and to other memory: nothing is said of the process from there on.  Past the
\* disk list there may be no memory to read.
Lend(buf, read) ==
  LET b == buf.block_number
  IN  /\ \/ ~read /\ lent' = lent \union {buf} /\ UNCHANGED proc
         \/ /\ read
            /\ \E data \in Text(b) :
                 lent' = lent \union {[buf EXCEPT !.ptr_to_data = strcpy(@, data)]}
            /\ UNCHANGED proc
         \/ read /\ RunsOn(b) /\ proc' = "overrun" /\ UNCHANGED lent
         \/ read /\ b \notin DiskBlocks /\ proc' = "crashed" /\ UNCHANGED lent
      /\ UNCHANGED blocks

----------------------------------------------------------------------------
\* getblk(b).  Each action is one way through it; "read" tells bread's call
\* from a plain one.

\* Scenario 1: a node of b is on its queue and not busy.  Its flags are set, and
\* the caller gets the free list's node of b.
GetblkHit(b, read) ==
  /\ proc = "running"
  /\ Holds(Queue(b), b)
  /\ ~Queue(b)[Position(Queue(b), b)].busy
  /\ b < BLOCKS_PER_LIST
  /\ Holds(freelist, b)
  /\ headers' = [headers EXCEPT ![hashfunction(b)] = lock_unlock_buff(@, b, TRUE)]
  /\ freelist' = Unlink(freelist, b)
  /\ Lend(freelist[Position(freelist, b)], read)

\* The same, but Removefreebuffer has no node of b to give: getblk exits.
GetblkLost(b) ==
  /\ proc = "running"
  /\ Holds(Queue(b), b)
  /\ ~Queue(b)[Position(Queue(b), b)].busy
  /\ b >= BLOCKS_PER_LIST \/ ~Holds(freelist, b)
  /\ headers' = [headers EXCEPT ![hashfunction(b)] = lock_unlock_buff(@, b, TRUE)]
  /\ UNCHANGED freelist
  /\ Stops("exited")

\* Scenario 5: the node is busy.  The loop reads the flags for ever: there is
\* nobody to reset them.
GetblkBusy(b) ==
  /\ proc = "running"
  /\ Holds(Queue(b), b)
  /\ Queue(b)[Position(Queue(b), b)].busy
  /\ UNCHANGED <<headers, freelist>>
  /\ Stops("spinning")

\* Scenario 4: no node of b, and the free list is empty; this loop has no end
\* either.
GetblkNoneFree(b) ==
  /\ proc = "running"
  /\ ~Holds(Queue(b), b)
  /\ freelist = <<>>
  /\ UNCHANGED <<headers, freelist>>
  /\ Stops("spinning")

\* Mutant: header_num is still the queue of the old number (buffer.c:391).
MissInOldQueue(b, read) ==
  /\ proc = "running"
  /\ ~Holds(Queue(b), b)
  /\ freelist # <<>>
  /\ LET travel == Head(freelist)
         old    == travel.block_number
     IN  /\ CanRemove(Queue(old), old)
         /\ freelist' = Tail(freelist)
         /\ headers' = [headers EXCEPT ![hashfunction(old)] =
                          lock_unlock_buff(<<NewNode(b)>> \o Unlink(@, old), b, TRUE)]
         /\ Lend([travel EXCEPT !.block_number = b, !.ptr_to_block = b], read)

\* Mutant: the old node is removed from its own queue.
MissFromOldQueue(b, read) ==
  /\ proc = "running"
  /\ ~Holds(Queue(b), b)
  /\ freelist # <<>>
  /\ LET travel == Head(freelist)
         old    == travel.block_number
     IN  /\ CanRemove(Queue(old), old)
         /\ freelist' = Tail(freelist)
         /\ headers' = [h \in Headers |->
              LET q == IF h = hashfunction(old) THEN Unlink(headers[h], old) ELSE headers[h]
              IN  IF h = hashfunction(b)
                  THEN lock_unlock_buff(<<NewNode(b)>> \o q, b, TRUE) ELSE q]
         /\ Lend([travel EXCEPT !.block_number = b, !.ptr_to_block = b], read)

\* Scenario 2: no node of b.  The first free buffer is renumbered.  Its old number
\* is looked for in the queue of the NEW one (Removebuffer), and a second, locked
\* node is made for b at the front of that queue.
GetblkMiss(b, read) ==
  /\ proc = "running"
  /\ ~Holds(Queue(b), b)
  /\ freelist # <<>>
  /\ LET travel == Head(freelist)
         old    == travel.block_number
     IN  /\ CanRemove(Queue(b), old)
         /\ freelist' = Tail(freelist)
         /\ headers' = [headers EXCEPT ![hashfunction(b)] =
                          lock_unlock_buff(<<NewNode(b)>> \o Unlink(@, old), b, TRUE)]
         /\ Lend([travel EXCEPT !.block_number = b, !.ptr_to_block = b], read)

\* The same, but Removebuffer stops the process with the free buffer already off
\* its list: it refuses a number past the disk list, and DeleteFirstBuffer reads
\* First->block_number of the queue it has just emptied.
GetblkRemoveFails(b) ==
  /\ proc = "running"
  /\ ~Holds(Queue(b), b)
  /\ freelist # <<>>
  /\ LET old == Head(freelist).block_number
     IN  /\ ~CanRemove(Queue(b), old)
         /\ Stops(IF old >= BLOCKS_PER_LIST THEN "exited" ELSE "crashed")
  /\ freelist' = Tail(freelist)
  /\ UNCHANGED headers

\* The calls that never return to the caller.
GetblkStops(b) ==
  \/ GetblkLost(b)
  \/ GetblkBusy(b)
  \/ GetblkNoneFree(b)
  \/ GetblkRemoveFails(b)

getblk(b) == GetblkHit(b, FALSE) \/ GetblkMiss(b, FALSE) \/ GetblkStops(b)

bread(b) == GetblkHit(b, TRUE) \/ GetblkMiss(b, TRUE) \/ GetblkStops(b)

----------------------------------------------------------------------------
\* What the caller does with a buffer it holds.

\* The caller fills the buffer itself, as writefile does.
Fill(buf, d) ==
  /\ proc = "running"
  /\ lent' = (lent \ {buf}) \union {[buf EXCEPT !.ptr_to_data = d]}
  /\ UNCHANGED <<headers, freelist, blocks, proc>>

\* Mutant: blocks->block, the first block, for blocks[blkno] (buffer.c:422).
WriteFirstBlock(buf) ==
  /\ proc = "running"
  /\ buf.ptr_to_block # NULL
  /\ blocks' = [blocks EXCEPT ![0] = strcpy(@, buf.ptr_to_data)]
  /\ UNCHANGED <<headers, freelist, lent, proc>>

\* bwrite copies the buffer to the block ptr_to_block points at.  From a full buffer the
\* copy goes on with what is behind ptr_to_data, the padding and the pointer, which has
\* a zero byte, and that goes to the next block.  A pointer past the disk list writes
\* some other memory, or faults; NULL faults.
bwrite(buf) ==
  LET b    == buf.ptr_to_block
      data == buf.ptr_to_data
  IN  /\ proc = "running"
      /\ b # NULL
      /\ \E behind \in {d \in Data : ~Full(d)} :
           blocks' = [c \in DiskBlocks |->
                        CASE c = b                   -> strcpy(blocks[c], data)
                          [] c = b + 1 /\ Full(data) -> strcpy(blocks[c], behind)
                          [] OTHER                   -> blocks[c]]
      /\ UNCHANGED <<headers, freelist, lent, proc>>

BwriteFaults(buf) ==
  /\ proc = "running"
  /\ buf.ptr_to_block \notin DiskBlocks
  /\ UNCHANGED <<headers, freelist>>
  /\ Stops("crashed")

\* Mutant: InsertFirstfreebuffer for InsertLastfreebuffer.
ReleaseFirst(buf) ==
  /\ proc = "running"
  /\ lent' = lent \ {buf}
  /\ freelist' = <<CreateNewBuffer(buf.block_number)>> \o freelist
  /\ headers' = [headers EXCEPT ![hashfunction(buf.block_number)] =
                   lock_unlock_buff(@, buf.block_number, FALSE)]
  /\ UNCHANGED <<blocks, proc>>

\* Mutant: the caller's own node goes back, with what it holds.
ReleaseSameNode(buf) ==
  /\ proc = "running"
  /\ lent' = lent \ {buf}
  /\ freelist' = Append(freelist, buf)
  /\ headers' = [headers EXCEPT ![hashfunction(buf.block_number)] =
                   lock_unlock_buff(@, buf.block_number, FALSE)]
  /\ UNCHANGED <<blocks, proc>>

\* brelse passes free() an array inside the buffer.  A C library that checks its
\* argument aborts; one that does not runs on, and a NEW node of the same number
\* joins the end of the free list.
brelse(buf) ==
  /\ proc = "running"
  /\ lent' = lent \ {buf}
  /\ freelist' = Append(freelist, CreateNewBuffer(buf.block_number))
  /\ headers' = [headers EXCEPT ![hashfunction(buf.block_number)] =
                   lock_unlock_buff(@, buf.block_number, FALSE)]
  /\ UNCHANGED <<blocks, proc>>

BrelseAborts(buf) ==
  /\ proc = "running"
  /\ UNCHANGED <<headers, freelist>>
  /\ Stops("crashed")

----------------------------------------------------------------------------

Next ==
  \/ \E b \in BlockNumbers : getblk(b) \/ bread(b)
  \/ \E buf \in lent :
       \/ \E d \in Data : Fill(buf, d)
       \/ bwrite(buf)
       \/ BwriteFaults(buf)
       \/ brelse(buf)
       \/ BrelseAborts(buf)

Spec == Init /\ [][Next]_vars

----------------------------------------------------------------------------
\* Properties.

LentNumbers == {buf.block_number : buf \in lent}
FreeNumbers == {freelist[i].block_number : i \in DOMAIN freelist}

\* Every variable keeps its type; a buffer has the number of a block that was asked for
\* or that it was made with, and an array of data of its own.
TypeOK ==
  /\ headers \in [Headers -> Seq(Node)]
  /\ freelist \in Seq(Buffer)
  /\ lent \subseteq Buffer
  /\ blocks \in [DiskBlocks -> Data]
  /\ proc \in {"running", "spinning", "exited", "crashed", "overrun"}

\* No buffer is lost or doubled: as long as the process runs, the free list and
\* the callers of getblk together hold PRIMARY_BUFFERS buffers, each of a block of
\* its own.  The block number is the only identity a buffer has, getblk renumbers
\* buffers, and brelse makes a new node for the one it gets.
EveryBufferOnce ==
  proc = "running" =>
    /\ Len(freelist) + Cardinality(lent) = PRIMARY_BUFFERS
    /\ \A i, j \in DOMAIN freelist :
         freelist[i].block_number = freelist[j].block_number => i = j
    /\ \A buf1, buf2 \in lent :
         buf1.block_number = buf2.block_number => buf1 = buf2
    /\ FreeNumbers \intersect LentNumbers = {}

\* The flags are on one node and the buffer is another: a hash queue node is
\* locked exactly while the buffer of its block is with a caller.
LockedIffLent ==
  proc = "running" =>
    \A h \in Headers : \A i \in DOMAIN headers[h] :
      headers[h][i].busy <=> headers[h][i].block_number \in LentNumbers

\* A block that has a buffer, free or lent, is found in the queue it hashes to and
\* nowhere else, so that getblk never gives such a block a second buffer.
FoundOnce ==
  proc = "running" =>
    \A b \in FreeNumbers \union LentNumbers :
      /\ Holds(Queue(b), b)
      /\ \A h \in Headers : \A i \in DOMAIN headers[h] :
           headers[h][i].block_number = b =>
             h = hashfunction(b) /\ i = Position(Queue(b), b)

\* No call shortens a hash queue.  Every queue starts with two nodes or more, so
\* DeleteFirstBuffer never empties one (it would read through the NULL First it
\* has just set), and no walk of getblk starts at a NULL First.
QueuesNeverShrink ==
  [][\A h \in Headers : Len(headers'[h]) >= Len(headers[h])]_vars

\* A caller never receives what a buffer held for another block: a buffer that
\* has just been handed out is empty, or has the string its own block begins with
\* (bread) and nothing behind that.
NothingInherited ==
  [][\A buf \in lent' :
       \/ buf.block_number \in LentNumbers
       \/ buf.ptr_to_data = Zero
       \/ \E data \in Text(buf.block_number) : buf.ptr_to_data = strcpy(Zero, data)]_vars

\* The damage bwrite can do: a block changes only while a caller has its buffer, or has
\* the full buffer of the block before it, and then the block becomes what that
\* buffer says up to the NUL, or gets a new beginning with a NUL in it.
WritesStayClose ==
  [][\A b \in DiskBlocks :
       blocks'[b] # blocks[b] =>
         \E buf \in lent :
           \/ buf.block_number = b /\ blocks'[b] = strcpy(blocks[b], buf.ptr_to_data)
           \/ buf.block_number + 1 = b /\ Full(buf.ptr_to_data) /\ ~Full(blocks'[b])]_vars

\* The cache is the pool of BufferPool: of all its nodes and flags, what shows is
\* which blocks have a free buffer, in which order, and which are lent.
Pool == INSTANCE BufferPool WITH
  Capacity  <- PRIMARY_BUFFERS,
  available <- [i \in DOMAIN freelist |-> freelist[i].block_number],
  out       <- LentNumbers,
  up        <- proc = "running"

\* Every call of getblk, bread, bwrite and brelse is one operation of the pool or
\* invisible in it: buffers are reused in the order they were given back.
ImplementsPool == Pool!Spec

\* buffer.c:436-441, "in this situation we will write to the wrong block 100%. For this
\* use[r] a pointer to the block from the buffer": what is written is the block of a
\* buffer the caller has.  The copy of a full buffer goes on into the next block, so
\* this does not hold.
WritesOwnBlock ==
  [][\A b \in DiskBlocks : blocks'[b] # blocks[b] => b \in LentNumbers]_vars

\* buffer.c:394, "Remove the old from hashqueue": a hash queue has no node of a
\* block that has lost its buffer.  The code looks for the old number in the queue
\* of the new one, so this does not hold.
OldNumberGone ==
  proc = "running" =>
    \A h \in Headers : \A i \in DOMAIN headers[h] :
      headers[h][i].block_number \in FreeNumbers \union LentNumbers

\* buffer.c:330, "buffer's ptr_to_block will point to the block": the caller of
\* getblk can use ptr_to_block.  On a hit the pointer is set on the hash queue's
\* node and the caller gets the free list's, so this does not hold.
PointsToItsBlock ==
  \A buf \in lent : buf.ptr_to_block = buf.block_number
=============================================================================

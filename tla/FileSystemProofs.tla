-------------------------- MODULE FileSystemProofs --------------------------
(***************************************************************************)
(* Proofs about FileSystem, for every number of buffers, blocks and        *)
(* inodes, every size of a block, and whatever is written and read: files  *)
(* keep to their own blocks, and the whole is an AppendOnly store.         *)
(*                                                                         *)
(* The cache is Alloc!Cache.  Less is needed of it here than               *)
(* BufferCacheProofs shows: that it loses and doubles no buffer, and finds *)
(* each one in its hash queue.                                             *)
(***************************************************************************)
EXTENDS FileSystem, ListLemmas

----------------------------------------------------------------------------
\* The buffers: what of the cache's state matters.

Block      == [0..BLOCK_SIZE-1 -> Bytes]
EmptyBlock == [i \in 0..BLOCK_SIZE-1 |-> 0]

DiskBlocks  == 0..BLOCKS_PER_LIST-1
Headers     == 0..DEVICE_NUM-1
FreeNumbers == Alloc!Cache!FreeNumbers

QueueNode  == [block_number : Nat, busy : BOOLEAN]
FreeBuffer == [block_number : Nat, ptr_to_block : {NULL}, ptr_to_data : {EmptyBlock}]
LentBuffer == [block_number : Nat, ptr_to_block : Nat \union {NULL}, ptr_to_data : Block]

CacheTypes ==
  /\ headers \in [Headers -> Seq(QueueNode)]
  /\ freelist \in Seq(FreeBuffer)
  /\ lent \subseteq LentBuffer /\ IsFiniteSet(lent)

\* All buffers are there, and no two have the same number.
BuffersOnce ==
  /\ Len(freelist) + Cardinality(lent) = PRIMARY_BUFFERS
  /\ \A i, j \in DOMAIN freelist : freelist[i].block_number = freelist[j].block_number => i = j
  /\ \A x, y \in lent : x.block_number = y.block_number => x = y
  /\ FreeNumbers \intersect LentNumbers = {}

\* The walk of a hash queue finds the number of every buffer.
Found(b)   == Alloc!Cache!Holds(headers[b % DEVICE_NUM], b)
BuffersFound == \A b \in FreeNumbers \union LentNumbers : Found(b)

CacheInv == CacheTypes /\ BuffersOnce /\ BuffersFound

----------------------------------------------------------------------------
\* Lemmas about the cache's lists.

LEMMA PositionIsFirst ==
  ASSUME NEW S, NEW q \in Seq(S), NEW b, Alloc!Cache!Holds(q, b)
  PROVE  LET p == Alloc!Cache!Position(q, b)
         IN  p \in DOMAIN q /\ q[p].block_number = b
<1> DEFINE T == {i \in DOMAIN q : q[i].block_number = b}
<1>1. T \in SUBSET Nat /\ T # {}
  BY LenProperties DEF Alloc!Cache!Holds
<1>2. PICK n \in T : \A m \in T : n <= m
  <2> HIDE DEF T
  <2> QED BY <1>1, LeastNumber
<1> QED BY <1>2 DEF Alloc!Cache!Position

\* A queue without the node of b holds every other number it held.
LEMMA UnlinkKeeps ==
  ASSUME NEW S, NEW q \in Seq(S), NEW b
  PROVE  /\ Alloc!Cache!Unlink(q, b) \in Seq(S)
         /\ \A c : c # b /\ Alloc!Cache!Holds(q, c)
                     => Alloc!Cache!Holds(Alloc!Cache!Unlink(q, b), c)
<1>1. CASE ~Alloc!Cache!Holds(q, b)
  BY <1>1 DEF Alloc!Cache!Unlink
<1>2. CASE Alloc!Cache!Holds(q, b)
  <2> DEFINE p == Alloc!Cache!Position(q, b)
             u == SeqExt!RemoveAt(q, p)
  <2>1. p \in DOMAIN q /\ q[p].block_number = b
    BY <1>2, PositionIsFirst
  <2>2. Alloc!Cache!Unlink(q, b) = u
    BY <1>2 DEF Alloc!Cache!Unlink, Alloc!Cache!RemoveAt, SeqExt!RemoveAt
  <2> HIDE DEF p
  <2>3. u \in Seq(S) /\ \A i \in DOMAIN q \ {p} : \E j \in DOMAIN u : u[j] = q[i]
    BY <2>1, RemoveAtOthers
  <2> HIDE DEF u
  <2>4. \A c : c # b /\ Alloc!Cache!Holds(q, c) => Alloc!Cache!Holds(u, c)
    BY <2>1, <2>3 DEF Alloc!Cache!Holds
  <2> QED BY <2>2, <2>3, <2>4
<1> QED BY <1>1, <1>2

\* Setting flags keeps every number.
LEMMA LockKeeps ==
  ASSUME NEW q \in Seq(QueueNode), NEW b \in Nat, NEW status \in BOOLEAN
  PROVE  LET l == Alloc!Cache!lock_unlock_buff(q, b, status)
         IN  /\ l \in Seq(QueueNode)
             /\ \A c : Alloc!Cache!Holds(q, c) => Alloc!Cache!Holds(l, c)
<1>1. CASE ~Alloc!Cache!Holds(q, b)
  BY <1>1 DEF Alloc!Cache!lock_unlock_buff
<1>2. CASE Alloc!Cache!Holds(q, b)
  <2> DEFINE p == Alloc!Cache!Position(q, b)
             l == [q EXCEPT ![p] = [block_number |-> b, busy |-> status]]
  <2>1. p \in DOMAIN q /\ q[p].block_number = b
    BY <1>2, PositionIsFirst
  <2>2. Alloc!Cache!lock_unlock_buff(q, b, status) = l
    BY <1>2 DEF Alloc!Cache!lock_unlock_buff
  <2> HIDE DEF p
  <2>3. [block_number |-> b, busy |-> status] \in QueueNode
    BY DEF QueueNode
  <2>4. l \in Seq(QueueNode)
    BY <2>1, <2>3, LenProperties, ExceptSeq
  <2>5. DOMAIN l = DOMAIN q /\ \A i \in DOMAIN q : l[i].block_number = q[i].block_number
    BY <2>1
  <2> QED BY <2>2, <2>4, <2>5 DEF Alloc!Cache!Holds
<1> QED BY <1>1, <1>2

LEMMA HashIsHeader ==
  ASSUME NEW b \in Nat
  PROVE  b % DEVICE_NUM \in Headers
  BY SizesAssumption DEF Headers

\* lock_unlock_buff on the queue of b.
LEMMA RelockKeeps ==
  ASSUME headers \in [Headers -> Seq(QueueNode)], NEW b \in Nat, NEW status \in BOOLEAN,
         headers' = [headers EXCEPT ![Alloc!Cache!hashfunction(b)] =
                       Alloc!Cache!lock_unlock_buff(@, b, status)]
  PROVE  /\ headers' \in [Headers -> Seq(QueueNode)]
         /\ \A c \in Nat : Found(c) => Found(c)'
<1> DEFINE h == b % DEVICE_NUM
           l == Alloc!Cache!lock_unlock_buff(headers[h], b, status)
<1>1. h \in Headers
  BY HashIsHeader
<1>2. l \in Seq(QueueNode) /\ \A c : Alloc!Cache!Holds(headers[h], c) => Alloc!Cache!Holds(l, c)
  BY <1>1, LockKeeps
<1>3. headers' = [headers EXCEPT ![h] = l]
  BY DEF Alloc!Cache!hashfunction
<1> HIDE DEF h, l
<1>4. \A g \in Headers : headers'[g] = IF g = h THEN l ELSE headers[g]
  BY <1>1, <1>3
<1>5. headers' \in [Headers -> Seq(QueueNode)]
  BY <1>1, <1>2, <1>3
<1>6. ASSUME NEW c \in Nat, Found(c)
      PROVE  Found(c)'
  <2>1. c % DEVICE_NUM \in Headers
    BY HashIsHeader
  <2> QED BY <1>2, <1>4, <1>6, <2>1 DEF Found
<1> QED BY <1>5, <1>6

\* A miss: the queue of b gets a node of b and loses at most the one of the old number.
LEMMA RenewKeeps ==
  ASSUME headers \in [Headers -> Seq(QueueNode)], NEW b \in Nat, NEW old,
         headers' = [headers EXCEPT ![Alloc!Cache!hashfunction(b)] =
                       Alloc!Cache!lock_unlock_buff(
                         <<Alloc!Cache!NewNode(b)>> \o Alloc!Cache!Unlink(@, old), b, TRUE)]
  PROVE  /\ headers' \in [Headers -> Seq(QueueNode)]
         /\ Found(b)'
         /\ \A c \in Nat \ {old} : Found(c) => Found(c)'
<1> DEFINE h    == b % DEVICE_NUM
           rest == Alloc!Cache!Unlink(headers[h], old)
           q    == <<Alloc!Cache!NewNode(b)>> \o rest
           l    == Alloc!Cache!lock_unlock_buff(q, b, TRUE)
<1>1. h \in Headers
  BY HashIsHeader
<1>2. headers' = [headers EXCEPT ![h] = l]
  BY DEF Alloc!Cache!hashfunction
<1>3. headers[h] \in Seq(QueueNode)
  BY <1>1
<1>4. /\ rest \in Seq(QueueNode)
      /\ \A c : c # old /\ Alloc!Cache!Holds(headers[h], c) => Alloc!Cache!Holds(rest, c)
  BY <1>3, UnlinkKeeps
<1> HIDE DEF h, rest
<1>5. /\ q \in Seq(QueueNode) /\ Alloc!Cache!Holds(q, b)
      /\ \A c : Alloc!Cache!Holds(rest, c) => Alloc!Cache!Holds(q, c)
  <2>1. Alloc!Cache!NewNode(b) \in QueueNode /\ Alloc!Cache!NewNode(b).block_number = b
    BY DEF Alloc!Cache!NewNode, QueueNode
  <2>2. /\ q \in Seq(QueueNode) /\ Len(q) = Len(rest) + 1
        /\ q[1] = Alloc!Cache!NewNode(b)
        /\ \A i \in 1..Len(rest) : q[i + 1] = rest[i]
    BY <1>4, <2>1, ConsElements
  <2> HIDE DEF q
  <2>3. Len(rest) \in Nat /\ DOMAIN rest = 1..Len(rest) /\ DOMAIN q = 1..Len(rest) + 1
    BY <1>4, <2>2, LenProperties
  <2>4. Alloc!Cache!Holds(q, b)
    <3>1. 1 \in DOMAIN q /\ q[1].block_number = b
      BY <2>1, <2>2, <2>3
    <3> QED BY <3>1 DEF Alloc!Cache!Holds
  <2>5. \A i \in DOMAIN rest : i + 1 \in DOMAIN q /\ q[i + 1] = rest[i]
    BY <2>2, <2>3
  <2>6. \A c : Alloc!Cache!Holds(rest, c) => Alloc!Cache!Holds(q, c)
    BY <2>5 DEF Alloc!Cache!Holds
  <2> QED BY <2>2, <2>4, <2>6
<1> HIDE DEF q
<1>6. l \in Seq(QueueNode) /\ \A c : Alloc!Cache!Holds(q, c) => Alloc!Cache!Holds(l, c)
  BY <1>5, LockKeeps
<1> HIDE DEF l
<1>7. \A g \in Headers : headers'[g] = IF g = h THEN l ELSE headers[g]
  BY <1>1, <1>2
<1>8. headers' \in [Headers -> Seq(QueueNode)]
  BY <1>1, <1>2, <1>6
<1>9. Found(b)'
  BY <1>1, <1>5, <1>6, <1>7 DEF Found, h
<1>10. ASSUME NEW c \in Nat \ {old}, Found(c)
       PROVE  Found(c)'
  <2>1. c % DEVICE_NUM \in Headers
    BY HashIsHeader
  <2> QED BY <1>4, <1>5, <1>6, <1>7, <1>10, <2>1 DEF Found
<1> QED BY <1>8, <1>9, <1>10

----------------------------------------------------------------------------
\* What the cache's operations do.

LEMMA NumbersAreNat ==
  ASSUME CacheTypes
  PROVE  FreeNumbers \union LentNumbers \subseteq Nat
<1>1. ASSUME NEW i \in DOMAIN freelist
      PROVE  freelist[i].block_number \in Nat
  <2>1. freelist[i] \in FreeBuffer
    BY ElementOfSeq, LenProperties DEF CacheTypes
  <2> QED BY <2>1 DEF FreeBuffer
<1>2. \A x \in lent : x.block_number \in Nat
  BY DEF CacheTypes, LentBuffer
<1> QED BY <1>1, <1>2 DEF FreeNumbers, Alloc!Cache!FreeNumbers,
                          LentNumbers, Alloc!Cache!LentNumbers

\* One more buffer with a caller, of a number no caller has.
LEMMA LendAdds ==
  ASSUME CacheTypes, BuffersOnce, NEW buf \in LentBuffer, buf.block_number \notin LentNumbers,
         lent' = lent \union {buf}
  PROVE  /\ lent' \subseteq LentBuffer /\ IsFiniteSet(lent')
         /\ Cardinality(lent') = Cardinality(lent) + 1
         /\ \A x, y \in lent' : x.block_number = y.block_number => x = y
         /\ LentNumbers' = LentNumbers \union {buf.block_number}
<1>1. \A x \in lent : x.block_number # buf.block_number
  BY DEF LentNumbers, Alloc!Cache!LentNumbers
<1>2. buf \notin lent
  BY <1>1
<1>3. IsFiniteSet(lent') /\ Cardinality(lent') = Cardinality(lent) + 1
  BY <1>2, FS_AddElement DEF CacheTypes
<1>4. \A x, y \in lent' : x.block_number = y.block_number => x = y
  BY <1>1 DEF BuffersOnce
<1>5. LentNumbers' = LentNumbers \union {buf.block_number}
  BY DEF LentNumbers, Alloc!Cache!LentNumbers
<1> QED BY <1>3, <1>4, <1>5 DEF CacheTypes

LEMMA EmptyIsBlock == EmptyBlock \in Block /\ Alloc!Cache!Zero = EmptyBlock
  BY BlockAssumption DEF EmptyBlock, Block, Alloc!Cache!Zero

\* What the caller gets has the same number and pointer, whatever bread copies into it,
\* and from getblk the same content.
LEMMA LentForm ==
  ASSUME NEW buf \in LentBuffer, NEW read \in BOOLEAN, blocks \in [DiskBlocks -> Block],
         Alloc!Cache!Lend(buf, read), proc' = "running"
  PROVE  /\ \E new \in LentBuffer :
              /\ new.block_number = buf.block_number /\ new.ptr_to_block = buf.ptr_to_block
              /\ read \/ new.ptr_to_data = buf.ptr_to_data
              /\ lent' = lent \union {new}
         /\ UNCHANGED blocks
<1> DEFINE b == buf.block_number
<1>1. UNCHANGED blocks
  BY DEF Alloc!Cache!Lend
<1>2. CASE ~read /\ lent' = lent \union {buf}
  BY <1>1, <1>2
<1>3. ASSUME NEW d \in Alloc!Cache!Text(b),
             lent' = lent \union {[buf EXCEPT !.ptr_to_data = Alloc!Cache!strcpy(@, d)]}, read
      PROVE  \E new \in LentBuffer :
               /\ new.block_number = b /\ new.ptr_to_block = buf.ptr_to_block
               /\ lent' = lent \union {new}
  <2>1. d \in Block
    BY DEF Alloc!Cache!Text, Alloc!Cache!DiskBlocks, DiskBlocks, Alloc!Cache!Data, Block
  <2>2. PICK c : c = Alloc!Cache!strcpy(buf.ptr_to_data, d)
    OBVIOUS
  <2>3. c \in Block
    <3>1. buf.ptr_to_data \in Block
      BY DEF LentBuffer
    <3>2. c = [i \in 0..BLOCK_SIZE-1 |->
                 IF \A j \in 0..i-1 : d[j] # 0 THEN d[i] ELSE buf.ptr_to_data[i]]
      BY <2>2 DEF Alloc!Cache!strcpy
    <3>3. \A i \in 0..BLOCK_SIZE-1 : c[i] \in Bytes
      BY <2>1, <3>1, <3>2 DEF Block
    <3> QED BY <3>2, <3>3 DEF Block
  <2>4. lent' = lent \union {[buf EXCEPT !.ptr_to_data = c]}
    BY <1>3, <2>2
  <2>5. /\ [buf EXCEPT !.ptr_to_data = c] \in LentBuffer
        /\ [buf EXCEPT !.ptr_to_data = c].block_number = b
        /\ [buf EXCEPT !.ptr_to_data = c].ptr_to_block = buf.ptr_to_block
    BY <2>3 DEF LentBuffer
  <2> QED BY <2>4, <2>5
<1>4. \/ ~read /\ lent' = lent \union {buf}
      \/ read /\ \E d \in Alloc!Cache!Text(b) :
           lent' = lent \union {[buf EXCEPT !.ptr_to_data = Alloc!Cache!strcpy(@, d)]}
  BY DEF Alloc!Cache!Lend
<1> QED BY <1>1, <1>2, <1>3, <1>4

\* The copy runs past the buffer, or reads where there is no memory: nothing is lent.
LEMMA LendStops ==
  ASSUME NEW buf, NEW read, Alloc!Cache!Lend(buf, read), proc = "running", proc' # "running"
  PROVE  UNCHANGED <<lent, blocks>>
  BY DEF Alloc!Cache!Lend

\* What getblk or bread of b has done when it returns: the buffer is free no more.  It
\* points to its block unless it had this number already.
Obtained(b, read) ==
  /\ b \notin LentNumbers /\ freelist # <<>>
  /\ FreeNumbers' \subseteq FreeNumbers
  /\ \E buf \in LentBuffer :
       /\ buf.block_number = b
       /\ buf.ptr_to_block \in {b, NULL}
       /\ buf.ptr_to_block = NULL => b \in FreeNumbers
       /\ read \/ buf.ptr_to_data = EmptyBlock
       /\ lent' = lent \union {buf}
  /\ LentNumbers' = LentNumbers \union {b}
  /\ UNCHANGED <<blocks, proc>>

LEMMA HitStep ==
  ASSUME CacheInv, blocks \in [DiskBlocks -> Block], NEW b \in Nat, NEW read \in BOOLEAN,
         Alloc!Cache!GetblkHit(b, read), proc' = "running"
  PROVE  CacheInv' /\ Obtained(b, read)
<1> DEFINE p   == Alloc!Cache!Position(freelist, b)
           u   == SeqExt!RemoveAt(freelist, p)
           buf == freelist[p]
<1>1. /\ Alloc!Cache!Holds(freelist, b)
      /\ freelist' = u
      /\ Alloc!Cache!Lend(buf, read)
      /\ proc = "running"
      /\ headers' = [headers EXCEPT ![Alloc!Cache!hashfunction(b)] =
                       Alloc!Cache!lock_unlock_buff(@, b, TRUE)]
  BY DEF Alloc!Cache!GetblkHit, Alloc!Cache!Unlink, Alloc!Cache!RemoveAt, SeqExt!RemoveAt
<1>2. /\ headers \in [Headers -> Seq(QueueNode)] /\ freelist \in Seq(FreeBuffer)
      /\ Len(freelist) \in Nat /\ DOMAIN freelist = 1..Len(freelist)
  BY LenProperties DEF CacheInv, CacheTypes
<1>3. p \in DOMAIN freelist /\ buf.block_number = b
  BY <1>1, <1>2, PositionIsFirst
<1> HIDE DEF p
<1>4. /\ buf \in LentBuffer /\ buf.ptr_to_block = NULL /\ buf.ptr_to_data = EmptyBlock
  <2>1. buf \in FreeBuffer
    BY <1>2, <1>3, ElementOfSeq
  <2> HIDE DEF buf
  <2> QED BY <2>1, EmptyIsBlock DEF FreeBuffer, LentBuffer
<1>5. b \in FreeNumbers /\ b \notin LentNumbers
  BY <1>3 DEF FreeNumbers, Alloc!Cache!FreeNumbers, CacheInv, BuffersOnce
<1> HIDE DEF buf
<1>a. /\ \E new \in LentBuffer :
           /\ new.block_number = buf.block_number /\ new.ptr_to_block = buf.ptr_to_block
           /\ read \/ new.ptr_to_data = buf.ptr_to_data
           /\ lent' = lent \union {new}
      /\ UNCHANGED blocks
  BY <1>1, <1>4, LentForm
<1>6. PICK new \in LentBuffer :
        /\ new.block_number = b /\ new.ptr_to_block = NULL
        /\ read \/ new.ptr_to_data = EmptyBlock
        /\ lent' = lent \union {new}
  BY <1>3, <1>4, <1>a
<1>7. /\ u \in Seq(FreeBuffer) /\ Len(u) = Len(freelist) - 1
      /\ \A j \in DOMAIN u :
           \E i \in DOMAIN freelist \ {p} : u[j] = freelist[i] /\ ((j < p /\ i = j) \/ (j >= p /\ i = j + 1))
  <2>1. freelist \in Seq(FreeBuffer) /\ p \in DOMAIN freelist
    BY <1>2, <1>3
  <2>2. u \in Seq(FreeBuffer) /\ Len(u) = Len(freelist) - 1
    BY <2>1, RemoveAtOthers
  <2>3. \A j \in DOMAIN u :
           \E i \in DOMAIN freelist \ {p} : u[j] = freelist[i] /\ ((j < p /\ i = j) \/ (j >= p /\ i = j + 1))
    BY <2>1, RemoveAtOthers
  <2> QED BY <2>2, <2>3
<1> HIDE DEF u
<1>8. DOMAIN u = 1..Len(freelist) - 1
  BY <1>7, LenProperties
<1>9. /\ lent' \subseteq LentBuffer /\ IsFiniteSet(lent')
      /\ Cardinality(lent') = Cardinality(lent) + 1
      /\ \A x, y \in lent' : x.block_number = y.block_number => x = y
      /\ LentNumbers' = LentNumbers \union {b}
  BY <1>1, <1>5, <1>6, LendAdds DEF CacheInv
<1>10. headers' \in [Headers -> Seq(QueueNode)] /\ \A c \in Nat : Found(c) => Found(c)'
  BY <1>1, <1>2, RelockKeeps
<1>11. CacheTypes'
  BY <1>1, <1>7, <1>9, <1>10 DEF CacheTypes
<1>12. FreeNumbers' \subseteq FreeNumbers \ {b}
  <2>1. FreeNumbers' = {u[j].block_number : j \in DOMAIN u}
    BY <1>1 DEF FreeNumbers, Alloc!Cache!FreeNumbers
  <2>2. ASSUME NEW j \in DOMAIN u
        PROVE  u[j].block_number \in FreeNumbers \ {b}
    <3>1. PICK i \in DOMAIN freelist \ {p} : u[j] = freelist[i]
      BY <1>7
    <3>2. freelist[i].block_number # b
      BY <1>3, <3>1 DEF CacheInv, BuffersOnce, buf
    <3> QED BY <3>1, <3>2 DEF FreeNumbers, Alloc!Cache!FreeNumbers
  <2> QED BY <2>1, <2>2
<1>13. ASSUME NEW i \in DOMAIN u, NEW j \in DOMAIN u, u[i].block_number = u[j].block_number
       PROVE  i = j
  <2>1. PICK k \in DOMAIN freelist : u[i] = freelist[k] /\ ((i < p /\ k = i) \/ (i >= p /\ k = i + 1))
    BY <1>7
  <2>2. PICK m \in DOMAIN freelist : u[j] = freelist[m] /\ ((j < p /\ m = j) \/ (j >= p /\ m = j + 1))
    BY <1>7
  <2>3. k = m
    BY <1>13, <2>1, <2>2 DEF CacheInv, BuffersOnce
  <2> QED BY <1>2, <1>3, <1>8, <2>1, <2>2, <2>3
<1>14. Len(u) + Cardinality(lent') = PRIMARY_BUFFERS
  <2>1. Cardinality(lent) \in Nat
    BY FS_CardinalityType DEF CacheInv, CacheTypes
  <2> QED BY <1>2, <1>7, <1>9, <2>1 DEF CacheInv, BuffersOnce
<1>15. BuffersOnce'
  <2>1. FreeNumbers' \intersect LentNumbers' = {}
    BY <1>9, <1>12 DEF CacheInv, BuffersOnce
  <2> QED BY <1>1, <1>9, <1>13, <1>14, <2>1 DEF BuffersOnce
<1>16. BuffersFound'
  <2>1. FreeNumbers' \union LentNumbers' \subseteq FreeNumbers \union LentNumbers
    BY <1>5, <1>9, <1>12
  <2>2. FreeNumbers \union LentNumbers \subseteq Nat
    BY NumbersAreNat DEF CacheInv
  <2> QED BY <1>10, <2>1, <2>2 DEF CacheInv, BuffersFound
<1>17. freelist # <<>>
  BY <1>1 DEF Alloc!Cache!Holds
<1> QED BY <1>1, <1>a, <1>5, <1>6, <1>9, <1>11, <1>12, <1>15, <1>16, <1>17 DEF CacheInv, Obtained

LEMMA MissStep ==
  ASSUME CacheInv, blocks \in [DiskBlocks -> Block], NEW b \in Nat, NEW read \in BOOLEAN,
         Alloc!Cache!GetblkMiss(b, read), proc' = "running"
  PROVE  CacheInv' /\ Obtained(b, read)
<1> DEFINE travel == Head(freelist)
           old == travel.block_number
           buf == [travel EXCEPT !.block_number = b, !.ptr_to_block = b]
<1>1. /\ ~Found(b) /\ freelist # <<>>
      /\ freelist' = Tail(freelist)
      /\ Alloc!Cache!Lend(buf, read)
      /\ proc = "running"
      /\ headers' = [headers EXCEPT ![Alloc!Cache!hashfunction(b)] =
                       Alloc!Cache!lock_unlock_buff(
                         <<Alloc!Cache!NewNode(b)>> \o Alloc!Cache!Unlink(@, old), b, TRUE)]
  BY DEF Alloc!Cache!GetblkMiss, Alloc!Cache!Queue, Alloc!Cache!hashfunction, Found
<1>2. /\ headers \in [Headers -> Seq(QueueNode)] /\ freelist \in Seq(FreeBuffer)
  BY DEF CacheInv, CacheTypes
<1>3. /\ Len(freelist) \in Nat \ {0} /\ DOMAIN freelist = 1..Len(freelist)
      /\ travel = freelist[1] /\ travel \in FreeBuffer
      /\ freelist' \in Seq(FreeBuffer) /\ Len(freelist') = Len(freelist) - 1
      /\ \A i \in 1..Len(freelist) - 1 : freelist'[i] = freelist[i + 1]
  BY <1>1, <1>2, HeadTailProperties, LenProperties
<1>4. DOMAIN freelist' = 1..Len(freelist) - 1
  BY <1>3, LenProperties
<1>5. b \notin FreeNumbers \union LentNumbers
  BY <1>1 DEF CacheInv, BuffersFound
<1>a. /\ buf \in LentBuffer /\ buf.block_number = b /\ buf.ptr_to_block = b
      /\ buf.ptr_to_data = EmptyBlock
  <2> HIDE DEF travel
  <2> QED BY <1>3, EmptyIsBlock DEF FreeBuffer, LentBuffer
<1> HIDE DEF buf
<1>b. /\ \E new \in LentBuffer :
           /\ new.block_number = buf.block_number /\ new.ptr_to_block = buf.ptr_to_block
           /\ read \/ new.ptr_to_data = buf.ptr_to_data
           /\ lent' = lent \union {new}
      /\ UNCHANGED blocks
  BY <1>1, <1>a, LentForm
<1>6. PICK new \in LentBuffer :
        /\ new.block_number = b /\ new.ptr_to_block = b
        /\ read \/ new.ptr_to_data = EmptyBlock
        /\ lent' = lent \union {new}
  BY <1>a, <1>b
<1>7. /\ lent' \subseteq LentBuffer /\ IsFiniteSet(lent')
      /\ Cardinality(lent') = Cardinality(lent) + 1
      /\ \A x, y \in lent' : x.block_number = y.block_number => x = y
      /\ LentNumbers' = LentNumbers \union {b}
  BY <1>1, <1>5, <1>6, LendAdds DEF CacheInv
<1>8. FreeNumbers' \subseteq FreeNumbers \ {old}
  <2>1. ASSUME NEW j \in DOMAIN freelist'
        PROVE  freelist'[j].block_number \in FreeNumbers \ {old}
    <3>1. j + 1 \in DOMAIN freelist /\ freelist'[j] = freelist[j + 1] /\ j + 1 # 1 /\ 1 \in DOMAIN freelist
      BY <1>3, <1>4
    <3>2. freelist[j + 1].block_number # old
      BY <1>3, <3>1 DEF CacheInv, BuffersOnce
    <3> QED BY <3>1, <3>2 DEF FreeNumbers, Alloc!Cache!FreeNumbers
  <2> QED BY <2>1 DEF FreeNumbers, Alloc!Cache!FreeNumbers
<1> HIDE DEF travel, old
<1>9. /\ headers' \in [Headers -> Seq(QueueNode)] /\ Found(b)'
      /\ \A c \in Nat \ {old} : Found(c) => Found(c)'
  BY <1>1, <1>2, RenewKeeps
<1>10. CacheTypes'
  BY <1>3, <1>7, <1>9 DEF CacheTypes
<1>11. ASSUME NEW i \in DOMAIN freelist', NEW j \in DOMAIN freelist',
              freelist'[i].block_number = freelist'[j].block_number
       PROVE  i = j
  <2>1. /\ i + 1 \in DOMAIN freelist /\ freelist'[i] = freelist[i + 1]
        /\ j + 1 \in DOMAIN freelist /\ freelist'[j] = freelist[j + 1]
    BY <1>3, <1>4
  <2>2. i + 1 = j + 1
    BY <1>11, <2>1 DEF CacheInv, BuffersOnce
  <2> QED BY <1>3, <1>4, <2>2
<1>12. Len(freelist') + Cardinality(lent') = PRIMARY_BUFFERS
  <2>1. Cardinality(lent) \in Nat
    BY FS_CardinalityType DEF CacheInv, CacheTypes
  <2> QED BY <1>3, <1>7, <2>1 DEF CacheInv, BuffersOnce
<1>13. BuffersOnce'
  <2>1. FreeNumbers' \intersect LentNumbers' = {}
    BY <1>5, <1>7, <1>8 DEF CacheInv, BuffersOnce
  <2> QED BY <1>7, <1>11, <1>12, <2>1 DEF BuffersOnce
<1>14. BuffersFound'
  <2>1. old \in FreeNumbers /\ old \notin LentNumbers
    BY <1>3 DEF FreeNumbers, Alloc!Cache!FreeNumbers, CacheInv, BuffersOnce, old
  <2>2. \A c \in FreeNumbers' \union LentNumbers' : c = b \/ c \in (FreeNumbers \union LentNumbers) \ {old}
    BY <1>7, <1>8, <2>1
  <2>3. FreeNumbers \union LentNumbers \subseteq Nat
    BY NumbersAreNat DEF CacheInv
  <2> QED BY <1>9, <2>2, <2>3 DEF CacheInv, BuffersFound
<1>15. Obtained(b, read)
  BY <1>1, <1>b, <1>5, <1>6, <1>7, <1>8, PointersAssumption DEF Obtained
<1> QED BY <1>10, <1>13, <1>14, <1>15 DEF CacheInv

\* A call of getblk or bread returns with a buffer, or never.
LEMMA ReturnsOrStops ==
  ASSUME CacheInv, blocks \in [DiskBlocks -> Block], NEW b \in Nat, NEW read \in BOOLEAN,
         IF read THEN Alloc!Cache!bread(b) ELSE Alloc!Cache!getblk(b)
  PROVE  \/ proc' = "running" /\ CacheInv' /\ Obtained(b, read)
         \/ proc' # "running" /\ UNCHANGED <<lent, blocks>>
<1>1. \/ Alloc!Cache!GetblkHit(b, read) \/ Alloc!Cache!GetblkMiss(b, read)
      \/ Alloc!Cache!GetblkStops(b)
  BY DEF Alloc!Cache!getblk, Alloc!Cache!bread
<1>2. CASE Alloc!Cache!GetblkHit(b, read) \/ Alloc!Cache!GetblkMiss(b, read)
  <2>1. CASE proc' = "running"
    BY <1>2, <2>1, HitStep, MissStep
  <2>2. CASE proc' # "running"
    <3>1. proc = "running" /\ \E buf : Alloc!Cache!Lend(buf, read)
      BY <1>2 DEF Alloc!Cache!GetblkHit, Alloc!Cache!GetblkMiss
    <3> QED BY <2>2, <3>1, LendStops
  <2> QED BY <2>1, <2>2
<1>3. CASE Alloc!Cache!GetblkStops(b)
  BY <1>3 DEF Alloc!Cache!GetblkStops, Alloc!Cache!GetblkLost, Alloc!Cache!GetblkBusy,
              Alloc!Cache!GetblkNoneFree, Alloc!Cache!GetblkRemoveFails, Alloc!Cache!Stops
<1> QED BY <1>1, <1>2, <1>3

\* One buffer less with the callers.
LEMMA LentWithout ==
  ASSUME CacheTypes, BuffersOnce, NEW buf \in lent
  PROVE  LET rest == lent \ {buf}
         IN  /\ rest \subseteq LentBuffer /\ IsFiniteSet(rest)
             /\ Cardinality(rest) = Cardinality(lent) - 1
             /\ {x.block_number : x \in rest} = LentNumbers \ {buf.block_number}
<1>1. IsFiniteSet(lent \ {buf}) /\ Cardinality(lent \ {buf}) = Cardinality(lent) - 1
  BY FS_RemoveElement DEF CacheTypes
<1>2. {x.block_number : x \in lent \ {buf}} = LentNumbers \ {buf.block_number}
  BY DEF BuffersOnce, LentNumbers, Alloc!Cache!LentNumbers
<1> QED BY <1>1, <1>2 DEF CacheTypes

LEMMA ReleaseStep ==
  ASSUME CacheInv, NEW buf \in lent, Alloc!Cache!brelse(buf)
  PROVE  /\ CacheInv'
         /\ LentNumbers' = LentNumbers \ {buf.block_number}
         /\ FreeNumbers' = FreeNumbers \union {buf.block_number}
         /\ UNCHANGED <<blocks, proc>>
<1> DEFINE b == buf.block_number
           new == Alloc!Cache!CreateNewBuffer(b)
<1>1. /\ lent' = lent \ {buf}
      /\ freelist' = Append(freelist, new)
      /\ headers' = [headers EXCEPT ![Alloc!Cache!hashfunction(b)] =
                       Alloc!Cache!lock_unlock_buff(@, b, FALSE)]
      /\ UNCHANGED <<blocks, proc>>
  BY DEF Alloc!Cache!brelse
<1>2. headers \in [Headers -> Seq(QueueNode)] /\ freelist \in Seq(FreeBuffer) /\ b \in Nat
  BY DEF CacheInv, CacheTypes, LentBuffer
<1>3. new \in FreeBuffer /\ new.block_number = b
  BY <1>2, EmptyIsBlock DEF Alloc!Cache!CreateNewBuffer, FreeBuffer
<1>4. b \in LentNumbers /\ b \notin FreeNumbers
  BY DEF LentNumbers, Alloc!Cache!LentNumbers, CacheInv, BuffersOnce
<1> HIDE DEF b, new
<1>5. /\ freelist' \in Seq(FreeBuffer) /\ Len(freelist') = Len(freelist) + 1
      /\ \A i \in 1..Len(freelist) : freelist'[i] = freelist[i]
      /\ freelist'[Len(freelist) + 1] = new
  BY <1>1, <1>2, <1>3, AppendProperties
<1>6. /\ Len(freelist) \in Nat /\ DOMAIN freelist = 1..Len(freelist)
      /\ DOMAIN freelist' = 1..Len(freelist) + 1
  BY <1>2, <1>5, LenProperties
<1>7. /\ lent' \subseteq LentBuffer /\ IsFiniteSet(lent')
      /\ Cardinality(lent') = Cardinality(lent) - 1
      /\ LentNumbers' = LentNumbers \ {b}
  BY <1>1, LentWithout DEF CacheInv, LentNumbers, Alloc!Cache!LentNumbers, b
<1>8. FreeNumbers' = FreeNumbers \union {b}
  <2>1. \A i \in DOMAIN freelist' : i \in DOMAIN freelist \/ i = Len(freelist) + 1
    BY <1>6
  <2>2. Len(freelist) + 1 \in DOMAIN freelist' /\ \A i \in DOMAIN freelist : i \in DOMAIN freelist'
    BY <1>6
  <2>3. \A i \in DOMAIN freelist : freelist'[i] = freelist[i]
    BY <1>5, <1>6
  <2> QED BY <1>3, <1>5, <2>1, <2>2, <2>3 DEF FreeNumbers, Alloc!Cache!FreeNumbers
<1>9. headers' \in [Headers -> Seq(QueueNode)] /\ \A c \in Nat : Found(c) => Found(c)'
  BY <1>1, <1>2, RelockKeeps
<1>10. CacheTypes'
  BY <1>5, <1>7, <1>9 DEF CacheTypes
<1>11. ASSUME NEW i \in DOMAIN freelist', NEW j \in DOMAIN freelist',
              freelist'[i].block_number = freelist'[j].block_number
       PROVE  i = j
  <2>1. \A k \in DOMAIN freelist : freelist'[k] = freelist[k] /\ freelist'[k].block_number # b
    BY <1>4, <1>5, <1>6 DEF FreeNumbers, Alloc!Cache!FreeNumbers
  <2>2. CASE i \in DOMAIN freelist /\ j \in DOMAIN freelist
    BY <1>11, <2>1, <2>2 DEF CacheInv, BuffersOnce
  <2>3. \A k \in DOMAIN freelist' : k \in DOMAIN freelist \/ k = Len(freelist) + 1
    BY <1>6
  <2> QED BY <1>3, <1>5, <1>11, <2>1, <2>2, <2>3
<1>12. Len(freelist') + Cardinality(lent') = PRIMARY_BUFFERS
  <2>1. Cardinality(lent) \in Nat
    BY FS_CardinalityType DEF CacheInv, CacheTypes
  <2> QED BY <1>5, <1>6, <1>7, <2>1 DEF CacheInv, BuffersOnce
<1>13. BuffersOnce'
  <2>1. FreeNumbers' \intersect LentNumbers' = {}
    BY <1>7, <1>8 DEF CacheInv, BuffersOnce
  <2>2. \A x, y \in lent' : x.block_number = y.block_number => x = y
    BY <1>1 DEF CacheInv, BuffersOnce
  <2> QED BY <1>11, <1>12, <2>1, <2>2 DEF BuffersOnce
<1>14. BuffersFound'
  <2>1. FreeNumbers' \union LentNumbers' \subseteq FreeNumbers \union LentNumbers
    BY <1>4, <1>7, <1>8
  <2>2. FreeNumbers \union LentNumbers \subseteq Nat
    BY NumbersAreNat DEF CacheInv
  <2> QED BY <1>9, <2>1, <2>2 DEF CacheInv, BuffersFound
<1> QED BY <1>1, <1>7, <1>8, <1>10, <1>13, <1>14 DEF CacheInv, b

\* writefile fills a buffer it holds.
LEMMA RefillStep ==
  ASSUME CacheInv, NEW buf \in lent, NEW d \in Block,
         lent' = (lent \ {buf}) \union {[buf EXCEPT !.ptr_to_data = d]},
         UNCHANGED <<headers, freelist>>
  PROVE  CacheInv' /\ LentNumbers' = LentNumbers /\ FreeNumbers' = FreeNumbers
<1> DEFINE new  == [buf EXCEPT !.ptr_to_data = d]
           rest == lent \ {buf}
<1>1. new \in LentBuffer /\ new.block_number = buf.block_number
  BY DEF CacheInv, CacheTypes, LentBuffer
<1>2. lent' = rest \union {new}
  OBVIOUS
<1> HIDE DEF new
<1>3. /\ rest \subseteq LentBuffer /\ IsFiniteSet(rest)
      /\ Cardinality(rest) = Cardinality(lent) - 1
      /\ {x.block_number : x \in rest} = LentNumbers \ {buf.block_number}
  BY LentWithout DEF CacheInv
<1>4. \A x \in rest : x.block_number # buf.block_number
  BY <1>3
<1>5. new \notin rest
  BY <1>1, <1>4
<1>6. IsFiniteSet(lent') /\ Cardinality(lent') = Cardinality(rest) + 1
  <2> HIDE DEF rest
  <2> QED BY <1>2, <1>3, <1>5, FS_AddElement
<1>7. Cardinality(lent') = Cardinality(lent)
  <2>1. Cardinality(lent) \in Nat
    BY FS_CardinalityType DEF CacheInv, CacheTypes
  <2> QED BY <1>3, <1>6, <2>1
<1>8. LentNumbers' = LentNumbers
  <2>1. LentNumbers' = {x.block_number : x \in rest} \union {buf.block_number}
    BY <1>1, <1>2 DEF LentNumbers, Alloc!Cache!LentNumbers
  <2>2. buf.block_number \in LentNumbers
    BY DEF LentNumbers, Alloc!Cache!LentNumbers
  <2> QED BY <1>3, <2>1, <2>2
<1>9. FreeNumbers' = FreeNumbers
  BY DEF FreeNumbers, Alloc!Cache!FreeNumbers
<1>10. \A x, y \in lent' : x.block_number = y.block_number => x = y
  BY <1>1, <1>2, <1>4 DEF CacheInv, BuffersOnce
<1>11. CacheTypes'
  BY <1>1, <1>2, <1>3, <1>6 DEF CacheInv, CacheTypes
<1>12. BuffersOnce'
  BY <1>7, <1>8, <1>9, <1>10 DEF CacheInv, BuffersOnce
<1>13. BuffersFound'
  BY <1>8, <1>9 DEF CacheInv, BuffersFound, Found
<1> QED BY <1>8, <1>9, <1>11, <1>12, <1>13 DEF CacheInv
----------------------------------------------------------------------------
\* The invariant, in parts.

\* What readfile has a buffer of.  The buffers of given blocks never come back.
InHand == IF Reading /\ act.step = "copy" THEN {act.buff} ELSE {}

LentInv ==
  /\ IsFiniteSet(lent) /\ Cardinality(lent) <= PRIMARY_BUFFERS
  /\ LentNumbers = given \union InHand
  /\ given \subseteq DiskBlocks

\* While the process runs, the blocks given are the last ones of the disk list, and as
\* many as there are buffers at most.
AllocInv ==
  /\ CacheInv
  /\ next_free_block_index \in BLOCKS_PER_LIST-1-PRIMARY_BUFFERS..BLOCKS_PER_LIST-1
  /\ given = next_free_block_index+1..BLOCKS_PER_LIST-1

\* The place in a file that a chunk is being written to.
Chunk(n, i) == Writing /\ act.step = "copy" /\ act.node = n /\ i = blkno

FilesInv ==
  /\ FileSize \in [Node -> 0..BLOCK_SIZE * NUM_DIRECT_POINTERS]
  /\ direct \in [Node -> [Index -> given \union {NULL}]]
  /\ disklist_blkno \in [Node -> 0..Word-1]
  /\ blocks \in [DiskBlocks -> Block]
  /\ \A m, n \in Node, i, j \in Index :
       direct[m][i] # NULL /\ direct[m][i] = direct[n][j] => m = n /\ i = j
  /\ \A n \in Node, i \in Index : direct[n][i] # NULL => disklist_blkno[n] \in given
  /\ \A n \in Node, i \in Index :
       ~Chunk(n, i) => (direct[n][i] # NULL <=> i * BLOCK_SIZE < FileSize[n])

\* A chunk goes to the start of a block: a block that is full in part is never got again.
WriteRecord == [op : {"write"}, node : Node, string : Strings, iCnt : Nat,
                step : {"get", "copy"}, buff : Nat \union {NULL}]
WriteInv ==
  /\ act \in WriteRecord
  /\ act.iCnt <= Len(act.string)
  /\ act.step = "copy" =>
       /\ act.iCnt < Len(act.string)
       /\ blkno \in Index /\ position = BLOCK_SIZE * blkno
       /\ act.buff \in given
       /\ direct[act.node][blkno] \in {act.buff, NULL}

\* After its first round readfile is at the end, or beyond it: then yet has wrapped around
\* and is never copied.
ReadRecord == [op : {"read"}, fd : Tables!DescriptorSlots, node : Node, count : Counts,
               yet : Nat, step : {"get", "copy"}, buff : Nat \union {NULL}]
ReadInv ==
  /\ act \in ReadRecord
  /\ Running =>
       /\ act.yet = 0 \/ act.yet = act.count \/ act.yet > LongWord \div 2
       /\ act.yet = act.count /\ entry \in Entries => readoffset[entry] <= MaxOffset
       /\ act.step = "copy" => act.yet > 0 /\ entry \in Entries /\ act.buff \notin given

ActInv ==
  /\ readoffset \in [Entries -> 0..LongWord-1]
  /\ \A e \in Entries : Running => readoffset[e] <= MaxOffset + LongWord \div 2
  /\ act = Idle \/ WriteInv \/ ReadInv

\* createfile and openFile find room in IITABLE, until the call for the last inode.
Slots == 0..MAX_INODES-1
RoomInv ==
  /\ filename \in [Tables!Inodes -> Names \union {NULL}]
  /\ freelisthead \in Seq(Tables!Inodes) /\ Len(freelisthead) >= MAX_INODES - indexofnextfree
  /\ indexofnextfree \in Slots
  /\ IITABLE \in [Slots -> Node \union {NULL}]
  /\ \A i \in Slots : i >= indexofnextfree => IITABLE[i] = NULL
  /\ \A n \in Tables!Inodes :
       filename[n] # NULL => \E i \in Slots : IITABLE[i] # NULL /\ IITABLE[i].number = n

\* The descriptors lead to nodes.
DescriptorInv ==
  /\ FTABLE \in [Entries -> Node \union {NULL}]
  /\ ufdt \in [Tables!DescriptorSlots -> Entries \union {NULL, Wild}]
  /\ \A fd \in Slots : ufdt[fd] # Wild
  /\ \A fd \in Tables!DescriptorSlots : ufdt[fd] \in Entries => FTABLE[ufdt[fd]] \in Node

TablesInv == (Running => RoomInv) /\ DescriptorInv

IInv == (Running => AllocInv) /\ LentInv /\ FilesInv /\ ActInv /\ TablesInv

\* With this, allocblock never finds its block in the cache: what malloc leaves in the
\* disklist_blkno of a new inode is none of the blocks that can be given.
NeverGiven == 0..BLOCKS_PER_LIST-1-PRIMARY_BUFFERS \union BLOCKS_PER_LIST..Word-1
WritableInv ==
  /\ Running => FreeNumbers \subseteq NeverGiven
  /\ \A n \in Node : disklist_blkno[n] \in NeverGiven \union given
  /\ InHand \subseteq NeverGiven
  /\ \A n \in Node, i \in Index : Chunk(n, i) => direct[n][i] # NULL

----------------------------------------------------------------------------
\* The initial states.

LEMMA SizesFacts ==
  /\ DEVICE_NUM \in Nat \ {0} /\ PRIMARY_BUFFERS \in Nat \ {0} /\ BLOCKS_PER_LIST \in Nat
  /\ BLOCKS_PER_LIST > 2 * PRIMARY_BUFFERS
  /\ BLOCK_SIZE \in Nat \ {0} /\ NUM_DIRECT_POINTERS \in Nat \ {0}
  /\ NULL \notin Nat
  BY SizesAssumption, BlockAssumption, PointersAssumption

LEMMA InitialQueues ==
  ASSUME NEW h \in Headers
  PROVE  /\ Alloc!Cache!InitialQueue(h) \in Seq(QueueNode)
         /\ \A b \in 1..PRIMARY_BUFFERS :
              b % DEVICE_NUM = h => Alloc!Cache!Holds(Alloc!Cache!InitialQueue(h), b)
<1> DEFINE N == DEVICE_NUM
           P == PRIMARY_BUFFERS
           F == IF h = 0 THEN N ELSE h
           n == (P + N - F) \div N
           num(k) == F + N * (k - 1)
           q == [k \in 1..n |-> Alloc!Cache!NewNode(num(k))]
<1>1. Alloc!Cache!InitialQueue(h) = q
  BY DEF Alloc!Cache!InitialQueue, Alloc!Cache!FirstOf
<1>2. N \in Nat \ {0} /\ P \in Nat /\ F \in Nat /\ F <= N
  BY SizesFacts DEF Headers
<1>3. (h = 0 => F = N) /\ (h # 0 => F = h)
  OBVIOUS
<1> HIDE DEF N, P, F
<1>4. n \in Nat
  <2>1. P + N - F \in Nat
    BY <1>2
  <2> QED BY <1>2, <2>1, Division
<1> HIDE DEF n
<1>5. \A k \in 1..n : num(k) \in Nat
  BY <1>2, <1>4
<1> HIDE DEF num
<1>6. DOMAIN q = 1..n /\ \A k \in 1..n : q[k] \in QueueNode /\ q[k].block_number = num(k)
  BY <1>5 DEF Alloc!Cache!NewNode, QueueNode
<1>7. q \in [1..n -> QueueNode]
  BY <1>5 DEF Alloc!Cache!NewNode, QueueNode
<1> HIDE DEF q
<1>8. q \in Seq(QueueNode)
  BY <1>4, <1>7, SeqDef
<1>9. ASSUME NEW b \in 1..P, b % N = h
      PROVE  Alloc!Cache!Holds(q, b)
  <2> DEFINE k == (b + N - F) \div N
  <2>1. F \in Nat /\ (b % N = 0 => F = N) /\ (b % N # 0 => F = b % N)
    BY <1>2, <1>3, <1>9
  <2>2. N \in Nat \ {0} /\ P \in Nat
    BY <1>2
  <2>3. k \in 1..n /\ num(k) = b
    BY <2>1, <2>2, PlaceInQueue DEF n, num
  <2> HIDE DEF k
  <2> QED BY <1>6, <2>3 DEF Alloc!Cache!Holds
<1> QED BY <1>1, <1>8, <1>9 DEF N, P

LEMMA InitCache ==
  ASSUME Init
  PROVE  CacheInv /\ LentNumbers = {} /\ FreeNumbers = 1..PRIMARY_BUFFERS
<1>1. /\ headers  = [h \in Headers |-> Alloc!Cache!InitialQueue(h)]
      /\ freelist = [i \in 1..PRIMARY_BUFFERS |-> Alloc!Cache!CreateNewBuffer(i)]
      /\ lent     = {}
  BY DEF Init, Alloc!Init, Alloc!Cache!Init, Headers, Alloc!Cache!Headers
<1>2. headers \in [Headers -> Seq(QueueNode)]
  BY <1>1, InitialQueues
<1>3. PRIMARY_BUFFERS \in Nat
  BY SizesFacts
<1>4. \A i \in 1..PRIMARY_BUFFERS :
        /\ Alloc!Cache!CreateNewBuffer(i) \in FreeBuffer
        /\ Alloc!Cache!CreateNewBuffer(i).block_number = i
  BY <1>3, EmptyIsBlock DEF Alloc!Cache!CreateNewBuffer, FreeBuffer
<1>5. /\ freelist \in [1..PRIMARY_BUFFERS -> FreeBuffer]
      /\ \A i \in 1..PRIMARY_BUFFERS : freelist[i].block_number = i
  BY <1>1, <1>4
<1>6. /\ freelist \in Seq(FreeBuffer) /\ DOMAIN freelist = 1..PRIMARY_BUFFERS
      /\ Len(freelist) = PRIMARY_BUFFERS
  <2>1. freelist \in Seq(FreeBuffer)
    BY <1>3, <1>5, SeqDef
  <2>2. DOMAIN freelist = 1..PRIMARY_BUFFERS
    BY <1>5
  <2> QED BY <1>3, <2>1, <2>2, LenProperties
<1>7. LentNumbers = {} /\ FreeNumbers = 1..PRIMARY_BUFFERS
  BY <1>1, <1>5, <1>6 DEF LentNumbers, FreeNumbers, Alloc!Cache!LentNumbers, Alloc!Cache!FreeNumbers
<1>8. CacheTypes
  BY <1>1, <1>2, <1>6, FS_EmptySet DEF CacheTypes
<1>9. BuffersOnce
  <2>1. Len(freelist) + Cardinality(lent) = PRIMARY_BUFFERS
    BY <1>1, <1>3, <1>6, FS_EmptySet
  <2> QED BY <1>1, <1>5, <1>6, <1>7, <2>1 DEF BuffersOnce
<1>10. BuffersFound
  <2>1. ASSUME NEW b \in 1..PRIMARY_BUFFERS
        PROVE  Found(b)
    <3>1. b % DEVICE_NUM \in Headers
      BY <1>3, HashIsHeader
    <3>2. headers[b % DEVICE_NUM] = Alloc!Cache!InitialQueue(b % DEVICE_NUM)
      BY <1>1, <3>1
    <3> QED BY <3>1, <3>2, InitialQueues DEF Found
  <2> QED BY <1>7, <2>1 DEF BuffersFound
<1> QED BY <1>7, <1>8, <1>9, <1>10 DEF CacheInv

LEMMA InitIInv == Init => IInv
<1> SUFFICES ASSUME Init PROVE IInv
  OBVIOUS
<1>1. CacheInv /\ LentNumbers = {} /\ lent = {} /\ given = {} /\ act = Idle
      /\ next_free_block_index = BLOCKS_PER_LIST - 1
  BY InitCache DEF Init, Alloc!Init, Alloc!Cache!Init, Alloc!InitialiseSuperBlock
<1>2. AllocInv
  BY <1>1, SizesFacts DEF AllocInv
<1>3. LentInv
  BY <1>1, FS_EmptySet, SizesFacts DEF LentInv, InHand, Reading, Idle
<1>4. FilesInv
  <2>1. /\ FileSize = [n \in Node |-> 0]
        /\ direct = [n \in Node |-> [i \in Index |-> NULL]]
        /\ disklist_blkno \in [Node -> 0..Word-1]
    BY BlockAssumption DEF Init
  <2>2. blocks \in [DiskBlocks -> Block]
    <3>1. blocks = [b \in DiskBlocks |-> EmptyBlock]
      BY EmptyIsBlock DEF Init, Alloc!Init, Alloc!Cache!Init, Alloc!Cache!DiskBlocks, DiskBlocks
    <3> QED BY <3>1, EmptyIsBlock
  <2>3. \A i \in Index : ~(i * BLOCK_SIZE < 0)
    BY SizesFacts DEF Index
  <2>4. 0 \in 0..BLOCK_SIZE * NUM_DIRECT_POINTERS
    BY SizesFacts
  <2> QED BY <2>1, <2>2, <2>3, <2>4 DEF FilesInv
<1>5. ActInv
  <2>1. 0 \in 0..LongWord-1 /\ 0 <= MaxOffset + LongWord \div 2
    BY BlockAssumption, SizesAssumption
  <2> QED BY <1>1, <2>1 DEF ActInv, Init
<1>6. TablesInv
  <2>1. /\ filename = [n \in Tables!Inodes |-> NULL]
        /\ freelisthead = [i \in Tables!Inodes |-> i]
        /\ indexofnextfree = 0
        /\ IITABLE = [i \in Slots |-> NULL]
        /\ FTABLE = [e \in Entries |-> NULL]
        /\ ufdt = [fd \in Tables!DescriptorSlots |-> NULL]
    BY DEF Init, Tables!Init, Slots, Entries
  <2>2. freelisthead \in Seq(Tables!Inodes) /\ Len(freelisthead) = MAX_INODES
    <3>1. MAX_INODES \in Nat /\ freelisthead \in [1..MAX_INODES -> Tables!Inodes]
      BY <2>1, SizesAssumption DEF Tables!Inodes
    <3>2. freelisthead \in Seq(Tables!Inodes)
      BY <3>1, SeqDef
    <3> QED BY <3>1, <3>2, LenProperties
  <2>3. 0 \in Slots /\ \A fd \in Slots : fd \in Tables!DescriptorSlots
    BY SizesAssumption DEF Slots, Tables!DescriptorSlots
  <2>4. NULL \notin Entries /\ NULL # Wild
    BY PointersAssumption DEF Entries, Tables!Entries
  <2> QED BY <2>1, <2>2, <2>3, <2>4, SizesAssumption DEF TablesInv, RoomInv, DescriptorInv
<1> QED BY <1>2, <1>3, <1>4, <1>5, <1>6 DEF IInv

----------------------------------------------------------------------------
\* createfile and openFile.

LEMMA PutIsFirst ==
  ASSUME IITABLE \in [Slots -> Node \union {NULL}], NEW m,
         NEW k \in Slots, IITABLE[k] = NULL \/ IITABLE[k].number = m.number
  PROVE  LET i == Tables!PutInodeinIITABLE(m, IITABLE)
         IN  /\ i \in Slots /\ i <= k
             /\ IITABLE[i] = NULL \/ IITABLE[i].number = m.number
<1> DEFINE T == {i \in DOMAIN IITABLE : IITABLE[i] = NULL \/ IITABLE[i].number = m.number}
           p == CHOOSE i \in T : \A j \in T : i <= j
<1>1. k \in T /\ T \in SUBSET Nat
  BY SizesAssumption DEF Slots
<1>2. p \in T /\ \A j \in T : p <= j
  <2> HIDE DEF T
  <2> QED BY <1>1, FirstChosen
<1>3. p = Tables!PutInodeinIITABLE(m, IITABLE)
  BY DEF Tables!PutInodeinIITABLE
<1> HIDE DEF p
<1> QED BY <1>1, <1>2, <1>3

\* The node, or one of the same inode, is in the table afterwards, and no node is lost.
LEMMA WithInodeHas ==
  ASSUME IITABLE \in [Slots -> Node \union {NULL}], NEW m \in Node,
         NEW k \in Slots, IITABLE[k] = NULL \/ IITABLE[k].number = m.number
  PROVE  LET i == Tables!PutInodeinIITABLE(m, IITABLE)
             t == Tables!WithInode(m, IITABLE)
         IN  /\ i \in Slots /\ i <= k
             /\ t \in [Slots -> Node \union {NULL}]
             /\ t[i] \in Node /\ t[i].number = m.number
             /\ \A j \in Slots : j # i \/ IITABLE[j] # NULL => t[j] = IITABLE[j]
<1> DEFINE i == Tables!PutInodeinIITABLE(m, IITABLE)
           t == Tables!WithInode(m, IITABLE)
<1>1. /\ i \in Slots /\ i <= k
      /\ IITABLE[i] = NULL \/ IITABLE[i].number = m.number
  BY PutIsFirst
<1>2. t = IF IITABLE[i] = NULL THEN [IITABLE EXCEPT ![i] = m] ELSE IITABLE
  BY DEF Tables!WithInode
<1> HIDE DEF i, t
<1>3. NULL \notin Node
  BY PointersAssumption
<1> QED BY <1>1, <1>2, <1>3 DEF i, t

\* What is in a slot stays there, and leads to the same node.
SameDescriptors ==
  \A fd \in Slots :
    ufdt[fd] # NULL => ufdt'[fd] = ufdt[fd] /\ FTABLE'[ufdt[fd]] = FTABLE[ufdt[fd]]

\* The new entry and the new descriptor lead to the node.
LEMMA DescribeStep ==
  ASSUME DescriptorInv, NEW m \in Node, Tables!Describe(m)
  PROVE  DescriptorInv' /\ SameDescriptors
<1> DEFINE e == Tables!FirstFree(FTABLE)
           s == Tables!FirstFree(ufdt)
<1>1. /\ FTABLE \in [Entries -> Node \union {NULL}]
      /\ ufdt \in [Tables!DescriptorSlots -> Entries \union {NULL, Wild}]
      /\ \A fd \in Slots : ufdt[fd] # Wild
      /\ \A fd \in Tables!DescriptorSlots : ufdt[fd] \in Entries => FTABLE[ufdt[fd]] \in Node
  BY DEF DescriptorInv
<1>2. /\ Tables!Free(FTABLE) # {} /\ FTABLE' = [FTABLE EXCEPT ![e] = m]
      /\ \/ Tables!Free(ufdt) # {} /\ ufdt' = [ufdt EXCEPT ![s] = e]
         \/ ufdt' = ufdt
  BY DEF Tables!Describe, Tables!AllocateinUAREA
<1>3. e \in Entries /\ FTABLE[e] = NULL
  <2> DEFINE T == Tables!Free(FTABLE)
  <2>1. T \in SUBSET Nat /\ T \subseteq Entries
    BY <1>1, SizesAssumption DEF Tables!Free, Entries, Tables!Entries
  <2>2. e = CHOOSE i \in T : \A j \in T : i <= j
    BY DEF Tables!FirstFree
  <2> HIDE DEF T
  <2>3. e \in T
    BY <1>2, <2>1, <2>2, FirstChosen DEF T
  <2> QED BY <2>1, <2>3 DEF T, Tables!Free
<1>4. Wild \notin Entries /\ NULL \notin Node
  BY PointersAssumption
<1>d. Slots \subseteq Tables!DescriptorSlots
  BY SizesAssumption DEF Slots, Tables!DescriptorSlots
<1>s. Tables!Free(ufdt) # {} => ufdt[s] = NULL
  <2> DEFINE T == Tables!Free(ufdt)
  <2>1. T \in SUBSET Nat
    BY <1>1, SizesAssumption DEF Tables!Free, Tables!DescriptorSlots
  <2>2. s = CHOOSE i \in T : \A j \in T : i <= j
    BY DEF Tables!FirstFree
  <2> HIDE DEF T
  <2>3. T # {} => s \in T
    BY <2>1, <2>2, FirstChosen
  <2> QED BY <2>3 DEF T, Tables!Free
<1>5. \A x \in Entries : FTABLE'[x] = IF x = e THEN m ELSE FTABLE[x]
  BY <1>1, <1>2
<1>6. FTABLE' \in [Entries -> Node \union {NULL}]
  BY <1>1, <1>2
<1> HIDE DEF e, s
<1>7. ASSUME NEW fd \in Slots, ufdt[fd] # NULL
      PROVE  ufdt'[fd] = ufdt[fd] /\ FTABLE'[ufdt[fd]] = FTABLE[ufdt[fd]]
  <2>1. ufdt[fd] \in Entries /\ FTABLE[ufdt[fd]] \in Node
    BY <1>1, <1>d, <1>7
  <2>2. ufdt[fd] # e
    BY <1>3, <1>4, <2>1
  <2> QED BY <1>1, <1>2, <1>5, <1>d, <1>s, <1>7, <2>1, <2>2
<1>8. \A fd \in Tables!DescriptorSlots : ufdt'[fd] = e \/ ufdt'[fd] = ufdt[fd]
  BY <1>1, <1>2
<1>9. ufdt' \in [Tables!DescriptorSlots -> Entries \union {NULL, Wild}]
  BY <1>1, <1>2, <1>3
<1> QED BY <1>1, <1>3, <1>4, <1>5, <1>6, <1>7, <1>8, <1>9, <1>d DEF DescriptorInv, SameDescriptors

\* With the file table full, no table changes any more.
LEMMA OverrunStep ==
  ASSUME DescriptorInv, Tables!Overrun
  PROVE  DescriptorInv' /\ SameDescriptors /\ ~Running' /\ UNCHANGED <<FTABLE, ufdt>>
  BY DEF Tables!Overrun, DescriptorInv, SameDescriptors, Running

LEMMA CreateNewTables ==
  ASSUME TablesInv, NEW name \in Names, NEW mode \in Modes, Tables!CreateNew(name, mode)
  PROVE  TablesInv' /\ SameDescriptors
<1> DEFINE n == Head(freelisthead)
           m == Tables!FreeNode(n)
           k == indexofnextfree
           i == Tables!PutInodeinIITABLE(m, IITABLE)
<1>0. RoomInv /\ DescriptorInv
  BY DEF Tables!CreateNew, TablesInv, Running
<1>1. /\ k + 1 < MAX_INODES
      /\ filename' = [filename EXCEPT ![n] = name]
      /\ IITABLE' = Tables!WithInode(m, IITABLE)
      /\ Tables!Describe(m) \/ Tables!Overrun
      /\ freelisthead' = Tail(freelisthead) /\ indexofnextfree' = k + 1
  BY DEF Tables!CreateNew, Tables!iget, Tables!freeindex
<1>2. MAX_INODES \in Nat /\ k \in Nat /\ k + 1 \in Slots
  BY <1>0, <1>1, SizesAssumption DEF RoomInv, Slots
<1>3. freelisthead # <<>> /\ freelisthead \in Seq(Tables!Inodes)
  BY <1>0, <1>1, <1>2 DEF RoomInv
<1>4. /\ n \in Tables!Inodes /\ freelisthead' \in Seq(Tables!Inodes)
      /\ Len(freelisthead') = Len(freelisthead) - 1 /\ Len(freelisthead) \in Nat
  BY <1>1, <1>3, HeadTailProperties, LenProperties
<1>5. m \in Node /\ m.number = n
  BY <1>4 DEF Tables!FreeNode, Node, Tables!Node
<1>6. k \in Slots /\ IITABLE[k] = NULL /\ IITABLE \in [Slots -> Node \union {NULL}]
  BY <1>0, <1>2 DEF RoomInv
<1> HIDE DEF n, m, k
<1>7. /\ i \in Slots /\ i <= k
      /\ IITABLE' \in [Slots -> Node \union {NULL}]
      /\ IITABLE'[i] \in Node /\ IITABLE'[i].number = n
      /\ \A j \in Slots : j # i \/ IITABLE[j] # NULL => IITABLE'[j] = IITABLE[j]
  BY <1>1, <1>5, <1>6, WithInodeHas
<1> HIDE DEF i
<1>8. filename' \in [Tables!Inodes -> Names \union {NULL}]
  BY <1>0, <1>1 DEF RoomInv
<1>9. Len(freelisthead') >= MAX_INODES - indexofnextfree' /\ indexofnextfree' \in Slots
  BY <1>0, <1>1, <1>2, <1>4 DEF RoomInv, k
<1>10. ASSUME NEW j \in Slots, j >= indexofnextfree'
       PROVE  IITABLE'[j] = NULL
  <2>1. j # i /\ j >= indexofnextfree
    BY <1>1, <1>2, <1>7, <1>10 DEF Slots, k
  <2> QED BY <1>0, <1>7, <2>1 DEF RoomInv
<1>11. ASSUME NEW x \in Tables!Inodes, filename'[x] # NULL
       PROVE  \E j \in Slots : IITABLE'[j] # NULL /\ IITABLE'[j].number = x
  <2>1. NULL \notin Node
    BY PointersAssumption
  <2>2. CASE x = n
    BY <1>7, <2>1, <2>2
  <2>3. CASE x # n
    <3>1. filename[x] # NULL
      BY <1>0, <1>1, <1>11, <2>3 DEF RoomInv
    <3>2. PICK j \in Slots : IITABLE[j] # NULL /\ IITABLE[j].number = x
      BY <1>0, <3>1 DEF RoomInv
    <3> QED BY <1>7, <3>2
  <2> QED BY <2>2, <2>3
<1>12. RoomInv'
  BY <1>4, <1>7, <1>8, <1>9, <1>10, <1>11 DEF RoomInv
<1>13. DescriptorInv' /\ SameDescriptors
  BY <1>0, <1>1, <1>5, DescribeStep, OverrunStep
<1> QED BY <1>12, <1>13 DEF TablesInv

LEMMA NameiNamed ==
  ASSUME RoomInv, NEW name \in Names, Tables!Named(name)
  PROVE  LET n == Tables!namei(name)
         IN  n \in Tables!Inodes /\ filename[n] # NULL
<1>1. NULL \notin Names
  BY PointersAssumption
<1> QED BY <1>1 DEF Tables!Named, Tables!namei

LEMMA OpenExistingTables ==
  ASSUME TablesInv, NEW name \in Names, NEW mode \in Modes, Tables!OpenExisting(name, mode)
  PROVE  TablesInv' /\ SameDescriptors
<1> DEFINE n == Tables!namei(name)
           m == Tables!HashNode(n)
           i == Tables!PutInodeinIITABLE(m, IITABLE)
<1>0. RoomInv /\ DescriptorInv
  BY DEF Tables!OpenExisting, TablesInv, Running
<1>1. /\ Tables!Named(name)
      /\ IITABLE' = Tables!WithInode(m, IITABLE)
      /\ Tables!Describe(IITABLE'[i]) \/ Tables!Overrun
      /\ UNCHANGED <<filename, freelisthead, indexofnextfree>>
  BY DEF Tables!OpenExisting, Tables!inodes, Tables!superblock
<1>2. n \in Tables!Inodes /\ filename[n] # NULL
  BY <1>0, <1>1, NameiNamed
<1>3. m \in Node /\ m.number = n
  BY <1>2 DEF Tables!HashNode, Node, Tables!Node
<1> HIDE DEF n, m
<1>4. PICK k \in Slots : IITABLE[k] # NULL /\ IITABLE[k].number = n
  BY <1>0, <1>2 DEF RoomInv
<1>5. /\ i \in Slots /\ i <= k
      /\ IITABLE' \in [Slots -> Node \union {NULL}]
      /\ IITABLE'[i] \in Node
      /\ \A j \in Slots : j # i \/ IITABLE[j] # NULL => IITABLE'[j] = IITABLE[j]
  <2>1. IITABLE \in [Slots -> Node \union {NULL}]
    BY <1>0 DEF RoomInv
  <2>2. IITABLE[k].number = m.number
    BY <1>3, <1>4
  <2> QED BY <1>1, <1>3, <2>1, <2>2, WithInodeHas
<1> HIDE DEF i
<1>6. ASSUME NEW j \in Slots, j >= indexofnextfree
      PROVE  IITABLE'[j] = NULL
  <2>1. ~(k >= indexofnextfree)
    BY <1>0, <1>4 DEF RoomInv
  <2>2. MAX_INODES \in Nat /\ indexofnextfree \in Slots
    BY <1>0, SizesAssumption DEF RoomInv
  <2>3. j # i
    BY <1>4, <1>5, <1>6, <2>1, <2>2 DEF Slots
  <2> QED BY <1>0, <1>5, <1>6, <2>3 DEF RoomInv
<1>7. ASSUME NEW x \in Tables!Inodes, filename[x] # NULL
      PROVE  \E j \in Slots : IITABLE'[j] # NULL /\ IITABLE'[j].number = x
  <2>1. PICK j \in Slots : IITABLE[j] # NULL /\ IITABLE[j].number = x
    BY <1>0, <1>7 DEF RoomInv
  <2> QED BY <1>5, <2>1
<1>8. RoomInv'
  BY <1>0, <1>1, <1>5, <1>6, <1>7 DEF RoomInv
<1>9. DescriptorInv' /\ SameDescriptors
  BY <1>0, <1>1, <1>5, DescribeStep, OverrunStep
<1> QED BY <1>8, <1>9 DEF TablesInv

LEMMA CallTables ==
  ASSUME TablesInv, Tables!CreateOrOpen
  PROVE  TablesInv' /\ SameDescriptors
<1> PICK name \in Names, mode \in Modes : Tables!createfile(name, mode) \/ Tables!openFile(name, mode)
  BY DEF Tables!CreateOrOpen
<1>1. CASE Tables!CreateNew(name, mode)
  BY <1>1, CreateNewTables
<1>2. CASE Tables!OpenExisting(name, mode)
  BY <1>2, OpenExistingTables
<1>3. CASE Tables!CreateExisting(name, mode)
  <2> DEFINE m == Tables!HashNode(Tables!namei(name))
  <2>0. RoomInv /\ DescriptorInv
    BY <1>3 DEF Tables!CreateExisting, TablesInv, Running
  <2>1. /\ Tables!Named(name)
        /\ Tables!Describe(m) \/ Tables!Overrun
        /\ UNCHANGED <<filename, freelisthead, indexofnextfree, IITABLE>>
    BY <1>3 DEF Tables!CreateExisting, Tables!inodes, Tables!superblock
  <2>2. m \in Node
    BY <2>0, <2>1, NameiNamed DEF Tables!HashNode, Node, Tables!Node
  <2> HIDE DEF m
  <2>3. RoomInv'
    BY <2>0, <2>1 DEF RoomInv
  <2>4. DescriptorInv' /\ SameDescriptors
    BY <2>0, <2>1, <2>2, DescribeStep, OverrunStep
  <2> QED BY <2>3, <2>4 DEF TablesInv
<1>4. CASE Tables!Refused(name, mode)
  BY <1>4 DEF Tables!Refused, Tables!inodes, Tables!superblock, TablesInv, RoomInv,
              DescriptorInv, SameDescriptors, Running
<1>5. CASE Tables!CreateStops(name, mode) \/ Tables!OpenMissing(name)
  <2>1. ~Running' /\ UNCHANGED <<FTABLE, ufdt>>
    BY <1>5 DEF Tables!CreateStops, Tables!OpenMissing, Running
  <2> QED BY <2>1 DEF TablesInv, DescriptorInv, SameDescriptors
<1> QED BY <1>1, <1>2, <1>3, <1>4, <1>5 DEF Tables!createfile, Tables!openFile

----------------------------------------------------------------------------
\* Steps that leave the cache, the allocator and the files alone.

LEMMA Unmoved ==
  ASSUME IInv, UNCHANGED <<cache, alloc, files>>, InHand' = InHand,
         \A n \in Node, i \in Index : Chunk(n, i)' <=> Chunk(n, i)
  PROVE  (AllocInv => AllocInv') /\ LentInv' /\ FilesInv'
<1>1. UNCHANGED <<headers, freelist, lent, blocks, next_free_block_index, given,
                  FileSize, direct, disklist_blkno>>
  BY DEF cache, alloc, files
<1>2. LentNumbers' = LentNumbers /\ FreeNumbers' = FreeNumbers
  BY <1>1 DEF LentNumbers, FreeNumbers, Alloc!Cache!LentNumbers, Alloc!Cache!FreeNumbers
<1>3. AllocInv => AllocInv'
  BY <1>1, <1>2 DEF AllocInv, CacheInv, CacheTypes, BuffersOnce, BuffersFound, Found
<1>4. LentInv'
  BY <1>1, <1>2 DEF IInv, LentInv
<1>5. FilesInv'
  BY <1>1 DEF IInv, FilesInv
<1> QED BY <1>3, <1>4, <1>5

\* No buffer is in anyone's hand.
NoCopy == act.step # "copy"

LEMMA UnmovedWithoutCopy ==
  ASSUME IInv, UNCHANGED <<cache, alloc, files>>, act = Idle \/ NoCopy,
         act' = Idle \/ NoCopy'
  PROVE  (AllocInv => AllocInv') /\ LentInv' /\ FilesInv'
<1>1. InHand = {} /\ \A n \in Node, i \in Index : ~Chunk(n, i)
  BY DEF InHand, Chunk, Reading, Writing, Idle, NoCopy
<1>2. InHand' = {} /\ \A n \in Node, i \in Index : ~Chunk(n, i)'
  BY DEF InHand, Chunk, Reading, Writing, Idle, NoCopy
<1> QED BY <1>1, <1>2, Unmoved

LEMMA StopKeeps ==
  ASSUME IInv, UNCHANGED <<lent, blocks, given, tables, ufdt, files, readoffset, act>>, ~Running'
  PROVE  IInv'
<1>1. LentNumbers' = LentNumbers /\ InHand' = InHand
  BY DEF LentNumbers, Alloc!Cache!LentNumbers, InHand, Reading
<1>2. LentInv'
  BY <1>1 DEF IInv, LentInv
<1>3. FilesInv'
  BY DEF IInv, FilesInv, files, Chunk, Writing, blkno, position
<1>4. ActInv'
  BY DEF IInv, ActInv, WriteInv, ReadInv, files, blkno, position, entry
<1>5. TablesInv'
  BY DEF IInv, TablesInv, RoomInv, DescriptorInv, tables
<1> QED BY <1>2, <1>3, <1>4, <1>5 DEF IInv

LEMMA CrashKeeps ==
  ASSUME IInv, StopsHere, UNCHANGED tables
  PROVE  IInv'
  BY StopKeeps DEF StopsHere, cache, alloc, Running

LEMMA CreateOrOpenRuns == CreateOrOpen => Running
  BY DEF CreateOrOpen, Tables!CreateOrOpen, Tables!createfile, Tables!openFile, Running,
         Tables!CreateNew, Tables!CreateExisting, Tables!Refused, Tables!CreateStops,
         Tables!OpenExisting, Tables!OpenMissing

LEMMA CreateOrOpenKeeps ==
  ASSUME IInv, CreateOrOpen
  PROVE  IInv'
<1>1. /\ act = Idle /\ act' = Idle /\ Running
      /\ UNCHANGED <<cache, alloc, files, readoffset>>
      /\ Tables!CreateOrOpen
  BY CreateOrOpenRuns DEF CreateOrOpen
<1>2. AllocInv' /\ LentInv' /\ FilesInv'
  BY <1>1, UnmovedWithoutCopy DEF IInv
<1>3. TablesInv'
  BY <1>1, CallTables DEF IInv
<1>4. ActInv'
  BY <1>1 DEF IInv, ActInv
<1> QED BY <1>2, <1>3, <1>4 DEF IInv

\* ufdt.offset, and with it the last descriptor.
LEMMA OffsetStoredTables ==
  ASSUME TablesInv, NEW e, OffsetStored(e), UNCHANGED tables, Running
  PROVE  TablesInv' /\ \A fd \in Slots : ufdt'[fd] = ufdt[fd]
<1>1. /\ MAX_INODES \in Nat /\ MAX_INODES \in Tables!DescriptorSlots
      /\ \A fd \in Slots : fd # MAX_INODES /\ fd \in Tables!DescriptorSlots
  BY SizesAssumption DEF Tables!DescriptorSlots, Slots
<1>2. NULL \notin Entries /\ Wild \notin Entries
  BY PointersAssumption, SizesAssumption DEF Entries, Tables!Entries
<1>3. /\ ufdt' \in [Tables!DescriptorSlots -> Entries \union {NULL, Wild}]
      /\ \A fd \in Tables!DescriptorSlots : fd # MAX_INODES => ufdt'[fd] = ufdt[fd]
      /\ ufdt'[MAX_INODES] \in {NULL, Wild}
  BY <1>1 DEF TablesInv, DescriptorInv, OffsetStored
<1>4. \A fd \in Slots : ufdt'[fd] = ufdt[fd]
  BY <1>1, <1>3
<1>5. \A fd \in Tables!DescriptorSlots : ufdt'[fd] \in Entries => FTABLE[ufdt'[fd]] \in Node
  BY <1>2, <1>3 DEF TablesInv, DescriptorInv
<1>6. UNCHANGED <<filename, freelisthead, indexofnextfree, IITABLE, FTABLE>>
  BY DEF tables
<1>7. DescriptorInv'
  BY <1>3, <1>4, <1>5, <1>6 DEF TablesInv, DescriptorInv
<1>8. RoomInv'
  BY <1>6 DEF TablesInv, RoomInv
<1> QED BY <1>4, <1>7, <1>8 DEF TablesInv

\* A descriptor in use has a node.
LEMMA DescriptorHasNode ==
  ASSUME IInv, NEW fd \in DOMAIN ufdt, ufdt[fd] \in Entries
  PROVE  fd \in Tables!DescriptorSlots /\ FTABLE[ufdt[fd]] \in Node
  BY DEF IInv, TablesInv, DescriptorInv

LEMMA WriteBeginsKeeps ==
  ASSUME IInv, NEW fd \in DOMAIN ufdt, NEW string \in Strings, WriteBegins(fd, string)
  PROVE  IInv'
<1> DEFINE m == FTABLE[ufdt[fd]]
<1>1. /\ Running /\ act = Idle
      /\ act' = [op |-> "write", node |-> m, string |-> string,
                 iCnt |-> 0, step |-> "get", buff |-> NULL]
      /\ UNCHANGED <<cache, alloc, tables, ufdt, files, readoffset>>
      /\ m \in Node
  BY DescriptorHasNode DEF WriteBegins
<1> HIDE DEF m
<1>2. AllocInv' /\ LentInv' /\ FilesInv'
  <2>1. NoCopy'
    BY <1>1 DEF NoCopy
  <2> QED BY <1>1, <2>1, UnmovedWithoutCopy DEF IInv
<1>3. WriteInv'
  <2>1. act' \in WriteRecord
    BY <1>1 DEF WriteRecord
  <2>2. Len(string) \in Nat
    BY BlockAssumption, LenProperties
  <2>3. act'.iCnt = 0 /\ act'.string = string /\ act'.step = "get"
    BY <1>1
  <2> QED BY <2>1, <2>2, <2>3 DEF WriteInv
<1>4. ActInv' /\ TablesInv'
  BY <1>1, <1>3 DEF IInv, ActInv, TablesInv, RoomInv, DescriptorInv, tables
<1> QED BY <1>2, <1>4 DEF IInv

LEMMA ReadBeginsKeeps ==
  ASSUME IInv, NEW fd \in DOMAIN ufdt, NEW n \in Counts, ReadBegins(fd, n)
  PROVE  IInv'
<1> DEFINE m == FTABLE[ufdt[fd]]
<1>1. /\ Running /\ act = Idle /\ ufdt[fd] \in Entries
      /\ readoffset[ufdt[fd]] <= MaxOffset
      /\ OffsetStored(ufdt[fd])
      /\ act' = [op |-> "read", fd |-> fd, node |-> m, count |-> n, yet |-> n,
                 step |-> "get", buff |-> NULL]
      /\ UNCHANGED <<cache, alloc, tables, files, readoffset>>
      /\ m \in Node /\ fd \in Tables!DescriptorSlots
  BY DescriptorHasNode DEF ReadBegins
<1> HIDE DEF m
<1>2. AllocInv' /\ LentInv' /\ FilesInv'
  <2>1. NoCopy'
    BY <1>1 DEF NoCopy
  <2> QED BY <1>1, <2>1, UnmovedWithoutCopy DEF IInv
<1>3. TablesInv' /\ \A x \in Slots : ufdt'[x] = ufdt[x]
  BY <1>1, OffsetStoredTables DEF IInv
<1>4. ReadInv'
  <2>1. n \in Nat
    BY BlockAssumption
  <2>2. act' \in ReadRecord
    BY <1>1, <2>1 DEF ReadRecord
  <2>3. act'.fd = fd /\ act'.yet = n /\ act'.count = n /\ act'.step = "get"
    BY <1>1
  <2>4. ASSUME entry' \in Entries
        PROVE  readoffset'[entry'] <= MaxOffset
    <3>1. entry' = ufdt'[fd]
      BY <2>3 DEF entry
    <3>2. CASE fd \in Slots
      BY <1>1, <1>3, <3>1, <3>2
    <3>3. CASE fd \notin Slots
      <4>1. fd = MAX_INODES
        BY <1>1, <3>3, SizesAssumption DEF Tables!DescriptorSlots, Slots
      <4>2. ufdt'[fd] \in {NULL, Wild}
        BY <1>1, <4>1 DEF OffsetStored, IInv, TablesInv, DescriptorInv
      <4>3. NULL \notin Entries /\ Wild \notin Entries
        BY PointersAssumption, SizesAssumption DEF Entries, Tables!Entries
      <4> QED BY <2>4, <3>1, <4>2, <4>3
    <3> QED BY <3>2, <3>3
  <2> QED BY <2>2, <2>3, <2>4 DEF ReadInv
<1>5. ActInv'
  BY <1>1, <1>4 DEF IInv, ActInv
<1> QED BY <1>2, <1>3, <1>5 DEF IInv

\* A call that returns, or is refused, at once.
LEMMA ReadAtOnceKeeps ==
  ASSUME IInv, NEW fd \in DOMAIN ufdt, ReadRefused(fd) \/ ReadNothing(fd)
  PROVE  IInv'
<1>1. /\ Running /\ act = Idle /\ act' = Idle
      /\ UNCHANGED <<cache, alloc, tables, files, readoffset>>
      /\ ufdt' = ufdt \/ OffsetStored(ufdt[fd])
  BY DEF ReadRefused, ReadNothing
<1>2. AllocInv' /\ LentInv' /\ FilesInv'
  BY <1>1, UnmovedWithoutCopy DEF IInv
<1>3. TablesInv'
  <2>1. CASE ufdt' = ufdt
    BY <1>1, <2>1 DEF IInv, TablesInv, RoomInv, DescriptorInv, tables
  <2>2. CASE OffsetStored(ufdt[fd])
    BY <1>1, <2>2, OffsetStoredTables DEF IInv
  <2> QED BY <1>1, <2>1, <2>2
<1>4. ActInv'
  BY <1>1 DEF IInv, ActInv
<1> QED BY <1>2, <1>3, <1>4 DEF IInv

LEMMA ReturnKeeps ==
  ASSUME IInv, WriteReturns \/ ReadReturns
  PROVE  IInv'
<1>1. /\ Running /\ NoCopy /\ act' = Idle
      /\ UNCHANGED <<cache, alloc, tables, ufdt, files, readoffset>>
  BY DEF WriteReturns, ReadReturns, NoCopy
<1>2. AllocInv' /\ LentInv' /\ FilesInv'
  BY <1>1, UnmovedWithoutCopy DEF IInv
<1>3. ActInv' /\ TablesInv'
  BY <1>1 DEF IInv, ActInv, TablesInv, RoomInv, DescriptorInv, tables
<1> QED BY <1>2, <1>3 DEF IInv

----------------------------------------------------------------------------
\* allocblock.

\* There are as many blocks given as buffers lent, at most.
LEMMA GivenFew ==
  ASSUME LentInv
  PROVE  /\ IsFiniteSet(given) /\ Cardinality(given) \in Nat /\ Cardinality(lent) \in Nat
         /\ Cardinality(given) <= Cardinality(lent)
<1> DEFINE f == [x \in lent |-> x.block_number]
<1>1. f \in Surjection(lent, LentNumbers)
  BY DEF Surjection, LentNumbers, Alloc!Cache!LentNumbers
<1>2. IsFiniteSet(LentNumbers) /\ Cardinality(LentNumbers) <= Cardinality(lent)
  <2> HIDE DEF f
  <2> QED BY <1>1, FS_Surjection DEF LentInv
<1>3. IsFiniteSet(given) /\ Cardinality(given) <= Cardinality(LentNumbers)
  BY <1>2, FS_Subset DEF LentInv
<1>4. Cardinality(lent) \in Nat /\ Cardinality(LentNumbers) \in Nat /\ Cardinality(given) \in Nat
  BY <1>2, <1>3, FS_CardinalityType DEF LentInv
<1> QED BY <1>2, <1>3, <1>4

LEMMA LentCount ==
  ASSUME NEW L, IsFiniteSet(L), NEW S, NEW q \in Seq(S), Len(q) + Cardinality(L) = PRIMARY_BUFFERS
  PROVE  /\ Cardinality(L) <= PRIMARY_BUFFERS
         /\ q # <<>> => Cardinality(L) < PRIMARY_BUFFERS
<1>1. Cardinality(L) \in Nat
  BY FS_CardinalityType
<1>2. Len(q) \in Nat /\ (q # <<>> => Len(q) # 0)
  BY LenProperties
<1> QED BY <1>1, <1>2, SizesFacts

LEMMA IndexDown ==
  ASSUME IInv, Running, Alloc!allocblock
  PROVE  next_free_block_index' = next_free_block_index - 1
<1> DEFINE b == next_free_block_index
           m == b - 1
<1>1. b \in BLOCKS_PER_LIST-1-PRIMARY_BUFFERS..BLOCKS_PER_LIST-1
  BY DEF IInv, AllocInv
<1>2. b \in Nat /\ b >= 1 /\ Word \in Nat \ {0} /\ m \in 0..Word-1
  BY <1>1, SizesAssumption
<1>3. b + Word - 1 = Word * 1 + m
  BY <1>2
<1>4. b' = (b + Word - 1) % Word
  BY DEF Alloc!allocblock, Alloc!Removeblockfromlist
<1> HIDE DEF m
<1>5. (Word * 1 + m) % Word = m
  BY <1>2, Remainder
<1> QED BY <1>3, <1>4, <1>5 DEF m

\* The index goes down by one, and never gets as far as the blocks that are not given.
LEMMA AllocStep ==
  ASSUME IInv, Running, InHand = {}, Alloc!allocblock
  PROVE  LET b == next_free_block_index
         IN  \/ /\ Running' /\ AllocInv' /\ Obtained(b, FALSE)
                /\ b \in DiskBlocks \ NeverGiven /\ b \notin given
                /\ given' = given \union {b}
                /\ IsFiniteSet(lent') /\ Cardinality(lent') <= PRIMARY_BUFFERS
             \/ ~Running' /\ UNCHANGED <<lent, blocks, given>>
<1> DEFINE b == next_free_block_index
<1>1. /\ Alloc!Removeblockfromlist /\ Alloc!Cache!getblk(b)
      /\ given' = IF proc' = "running" THEN given \union {b} ELSE given
  BY DEF Alloc!allocblock
<1>2. /\ CacheInv /\ b \in BLOCKS_PER_LIST-1-PRIMARY_BUFFERS..BLOCKS_PER_LIST-1
      /\ given = b+1..BLOCKS_PER_LIST-1
      /\ LentInv /\ blocks \in [DiskBlocks -> Block]
  BY DEF IInv, AllocInv, FilesInv
<1>3. b \in DiskBlocks /\ b \in Nat /\ b >= 1
  BY <1>2, SizesFacts DEF DiskBlocks
<1>4. b' = b - 1
  BY IndexDown
<1>5. CASE proc' # "running"
  <2>1. UNCHANGED <<lent, blocks>>
    BY <1>1, <1>2, <1>3, <1>5, ReturnsOrStops DEF Obtained
  <2> QED BY <1>1, <1>5, <2>1 DEF Running
<1>6. CASE proc' = "running"
  <2>1. CacheInv' /\ Obtained(b, FALSE)
    BY <1>1, <1>2, <1>3, <1>6, ReturnsOrStops
  <2>2. Cardinality(given) < PRIMARY_BUFFERS /\ Cardinality(given) \in Nat
    <3>1. freelist # <<>>
      BY <2>1 DEF Obtained
    <3>2. Cardinality(lent) < PRIMARY_BUFFERS
      BY <1>2, <3>1, LentCount DEF CacheInv, CacheTypes, BuffersOnce
    <3> QED BY <1>2, <3>2, GivenFew, SizesFacts
  <2>3. Cardinality(given) = IF b + 1 > BLOCKS_PER_LIST - 1 THEN 0 ELSE BLOCKS_PER_LIST - 1 - (b + 1) + 1
    BY <1>2, <1>3, SizesFacts, FS_Interval
  <2>4. b > BLOCKS_PER_LIST - 1 - PRIMARY_BUFFERS
    BY <1>2, <1>3, <2>2, <2>3, SizesFacts
  <2>5. given' = b..BLOCKS_PER_LIST-1 /\ b \notin given /\ given' = given \union {b}
    BY <1>1, <1>2, <1>3, <1>6, SizesFacts
  <2>6. AllocInv'
    BY <1>2, <1>3, <1>4, <2>1, <2>4, <2>5, SizesFacts DEF AllocInv
  <2>7. b \notin NeverGiven
    BY <1>2, <1>3, <2>4, SizesFacts DEF NeverGiven
  <2>8. IsFiniteSet(lent') /\ Cardinality(lent') <= PRIMARY_BUFFERS
    BY <2>1, LentCount DEF CacheInv, CacheTypes, BuffersOnce
  <2> QED BY <1>3, <1>6, <2>1, <2>5, <2>6, <2>7, <2>8 DEF Running
<1> QED BY <1>5, <1>6

----------------------------------------------------------------------------
\* writefile.

LEMMA BmapInFile ==
  ASSUME NEW p \in Nat, bmap(p) # -1
  PROVE  /\ bmap(p) \in Index /\ p % BLOCK_SIZE \in 0..BLOCK_SIZE-1
         /\ p = BLOCK_SIZE * bmap(p) + (p % BLOCK_SIZE)
<1> DEFINE d == p \div BLOCK_SIZE
           r == p % BLOCK_SIZE
<1>1. bmap(p) = d /\ p < BLOCK_SIZE * NUM_DIRECT_POINTERS
  BY DEF bmap
<1>2. BLOCK_SIZE \in Nat \ {0} /\ NUM_DIRECT_POINTERS \in Nat
  BY SizesFacts
<1>3. d \in Nat /\ r \in 0..BLOCK_SIZE-1 /\ p = BLOCK_SIZE * d + r
  BY <1>2, Division
<1> HIDE DEF d, r
<1>4. d < NUM_DIRECT_POINTERS
  <2> SUFFICES ASSUME d >= NUM_DIRECT_POINTERS PROVE FALSE
    BY <1>2, <1>3
  <2>1. BLOCK_SIZE * d >= BLOCK_SIZE * NUM_DIRECT_POINTERS
    BY <1>2, <1>3
  <2> QED BY <1>1, <1>2, <1>3, <2>1
<1>5. d \in Index
  BY <1>2, <1>3, <1>4 DEF Index
<1> QED BY <1>1, <1>3, <1>5 DEF r

LEMMA GotBufferFields ==
  ASSUME act \in WriteRecord \union ReadRecord, NEW b \in Nat, GotBuffer(b)
  PROVE  /\ act \in WriteRecord => act' \in WriteRecord
         /\ act \in ReadRecord => act' \in ReadRecord
         /\ act'.op = act.op /\ act'.node = act.node
         /\ act'.step = "copy" /\ act'.buff = b
         /\ Writing => act'.string = act.string /\ act'.iCnt = act.iCnt
         /\ Reading => act'.fd = act.fd /\ act'.count = act.count /\ act'.yet = act.yet
<1>1. CASE act \in WriteRecord
  BY <1>1 DEF GotBuffer, WriteRecord, ReadRecord, Reading
<1>2. CASE act \in ReadRecord
  BY <1>2 DEF GotBuffer, WriteRecord, ReadRecord, Writing
<1> QED BY <1>1, <1>2

LEMMA DiskBlocksAreNat == \A b \in DiskBlocks : b \in Nat
  BY SizesFacts DEF DiskBlocks

\* A chunk is asked for while the call is writing.
LEMMA WritingHasRecord ==
  ASSUME IInv, Writing
  PROVE  /\ WriteInv /\ act \in WriteRecord /\ ~Reading /\ InHand = {}
         /\ act.node \in Node /\ position \in Nat
<1>1. WriteInv
  BY DEF IInv, ActInv, ReadInv, ReadRecord, Writing, Idle
<1>2. act \in WriteRecord /\ act.node \in Node /\ ~Reading
  BY <1>1 DEF WriteInv, WriteRecord, Reading
<1>3. position \in Nat
  BY <1>2, SizesFacts DEF IInv, FilesInv, position
<1> QED BY <1>1, <1>2, <1>3 DEF InHand

\* A block that is missing is missing at its start.
LEMMA MissingBlock ==
  ASSUME IInv, NextChunk, blkno # -1, direct[act.node][blkno] = NULL
  PROVE  blkno \in Index /\ position = BLOCK_SIZE * blkno
<1>1. Writing /\ act.step = "get"
  BY DEF NextChunk
<1>2. act.node \in Node /\ position \in Nat
  BY <1>1, WritingHasRecord
<1>3. /\ blkno \in Index /\ position % BLOCK_SIZE \in 0..BLOCK_SIZE-1
      /\ position = BLOCK_SIZE * blkno + (position % BLOCK_SIZE)
  BY <1>2, BmapInFile DEF blkno
<1>4. ~(blkno * BLOCK_SIZE < position)
  BY <1>1, <1>2, <1>3 DEF IInv, FilesInv, Chunk, position
<1>5. BLOCK_SIZE * blkno = blkno * BLOCK_SIZE /\ blkno * BLOCK_SIZE \in Int
  BY <1>3, SizesFacts DEF Index
<1> QED BY <1>2, <1>3, <1>4, <1>5, SizesFacts

\* The new block has a place in the file.
LEMMA BlockPlaced ==
  ASSUME IInv, NextChunk, blkno # -1, direct[act.node][blkno] = NULL,
         NEW b \in DiskBlocks, b \notin given, NEW ptr \in {b, NULL},
         given' = given \union {b}, UNCHANGED <<blocks, FileSize>>,
         direct' = [direct EXCEPT ![act.node][blkno] = ptr],
         disklist_blkno' = [disklist_blkno EXCEPT ![act.node] = b],
         GotBuffer(b)
  PROVE  FilesInv' /\ WriteInv'
<1> DEFINE m == act.node
           k == blkno
<1>1. Writing /\ act.step = "get" /\ act.iCnt < Len(act.string)
  BY DEF NextChunk
<1>2. m \in Node /\ WriteInv /\ act \in WriteRecord
  BY <1>1, WritingHasRecord
<1>3. k \in Index /\ position = BLOCK_SIZE * k
  BY MissingBlock
<1>b. b \in Nat
  BY SizesFacts DEF DiskBlocks
<1>4. /\ act' \in WriteRecord /\ act'.op = act.op /\ act'.node = m
      /\ act'.step = "copy" /\ act'.buff = b
      /\ act'.string = act.string /\ act'.iCnt = act.iCnt
  BY <1>1, <1>2, <1>b, GotBufferFields
<1>5. position' = position /\ blkno' = k
  BY <1>4 DEF position, blkno
<1>6. Writing'
  BY <1>1, <1>4 DEF Writing
<1>7. NULL \notin DiskBlocks
  BY SizesFacts DEF DiskBlocks
<1>8. /\ FileSize \in [Node -> 0..BLOCK_SIZE * NUM_DIRECT_POINTERS]
      /\ direct \in [Node -> [Index -> given \union {NULL}]]
      /\ disklist_blkno \in [Node -> 0..Word-1]
      /\ blocks \in [DiskBlocks -> Block]
  BY DEF IInv, FilesInv
<1>9. given \subseteq DiskBlocks
  BY DEF IInv, LentInv
<1> HIDE DEF m, k
<1>10. direct' = [direct EXCEPT ![m] = [direct[m] EXCEPT ![k] = ptr]]
  BY <1>8 DEF m, k
<1>11. \A n \in Node, i \in Index :
         direct'[n][i] = IF n = m /\ i = k THEN ptr ELSE direct[n][i]
  BY <1>2, <1>3, <1>8, <1>10
<1>12. direct' \in [Node -> [Index -> given' \union {NULL}]]
  <2>1. [direct[m] EXCEPT ![k] = ptr] \in [Index -> given' \union {NULL}]
    BY <1>2, <1>3, <1>8
  <2>2. \A n \in Node : direct[n] \in [Index -> given' \union {NULL}]
    BY <1>8
  <2> QED BY <1>2, <1>8, <1>10, <2>1, <2>2
<1>13. disklist_blkno' \in [Node -> 0..Word-1] /\ disklist_blkno'[m] = b
       /\ \A n \in Node : n # m => disklist_blkno'[n] = disklist_blkno[n]
  <2>1. b \in 0..Word-1
    BY SizesAssumption DEF DiskBlocks
  <2> QED BY <1>2, <1>8, <2>1 DEF m
<1>14. \A n \in Node, i \in Index : direct[n][i] = NULL \/ direct[n][i] # b
  BY <1>8
<1>15. \A x, y \in Node, i, j \in Index :
         direct'[x][i] # NULL /\ direct'[x][i] = direct'[y][j] => x = y /\ i = j
  BY <1>11, <1>14 DEF IInv, FilesInv
<1>16. \A n \in Node, i \in Index : direct'[n][i] # NULL => disklist_blkno'[n] \in given'
  BY <1>11, <1>13 DEF IInv, FilesInv
<1>17. ASSUME NEW n \in Node, NEW i \in Index, ~Chunk(n, i)'
       PROVE  direct'[n][i] # NULL <=> i * BLOCK_SIZE < FileSize'[n]
  <2>1. ~(n = m /\ i = k)
    BY <1>4, <1>5, <1>6, <1>17 DEF Chunk
  <2>2. ~Chunk(n, i)
    BY <1>1 DEF Chunk
  <2> QED BY <1>11, <2>1, <2>2 DEF IInv, FilesInv
<1>18. FilesInv'
  BY <1>8, <1>12, <1>13, <1>15, <1>16, <1>17 DEF FilesInv
<1>19. WriteInv'
  <2>1. direct'[act'.node][blkno'] \in {act'.buff, NULL}
    BY <1>2, <1>3, <1>4, <1>5, <1>11
  <2>2. act'.iCnt < Len(act'.string) /\ act'.iCnt <= Len(act'.string)
    BY <1>1, <1>2, <1>4 DEF WriteInv
  <2> QED BY <1>3, <1>4, <1>5, <2>1, <2>2 DEF WriteInv
<1> QED BY <1>18, <1>19

LEMMA WriteGetsBlockKeeps ==
  ASSUME IInv, WriteGetsBlock
  PROVE  IInv'
<1> DEFINE b == next_free_block_index
<1>1. /\ NextChunk /\ blkno # -1 /\ direct[act.node][blkno] = NULL
      /\ Alloc!allocblock /\ Running /\ Writing
      /\ UNCHANGED <<tables, ufdt, FileSize, readoffset>>
  BY DEF WriteGetsBlock, NextChunk
<1>2. InHand = {} /\ act \in WriteRecord
  BY <1>1, WritingHasRecord
<1>3. \/ /\ Running' /\ AllocInv' /\ Obtained(b, FALSE)
         /\ b \in DiskBlocks \ NeverGiven /\ b \notin given
         /\ given' = given \union {b}
         /\ IsFiniteSet(lent') /\ Cardinality(lent') <= PRIMARY_BUFFERS
      \/ ~Running' /\ UNCHANGED <<lent, blocks, given>>
  BY <1>1, <1>2, AllocStep
<1>4. CASE ~Running' /\ UNCHANGED <<lent, blocks, given>>
  <2>1. UNCHANGED <<direct, disklist_blkno, act>>
    BY <1>4 DEF WriteGetsBlock, Running
  <2> QED BY <1>1, <1>4, <2>1, StopKeeps DEF files
<1>5. CASE Running' /\ Obtained(b, FALSE)
  <2>1. PICK buf \in LentBuffer : /\ buf.block_number = b /\ buf.ptr_to_block \in {b, NULL}
                                  /\ lent' = lent \union {buf}
    BY <1>5 DEF Obtained
  <2>2. /\ direct' = [direct EXCEPT ![act.node][blkno] = buf.ptr_to_block]
        /\ disklist_blkno' = [disklist_blkno EXCEPT ![act.node] = b]
        /\ GotBuffer(b)
    BY <1>5, <2>1 DEF WriteGetsBlock, Running
  <2>3. AllocInv' /\ b \in DiskBlocks /\ b \notin given /\ given' = given \union {b}
        /\ IsFiniteSet(lent') /\ Cardinality(lent') <= PRIMARY_BUFFERS
    BY <1>3, <1>5
  <2>4. blocks' = blocks /\ LentNumbers' = LentNumbers \union {b}
    BY <1>5 DEF Obtained
  <2> HIDE DEF b
  <2>5. FilesInv' /\ WriteInv'
    BY <1>1, <2>1, <2>2, <2>3, <2>4, BlockPlaced
  <2>6. act'.op = "write"
    BY <2>5 DEF WriteInv, WriteRecord
  <2>7. LentInv'
    <3>1. InHand' = {}
      BY <2>6 DEF InHand, Reading
    <3> QED BY <1>2, <2>3, <2>4, <3>1 DEF IInv, LentInv
  <2>8. ActInv'
    BY <1>1, <2>5 DEF IInv, ActInv
  <2>9. TablesInv'
    BY <1>1 DEF IInv, TablesInv, RoomInv, DescriptorInv, tables
  <2> QED BY <2>3, <2>5, <2>7, <2>8, <2>9 DEF IInv
<1> QED BY <1>3, <1>4, <1>5

\* The buffer of a block that is there is lent: getblk does not return.
LEMMA WriteGetsBufferStops ==
  ASSUME IInv, WriteGetsBuffer
  PROVE  ~Running' /\ UNCHANGED <<lent, blocks, given, tables, ufdt, files, readoffset, act>>
<1>1. /\ NextChunk /\ blkno # -1 /\ direct[act.node][blkno] # NULL
      /\ Alloc!getblk(disklist_blkno[act.node]) /\ Running /\ Writing
      /\ proc' # "running" => act' = act
      /\ UNCHANGED <<tables, ufdt, files, readoffset>>
  BY DEF WriteGetsBuffer, NextChunk
<1>2. act.node \in Node /\ blkno \in Index
  BY <1>1, WritingHasRecord, BmapInFile DEF blkno
<1>3. disklist_blkno[act.node] \in LentNumbers /\ disklist_blkno[act.node] \in Nat
  BY <1>1, <1>2, SizesAssumption DEF IInv, FilesInv, LentInv
<1>4. Alloc!Cache!getblk(disklist_blkno[act.node]) /\ given' = given
  BY <1>1 DEF Alloc!getblk
<1>5. CacheInv /\ blocks \in [DiskBlocks -> Block]
  BY <1>1 DEF IInv, AllocInv, FilesInv
<1>6. proc' # "running" /\ UNCHANGED <<lent, blocks>>
  BY <1>3, <1>4, <1>5, ReturnsOrStops DEF Obtained
<1> QED BY <1>1, <1>4, <1>6 DEF Running

\* A chunk is at least one byte, starts the block, and is all written.
LEMMA ChunkSize ==
  ASSUME IInv, Writing, act.step = "copy"
  PROVE  /\ index = 0 /\ written = copy
         /\ copy \in 1..BLOCK_SIZE /\ act.iCnt \in Nat /\ Len(act.string) \in Nat
         /\ act.iCnt + copy <= Len(act.string)
         /\ blkno \in Index /\ position = BLOCK_SIZE * blkno
         /\ position + copy <= BLOCK_SIZE * NUM_DIRECT_POINTERS
<1>1. WriteInv /\ act \in WriteRecord
  BY WritingHasRecord
<1>2. /\ blkno \in Index /\ position = BLOCK_SIZE * blkno
      /\ act.iCnt < Len(act.string) /\ act.iCnt \in Nat /\ act.string \in Strings
  BY <1>1 DEF WriteInv, WriteRecord
<1>3. Len(act.string) \in Nat
  BY <1>2, BlockAssumption, LenProperties
<1>4. copy \in 1..BLOCK_SIZE /\ act.iCnt + copy <= Len(act.string)
  BY <1>2, <1>3, SizesFacts DEF copy, Least
<1>5. index = 0
  <2>1. blkno \in Nat /\ 0 \in 0..BLOCK_SIZE-1 /\ position = BLOCK_SIZE * blkno + 0
    BY <1>2, SizesFacts DEF Index
  <2> QED BY <2>1, Remainder, SizesFacts DEF index
<1>6. written = copy
  BY <1>4, <1>5, SizesFacts DEF written, Least
<1>7. position + copy <= BLOCK_SIZE * NUM_DIRECT_POINTERS
  <2>1. blkno + 1 <= NUM_DIRECT_POINTERS /\ blkno \in Nat
    BY <1>2, SizesFacts DEF Index
  <2>2. BLOCK_SIZE * (blkno + 1) <= BLOCK_SIZE * NUM_DIRECT_POINTERS
    BY <2>1, SizesFacts
  <2>3. BLOCK_SIZE * (blkno + 1) = BLOCK_SIZE * blkno + BLOCK_SIZE
    BY <2>1, SizesFacts
  <2> DEFINE x == BLOCK_SIZE * (blkno + 1)
             y == BLOCK_SIZE * NUM_DIRECT_POINTERS
             z == BLOCK_SIZE * blkno
  <2>4. x \in Int /\ y \in Int /\ z \in Int /\ x <= y /\ x = z + BLOCK_SIZE /\ position = z
    BY <1>2, <2>1, <2>2, <2>3, SizesFacts
  <2> HIDE DEF x, y, z
  <2>5. position + copy <= y
    BY <1>4, <2>4, SizesFacts
  <2> QED BY <2>5 DEF y
<1> QED BY <1>2, <1>3, <1>4, <1>5, <1>6, <1>7

\* The string's bytes are at the start of the block afterwards.
LEMMA ChunkStored ==
  ASSUME IInv, Writing, act.step = "copy", NEW d \in Block, NEW old \in Block
  PROVE  LET new == Stored(old, Filled(d))
         IN  /\ new \in Block /\ Filled(d) \in Block
             /\ \A i \in 0..copy-1 : new[i] = act.string[act.iCnt + i + 1]
<1> DEFINE f == Filled(d)
           new == Stored(old, f)
<1>1. /\ index = 0 /\ written = copy /\ copy \in 1..BLOCK_SIZE /\ act.iCnt \in Nat
      /\ Len(act.string) \in Nat /\ act.iCnt + copy <= Len(act.string)
  BY ChunkSize
<1>2. act.string \in Seq(Bytes)
  <2>1. act.string \in Strings
    BY WritingHasRecord DEF WriteRecord
  <2>2. act.string \in Seq(Bytes \ {0})
    BY <2>1, BlockAssumption
  <2> QED BY <2>2, ElementOfSeq, LenProperties, SeqDef
<1>3. \A i \in 0..copy-1 : act.string[act.iCnt + i + 1] \in Bytes
  BY <1>1, <1>2, ElementOfSeq
<1>4. f = [i \in 0..BLOCK_SIZE-1 |-> IF i < copy THEN act.string[act.iCnt + i + 1] ELSE d[i]]
  BY DEF Filled
<1>5. f \in Block
  <2>1. \A i \in 0..BLOCK_SIZE-1 : d[i] \in Bytes
    BY DEF Block
  <2>2. \A i \in 0..BLOCK_SIZE-1 : f[i] \in Bytes
    BY <1>1, <1>3, <1>4, <2>1, SizesFacts
  <2> HIDE DEF f
  <2> QED BY <1>4, <2>2 DEF Block
<1>6. \A i \in 0..copy-1 : f[i] = act.string[act.iCnt + i + 1]
  BY <1>1, <1>4, SizesFacts
<1> HIDE DEF f
<1>7. new = [i \in 0..BLOCK_SIZE-1 |-> IF i \in 0..copy-1 THEN f[i] ELSE old[i]]
  <2>1. \A i \in 0..BLOCK_SIZE-1 : i - index = i /\ (i \in index..index + written - 1 <=> i \in 0..copy-1)
    BY <1>1, SizesFacts
  <2> QED BY <2>1 DEF Stored
<1> HIDE DEF new
<1>8. new \in Block
  BY <1>5, <1>7 DEF Block
<1>9. \A i \in 0..copy-1 : new[i] = f[i]
  BY <1>1, <1>7, SizesFacts
<1> QED BY <1>5, <1>6, <1>8, <1>9 DEF new, f

\* What the copying of a chunk does.
LEMMA CopyStep ==
  ASSUME IInv, WriteCopies, direct[act.node][blkno] # NULL
  PROVE  LET m == act.node
             b == direct[m][blkno]
         IN  /\ CacheInv' /\ LentNumbers' = LentNumbers
             /\ IsFiniteSet(lent') /\ Cardinality(lent') <= PRIMARY_BUFFERS
             /\ b \in DiskBlocks
             /\ blocks' \in [DiskBlocks -> Block]
             /\ \A x \in DiskBlocks : x # b => blocks'[x] = blocks[x]
             /\ \A i \in 0..copy-1 : blocks'[b][i] = act.string[act.iCnt + i + 1]
             /\ FileSize' = [FileSize EXCEPT ![m] = @ + copy]
             /\ act' \in WriteRecord /\ act'.node = m /\ act'.string = act.string
             /\ act'.step = "get" /\ act'.iCnt = act.iCnt + copy
             /\ UNCHANGED <<proc, alloc, tables, ufdt, ret, direct, disklist_blkno, readoffset>>
<1> DEFINE m == act.node
           b == direct[m][blkno]
<1>1. /\ Running /\ Writing /\ act.step = "copy"
      /\ FileSize' = [FileSize EXCEPT ![m] = @ + written]
      /\ act' = [act EXCEPT !.step = "get", !.iCnt = @ + copy - (copy - written), !.buff = NULL]
      /\ UNCHANGED <<proc, alloc, tables, ufdt, ret, direct, disklist_blkno, readoffset>>
  BY DEF WriteCopies
<1>2. PICK buff \in lent : CopyToBlock(buff)
  BY DEF WriteCopies
<1>3. CacheInv /\ blocks \in [DiskBlocks -> Block]
  BY <1>1 DEF IInv, AllocInv, FilesInv
<1>4. WriteInv /\ act \in WriteRecord /\ m \in Node
  BY <1>1, WritingHasRecord
<1>5. /\ written = copy /\ copy \in 1..BLOCK_SIZE /\ act.iCnt \in Nat /\ blkno \in Index
  BY <1>1, ChunkSize
<1>6. b \in DiskBlocks
  <2>1. b \in given \union {NULL} /\ b # NULL
    BY <1>4, <1>5 DEF IInv, FilesInv
  <2> QED BY <2>1 DEF IInv, LentInv
<1>7. act' \in WriteRecord /\ act'.node = m /\ act'.string = act.string
      /\ act'.step = "get" /\ act'.iCnt = act.iCnt + copy
  <2>1. copy \in Int /\ act.iCnt + copy \in Nat
    BY <1>5, SizesFacts
  <2>2. act.iCnt + copy - (copy - written) = act.iCnt + copy
    BY <1>5, <2>1
  <2>3. act' = [act EXCEPT !.step = "get", !.iCnt = act.iCnt + copy, !.buff = NULL]
    BY <1>1, <2>2
  <2> DEFINE c == act.iCnt + copy
  <2>4. act' = [act EXCEPT !.step = "get", !.iCnt = c, !.buff = NULL] /\ c \in Nat
    BY <2>1, <2>3
  <2> HIDE DEF c
  <2>5. act' \in WriteRecord /\ act'.node = act.node /\ act'.string = act.string
        /\ act'.step = "get" /\ act'.iCnt = c
    BY <1>4, <2>4 DEF WriteRecord
  <2> QED BY <2>5 DEF c
<1> HIDE DEF m, b
<1>8. /\ lent' = (lent \ {buff}) \union {[buff EXCEPT !.ptr_to_data = Filled(buff.ptr_to_data)]}
      /\ blocks' = [blocks EXCEPT ![b] = Stored(blocks[b], Filled(buff.ptr_to_data))]
      /\ UNCHANGED <<headers, freelist>>
  BY <1>2, <1>3, <1>6 DEF CopyToBlock, m, b
<1>9. buff.ptr_to_data \in Block
  BY <1>3 DEF CacheInv, CacheTypes, LentBuffer
<1> DEFINE new == Stored(blocks[b], Filled(buff.ptr_to_data))
<1>10. /\ new \in Block /\ Filled(buff.ptr_to_data) \in Block
       /\ \A i \in 0..copy-1 : new[i] = act.string[act.iCnt + i + 1]
  <2>1. blocks[b] \in Block
    BY <1>3, <1>6
  <2> QED BY <1>1, <1>9, <2>1, ChunkStored
<1>11. CacheInv' /\ LentNumbers' = LentNumbers
  BY <1>3, <1>8, <1>10, RefillStep
<1>12. IsFiniteSet(lent') /\ Cardinality(lent') <= PRIMARY_BUFFERS
  BY <1>11, LentCount DEF CacheInv, CacheTypes, BuffersOnce
<1> HIDE DEF new
<1>13. blocks' = [blocks EXCEPT ![b] = new]
  BY <1>8 DEF new
<1>14. blocks' \in [DiskBlocks -> Block]
  BY <1>3, <1>10, <1>13
<1>15. blocks'[b] = new /\ \A x \in DiskBlocks : x # b => blocks'[x] = blocks[x]
  BY <1>3, <1>6, <1>13
<1>16. FileSize' = [FileSize EXCEPT ![m] = @ + copy]
  BY <1>1, <1>5 DEF m
<1> QED BY <1>1, <1>6, <1>7, <1>10, <1>11, <1>12, <1>14, <1>15, <1>16 DEF m, b

\* The blocks the size needs are those there are, before the chunk in block k and after.
LEMMA SizeGrows ==
  ASSUME NEW k \in Nat, NEW i \in Nat, i # k, NEW c \in 1..BLOCK_SIZE
  PROVE  /\ i * BLOCK_SIZE < BLOCK_SIZE * k <=> i * BLOCK_SIZE < BLOCK_SIZE * k + c
         /\ k * BLOCK_SIZE < BLOCK_SIZE * k + c
<1> DEFINE x == BLOCK_SIZE * i
           y == BLOCK_SIZE * k
<1>1. x = i * BLOCK_SIZE /\ y = k * BLOCK_SIZE /\ x \in Int /\ y \in Int /\ c \in Nat /\ c >= 1 /\ c <= BLOCK_SIZE
  BY SizesFacts
<1>2. i < k => x < y
  <2> SUFFICES ASSUME i + 1 <= k PROVE x < y
    OBVIOUS
  <2>1. BLOCK_SIZE * (i + 1) <= y
    BY SizesFacts
  <2>2. BLOCK_SIZE * (i + 1) = x + BLOCK_SIZE
    BY SizesFacts
  <2> HIDE DEF x, y
  <2> QED BY <1>1, <2>1, <2>2, SizesFacts
<1>3. i > k => x >= y + BLOCK_SIZE
  <2> SUFFICES ASSUME k + 1 <= i PROVE x >= y + BLOCK_SIZE
    OBVIOUS
  <2>1. BLOCK_SIZE * (k + 1) <= x
    BY SizesFacts
  <2>2. BLOCK_SIZE * (k + 1) = y + BLOCK_SIZE
    BY SizesFacts
  <2> QED BY <2>1, <2>2
<1> HIDE DEF x, y
<1>4. (x < y <=> x < y + c) /\ y < y + c
  BY <1>1, <1>2, <1>3, SizesFacts
<1> QED BY <1>1, <1>4 DEF y

LEMMA WriteCopiesKeeps ==
  ASSUME IInv, WriteCopies
  PROVE  IInv'
<1> DEFINE m == act.node
           k == blkno
<1>1. Running /\ Writing /\ act.step = "copy" /\ UNCHANGED tables
  BY DEF WriteCopies
<1>2. CASE direct[act.node][blkno] = NULL
  BY <1>1, <1>2, CrashKeeps DEF WriteCopies
<1>3. CASE direct[act.node][blkno] # NULL
  <2>1. /\ CacheInv' /\ LentNumbers' = LentNumbers
        /\ IsFiniteSet(lent') /\ Cardinality(lent') <= PRIMARY_BUFFERS
        /\ blocks' \in [DiskBlocks -> Block]
        /\ FileSize' = [FileSize EXCEPT ![m] = @ + copy]
        /\ act' \in WriteRecord /\ act'.string = act.string
        /\ act'.step = "get" /\ act'.iCnt = act.iCnt + copy
        /\ UNCHANGED <<proc, alloc, ufdt, direct, disklist_blkno, readoffset>>
    BY <1>3, CopyStep
  <2>2. /\ copy \in 1..BLOCK_SIZE /\ act.iCnt + copy <= Len(act.string)
        /\ k \in Index /\ position = BLOCK_SIZE * k
        /\ position + copy <= BLOCK_SIZE * NUM_DIRECT_POINTERS
    BY <1>1, ChunkSize
  <2>3. m \in Node /\ InHand = {}
    BY <1>1, WritingHasRecord
  <2>4. AllocInv'
    BY <1>1, <2>1 DEF IInv, AllocInv, alloc
  <2>5. LentInv'
    <3>1. InHand' = {}
      BY <2>1 DEF InHand
    <3> QED BY <2>1, <2>3, <3>1 DEF IInv, LentInv, alloc
  <2>6. /\ FileSize \in [Node -> 0..BLOCK_SIZE * NUM_DIRECT_POINTERS]
        /\ FileSize[m] = BLOCK_SIZE * k
    BY <2>2 DEF IInv, FilesInv, position
  <2>7. /\ FileSize' \in [Node -> 0..BLOCK_SIZE * NUM_DIRECT_POINTERS]
        /\ FileSize'[m] = BLOCK_SIZE * k + copy
        /\ \A n \in Node : n # m => FileSize'[n] = FileSize[n]
    <3>1. FileSize[m] + copy \in 0..BLOCK_SIZE * NUM_DIRECT_POINTERS
      BY <2>2, <2>3, <2>6, SizesFacts DEF position
    <3> QED BY <2>1, <2>3, <2>6, <3>1
  <2>8. ASSUME NEW n \in Node, NEW i \in Index
        PROVE  direct[n][i] # NULL <=> i * BLOCK_SIZE < FileSize'[n]
    <3>1. i \in Nat /\ k \in Nat
      BY <2>2, SizesFacts DEF Index
    <3>2. CASE n = m /\ i = k
      <4>1. k + 1 \in Nat /\ k + 1 # k
        BY <3>1
      <4>2. k * BLOCK_SIZE < BLOCK_SIZE * k + copy
        BY <2>2, <3>1, <4>1, SizeGrows
      <4> QED BY <1>3, <2>7, <3>2, <4>2
    <3>3. CASE ~(n = m /\ i = k)
      <4>1. direct[n][i] # NULL <=> i * BLOCK_SIZE < FileSize[n]
        BY <3>3 DEF IInv, FilesInv, Chunk
      <4>2. CASE n # m
        BY <2>7, <4>1, <4>2
      <4>3. CASE n = m
        <5>1. i * BLOCK_SIZE < BLOCK_SIZE * k <=> i * BLOCK_SIZE < BLOCK_SIZE * k + copy
          BY <2>2, <3>1, <3>3, <4>3, SizeGrows
        <5> QED BY <2>6, <2>7, <4>1, <4>3, <5>1
      <4> QED BY <4>2, <4>3
    <3> QED BY <3>2, <3>3
  <2>9. FilesInv'
    BY <2>1, <2>7, <2>8 DEF IInv, FilesInv, alloc
  <2>10. ActInv'
    <3>1. WriteInv'
      BY <2>1, <2>2 DEF WriteInv
    <3>2. \A e \in Entries : readoffset[e] <= MaxOffset + LongWord \div 2
      BY <1>1 DEF IInv, ActInv
    <3> QED BY <2>1, <3>1, <3>2 DEF IInv, ActInv
  <2>11. TablesInv'
    BY <1>1, <2>1 DEF IInv, TablesInv, RoomInv, DescriptorInv, tables
  <2> QED BY <2>4, <2>5, <2>9, <2>10, <2>11 DEF IInv
<1> QED BY <1>2, <1>3

----------------------------------------------------------------------------
\* readfile.

LEMMA ReadingHasRecord ==
  ASSUME IInv, Reading
  PROVE  /\ ReadInv /\ act \in ReadRecord /\ ~Writing
         /\ act.node \in Node
<1>1. ReadInv
  BY DEF IInv, ActInv, WriteInv, WriteRecord, Reading, Idle
<1> QED BY <1>1 DEF ReadInv, ReadRecord, Writing

\* A read gets a buffer only of a block that is not given.
LEMMA ReadGetsStep ==
  ASSUME IInv, ReadGetsBuffer
  PROVE  LET b == disklist_blkno[act.node]
         IN  \/ /\ Running' /\ CacheInv' /\ Obtained(b, TRUE) /\ GotBuffer(b)
                /\ b \in Nat /\ b \notin given
             \/ ~Running' /\ UNCHANGED <<lent, blocks, act>>
<1> DEFINE b == disklist_blkno[act.node]
<1>1. /\ Running /\ Reading /\ Alloc!Cache!bread(b)
      /\ IF proc' = "running" THEN GotBuffer(b) ELSE UNCHANGED act
  BY DEF ReadGetsBuffer, Alloc!bread
<1>2. b \in Nat
  BY <1>1, ReadingHasRecord, SizesAssumption DEF IInv, FilesInv
<1>3. CacheInv /\ blocks \in [DiskBlocks -> Block]
  BY <1>1 DEF IInv, AllocInv, FilesInv
<1> HIDE DEF b
<1>4. \/ proc' = "running" /\ CacheInv' /\ Obtained(b, TRUE)
      \/ proc' # "running" /\ UNCHANGED <<lent, blocks>>
  BY <1>1, <1>2, <1>3, ReturnsOrStops
<1>5. Obtained(b, TRUE) => b \notin given
  BY DEF Obtained, IInv, LentInv
<1> QED BY <1>1, <1>2, <1>4, <1>5 DEF Running, b

LEMMA ReadGetsBufferKeeps ==
  ASSUME IInv, ReadGetsBuffer
  PROVE  IInv'
<1> DEFINE b == disklist_blkno[act.node]
<1>1. /\ Running /\ Reading /\ act.step = "get" /\ act.yet > 0 /\ entry \in Entries
      /\ UNCHANGED <<alloc, tables, ufdt, ret, files, readoffset>>
  BY DEF ReadGetsBuffer, Alloc!bread, alloc
<1>2. \/ /\ Running' /\ CacheInv' /\ Obtained(b, TRUE) /\ GotBuffer(b)
         /\ b \in Nat /\ b \notin given
      \/ ~Running' /\ UNCHANGED <<lent, blocks, act>>
  BY ReadGetsStep
<1> HIDE DEF b
<1>3. CASE ~Running' /\ UNCHANGED <<lent, blocks, act>>
  BY <1>1, <1>3, StopKeeps DEF alloc
<1>4. CASE /\ Running' /\ CacheInv' /\ Obtained(b, TRUE) /\ GotBuffer(b)
           /\ b \in Nat /\ b \notin given
  <2>1. ReadInv /\ act \in ReadRecord
    BY <1>1, ReadingHasRecord
  <2>2. /\ act' \in ReadRecord /\ act'.op = act.op /\ act'.step = "copy" /\ act'.buff = b
        /\ act'.fd = act.fd /\ act'.count = act.count /\ act'.yet = act.yet
    BY <1>1, <1>4, <2>1, GotBufferFields
  <2>3. AllocInv'
    BY <1>1, <1>4 DEF IInv, AllocInv, alloc
  <2>4. LentInv'
    <3>1. InHand = {} /\ InHand' = {b}
      BY <1>1, <2>2 DEF InHand, Reading
    <3>2. LentNumbers' = LentNumbers \union {b}
      BY <1>4 DEF Obtained
    <3>3. IsFiniteSet(lent') /\ Cardinality(lent') <= PRIMARY_BUFFERS
      BY <1>4, LentCount DEF CacheInv, CacheTypes, BuffersOnce
    <3> QED BY <1>1, <3>1, <3>2, <3>3 DEF IInv, LentInv, alloc
  <2>5. FilesInv'
    <3>1. \A n \in Node, i \in Index : ~Chunk(n, i) /\ ~Chunk(n, i)'
      BY <1>1, <2>2 DEF Chunk, Writing, Reading
    <3>2. blocks' = blocks
      BY <1>4 DEF Obtained
    <3> QED BY <1>1, <3>1, <3>2 DEF IInv, FilesInv, files, alloc
  <2>6. ReadInv'
    <3>1. entry' = entry
      BY <1>1, <2>2 DEF entry
    <3> QED BY <1>1, <1>4, <2>1, <2>2, <3>1 DEF ReadInv, alloc
  <2>7. ActInv' /\ TablesInv'
    BY <1>1, <2>6 DEF IInv, ActInv, TablesInv, RoomInv, DescriptorInv, tables
  <2> QED BY <2>3, <2>4, <2>5, <2>7 DEF IInv
<1> QED BY <1>2, <1>3, <1>4

\* After a round there is nothing left, or yet has wrapped around to a number that is
\* never copied.
LEMMA YetAfter ==
  ASSUME NEW c \in Counts, NEW y \in Nat, y = c \/ y > LongWord \div 2, NEW o \in Nat,
         MIN(BLOCK_SIZE - (o % BLOCK_SIZE), y) <= LongWord \div 2
  PROVE  LET n == MIN(BLOCK_SIZE - (o % BLOCK_SIZE), y)
             z == (y + LongWord - n) % LongWord
         IN  /\ y = c /\ n \in Nat
             /\ z \in Nat /\ (z = 0 \/ (z > LongWord \div 2 /\ z # c))
<1> DEFINE r == BLOCK_SIZE - (o % BLOCK_SIZE)
           n == MIN(r, y)
           half == LongWord \div 2
<1>1. /\ LongWord \in Nat \ {0} /\ BLOCK_SIZE \in Nat \ {0}
      /\ c \in Nat /\ LongWord > 4 * (c + BLOCK_SIZE)
  BY BlockAssumption, SizesAssumption
<1>2. r \in 1..BLOCK_SIZE
  <2>1. o % BLOCK_SIZE \in 0..BLOCK_SIZE-1
    BY <1>1, Division
  <2> QED BY <1>1, <2>1
<1>3. half \in Nat /\ 2 * half <= LongWord /\ 2 * half >= LongWord - 1
  <2>1. /\ LongWord \div 2 \in Nat /\ LongWord % 2 \in 0..1
        /\ LongWord = 2 * (LongWord \div 2) + (LongWord % 2)
    <3>1. 2 \in Nat \ {0} /\ LongWord \in Nat
      BY <1>1
    <3> QED BY <3>1, Division
  <2> QED BY <1>1, <2>1
<1> HIDE DEF r, half
<1>4. /\ n = r \/ n = y
      /\ n >= r /\ n >= y /\ n <= half
  BY <1>2, <1>3 DEF MIN, r, half
<1> HIDE DEF n
<1>5. y = c /\ n \in Nat
  BY <1>2, <1>3, <1>4 DEF half
<1>6. CASE n = y
  <2>1. y + LongWord - n = LongWord * 1 + 0 /\ 0 \in 0..LongWord-1
    BY <1>1, <1>5, <1>6
  <2>2. (y + LongWord - n) % LongWord = 0
    BY <1>1, <2>1, Remainder
  <2> QED BY <1>5, <2>2 DEF n, r
<1>7. CASE n # y
  <2> DEFINE z == y + LongWord - n
  <2>1. n > y /\ n <= BLOCK_SIZE
    BY <1>2, <1>4, <1>5, <1>7
  <2>2. z \in 0..LongWord-1 /\ z = LongWord * 0 + z /\ z > half /\ z # c
    BY <1>1, <1>3, <1>5, <2>1
  <2> HIDE DEF z
  <2>3. z % LongWord = z
    BY <1>1, <2>2, Remainder
  <2>4. (y + LongWord - n) % LongWord = z
    BY <2>3 DEF z
  <2> QED BY <1>5, <2>2, <2>4 DEF n, r, half
<1> QED BY <1>6, <1>7

LEMMA WithinWord ==
  ASSUME NEW x \in Nat
  PROVE  x % LongWord \in 0..LongWord-1 /\ x % LongWord <= x
<1>1. LongWord \in Nat \ {0}
  BY SizesAssumption
<1>2. /\ x \div LongWord \in Nat /\ x % LongWord \in 0..LongWord-1
      /\ x = LongWord * (x \div LongWord) + (x % LongWord)
  BY <1>1, Division
<1>3. LongWord * (x \div LongWord) \in Nat
  BY <1>1, <1>2
<1> QED BY <1>1, <1>2, <1>3

\* The buffer goes back; the file's blocks stay.
LEMMA ReadCopiesStep ==
  ASSUME IInv, ReadCopies
  PROVE  /\ CacheInv' /\ LentNumbers' = LentNumbers \ {act.buff}
         /\ FreeNumbers' = FreeNumbers \union {act.buff}
         /\ UNCHANGED <<blocks, proc, alloc, tables, ufdt, files>>
<1>1. /\ Running
      /\ UNCHANGED <<tables, ufdt, ret, files>>
  BY DEF ReadCopies
<1>2. PICK buff \in lent : buff.block_number = act.buff /\ Alloc!brelse(buff)
  BY DEF ReadCopies
<1>3. CacheInv
  BY <1>1 DEF IInv, AllocInv
<1>4. Alloc!Cache!brelse(buff) /\ UNCHANGED alloc
  BY <1>2 DEF Alloc!brelse, alloc
<1>5. /\ CacheInv' /\ LentNumbers' = LentNumbers \ {buff.block_number}
      /\ FreeNumbers' = FreeNumbers \union {buff.block_number}
      /\ UNCHANGED <<blocks, proc>>
  BY <1>3, <1>4, ReleaseStep
<1> QED BY <1>1, <1>2, <1>4, <1>5

LEMMA ReadCopiesKeeps ==
  ASSUME IInv, ReadCopies
  PROVE  IInv'
<1> DEFINE yet == (act.yet + LongWord - chars) % LongWord
<1>1. /\ Running /\ Reading /\ act.step = "copy" /\ chars <= LongWord \div 2
      /\ readoffset' = [readoffset EXCEPT ![entry] = (@ + chars) % LongWord]
      /\ act' = [act EXCEPT !.step = "get", !.buff = NULL, !.yet = yet]
  BY DEF ReadCopies, Advanced, StillToRead
<1>2. /\ CacheInv' /\ LentNumbers' = LentNumbers \ {act.buff}
      /\ UNCHANGED <<blocks, proc, alloc, tables, ufdt, files>>
  BY ReadCopiesStep
<1>3. ReadInv /\ act \in ReadRecord
  BY <1>1, ReadingHasRecord
<1>4. /\ act.yet > 0 /\ act.yet \in Nat /\ act.count \in Counts /\ entry \in Entries
      /\ act.buff \notin given
      /\ act.yet = act.count \/ act.yet > LongWord \div 2
  BY <1>1, <1>3 DEF ReadInv, ReadRecord
<1>5. /\ readoffset \in [Entries -> 0..LongWord-1]
      /\ \A e \in Entries : readoffset[e] <= MaxOffset + LongWord \div 2
      /\ LongWord \div 2 \in Nat /\ MaxOffset \in Nat
  <2>1. LongWord \div 2 \in Nat
    <3>1. 2 \in Nat \ {0} /\ LongWord \in Nat
      BY SizesAssumption
    <3> QED BY <3>1, Division
  <2> QED BY <1>1, <2>1, BlockAssumption DEF IInv, ActInv
<1>6. readoffset[entry] \in Nat
  BY <1>4, <1>5, SizesAssumption
<1>7. /\ act.yet = act.count /\ chars \in Nat
      /\ yet \in Nat /\ (yet = 0 \/ (yet > LongWord \div 2 /\ yet # act.count))
  BY <1>1, <1>4, <1>6, YetAfter DEF chars
<1> HIDE DEF yet
<1>8. /\ act' \in ReadRecord /\ act'.op = act.op /\ act'.step = "get" /\ act'.yet = yet
      /\ act'.count = act.count /\ act'.fd = act.fd
  BY <1>1, <1>3, <1>7 DEF ReadRecord
<1>9. /\ readoffset' \in [Entries -> 0..LongWord-1]
      /\ \A e \in Entries : readoffset'[e] <= MaxOffset + LongWord \div 2
  <2>1. readoffset[entry] <= MaxOffset
    BY <1>1, <1>3, <1>4, <1>7 DEF ReadInv
  <2>o. PICK o \in Nat : o = readoffset[entry] + chars /\ o <= MaxOffset + LongWord \div 2
    BY <1>1, <1>5, <1>6, <1>7, <2>1
  <2>2. o % LongWord \in 0..LongWord-1 /\ o % LongWord <= o
    BY WithinWord
  <2>3. readoffset' = [readoffset EXCEPT ![entry] = o % LongWord]
    BY <1>1, <2>o
  <2>4. o % LongWord <= MaxOffset + LongWord \div 2
    BY <1>5, <2>o, <2>2, SizesAssumption
  <2> QED BY <1>4, <1>5, <2>2, <2>3, <2>4
<1>10. ReadInv'
  <2>1. yet # act.count
    BY <1>4, <1>7
  <2> QED BY <1>7, <1>8, <2>1 DEF ReadInv
<1>11. AllocInv'
  BY <1>1, <1>2 DEF IInv, AllocInv, alloc
<1>12. LentInv'
  <2>1. InHand = {act.buff} /\ InHand' = {}
    BY <1>1, <1>8 DEF InHand
  <2>2. IsFiniteSet(lent') /\ Cardinality(lent') <= PRIMARY_BUFFERS
    BY <1>2, LentCount DEF CacheInv, CacheTypes, BuffersOnce
  <2> QED BY <1>2, <1>4, <2>1, <2>2 DEF IInv, LentInv, alloc
<1>13. FilesInv'
  <2>1. \A n \in Node, i \in Index : ~Chunk(n, i) /\ ~Chunk(n, i)'
    BY <1>1, <1>8 DEF Chunk, Writing, Reading
  <2> QED BY <1>2, <2>1 DEF IInv, FilesInv, files, alloc
<1>14. ActInv'
  BY <1>9, <1>10 DEF ActInv
<1>15. TablesInv'
  BY <1>1, <1>2 DEF IInv, TablesInv, RoomInv, DescriptorInv, tables, Running
<1> QED BY <1>15, <1>11, <1>12, <1>13, <1>14 DEF IInv

\* The offset and yet have moved on when the copying faults.
LEMMA ReadFaultsKeeps ==
  ASSUME IInv, ReadFaults
  PROVE  IInv'
<1>1. /\ Running /\ Reading /\ act.step = "copy" /\ ~Running'
      /\ readoffset' = [readoffset EXCEPT ![entry] = (@ + chars) % LongWord]
      /\ act' = [act EXCEPT !.yet = StillToRead]
      /\ UNCHANGED <<cache, alloc, tables, ufdt, ret, files>>
  BY DEF ReadFaults, Advanced, Running
<1>2. ReadInv /\ act \in ReadRecord /\ act.yet \in Nat /\ entry \in Entries
  BY <1>1, ReadingHasRecord DEF ReadInv, ReadRecord
<1>3. /\ readoffset \in [Entries -> 0..LongWord-1] /\ readoffset[entry] \in Nat
      /\ LongWord \in Nat \ {0} /\ BLOCK_SIZE \in Nat \ {0}
  BY <1>2, SizesAssumption, SizesFacts DEF IInv, ActInv
<1>4. chars \in Nat /\ (chars = act.yet \/ chars \in 1..BLOCK_SIZE)
  <2>1. readoffset[entry] % BLOCK_SIZE \in 0..BLOCK_SIZE-1
    BY <1>3, Division
  <2> QED BY <1>2, <1>3, <2>1 DEF chars, MIN
<1>5. StillToRead \in Nat
  <2>1. act.count \in Counts
    BY <1>2 DEF ReadRecord
  <2>2. LongWord > BLOCK_SIZE
    <3>1. act.count \in Nat /\ LongWord > 4 * (act.count + BLOCK_SIZE)
      BY <2>1, BlockAssumption
    <3> QED BY <1>3, <3>1
  <2>y. PICK y \in Nat : y = act.yet + LongWord - chars
    BY <1>2, <1>3, <1>4, <2>2
  <2>3. y % LongWord \in 0..LongWord-1
    BY WithinWord
  <2> QED BY <1>3, <2>y, <2>3 DEF StillToRead
<1>6. /\ act' \in ReadRecord /\ act'.op = act.op /\ act'.step = act.step /\ act'.buff = act.buff
  BY <1>1, <1>2, <1>5 DEF ReadRecord
<1>7. readoffset' \in [Entries -> 0..LongWord-1]
  <2>o. PICK o \in Nat : o = readoffset[entry] + chars
    BY <1>3, <1>4
  <2>1. o % LongWord \in 0..LongWord-1
    BY WithinWord
  <2> QED BY <1>1, <1>3, <2>o, <2>1
<1>8. ActInv'
  BY <1>1, <1>6, <1>7 DEF ActInv, ReadInv
<1>9. LentInv'
  <2>1. InHand' = InHand /\ LentNumbers' = LentNumbers
    BY <1>1, <1>6 DEF InHand, Reading, LentNumbers, Alloc!Cache!LentNumbers, cache
  <2> QED BY <1>1, <2>1 DEF IInv, LentInv, cache, alloc
<1>10. FilesInv'
  <2>1. \A n \in Node, i \in Index : ~Chunk(n, i) /\ ~Chunk(n, i)'
    BY <1>1, <1>6 DEF Chunk, Writing, Reading
  <2> QED BY <1>1, <2>1 DEF IInv, FilesInv, files, alloc, cache
<1>11. TablesInv'
  BY <1>1 DEF IInv, TablesInv, DescriptorInv, tables
<1> QED BY <1>1, <1>8, <1>9, <1>10, <1>11 DEF IInv

----------------------------------------------------------------------------
\* The invariant, and what follows from it.

LEMMA NextKeeps == IInv /\ [Next]_vars => IInv'
<1> SUFFICES ASSUME IInv, [Next]_vars PROVE IInv'
  OBVIOUS
<1>1. CASE CreateOrOpen
  BY <1>1, CreateOrOpenKeeps
<1>2. ASSUME NEW fd \in DOMAIN ufdt, NEW string \in Strings, WriteBegins(fd, string)
      PROVE  IInv'
  BY <1>2, WriteBeginsKeeps
<1>3. ASSUME NEW fd \in DOMAIN ufdt, NEW n \in Counts, ReadBegins(fd, n)
      PROVE  IInv'
  BY <1>3, ReadBeginsKeeps
<1>4. ASSUME NEW fd \in DOMAIN ufdt, ReadNothing(fd) \/ ReadRefused(fd)
      PROVE  IInv'
  BY <1>4, ReadAtOnceKeeps
<1>a. ASSUME NEW fd \in DOMAIN ufdt, CallFaults(fd)
      PROVE  IInv'
  BY <1>a, CrashKeeps DEF CallFaults
<1>5. CASE writefile
  <2>1. CASE WriteGetsBlock
    BY <2>1, WriteGetsBlockKeeps
  <2>2. CASE WriteGetsBuffer
    BY <2>2, WriteGetsBufferStops, StopKeeps
  <2>3. CASE WritePastDirect
    BY <2>3, CrashKeeps DEF WritePastDirect
  <2>4. CASE WriteCopies
    BY <2>4, WriteCopiesKeeps
  <2>5. CASE WriteReturns
    BY <2>5, ReturnKeeps
  <2> QED BY <1>5, <2>1, <2>2, <2>3, <2>4, <2>5 DEF writefile
<1>6. CASE readfile
  <2>1. CASE ReadGetsBuffer
    BY <2>1, ReadGetsBufferKeeps
  <2>2. CASE ReadThroughNull
    BY <2>2, CrashKeeps DEF ReadThroughNull
  <2>5. CASE ReadFaults
    BY <2>5, ReadFaultsKeeps
  <2>3. CASE ReadCopies
    BY <2>3, ReadCopiesKeeps
  <2>4. CASE ReadReturns
    BY <2>4, ReturnKeeps
  <2> QED BY <1>6, <2>1, <2>2, <2>3, <2>4, <2>5 DEF readfile
<1>7. CASE UNCHANGED vars
  <2>1. UNCHANGED <<cache, proc, alloc, tables, ufdt, files, readoffset, act>>
    BY <1>7 DEF vars
  <2>2. InHand' = InHand
    BY <2>1 DEF InHand, Reading
  <2>3. \A n \in Node, i \in Index : Chunk(n, i)' <=> Chunk(n, i)
    BY <2>1 DEF Chunk, Writing, blkno, position, files
  <2>4. (AllocInv => AllocInv') /\ LentInv' /\ FilesInv'
    BY <2>1, <2>2, <2>3, Unmoved
  <2>5. ActInv'
    BY <2>1 DEF IInv, ActInv, WriteInv, ReadInv, files, blkno, position, entry, alloc, Running
  <2>6. TablesInv'
    BY <2>1 DEF IInv, TablesInv, RoomInv, DescriptorInv, tables, Running
  <2>7. Running' => Running
    BY <2>1 DEF Running
  <2> QED BY <2>4, <2>5, <2>6, <2>7 DEF IInv
<1> QED BY <1>1, <1>2, <1>3, <1>4, <1>a, <1>5, <1>6, <1>7 DEF Next, Calls

LEMMA Invariant == Spec => []IInv
<1>1. Init => IInv
  BY InitIInv
<1>2. IInv /\ [Next]_vars => IInv'
  BY NextKeeps
<1> QED BY <1>1, <1>2, PTL DEF Spec

\* No file, offset or descriptor is ever beyond what its type, or its calls, allow: while
\* the process runs, however yet wraps around, it moves an offset by at most half of the
\* uint64_t; and only descriptor MAX_INODES is ever overwritten.
THEOREM TypeCorrect == Spec => []TypeOK
<1>1. IInv => TypeOK
  <2> SUFFICES ASSUME IInv PROVE TypeOK
    OBVIOUS
  <2>1. direct \in [Node -> [Index -> 0..BLOCKS_PER_LIST-1 \union {NULL}]]
    <3>1. given \subseteq 0..BLOCKS_PER_LIST-1
      BY DEF IInv, LentInv, DiskBlocks
    <3>2. direct \in [Node -> [Index -> given \union {NULL}]]
      BY DEF IInv, FilesInv
    <3>3. \A n \in Node : direct[n] \in [Index -> 0..BLOCKS_PER_LIST-1 \union {NULL}]
      BY <3>1, <3>2
    <3> QED BY <3>2, <3>3
  <2> QED BY <2>1 DEF IInv, FilesInv, ActInv, TablesInv, DescriptorInv, Slots, DiskBlocks, TypeOK
<1> QED BY <1>1, Invariant, PTL

\* No two places in files have the same block, every block's buffer stays lent, and all
\* files together never have more blocks than there are buffers.
THEOREM BlocksLentForEver == Spec => []BlocksStayLent
<1>1. IInv => BlocksStayLent
  <2> SUFFICES ASSUME IInv PROVE BlocksStayLent
    OBVIOUS
  <2>1. /\ direct \in [Node -> [Index -> given \union {NULL}]]
        /\ \A m, n \in Node, i, j \in Index :
             direct[m][i] # NULL /\ direct[m][i] = direct[n][j] => m = n /\ i = j
    BY DEF IInv, FilesInv
  <2>2. /\ LentInv /\ given \subseteq LentNumbers /\ Cardinality(lent) <= PRIMARY_BUFFERS
    BY DEF IInv, LentInv
  <2>3. ASSUME NEW p \in Places, NEW q \in Places,
               direct[p[1]][p[2]] = direct[q[1]][q[2]], direct[p[1]][p[2]] # NULL
        PROVE  p = q
    BY <2>1, <2>3 DEF Places
  <2>4. \A p \in Places : direct[p[1]][p[2]] \in LentNumbers \union {NULL}
    BY <2>1, <2>2 DEF Places
  <2>5. Cardinality(given) <= PRIMARY_BUFFERS
    BY <2>2, GivenFew, SizesFacts
  <2> QED BY <2>3, <2>4, <2>5 DEF BlocksStayLent
<1> QED BY <1>1, Invariant, PTL

----------------------------------------------------------------------------
\* A new block can be written: nothing readfile has cached is ever given.

GarbageNeverGiven == Garbage \subseteq NeverGiven

LEMMA WritableFrame ==
  ASSUME WritableInv, Running' => Running /\ FreeNumbers' \subseteq NeverGiven,
         UNCHANGED <<direct, disklist_blkno, given>>, InHand' \subseteq NeverGiven,
         \A n \in Node, i \in Index : Chunk(n, i)' => Chunk(n, i)
  PROVE  WritableInv'
  BY DEF WritableInv

\* A step that touches no buffer.
LEMMA WritableUnmoved ==
  ASSUME WritableInv, Running' => Running /\ UNCHANGED freelist,
         UNCHANGED <<direct, disklist_blkno, given>>,
         act' = Idle \/ NoCopy' \/ (act' = act /\ FileSize' = FileSize)
  PROVE  WritableInv'
<1>1. Running' => Running /\ FreeNumbers' \subseteq NeverGiven
  BY DEF WritableInv, FreeNumbers, Alloc!Cache!FreeNumbers
<1>2. InHand' \subseteq NeverGiven
  BY DEF WritableInv, InHand, Reading, Idle, NoCopy
<1>3. \A n \in Node, i \in Index : Chunk(n, i)' => Chunk(n, i)
  BY DEF Chunk, Writing, Idle, NoCopy, blkno, position
<1> QED BY <1>1, <1>2, <1>3, WritableFrame

LEMMA WritableInit == GarbageNeverGiven /\ Init => WritableInv
<1> SUFFICES ASSUME GarbageNeverGiven, Init PROVE WritableInv
  OBVIOUS
<1>1. act = Idle /\ disklist_blkno \in {[n \in Node |-> g] : g \in Garbage}
  BY DEF Init
<1>2. FreeNumbers \subseteq NeverGiven
  BY InitCache, SizesFacts DEF NeverGiven
<1> QED BY <1>1, <1>2 DEF WritableInv, GarbageNeverGiven, InHand, Chunk, Reading, Writing, Idle

LEMMA WritableGetsBlock ==
  ASSUME IInv, WritableInv, WriteGetsBlock
  PROVE  WritableInv'
<1> DEFINE b == next_free_block_index
           m == act.node
           k == blkno
<1>1. /\ NextChunk /\ k # -1 /\ direct[m][k] = NULL
      /\ Alloc!allocblock /\ Running /\ Writing
      /\ UNCHANGED <<tables, ufdt, FileSize, readoffset>>
  BY DEF WriteGetsBlock, NextChunk
<1>2. InHand = {} /\ act \in WriteRecord /\ m \in Node /\ k \in Index
  BY <1>1, WritingHasRecord, MissingBlock
<1>3. \/ /\ Running' /\ Obtained(b, FALSE)
         /\ b \in DiskBlocks \ NeverGiven /\ b \notin given
         /\ given' = given \union {b}
      \/ ~Running' /\ UNCHANGED <<lent, blocks, given>>
  BY <1>1, <1>2, AllocStep
<1>4. CASE ~Running' /\ UNCHANGED <<lent, blocks, given>>
  <2>1. UNCHANGED <<direct, disklist_blkno, act>>
    BY <1>4 DEF WriteGetsBlock, Running
  <2> QED BY <1>1, <1>4, <2>1, WritableUnmoved
<1>5. CASE Running' /\ Obtained(b, FALSE)
  <2>1. PICK buf \in LentBuffer : /\ buf.block_number = b
                                  /\ buf.ptr_to_block \in {b, NULL}
                                  /\ buf.ptr_to_block = NULL => b \in FreeNumbers
                                  /\ lent' = lent \union {buf}
    BY <1>5 DEF Obtained
  <2>2. /\ direct' = [direct EXCEPT ![m][k] = buf.ptr_to_block]
        /\ disklist_blkno' = [disklist_blkno EXCEPT ![m] = b]
        /\ GotBuffer(b)
    BY <1>5, <2>1 DEF WriteGetsBlock, Running
  <2>3. buf.ptr_to_block = b /\ b \in DiskBlocks
    BY <1>1, <1>3, <1>5, <2>1 DEF WritableInv
  <2>4. FreeNumbers' \subseteq NeverGiven
    BY <1>1, <1>5 DEF Obtained, WritableInv
  <2>b. b \in Nat
    BY <2>3, DiskBlocksAreNat
  <2>5. act'.op = act.op /\ act'.node = m
    BY <1>1, <1>2, <2>2, <2>b, GotBufferFields
  <2>6. InHand' = {}
    BY <1>1, <2>5 DEF InHand, Reading, Writing
  <2>7. \A n \in Node : disklist_blkno'[n] \in NeverGiven \union given'
    BY <1>3, <1>5, <2>2 DEF WritableInv, IInv, FilesInv
  <2>8. ASSUME NEW n \in Node, NEW i \in Index, Chunk(n, i)'
        PROVE  direct'[n][i] # NULL
    <3>1. n = m /\ i = k
      BY <1>1, <2>5, <2>8 DEF Chunk, blkno, position
    <3>2. direct'[m][k] = b
      BY <1>2, <2>2, <2>3 DEF IInv, FilesInv
    <3> QED BY <2>3, <3>1, <3>2, SizesFacts DEF DiskBlocks
  <2> QED BY <2>4, <2>6, <2>7, <2>8 DEF WritableInv
<1> QED BY <1>3, <1>4, <1>5

LEMMA WritableGetsBuffer ==
  ASSUME IInv, WritableInv, ReadGetsBuffer
  PROVE  WritableInv'
<1> DEFINE b == disklist_blkno[act.node]
<1>1. /\ Running /\ Reading /\ act \in ReadRecord /\ act.node \in Node
      /\ UNCHANGED <<alloc, tables, ufdt, ret, files, readoffset>>
  BY ReadingHasRecord DEF ReadGetsBuffer, Alloc!bread, alloc
<1>2. \/ /\ Running' /\ Obtained(b, TRUE) /\ GotBuffer(b)
         /\ b \in Nat /\ b \notin given
      \/ ~Running' /\ UNCHANGED <<lent, blocks, act>>
  BY ReadGetsStep
<1>3. b \in NeverGiven \union given
  BY <1>1 DEF WritableInv
<1> HIDE DEF b
<1>4. CASE ~Running' /\ UNCHANGED <<lent, blocks, act>>
  BY <1>1, <1>4, WritableUnmoved DEF alloc, files
<1>5. CASE /\ Running' /\ Obtained(b, TRUE) /\ GotBuffer(b)
           /\ b \in Nat /\ b \notin given
  <2>1. act'.op = act.op /\ act'.buff = b
    BY <1>1, <1>5, GotBufferFields
  <2>2. InHand' \subseteq NeverGiven
    BY <1>3, <1>5, <2>1 DEF InHand
  <2>3. FreeNumbers' \subseteq NeverGiven
    BY <1>1, <1>5 DEF Obtained, WritableInv
  <2>4. \A n \in Node, i \in Index : ~Chunk(n, i)'
    BY <1>1, <2>1 DEF Chunk, Writing, Reading
  <2> QED BY <1>1, <2>2, <2>3, <2>4, WritableFrame DEF alloc, files
<1> QED BY <1>2, <1>4, <1>5

LEMMA WritableCopies ==
  ASSUME IInv, WritableInv, WriteCopies \/ ReadCopies
  PROVE  WritableInv'
<1>1. CASE WriteCopies /\ direct[act.node][blkno] = NULL
  <2>1. StopsHere
    BY <1>1 DEF WriteCopies
  <2> QED BY <2>1, WritableUnmoved DEF StopsHere, Running, alloc, files
<1>2. CASE WriteCopies /\ direct[act.node][blkno] # NULL
  <2>1. /\ act'.step = "get"
        /\ UNCHANGED <<proc, alloc, direct, disklist_blkno>>
    BY <1>2, CopyStep
  <2>2. UNCHANGED freelist
    BY <1>2 DEF WriteCopies, CopyToBlock
  <2> QED BY <2>1, <2>2, WritableUnmoved DEF NoCopy, Running, alloc
<1>3. CASE ReadCopies
  <2>1. /\ Running /\ Reading /\ act.step = "copy" /\ act \in ReadRecord
    BY <1>3, ReadingHasRecord DEF ReadCopies
  <2>2. /\ FreeNumbers' = FreeNumbers \union {act.buff}
        /\ UNCHANGED <<blocks, proc, alloc, tables, ufdt, files>>
    BY <1>3, ReadCopiesStep
  <2>3. act'.step = "get"
    BY <1>3, <2>1 DEF ReadCopies, ReadRecord
  <2>4. FreeNumbers' \subseteq NeverGiven
    BY <2>1, <2>2 DEF WritableInv, InHand
  <2>5. InHand' = {} /\ \A n \in Node, i \in Index : ~Chunk(n, i)'
    BY <2>3 DEF InHand, Chunk
  <2> QED BY <2>1, <2>2, <2>4, <2>5, WritableFrame DEF alloc, files, Running
<1> QED BY <1>1, <1>2, <1>3

LEMMA WritableKept == IInv /\ WritableInv /\ [Next]_vars => WritableInv'
<1> SUFFICES ASSUME IInv, WritableInv, [Next]_vars PROVE WritableInv'
  OBVIOUS
<1>1. CASE CreateOrOpen
  <2>1. Running
    BY <1>1, CreateOrOpenRuns
  <2> QED BY <1>1, <2>1, WritableUnmoved DEF CreateOrOpen, cache, alloc, files
<1>2. ASSUME NEW fd \in DOMAIN ufdt,
             \/ \E string \in Strings : WriteBegins(fd, string)
             \/ \E n \in Counts : ReadBegins(fd, n)
             \/ ReadNothing(fd) \/ ReadRefused(fd)
      PROVE  WritableInv'
  <2>1. /\ UNCHANGED <<cache, proc, alloc, files>>
        /\ act' = Idle \/ NoCopy'
    BY <1>2 DEF WriteBegins, ReadBegins, ReadNothing, ReadRefused, NoCopy
  <2> QED BY <2>1, WritableUnmoved DEF cache, alloc, files, Running
<1>3. CASE WriteGetsBuffer
  BY <1>3, WriteGetsBufferStops, WritableUnmoved DEF files
<1>4. CASE WritePastDirect \/ ReadThroughNull \/ \E fd \in DOMAIN ufdt : CallFaults(fd)
  <2>1. StopsHere
    BY <1>4 DEF WritePastDirect, ReadThroughNull, CallFaults
  <2> QED BY <2>1, WritableUnmoved DEF StopsHere, Running, alloc, files
<1>a. CASE ReadFaults
  <2>1. /\ Running /\ Reading /\ act \in ReadRecord /\ ~Running'
        /\ act' = [act EXCEPT !.yet = StillToRead]
        /\ UNCHANGED <<alloc, files>>
    BY <1>a, ReadingHasRecord DEF ReadFaults, Running
  <2>2. act'.op = act.op /\ act'.step = act.step /\ act'.buff = act.buff
    BY <2>1 DEF ReadRecord
  <2>3. InHand' = InHand /\ \A n \in Node, i \in Index : ~Chunk(n, i)'
    BY <2>1, <2>2 DEF InHand, Chunk, Reading, Writing
  <2>4. InHand' \subseteq NeverGiven
    BY <2>3 DEF WritableInv
  <2> QED BY <2>1, <2>3, <2>4, WritableFrame DEF alloc, files
<1>5. CASE WriteReturns \/ ReadReturns
  BY <1>5, WritableUnmoved DEF WriteReturns, ReadReturns, cache, alloc, files, Running
<1>6. CASE UNCHANGED vars
  BY <1>6, WritableUnmoved DEF vars, cache, alloc, files, Running
<1> QED BY <1>1, <1>2, <1>3, <1>4, <1>a, <1>5, <1>6, WritableGetsBlock, WritableGetsBuffer,
           WritableCopies DEF Next, Calls, writefile, readfile

\* A file has the blocks its size needs and no more, as long as no inode is born with a
\* block number that allocblock has still to give.  Otherwise a read of the empty file
\* caches that block, and getblk then finds it there and leaves NULL in direct.
THEOREM SizesMatch == GarbageNeverGiven => (Spec => []SizeMatchesBlocks)
<1>1. GarbageNeverGiven /\ Init => WritableInv
  BY WritableInit
<1>2. IInv /\ WritableInv /\ [Next]_vars => WritableInv'
  BY WritableKept
<1>3. IInv /\ WritableInv => SizeMatchesBlocks
  <2> SUFFICES ASSUME IInv, WritableInv, NEW n \in Node, NEW i \in Index
               PROVE  direct[n][i] # NULL <=> i * BLOCK_SIZE < FileSize[n] \/ Chunk(n, i)
    BY DEF SizeMatchesBlocks, Chunk
  <2>1. CASE Chunk(n, i)
    BY <2>1 DEF WritableInv
  <2>2. CASE ~Chunk(n, i)
    BY <2>2 DEF IInv, FilesInv
  <2> QED BY <2>1, <2>2
<1> QED BY <1>1, <1>2, <1>3, Invariant, PTL DEF Spec

----------------------------------------------------------------------------
\* FileSystem implements AppendOnly.

AllContents == [n \in Node |-> Contents(n)]
Call == IF Writing THEN [file |-> {act.node}, string |-> act.string, done |-> act.iCnt]
                   ELSE [file |-> {}, string |-> <<>>, done |-> 0]

LEMMA QuotientBelow ==
  ASSUME NEW p \in Nat, NEW k \in Nat, p < BLOCK_SIZE * k
  PROVE  p \div BLOCK_SIZE \in 0..k-1 /\ p % BLOCK_SIZE \in 0..BLOCK_SIZE-1
<1> DEFINE d == p \div BLOCK_SIZE
           r == p % BLOCK_SIZE
<1>1. d \in Nat /\ r \in 0..BLOCK_SIZE-1 /\ p = BLOCK_SIZE * d + r
  BY Division, SizesFacts
<1> HIDE DEF d, r
<1>2. d < k
  <2> SUFFICES ASSUME d >= k PROVE FALSE
    BY <1>1
  <2>1. BLOCK_SIZE * d >= BLOCK_SIZE * k
    BY <1>1, SizesFacts
  <2> QED BY <1>1, <2>1, SizesFacts
<1> QED BY <1>1, <1>2 DEF d, r

\* Every byte up to the size is in a block of the file, and not in the chunk's place.
LEMMA ByteInBlock ==
  ASSUME IInv, NEW n \in Node, NEW p \in Nat, p < FileSize[n]
  PROVE  LET i == p \div BLOCK_SIZE
         IN  /\ i \in Index /\ p % BLOCK_SIZE \in 0..BLOCK_SIZE-1
             /\ direct[n][i] \in DiskBlocks /\ direct[n][i] # NULL
             /\ ~Chunk(n, i)
             /\ blocks[direct[n][i]][p % BLOCK_SIZE] \in Bytes
<1> DEFINE i == p \div BLOCK_SIZE
           r == p % BLOCK_SIZE
<1>1. FileSize[n] \in 0..BLOCK_SIZE * NUM_DIRECT_POINTERS
  BY DEF IInv, FilesInv
<1>2. p < BLOCK_SIZE * NUM_DIRECT_POINTERS
  BY <1>1, SizesFacts
<1>3. i \in Index /\ r \in 0..BLOCK_SIZE-1
  BY <1>2, QuotientBelow, SizesFacts DEF Index
<1>4. p = BLOCK_SIZE * i + r
  BY Division, SizesFacts
<1> HIDE DEF i, r
<1>5. i * BLOCK_SIZE < FileSize[n]
  <2>1. i * BLOCK_SIZE = BLOCK_SIZE * i /\ BLOCK_SIZE * i \in Int
    BY <1>3, SizesFacts DEF Index
  <2> QED BY <1>1, <1>3, <1>4, <2>1, SizesFacts
<1>6. ~Chunk(n, i)
  <2> SUFFICES ASSUME Chunk(n, i) PROVE FALSE
    OBVIOUS
  <2>1. position = BLOCK_SIZE * blkno
    BY ChunkSize DEF Chunk
  <2>2. FileSize[n] = BLOCK_SIZE * i
    BY <2>1 DEF Chunk, position
  <2>3. i * BLOCK_SIZE = BLOCK_SIZE * i /\ BLOCK_SIZE * i \in Int
    BY <1>3, SizesFacts DEF Index
  <2> QED BY <1>5, <2>2, <2>3
<1>7. direct[n][i] # NULL
  BY <1>3, <1>5, <1>6 DEF IInv, FilesInv
<1>8. direct[n][i] \in DiskBlocks
  <2>1. direct[n][i] \in given \union {NULL}
    BY <1>3 DEF IInv, FilesInv
  <2> QED BY <1>7, <2>1 DEF IInv, LentInv
<1>9. blocks[direct[n][i]][r] \in Bytes
  <2>1. blocks[direct[n][i]] \in Block
    BY <1>8 DEF IInv, FilesInv
  <2> QED BY <1>3, <2>1 DEF Block
<1> QED BY <1>3, <1>6, <1>7, <1>8, <1>9 DEF i, r

LEMMA ContentsForm ==
  ASSUME IInv, NEW n \in Node
  PROVE  /\ Contents(n) \in Seq(Bytes)
         /\ Len(Contents(n)) = FileSize[n] /\ FileSize[n] \in Nat
<1>1. FileSize[n] \in Nat
  BY SizesFacts DEF IInv, FilesInv
<1>2. \A k \in 1..FileSize[n] : Contents(n)[k] \in Bytes
  <2> SUFFICES ASSUME NEW k \in 1..FileSize[n] PROVE Contents(n)[k] \in Bytes
    OBVIOUS
  <2>1. k - 1 \in Nat /\ k - 1 < FileSize[n]
    BY <1>1
  <2>2. blocks[direct[n][(k - 1) \div BLOCK_SIZE]][(k - 1) % BLOCK_SIZE] \in Bytes
    BY <2>1, ByteInBlock
  <2> QED BY <2>2 DEF Contents
<1>3. Contents(n) = [k \in 1..FileSize[n] |-> Contents(n)[k]]
  BY DEF Contents
<1>4. Contents(n) \in [1..FileSize[n] -> Bytes]
  <2> DEFINE c == Contents(n)
  <2>1. c = [k \in 1..FileSize[n] |-> c[k]] /\ \A k \in 1..FileSize[n] : c[k] \in Bytes
    BY <1>2, <1>3
  <2> HIDE DEF c
  <2>2. c \in [1..FileSize[n] -> Bytes]
    BY <2>1
  <2> QED BY <2>2 DEF c
<1>5. Contents(n) \in Seq(Bytes)
  BY <1>1, <1>4, SeqDef
<1> QED BY <1>1, <1>4, <1>5, LenProperties

\* The contents depend on the size, and on the blocks up to it.
LEMMA SameContents ==
  ASSUME IInv, NEW n \in Node, FileSize'[n] = FileSize[n],
         \A p \in Nat : p < FileSize[n] =>
           LET i == p \div BLOCK_SIZE
           IN  direct'[n][i] = direct[n][i] /\ blocks'[direct[n][i]] = blocks[direct[n][i]]
  PROVE  Contents(n)' = Contents(n)
<1>1. FileSize[n] \in Nat
  BY SizesFacts DEF IInv, FilesInv
<1>2. \A k \in 1..FileSize[n] : k - 1 \in Nat /\ k - 1 < FileSize[n]
  BY <1>1
<1>3. \A k \in 1..FileSize[n] :
        blocks'[direct'[n][(k - 1) \div BLOCK_SIZE]][(k - 1) % BLOCK_SIZE]
          = blocks[direct[n][(k - 1) \div BLOCK_SIZE]][(k - 1) % BLOCK_SIZE]
  BY <1>2
<1> QED BY <1>3 DEF Contents

LEMMA NoFileTouched ==
  ASSUME UNCHANGED <<FileSize, direct, blocks>>
  PROVE  AllContents' = AllContents
  BY DEF AllContents, Contents

\* A new block is behind the end of its file.
LEMMA BlockGotSeen ==
  ASSUME IInv, WriteGetsBlock, Running'
  PROVE  AllContents' = AllContents /\ Call' = Call
<1> DEFINE b == next_free_block_index
           m == act.node
           k == blkno
<1>1. /\ NextChunk /\ k # -1 /\ direct[m][k] = NULL
      /\ Alloc!allocblock /\ Running /\ Writing /\ FileSize' = FileSize
  BY DEF WriteGetsBlock, NextChunk
<1>2. InHand = {} /\ act \in WriteRecord /\ m \in Node
  BY <1>1, WritingHasRecord
<1>3. k \in Index /\ FileSize[m] = BLOCK_SIZE * k
  BY <1>1, MissingBlock DEF position
<1>4. Obtained(b, FALSE) /\ b \in DiskBlocks
  BY <1>1, <1>2, AllocStep
<1>5. PICK buf \in lent' \ lent :
        /\ direct' = [direct EXCEPT ![m][k] = buf.ptr_to_block]
        /\ GotBuffer(buf.block_number)
  BY DEF WriteGetsBlock, Running
<1>6. buf.block_number = b
  BY <1>4, <1>5 DEF Obtained
<1>7. blocks' = blocks
  BY <1>4 DEF Obtained
<1>b. b \in Nat
  BY <1>4, DiskBlocksAreNat
<1>8. /\ act'.op = act.op /\ act'.node = m /\ act'.string = act.string /\ act'.iCnt = act.iCnt
  BY <1>1, <1>2, <1>5, <1>6, <1>b, GotBufferFields
<1>9. Call' = Call
  BY <1>8 DEF Call, Writing
<1> HIDE DEF m, k
<1>10. \A n \in Node, i \in Index : ~(n = m /\ i = k) => direct'[n][i] = direct[n][i]
  BY <1>2, <1>3, <1>5 DEF IInv, FilesInv
<1>11. ASSUME NEW n \in Node
       PROVE  Contents(n)' = Contents(n)
  <2>1. ASSUME NEW p \in Nat, p < FileSize[n]
        PROVE  direct'[n][p \div BLOCK_SIZE] = direct[n][p \div BLOCK_SIZE]
    <3>1. p \div BLOCK_SIZE \in Index
      BY <2>1, ByteInBlock
    <3>2. n = m => p \div BLOCK_SIZE # k
      <4> SUFFICES ASSUME n = m PROVE p \div BLOCK_SIZE # k
        OBVIOUS
      <4>1. k \in Nat /\ p < BLOCK_SIZE * k
        BY <1>3, <2>1, SizesFacts DEF Index
      <4>2. p \div BLOCK_SIZE \in 0..k-1
        BY <4>1, QuotientBelow
      <4> QED BY <4>1, <4>2
    <3> QED BY <1>10, <3>1, <3>2
  <2> QED BY <1>1, <1>7, <2>1, SameContents
<1> QED BY <1>9, <1>11 DEF AllContents

LEMMA Chunked ==
  ASSUME NEW S, NEW s \in Seq(S), NEW f \in Nat, NEW c \in Nat \ {0}, f + c <= Len(s),
         NEW t, t = SubSeq(s, f + 1, f + c)
  PROVE  t \in Seq(S) /\ Len(t) = c /\ \A i \in 1..c : t[i] = s[f + i]
<1> DEFINE u == f + 1
           v == f + c
<1>1. /\ u \in Int /\ v \in Int /\ u <= v /\ v - u + 1 = c
      /\ \A i \in 1..c : u + i - 1 = f + i
      /\ Len(s) \in Nat /\ u..v \subseteq 1..Len(s)
  BY LenProperties
<1>2. \A i \in u..v : s[i] \in S
  BY <1>1, ElementOfSeq
<1>3. t = SubSeq(s, u, v)
  OBVIOUS
<1> HIDE DEF u, v
<1>4. /\ t \in Seq(S) /\ Len(t) = IF u <= v THEN v - u + 1 ELSE 0
      /\ \A i \in 1..v - u + 1 : t[i] = s[u + i - 1]
  <2>1. u \in Int /\ v \in Int
    BY <1>1
  <2>2. /\ SubSeq(s, u, v) \in Seq(S)
        /\ Len(SubSeq(s, u, v)) = IF u <= v THEN v - u + 1 ELSE 0
        /\ \A i \in 1..v - u + 1 : SubSeq(s, u, v)[i] = s[u + i - 1]
    BY <1>2, <2>1, SubSeqProperties
  <2> QED BY <1>3, <2>2
<1> QED BY <1>1, <1>4

\* The chunk is what the file gets: its bytes, in order, behind those that were there.
LEMMA CopySeen ==
  ASSUME IInv, WriteCopies, direct[act.node][blkno] # NULL
  PROVE  AllContents' = [AllContents EXCEPT
           ![act.node] = @ \o SubSeq(act.string, act.iCnt + 1, act.iCnt + copy)]
<1>1. Writing /\ act.step = "copy"
  BY DEF WriteCopies
<1>m. PICK m \in Node : m = act.node
  BY <1>1, WritingHasRecord
<1>k. PICK k \in Index, c \in 1..BLOCK_SIZE, f \in Nat : k = blkno /\ c = copy /\ f = act.iCnt
  BY <1>1, ChunkSize
<1>b. PICK b \in DiskBlocks, L \in Nat : b = direct[m][k] /\ L = FileSize[m]
  BY <1>m, <1>k, CopyStep, ContentsForm
<1>2. /\ \A x \in DiskBlocks : x # b => blocks'[x] = blocks[x]
      /\ \A i \in 0..c-1 : blocks'[b][i] = act.string[f + i + 1]
      /\ FileSize' = [FileSize EXCEPT ![m] = @ + c]
      /\ direct' = direct
  BY <1>m, <1>k, <1>b, CopyStep
<1>3. k \in Nat /\ c \in Nat \ {0} /\ c <= BLOCK_SIZE /\ L = BLOCK_SIZE * k
  BY <1>m, <1>k, <1>b, <1>1, ChunkSize, SizesFacts DEF position, Index
<1>t. PICK t : t = SubSeq(act.string, f + 1, f + c)
  OBVIOUS
<1>4. t \in Seq(Bytes) /\ Len(t) = c /\ \A i \in 1..c : t[i] = act.string[f + i]
  <2>1. act.string \in Seq(Bytes)
    <3>1. act.string \in Strings
      BY <1>1, WritingHasRecord DEF WriteRecord
    <3>2. act.string \in Seq(Bytes \ {0})
      BY <3>1, BlockAssumption
    <3> QED BY <3>2, ElementOfSeq, LenProperties, SeqDef
  <2>2. f + c <= Len(act.string)
    BY <1>k, <1>1, ChunkSize
  <2>3. f \in Nat /\ c \in Nat \ {0}
    BY <1>k, <1>3
  <2> QED BY <1>t, <2>1, <2>2, <2>3, Chunked
<1>o. PICK old \in Seq(Bytes) : old = Contents(m) /\ Len(old) = L
  BY <1>m, <1>b, ContentsForm
<1>s. PICK s : s = old \o t
  OBVIOUS
<1>5. /\ s \in Seq(Bytes) /\ Len(s) = L + c
      /\ \A i \in 1..L + c : s[i] = IF i <= L THEN old[i] ELSE t[i - L]
  <2>1. old \in Seq(Bytes) /\ t \in Seq(Bytes) /\ Len(old) = L /\ Len(t) = c
    BY <1>o, <1>4
  <2>2. /\ old \o t \in Seq(Bytes) /\ Len(old \o t) = Len(old) + Len(t)
        /\ \A i \in 1..Len(old) + Len(t) :
             (old \o t)[i] = IF i <= Len(old) THEN old[i] ELSE t[i - Len(old)]
    BY <2>1, ConcatProperties
  <2> QED BY <1>s, <2>1, <2>2
\* What was there is in other blocks.
<1>6. ASSUME NEW n \in Node, NEW p \in Nat, p < FileSize[n]
      PROVE  blocks'[direct[n][p \div BLOCK_SIZE]] = blocks[direct[n][p \div BLOCK_SIZE]]
  <2> DEFINE i == p \div BLOCK_SIZE
  <2>1. i \in Index /\ direct[n][i] \in DiskBlocks /\ direct[n][i] # NULL /\ ~Chunk(n, i)
    BY <1>6, ByteInBlock
  <2> HIDE DEF i
  <2>2. ~(n = m /\ i = k)
    BY <1>m, <1>k, <1>1, <2>1 DEF Chunk
  <2>3. direct[n][i] # b
    BY <1>m, <1>k, <1>b, <2>1, <2>2 DEF IInv, FilesInv
  <2>4. blocks'[direct[n][i]] = blocks[direct[n][i]]
    BY <1>2, <2>1, <2>3
  <2> QED BY <2>4 DEF i
<1>7. FileSize'[m] = L + c /\ \A n \in Node : n # m => FileSize'[n] = FileSize[n]
  BY <1>m, <1>b, <1>2 DEF IInv, FilesInv
<1>8. ASSUME NEW n \in Node, n # m
      PROVE  Contents(n)' = Contents(n)
  BY <1>2, <1>6, <1>7, <1>8, SameContents
<1> DEFINE new == [j \in 1..L + c |->
                     blocks'[direct[m][(j - 1) \div BLOCK_SIZE]][(j - 1) % BLOCK_SIZE]]
<1>9. Contents(m)' = new
  BY <1>m, <1>2, <1>7 DEF Contents
<1>10. ASSUME NEW j \in 1..L + c
       PROVE  new[j] = s[j]
  <2>1. new[j] = blocks'[direct[m][(j - 1) \div BLOCK_SIZE]][(j - 1) % BLOCK_SIZE]
    OBVIOUS
  <2> HIDE DEF new
  <2>2. CASE j <= L
    <3>1. j - 1 \in Nat /\ j - 1 < L /\ j \in 1..L
      BY <1>b, <1>3, <2>2
    <3>2. old[j] = blocks[direct[m][(j - 1) \div BLOCK_SIZE]][(j - 1) % BLOCK_SIZE]
      BY <1>b, <1>o, <3>1 DEF Contents
    <3>3. blocks'[direct[m][(j - 1) \div BLOCK_SIZE]] = blocks[direct[m][(j - 1) \div BLOCK_SIZE]]
      BY <1>m, <1>b, <1>6, <3>1
    <3> QED BY <1>5, <2>1, <2>2, <3>2, <3>3
  <2>3. CASE ~(j <= L)
    <3>r. PICK r \in 0..c-1 : r = j - 1 - L
      BY <1>b, <1>3, <2>3
    <3>1. r \in 0..BLOCK_SIZE-1 /\ j - L = r + 1 /\ j - L \in 1..c /\ j - 1 = BLOCK_SIZE * k + r
      BY <1>b, <1>3, <2>3, <3>r, SizesFacts
    <3>2. (j - 1) \div BLOCK_SIZE = k /\ (j - 1) % BLOCK_SIZE = r
      <4>1. BLOCK_SIZE \in Nat \ {0} /\ k \in Nat /\ r \in 0..BLOCK_SIZE-1
        BY <1>3, <3>1, SizesFacts
      <4>2. (BLOCK_SIZE * k + r) \div BLOCK_SIZE = k /\ (BLOCK_SIZE * k + r) % BLOCK_SIZE = r
        BY <4>1, Remainder
      <4> QED BY <3>1, <4>2
    <3>3. new[j] = act.string[f + r + 1]
      BY <1>2, <1>b, <2>1, <3>r, <3>2
    <3>4. t[j - L] = act.string[f + r + 1]
      <4>1. PICK q \in 1..c : q = j - L /\ q = r + 1
        BY <3>1
      <4>i. f \in Nat /\ r \in Nat /\ q = r + 1
        BY <1>k, <1>3, <3>r, <4>1
      <4>2. f + q = f + r + 1
        BY <4>i
      <4>3. t[q] = act.string[f + q]
        BY <1>4, <4>1
      <4> QED BY <4>1, <4>2, <4>3
    <3> QED BY <1>5, <2>3, <3>3, <3>4
  <2> QED BY <2>2, <2>3
<1>11. new = s
  <2>1. s = [j \in 1..L + c |-> s[j]]
    <3>1. DOMAIN s = 1..L + c
      BY <1>5, LenProperties
    <3> QED BY <1>5, <3>1
  <2>2. new = [j \in 1..L + c |-> new[j]]
    OBVIOUS
  <2> HIDE DEF new
  <2> QED BY <1>10, <2>1, <2>2
<1> HIDE DEF new
<1>12. AllContents' = [AllContents EXCEPT ![m] = s]
  BY <1>m, <1>8, <1>9, <1>11 DEF AllContents
<1> QED BY <1>m, <1>k, <1>t, <1>o, <1>s, <1>12 DEF AllContents

----------------------------------------------------------------------------
\* What a step is for AppendOnly.

Seen == [Appended!Next]_(Appended!vars)

LEMMA StutterSeen ==
  ASSUME AllContents' = AllContents, Call' = Call, UNCHANGED proc
  PROVE  Seen
  BY DEF Seen, Appended!vars, AllContents, Call, Running

\* The end of the process.
LEMMA HaltSeen ==
  ASSUME Running, ~Running'
  PROVE  Seen
  BY DEF Seen, Appended!Next, Appended!Halt

\* Everything that writes nothing: no call of writefile before, none after.
LEMMA OtherCallSeen ==
  ASSUME ~Writing, ~Writing', Running, UNCHANGED <<FileSize, direct, blocks>>
  PROVE  Seen
<1>1. AllContents' = AllContents
  BY NoFileTouched
<1>2. Call' = Call
  BY DEF Call
<1>3. CASE Running'
  BY <1>1, <1>2, <1>3, StutterSeen DEF Running
<1>4. CASE ~Running'
  BY <1>4, HaltSeen
<1> QED BY <1>3, <1>4

\* readfile changes no file.
LEMMA ReadTouchesNothing ==
  ASSUME IInv, readfile
  PROVE  Running /\ ~Writing /\ ~Writing' /\ UNCHANGED <<FileSize, direct, blocks>>
<1>1. CASE ReadGetsBuffer
  <2>1. /\ Running /\ Reading /\ UNCHANGED <<FileSize, direct>>
    BY <1>1 DEF ReadGetsBuffer, files
  <2>2. CASE Running'
    <3>1. /\ Obtained(disklist_blkno[act.node], TRUE) /\ GotBuffer(disklist_blkno[act.node])
      BY <1>1, <2>2, ReadGetsStep
    <3>2. blocks' = blocks
      BY <3>1 DEF Obtained
    <3>3. ~Writing /\ ~Writing'
      BY <2>1, <3>1, ReadingHasRecord DEF ReadInv, ReadRecord, GotBuffer, Reading, Writing
    <3> QED BY <2>1, <3>2, <3>3
  <2>3. CASE ~Running'
    <3>1. UNCHANGED <<blocks, act>>
      BY <1>1, <2>3, ReadGetsStep
    <3> QED BY <2>1, <3>1 DEF Reading, Writing
  <2> QED BY <2>2, <2>3
<1>2. CASE ReadThroughNull
  BY <1>2 DEF ReadThroughNull, StopsHere, Reading, Writing, files, cache
<1>a. CASE ReadFaults
  <2>1. /\ Running /\ Reading /\ act' = [act EXCEPT !.yet = StillToRead]
        /\ UNCHANGED <<cache, files>>
    BY <1>a DEF ReadFaults
  <2>2. ~Writing /\ ~Writing'
    BY <2>1, ReadingHasRecord DEF ReadInv, ReadRecord, Reading, Writing
  <2> QED BY <2>1, <2>2 DEF files, cache
<1>3. CASE ReadCopies
  <2>1. /\ Running /\ Reading
        /\ act' = [act EXCEPT !.step = "get", !.buff = NULL,
                              !.yet = StillToRead]
    BY <1>3 DEF ReadCopies
  <2>2. UNCHANGED <<blocks, files>>
    BY <1>3, ReadCopiesStep
  <2>3. ~Writing /\ ~Writing'
    BY <2>1, ReadingHasRecord DEF ReadInv, ReadRecord, Reading, Writing
  <2> QED BY <2>1, <2>2, <2>3 DEF files
<1>4. CASE ReadReturns
  BY <1>4 DEF ReadReturns, Reading, Idle, Writing, cache, files
<1> QED BY <1>1, <1>2, <1>a, <1>3, <1>4 DEF readfile

LEMMA BeginSeen ==
  ASSUME IInv, NEW fd \in DOMAIN ufdt, NEW string \in Strings, WriteBegins(fd, string)
  PROVE  Seen
<1>1. /\ Running /\ act = Idle /\ UNCHANGED proc /\ UNCHANGED <<FileSize, direct, blocks>>
      /\ act' = [op |-> "write", node |-> FTABLE[ufdt[fd]], string |-> string,
                 iCnt |-> 0, step |-> "get", buff |-> NULL]
  BY DEF WriteBegins, files, cache
<1>2. PICK n \in Node : n = FTABLE[ufdt[fd]]
  BY DescriptorHasNode DEF WriteBegins, IInv
<1>3. AllContents' = AllContents
  BY <1>1, NoFileTouched
<1>4. Call = Appended!None /\ Call' = [file |-> {n}, string |-> string, done |-> 0]
  BY <1>1, <1>2 DEF Call, Writing, Idle, Appended!None
<1>5. Appended!Begin(n, string)
  BY <1>1, <1>3, <1>4 DEF Appended!Begin, AllContents, Call, Running
<1> QED BY <1>2, <1>5 DEF Seen, Appended!Next

LEMMA CopiesSeen ==
  ASSUME IInv, WriteCopies, direct[act.node][blkno] # NULL
  PROVE  Seen
<1>1. Running /\ Writing /\ act.step = "copy"
  BY DEF WriteCopies
<1>2. PICK n \in Node : n = act.node
  BY <1>1, WritingHasRecord
<1>3. PICK f \in Nat, m \in 1..Len(act.string) : f = act.iCnt /\ m = act.iCnt + copy /\ f < m
  BY <1>1, ChunkSize
<1>4. AllContents' = [AllContents EXCEPT ![n] = @ \o SubSeq(act.string, f + 1, m)]
  BY <1>2, <1>3, CopySeen
<1>5. act' \in WriteRecord /\ act'.node = n /\ act'.string = act.string /\ act'.iCnt = m
  BY <1>2, <1>3, CopyStep
<1>6. UNCHANGED proc
  BY CopyStep
<1>7. /\ Call = [file |-> {n}, string |-> act.string, done |-> f]
      /\ Call' = [file |-> {n}, string |-> act.string, done |-> m]
  BY <1>1, <1>2, <1>3, <1>5 DEF Call, Writing, WriteRecord
<1>8. Call' = [Call EXCEPT !.done = m]
  <2>1. ASSUME NEW file, NEW string
        PROVE  [file |-> file, string |-> string, done |-> m]
                 = [[file |-> file, string |-> string, done |-> f] EXCEPT !.done = m]
    OBVIOUS
  <2> QED BY <1>7, <2>1
<1>9. /\ Call.file = {n} /\ Call.done = f /\ Call.string = act.string
  BY <1>7
<1>10. Appended!Extend(n, m)
  BY <1>1, <1>3, <1>4, <1>6, <1>8, <1>9 DEF Appended!Extend, AllContents, Call, Running
<1>11. m \in 1..Len(Call.string)
  BY <1>9
<1> QED BY <1>10, <1>11 DEF Seen, Appended!Next, Call

LEMMA ReturnSeen ==
  ASSUME IInv, WriteReturns
  PROVE  Seen
<1>1. /\ Running /\ Writing /\ act.iCnt >= Len(act.string) /\ act' = Idle
      /\ UNCHANGED proc /\ UNCHANGED <<FileSize, direct, blocks>>
  BY DEF WriteReturns, files, cache
<1>2. act.iCnt = Len(act.string)
  <2>1. act \in WriteRecord /\ act.iCnt <= Len(act.string)
    BY <1>1, WritingHasRecord DEF WriteInv
  <2>2. act.iCnt \in Nat /\ act.string \in Strings
    BY <2>1 DEF WriteRecord
  <2>3. Len(act.string) \in Nat
    BY <2>2, BlockAssumption, LenProperties
  <2> QED BY <1>1, <2>1, <2>2, <2>3
<1>3. AllContents' = AllContents
  BY <1>1, NoFileTouched
<1>4. Call' = Appended!None
  BY <1>1 DEF Call, Writing, Idle, Appended!None
<1>5. /\ Call.file = {act.node} /\ Call.done = act.iCnt /\ Call.string = act.string
  BY <1>1 DEF Call
<1>6. Call # Appended!None
  <2>1. Appended!None.file = {} /\ {act.node} # {}
    BY DEF Appended!None
  <2> QED BY <1>5, <2>1
<1>7. Appended!Return
  BY <1>1, <1>2, <1>3, <1>4, <1>5, <1>6 DEF Appended!Return, AllContents, Call, Running
<1> QED BY <1>7 DEF Seen, Appended!Next

LEMMA StepSeen ==
  ASSUME IInv, [Next]_vars
  PROVE  Seen
<1>1. CASE CreateOrOpen
  BY <1>1, CreateOrOpenRuns, OtherCallSeen DEF CreateOrOpen, Idle, Writing, cache, files
<1>2. ASSUME NEW fd \in DOMAIN ufdt, NEW string \in Strings, WriteBegins(fd, string)
      PROVE  Seen
  BY <1>2, BeginSeen
<1>3. ASSUME NEW fd \in DOMAIN ufdt, NEW n \in Counts, ReadBegins(fd, n)
      PROVE  Seen
  BY <1>3, OtherCallSeen DEF ReadBegins, Idle, Writing, cache, files
<1>4. ASSUME NEW fd \in DOMAIN ufdt, ReadNothing(fd) \/ ReadRefused(fd)
      PROVE  Seen
  BY <1>4, OtherCallSeen DEF ReadNothing, ReadRefused, Idle, Writing, cache, files
<1>a. ASSUME NEW fd \in DOMAIN ufdt, CallFaults(fd)
      PROVE  Seen
  BY <1>a, HaltSeen DEF CallFaults, StopsHere, Running
<1>5. CASE writefile
  <2>1. CASE WriteGetsBlock
    <3>1. Running
      BY <2>1 DEF WriteGetsBlock, NextChunk
    <3>2. CASE Running'
      BY <2>1, <3>1, <3>2, BlockGotSeen, StutterSeen DEF Running
    <3>3. CASE ~Running'
      BY <3>1, <3>3, HaltSeen
    <3> QED BY <3>2, <3>3
  <2>2. CASE WriteGetsBuffer
    BY <2>2, WriteGetsBufferStops, HaltSeen DEF WriteGetsBuffer, NextChunk
  <2>3. CASE WritePastDirect
    BY <2>3, HaltSeen DEF WritePastDirect, NextChunk, StopsHere, Running
  <2>4. CASE WriteCopies
    <3>1. CASE direct[act.node][blkno] # NULL
      BY <2>4, <3>1, CopiesSeen
    <3>2. CASE direct[act.node][blkno] = NULL
      BY <2>4, <3>2, HaltSeen DEF WriteCopies, StopsHere, Running
    <3> QED BY <3>1, <3>2
  <2>5. CASE WriteReturns
    BY <2>5, ReturnSeen
  <2> QED BY <1>5, <2>1, <2>2, <2>3, <2>4, <2>5 DEF writefile
<1>6. CASE readfile
  BY <1>6, ReadTouchesNothing, OtherCallSeen
<1>7. CASE UNCHANGED vars
  BY <1>7 DEF Seen, vars, files, cache, Appended!vars, Contents, Writing, Running
<1> QED BY <1>1, <1>2, <1>3, <1>4, <1>a, <1>5, <1>6, <1>7 DEF Next, Calls

LEMMA NothingStored == Init => Appended!Init
<1> SUFFICES ASSUME Init PROVE Appended!Init
  OBVIOUS
<1>1. FileSize = [n \in Node |-> 0] /\ act = Idle /\ Running
  BY DEF Init, Alloc!Init, Alloc!Cache!Init, Running
<1>2. ASSUME NEW n \in Node
      PROVE  Contents(n) = <<>>
  BY <1>1 DEF Contents
<1>3. AllContents = [n \in Node |-> <<>>]
  BY <1>2 DEF AllContents
<1>4. Call = Appended!None
  BY <1>1 DEF Call, Writing, Idle, Appended!None
<1> QED BY <1>1, <1>3, <1>4 DEF Appended!Init, AllContents, Call

\* What writefile says it has written stays where it is: the files of FileSystem are those
\* of AppendOnly.  Every chunk is the next piece of the string, behind the bytes that the
\* file had; no later call on any descriptor changes them, and the count that writefile
\* returns is that of the whole string.  It holds for every uint32_t that a new inode's
\* disklist_blkno can be: a read with such a number releases its buffer or stops.
THEOREM FilesAreAppendOnly == Spec => ImplementsAppendOnly
<1>1. IInv /\ [Next]_vars => [Appended!Next]_(Appended!vars)
  BY StepSeen DEF Seen
<1> QED BY <1>1, NothingStored, Invariant, PTL DEF Spec, ImplementsAppendOnly, Appended!Spec

----------------------------------------------------------------------------
\* The allocator.

LEMMA OnlyAllocMoves ==
  ASSUME [Next]_vars
  PROVE  WriteGetsBlock \/ UNCHANGED alloc
<1>1. CASE CreateOrOpen
  BY <1>1 DEF CreateOrOpen
<1>2. ASSUME NEW fd \in DOMAIN ufdt,
             \/ \E string \in Strings : WriteBegins(fd, string)
             \/ \E n \in Counts : ReadBegins(fd, n)
             \/ ReadNothing(fd) \/ ReadRefused(fd) \/ CallFaults(fd)
      PROVE  UNCHANGED alloc
  BY <1>2 DEF WriteBegins, ReadBegins, ReadNothing, ReadRefused, CallFaults, StopsHere
<1>3. CASE writefile
  BY <1>3 DEF writefile, WriteGetsBuffer, Alloc!getblk, WritePastDirect, WriteCopies,
              StopsHere, WriteReturns, alloc
<1>4. CASE readfile
  BY <1>4 DEF readfile, ReadGetsBuffer, Alloc!bread, ReadThroughNull, StopsHere, ReadCopies,
              Alloc!brelse, ReadFaults, ReadReturns, alloc
<1>5. CASE UNCHANGED vars
  BY <1>5 DEF vars
<1> QED BY <1>1, <1>2, <1>3, <1>4, <1>5 DEF Next, Calls

LEMMA AllocRuns ==
  ASSUME WriteGetsBlock
  PROVE  Running /\ Writing /\ Alloc!allocblock
  BY DEF WriteGetsBlock, NextChunk

IndexInv ==
  next_free_block_index \in BLOCKS_PER_LIST-2-PRIMARY_BUFFERS..BLOCKS_PER_LIST-1

LEMMA IndexKept == IInv /\ IndexInv /\ [Next]_vars => IndexInv'
<1> SUFFICES ASSUME IInv, IndexInv, [Next]_vars PROVE IndexInv'
  OBVIOUS
<1>1. CASE UNCHANGED alloc
  BY <1>1 DEF IndexInv, alloc
<1>2. CASE WriteGetsBlock
  <2>1. next_free_block_index' = next_free_block_index - 1
    BY <1>2, AllocRuns, IndexDown
  <2>2. next_free_block_index \in BLOCKS_PER_LIST-1-PRIMARY_BUFFERS..BLOCKS_PER_LIST-1
    BY <1>2, AllocRuns DEF IInv, AllocInv
  <2> QED BY <2>1, <2>2, SizesFacts DEF IndexInv
<1> QED BY <1>1, <1>2, OnlyAllocMoves

\* The index of diskblock.c does not wrap, whatever is written and read: each block it
\* passes is given and its buffer is never free again, and without a free buffer the call
\* that moves it is the last.
THEOREM IndexStays == Spec => []IndexNeverWraps
<1>1. Init => IndexInv
  <2> SUFFICES ASSUME Init PROVE IndexInv
    OBVIOUS
  <2>1. next_free_block_index = BLOCKS_PER_LIST - 1
    BY DEF Init, Alloc!Init, Alloc!InitialiseSuperBlock
  <2> QED BY <2>1, SizesFacts DEF IndexInv
<1>2. IInv /\ IndexInv => IndexNeverWraps
  <2> SUFFICES ASSUME IInv, IndexInv PROVE IndexNeverWraps
    OBVIOUS
  <2>1. next_free_block_index < BLOCKS_PER_LIST
    BY SizesFacts DEF IndexInv
  <2>2. Running => given = next_free_block_index+1..BLOCKS_PER_LIST-1
    BY DEF IInv, AllocInv
  <2> QED BY <2>1, <2>2 DEF IndexNeverWraps
<1> QED BY <1>1, <1>2, IndexKept, Invariant, PTL DEF Spec

\* allocblock's buffer is a new one for that block, whichever of the numbers that a stale
\* node or the heap can hold readfile has asked for: getblk never finds the number.  As in
\* SizesMatch, no inode is born with a number that has still to be given.
THEOREM NewBlocksWritable == GarbageNeverGiven => (Spec => NewBlockWritable)
<1> DEFINE b == next_free_block_index
           New == b' # b /\ proc' = "running" =>
                    \E buff \in lent' \ lent :
                      /\ buff.block_number = b
                      /\ buff.ptr_to_block = b
                      /\ buff.ptr_to_data = Alloc!Cache!Zero
<1>1. ASSUME IInv, WritableInv, WriteGetsBlock, Running'
      PROVE  New
  <2>1. Running /\ Writing /\ Alloc!allocblock /\ InHand = {}
    BY <1>1, AllocRuns, WritingHasRecord
  <2>2. Obtained(b, FALSE) /\ b \notin NeverGiven
    BY <1>1, <2>1, AllocStep
  <2>3. PICK buf \in LentBuffer : /\ buf.block_number = b
                                  /\ buf.ptr_to_block \in {b, NULL}
                                  /\ buf.ptr_to_block = NULL => b \in FreeNumbers
                                  /\ buf.ptr_to_data = EmptyBlock
                                  /\ lent' = lent \union {buf}
    BY <2>2 DEF Obtained
  <2>4. b \notin FreeNumbers /\ b \notin LentNumbers
    BY <1>1, <2>1, <2>2 DEF WritableInv, Obtained
  <2>5. buf \notin lent
    BY <2>3, <2>4 DEF LentNumbers, Alloc!Cache!LentNumbers
  <2>6. buf.ptr_to_block = b /\ buf \in lent' \ lent
    BY <2>3, <2>4, <2>5
  <2>7. EmptyBlock = Alloc!Cache!Zero
    BY EmptyIsBlock
  <2> QED BY <2>3, <2>6, <2>7
<1>2. IInv /\ WritableInv /\ [Next]_vars => [New]_vars
  <2> SUFFICES ASSUME IInv, WritableInv, [Next]_vars PROVE New
    OBVIOUS
  <2>1. CASE UNCHANGED alloc
    BY <2>1 DEF alloc
  <2>2. CASE WriteGetsBlock
    BY <1>1, <2>2 DEF Running
  <2> QED BY <2>1, <2>2, OnlyAllocMoves
<1>3. GarbageNeverGiven /\ Init => WritableInv
  BY WritableInit
<1>4. IInv /\ WritableInv /\ [Next]_vars => WritableInv'
  BY WritableKept
<1> QED BY <1>2, <1>3, <1>4, Invariant, PTL DEF Spec, NewBlockWritable

----------------------------------------------------------------------------
\* The descriptors.

\* Only a descriptor beyond the array is ever overwritten: those within it lead to their
\* nodes for good.
THEOREM DescriptorsLast == Spec => DescriptorsSurvive
<1>1. IInv /\ [Next]_vars => SameDescriptors
  <2> SUFFICES ASSUME IInv, [Next]_vars PROVE SameDescriptors
    OBVIOUS
  <2>0. TablesInv
    BY DEF IInv
  <2>1. CASE CreateOrOpen
    BY <2>0, <2>1, CallTables DEF CreateOrOpen
  <2>2. ASSUME NEW fd \in DOMAIN ufdt, ReadNothing(fd) \/ \E n \in Counts : ReadBegins(fd, n)
        PROVE  SameDescriptors
    <3>1. PICK e : OffsetStored(e) /\ UNCHANGED tables /\ Running
      BY <2>2 DEF ReadNothing, ReadBegins
    <3>2. \A d \in Slots : ufdt'[d] = ufdt[d]
      BY <2>0, <3>1, OffsetStoredTables
    <3> QED BY <3>1, <3>2 DEF SameDescriptors, tables
  <2>3. CASE UNCHANGED <<tables, ufdt>>
    BY <2>3 DEF SameDescriptors, tables
  <2>4. ASSUME NEW fd \in DOMAIN ufdt,
               \/ \E string \in Strings : WriteBegins(fd, string)
               \/ ReadRefused(fd) \/ CallFaults(fd)
        PROVE  UNCHANGED <<tables, ufdt>>
    BY <2>4 DEF WriteBegins, ReadRefused, CallFaults, StopsHere
  <2>5. writefile => UNCHANGED <<tables, ufdt>>
    BY DEF writefile, WriteGetsBlock, WriteGetsBuffer, WritePastDirect, WriteCopies,
           WriteReturns, StopsHere
  <2>6. readfile => UNCHANGED <<tables, ufdt>>
    BY DEF readfile, ReadGetsBuffer, ReadThroughNull, ReadCopies, ReadFaults,
           ReadReturns, StopsHere
  <2>7. UNCHANGED vars => UNCHANGED <<tables, ufdt>>
    BY DEF vars
  <2> QED BY <2>1, <2>2, <2>3, <2>4, <2>5, <2>6, <2>7 DEF Next, Calls
<1> QED BY <1>1, Invariant, PTL DEF Spec, DescriptorsSurvive, SameDescriptors, Slots
=============================================================================

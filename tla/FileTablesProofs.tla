-------------------------- MODULE FileTablesProofs --------------------------
(***************************************************************************)
(* The invariants of FileTables, for any number of inodes, descriptors and *)
(* entries and any names and permissions, and its refinement of FileNames. *)
(***************************************************************************)
EXTENDS FileTables, TLAPS, FiniteSetTheorems

\* The inductive invariant.  The tables are filled from their front: the first n entries
\* of FTABLE are taken, a descriptor has the entry of its own number, and IITABLE has the
\* nodes ialloc gave out, in that order.  The last inode is given to nobody: the process
\* stops in that call, with the free list and the super block half changed.
Taken(n)     == \A e \in Entries : FTABLE[e] # NULL <=> e < n
EntriesTaken == \E n \in 0..FTABLE_SIZE : Taken(n)
OwnEntry     == \A fd \in DescriptorSlots : ufdt[fd] = IF FTABLE[fd] = NULL THEN NULL ELSE fd
LastKept     == Running => indexofnextfree < MAX_INODES
InOrder      ==
  Running =>
    \A i \in 0..MAX_INODES-1 :
      IITABLE[i] = IF i < indexofnextfree THEN FreeNode(i + 1) ELSE NULL

IInv ==
  /\ TypeOK
  /\ AllocatorsAgree
  /\ LastKept
  /\ EntriesTaken
  /\ OwnEntry
  /\ InOrder

\* The part of TypeOK that is about entries and descriptors.
EntryTypes ==
  /\ FTABLE \in [Entries -> Node \union {NULL}]
  /\ ufdt \in [DescriptorSlots -> Entries \union {NULL}]

----------------------------------------------------------------------------

\* The first free place of a table that is filled from its front.
LEMMA FirstFreePlace ==
  ASSUME NEW m \in Nat, NEW table, DOMAIN table = 0..m, NEW n \in Nat,
         \A i \in 0..m : table[i] # NULL <=> i < n
  PROVE  /\ Free(table) = n..m
         /\ Free(table) # {} => FirstFree(table) = n
<1>1. Free(table) = n..m
  BY DEF Free
<1>2. ASSUME Free(table) # {}
      PROVE  FirstFree(table) = n
  <2>1. n \in Free(table) /\ \A j \in Free(table) : n <= j
    BY <1>1, <1>2
  <2>2. \A i \in Free(table) : (\A j \in Free(table) : i <= j) => i = n
    BY <1>1, <2>1
  <2> QED BY <2>1, <2>2 DEF FirstFree
<1> QED BY <1>1, <1>2

\* AllocateinFILETABLE and AllocateinUAREA: the tables stay filled from the front, the
\* descriptors there are stay, and the new one, if any, leads to the node.
LEMMA DescribeStep ==
  ASSUME EntryTypes, EntriesTaken, OwnEntry, NEW node \in Node, Describe(node)
  PROVE  /\ EntryTypes' /\ EntriesTaken' /\ OwnEntry'
         /\ ret' \in {-1} \union DescriptorSlots
         /\ ret' # -1 => FTABLE'[ufdt'[ret']] = node
         /\ \A fd \in DescriptorSlots :
              ufdt[fd] # NULL => ufdt'[fd] = ufdt[fd] /\ FTABLE'[ufdt[fd]] = FTABLE[ufdt[fd]]
<1> USE TableSizesAssumption, NoNULL
<1>1. PICK n \in 0..FTABLE_SIZE : Taken(n)
  BY DEF EntriesTaken
<1>2. n \in Entries /\ FTABLE' = [FTABLE EXCEPT ![n] = node] /\ AllocateinUAREA(n)
  <2>1. Free(FTABLE) = n..FTABLE_SIZE-1 /\ FirstFree(FTABLE) = n
    BY <1>1, FirstFreePlace DEF Taken, Describe, EntryTypes, Entries
  <2> QED BY <2>1 DEF Describe, Entries
<1>3. DescriptorSlots \subseteq Entries
  BY DEF DescriptorSlots, Entries
<1>4. \A e \in Entries : FTABLE'[e] = IF e = n THEN node ELSE FTABLE[e]
  BY <1>2 DEF EntryTypes
<1>5. \A fd \in 0..MAX_INODES : ufdt[fd] # NULL <=> fd < n
  BY <1>1, <1>3 DEF OwnEntry, Taken, Entries, DescriptorSlots
<1>6. Free(ufdt) = n..MAX_INODES /\ (Free(ufdt) # {} => FirstFree(ufdt) = n)
  BY <1>5, FirstFreePlace DEF EntryTypes, DescriptorSlots
<1>7. EntriesTaken'
  <2>1. n + 1 \in 0..FTABLE_SIZE
    BY <1>2 DEF Entries
  <2>2. Taken(n + 1)'
    BY <1>1, <1>2, <1>4 DEF Taken, Entries
  <2> QED BY <2>1, <2>2 DEF EntriesTaken
<1>8. CASE n <= MAX_INODES
  <2>1. n \in DescriptorSlots /\ ufdt' = [ufdt EXCEPT ![n] = n] /\ ret' = n
    BY <1>2, <1>6, <1>8 DEF AllocateinUAREA, Entries, DescriptorSlots
  <2>2. \A fd \in DescriptorSlots : ufdt'[fd] = IF fd = n THEN n ELSE ufdt[fd]
    BY <2>1 DEF EntryTypes
  <2>3. OwnEntry'
    BY <1>3, <1>4, <2>2 DEF OwnEntry
  <2>4. EntryTypes'
    BY <1>2, <2>1 DEF EntryTypes
  <2>5. \A fd \in DescriptorSlots :
          ufdt[fd] # NULL => ufdt'[fd] = ufdt[fd] /\ FTABLE'[ufdt[fd]] = FTABLE[ufdt[fd]]
    BY <1>3, <1>4, <1>5, <2>2 DEF OwnEntry, DescriptorSlots
  <2>6. ret' # -1 => FTABLE'[ufdt'[ret']] = node
    BY <1>4, <1>2, <2>1, <2>2
  <2> QED BY <1>7, <2>1, <2>3, <2>4, <2>5, <2>6
<1>9. CASE n > MAX_INODES
  <2>1. ufdt' = ufdt /\ ret' = -1
    <3>1. Free(ufdt) = {}
      BY <1>6, <1>9
    <3> QED BY <1>2, <3>1 DEF AllocateinUAREA
  <2>2. \A fd \in DescriptorSlots : FTABLE'[fd] = FTABLE[fd]
    BY <1>3, <1>4, <1>9 DEF DescriptorSlots
  <2>3. OwnEntry'
    BY <2>1, <2>2 DEF OwnEntry
  <2>4. EntryTypes'
    BY <1>2, <2>1 DEF EntryTypes
  <2>5. \A fd \in DescriptorSlots : ufdt[fd] # NULL => ufdt[fd] = fd
    BY DEF OwnEntry
  <2> QED BY <1>7, <2>1, <2>2, <2>3, <2>4, <2>5
<1> QED
  <2>1. n <= MAX_INODES \/ n > MAX_INODES
    OBVIOUS
  <2> QED BY <1>8, <1>9, <2>1

----------------------------------------------------------------------------

\* What DescribeStep says of the descriptors, for any step.
Kept ==
  \A fd \in DescriptorSlots :
    ufdt[fd] # NULL => ufdt'[fd] = ufdt[fd] /\ FTABLE'[ufdt[fd]] = FTABLE[ufdt[fd]]

\* The rest of TypeOK.
InodeTypes ==
  /\ filename \in [Inodes -> Names \union {NULL}]
  /\ Permissions \in [Inodes -> Modes \union {NULL}]
  /\ freelisthead \in Seq(Inodes)
  /\ free_inodes \in [0..MAX_INODES-1 -> BOOLEAN]
  /\ indexofnextfree \in 0..MAX_INODES
  /\ freeinodescount \in 0..MAX_INODES
  /\ IITABLE \in [0..MAX_INODES-1 -> Node \union {NULL}]
CallTypes ==
  /\ call \in {<<>>} \union {<<name>> : name \in Names} \union (Names \X Modes)
  /\ ret \in {-1} \union DescriptorSlots
  /\ proc \in {"running", "spinning", "crashed", "overrun"}

\* The inodes' part of the invariant, and the entries'.
InodesInv  == InodeTypes /\ AllocatorsAgree /\ LastKept /\ InOrder
EntriesInv == EntryTypes /\ EntriesTaken /\ OwnEntry

LEMMA Parts == IInv <=> InodesInv /\ EntriesInv /\ CallTypes
BY DEF IInv, InodesInv, EntriesInv, TypeOK, InodeTypes, EntryTypes, CallTypes

LEMMA PartsNext == InodesInv' /\ EntriesInv' /\ CallTypes' => IInv'
BY DEF IInv, InodesInv, EntriesInv, TypeOK, InodeTypes, EntryTypes, CallTypes

\* Nothing but the call and its result changes.
LEMMA TablesUnchanged ==
  ASSUME EntriesInv, UNCHANGED <<FTABLE, ufdt>>
  PROVE  EntriesInv' /\ Kept
BY DEF EntriesInv, EntryTypes, EntriesTaken, Taken, OwnEntry, Kept

LEMMA InodesUnchanged ==
  ASSUME InodesInv, UNCHANGED <<inodes, IITABLE>>, Running' => Running
  PROVE  InodesInv'
<1>1. InodeTypes' /\ Allocated' = Allocated
  BY DEF InodesInv, InodeTypes, Allocated, inodes, superblock
<1>2. AllocatorsAgree'
  BY <1>1 DEF InodesInv, AllocatorsAgree, inodes, superblock
<1>3. LastKept' /\ InOrder'
  BY DEF InodesInv, LastKept, InOrder, inodes, superblock
<1> QED BY <1>1, <1>2, <1>3 DEF InodesInv

\* Every way createfile and openFile end: with a new entry, or past the last one.
LEMMA DescribeOrOverrun ==
  ASSUME EntriesInv, CallTypes, proc = "running", NEW node \in Node,
         Describe(node) \/ Overrun,
         call' \in Names \X Modes
  PROVE  EntriesInv' /\ Kept /\ CallTypes'
<1>1. CASE Describe(node)
  <2>1. EntriesInv' /\ Kept /\ ret' \in {-1} \union DescriptorSlots
    BY <1>1, DescribeStep DEF EntriesInv, Kept
  <2> QED BY <1>1, <2>1 DEF Describe, CallTypes
<1>2. CASE Overrun
  <2>1. EntriesInv' /\ Kept
    BY <1>2, TablesUnchanged DEF Overrun
  <2> QED BY <1>2, <2>1 DEF Overrun, CallTypes
<1> QED BY <1>1, <1>2

\* namei finds an inode that has been given out.
LEMMA NamedInode ==
  ASSUME InodesInv, Running, NEW name \in Names, Named(name)
  PROVE  /\ namei(name) \in 1..indexofnextfree
         /\ namei(name) \in Inodes
         /\ filename[namei(name)] = name
<1>1. namei(name) \in Inodes /\ filename[namei(name)] = name
  BY DEF Named, namei
<1>2. namei(name) \in Allocated
  BY <1>1, NoNULL DEF Allocated
<1> QED BY <1>1, <1>2 DEF InodesInv, AllocatorsAgree

\* IITABLE has its node already, at the place of its number.
LEMMA PlaceOfInode ==
  ASSUME InodesInv, Running, NEW n \in 1..indexofnextfree
  PROVE  /\ PutInodeinIITABLE(HashNode(n), IITABLE) = n - 1
         /\ WithInode(HashNode(n), IITABLE) = IITABLE
         /\ IITABLE[n - 1] = FreeNode(n)
<1> USE TableSizesAssumption, NoNULL
<1> DEFINE stop == {i \in 0..MAX_INODES-1 : IITABLE[i] = NULL \/ IITABLE[i].number = n}
<1>1. /\ indexofnextfree \in 0..MAX_INODES /\ n - 1 \in 0..MAX_INODES-1
      /\ DOMAIN IITABLE = 0..MAX_INODES-1
  BY DEF InodesInv, InodeTypes
<1>2. \A i \in 0..MAX_INODES-1 :
        i < indexofnextfree =>
          IITABLE[i] = FreeNode(i + 1) /\ IITABLE[i] # NULL /\ IITABLE[i].number = i + 1
  BY <1>1 DEF InodesInv, InOrder, FreeNode, Node, Inodes
<1>3. n - 1 \in stop /\ \A i \in stop : n - 1 <= i
  BY <1>1, <1>2
<1>4. \A i \in stop : (\A j \in stop : i <= j) => i = n - 1
  BY <1>1, <1>3
<1>5. PutInodeinIITABLE(HashNode(n), IITABLE) = CHOOSE i \in stop : \A j \in stop : i <= j
  BY <1>1 DEF PutInodeinIITABLE, HashNode
<1>6. PutInodeinIITABLE(HashNode(n), IITABLE) = n - 1
  BY <1>3, <1>4, <1>5
<1>7. IITABLE[n - 1] = FreeNode(n) /\ IITABLE[n - 1] # NULL
  BY <1>1, <1>2
<1> QED BY <1>6, <1>7 DEF WithInode

\* A node that is given out for the first time goes behind the others.
LEMMA PlaceOfNewInode ==
  ASSUME InodesInv, Running
  PROVE  LET n == indexofnextfree + 1
         IN  WithInode(FreeNode(n), IITABLE) = [IITABLE EXCEPT ![indexofnextfree] = FreeNode(n)]
<1> USE TableSizesAssumption, NoNULL
<1> DEFINE k    == indexofnextfree
           stop == {i \in 0..MAX_INODES-1 : IITABLE[i] = NULL \/ IITABLE[i].number = k + 1}
<1>1. k \in 0..MAX_INODES-1 /\ DOMAIN IITABLE = 0..MAX_INODES-1
  BY DEF InodesInv, InodeTypes, LastKept
<1>2. \A i \in 0..MAX_INODES-1 :
        i < k => IITABLE[i] # NULL /\ IITABLE[i].number = i + 1
  BY <1>1 DEF InodesInv, InOrder, FreeNode, Node, Inodes
<1>3. IITABLE[k] = NULL
  BY <1>1 DEF InodesInv, InOrder
<1>4. k \in stop /\ \A i \in stop : k <= i
  BY <1>1, <1>2, <1>3
<1>5. \A i \in stop : (\A j \in stop : i <= j) => i = k
  BY <1>1, <1>4
<1>6. PutInodeinIITABLE(FreeNode(k + 1), IITABLE) = CHOOSE i \in stop : \A j \in stop : i <= j
  BY <1>1 DEF PutInodeinIITABLE, FreeNode
<1>7. PutInodeinIITABLE(FreeNode(k + 1), IITABLE) = k
  BY <1>4, <1>5, <1>6
<1> QED BY <1>3, <1>7 DEF WithInode

----------------------------------------------------------------------------
\* The actions.

\* The node that iget takes off the free list is the one of the number it was given.
LEMMA CreateNewInodes ==
  ASSUME InodesInv, NEW name \in Names, NEW permissions \in Modes,
         CreateNew(name, permissions)
  PROVE  /\ InodesInv'
         /\ Head(freelisthead) \in Inodes /\ Head(freelisthead) = indexofnextfree + 1
<1> USE TableSizesAssumption, NoNULL
<1> DEFINE n == indexofnextfree + 1
<1>0. Running
  BY DEF CreateNew, Running
<1>1. /\ n \in 1..MAX_INODES-1 /\ n \in Inodes /\ freeinodescount = MAX_INODES - indexofnextfree
      /\ freelisthead = [i \in 1..freeinodescount |-> indexofnextfree + i]
      /\ freeinodescount \in Nat /\ freeinodescount > 1 /\ indexofnextfree \in Nat
  BY <1>0 DEF InodesInv, InodeTypes, AllocatorsAgree, CreateNew, freeindex, Inodes
<1>2. Head(freelisthead) = n
  BY <1>1
<1>3. Tail(freelisthead) = [i \in 1..freeinodescount - 1 |-> n + i]
  <2>1. Len(freelisthead) = freeinodescount
    BY <1>1
  <2>2. Tail(freelisthead) = [i \in 1..freeinodescount - 1 |-> freelisthead[i + 1]]
    BY <1>1, <2>1
  <2>3. \A i \in 1..freeinodescount - 1 : freelisthead[i + 1] = n + i
    BY <1>1
  <2> QED BY <2>2, <2>3
<1>4. /\ filename' = [filename EXCEPT ![n] = name]
      /\ Permissions' = [Permissions EXCEPT ![n] = permissions]
      /\ IITABLE' = [IITABLE EXCEPT ![indexofnextfree] = FreeNode(n)]
      /\ freelisthead' = Tail(freelisthead)
      /\ free_inodes' = [free_inodes EXCEPT ![n] = FALSE]
      /\ indexofnextfree' = n /\ freeinodescount' = freeinodescount - 1
  BY <1>0, <1>2, PlaceOfNewInode DEF CreateNew, iget, freeindex
<1>5. InodeTypes'
  <2>1. freelisthead' \in Seq(Inodes)
    <3>1. \A i \in 1..freeinodescount - 1 : n + i \in Inodes
      BY <1>1 DEF Inodes
    <3>2. freelisthead' \in [1..freeinodescount - 1 -> Inodes]
      BY <1>3, <1>4, <3>1
    <3> QED BY <1>1, <3>2
  <2>2. FreeNode(n) \in Node
    BY <1>1 DEF FreeNode, Node
  <2>3. indexofnextfree' \in 0..MAX_INODES /\ freeinodescount' \in 0..MAX_INODES
    BY <1>1, <1>4 DEF InodesInv, InodeTypes
  <2>4. indexofnextfree \in 0..MAX_INODES-1
    BY <1>1
  <2>5. IITABLE' \in [0..MAX_INODES-1 -> Node \union {NULL}]
    BY <1>4, <2>2, <2>4 DEF InodesInv, InodeTypes
  <2>6. /\ filename' \in [Inodes -> Names \union {NULL}]
        /\ Permissions' \in [Inodes -> Modes \union {NULL}]
        /\ free_inodes' \in [0..MAX_INODES-1 -> BOOLEAN]
    BY <1>1, <1>4 DEF InodesInv, InodeTypes
  <2> QED BY <2>1, <2>3, <2>5, <2>6 DEF InodeTypes
<1>6. AllocatorsAgree'
  <2>1. Allocated' = 1..n
    <3>1. \A i \in Inodes : filename'[i] = IF i = n THEN name ELSE filename[i]
      BY <1>4 DEF InodesInv, InodeTypes
    <3>2. Allocated' = Allocated \union {n}
      BY <1>1, <3>1 DEF Allocated
    <3> QED BY <1>0, <1>1, <3>2 DEF InodesInv, InodeTypes, AllocatorsAgree
  <2>2. freeinodescount' = MAX_INODES - n
    BY <1>1, <1>4
  <2>3. freelisthead' = [i \in 1..freeinodescount' |-> n + i]
    BY <1>3, <1>4
  <2>4. \A i \in 0..MAX_INODES-1 : free_inodes'[i] <=> i = 0 \/ i > n
    <3>1. \A i \in 0..MAX_INODES-1 : free_inodes'[i] = IF i = n THEN FALSE ELSE free_inodes[i]
      BY <1>4 DEF InodesInv, InodeTypes
    <3>2. \A i \in 0..MAX_INODES-1 : free_inodes[i] <=> i = 0 \/ i > indexofnextfree
      BY <1>0 DEF InodesInv, AllocatorsAgree
    <3>3. indexofnextfree \in Nat
      BY DEF InodesInv, InodeTypes
    <3>4. ASSUME NEW i \in 0..MAX_INODES-1
          PROVE  free_inodes'[i] <=> i = 0 \/ i > n
      <4>1. CASE i = n
        <5>1. n # 0 /\ ~(n > n)
          BY <1>1
        <5> QED BY <3>1, <4>1, <5>1
      <4>2. CASE i # n
        <5>1. (i = 0 \/ i > indexofnextfree) <=> (i = 0 \/ i > n)
          BY <3>3, <4>2
        <5> QED BY <3>1, <3>2, <4>2, <5>1
      <4> QED BY <4>1, <4>2
    <3> QED BY <3>4
  <2> QED BY <1>4, <2>1, <2>2, <2>3, <2>4 DEF AllocatorsAgree
<1>7. InOrder'
  <2>1. \A i \in 0..MAX_INODES-1 :
          IITABLE'[i] = IF i = indexofnextfree THEN FreeNode(n) ELSE IITABLE[i]
    BY <1>4 DEF InodesInv, InodeTypes
  <2> QED BY <1>0, <1>1, <1>4, <2>1 DEF InodesInv, InodeTypes, InOrder, FreeNode
<1>8. LastKept'
  BY <1>1, <1>4 DEF LastKept
<1> QED BY <1>1, <1>2, <1>5, <1>6, <1>7, <1>8 DEF InodesInv

\* The call for the last inode may leave the free list empty and the index at 1.
LEMMA CreateStopsInodes ==
  ASSUME InodesInv, NEW name \in Names, NEW permissions \in Modes,
         CreateStops(name, permissions)
  PROVE  InodesInv'
<1> USE TableSizesAssumption
<1>1. Running /\ ~Running'
  BY DEF CreateStops, Running
<1>2. AllocatorsAgree' /\ LastKept' /\ InOrder'
  BY <1>1 DEF AllocatorsAgree, LastKept, InOrder
<1>3. CASE UNCHANGED inodes
  <2>1. UNCHANGED <<inodes, IITABLE>>
    BY <1>3 DEF CreateStops
  <2> QED BY <1>1, <2>1, InodesUnchanged
<1>4. CASE ~UNCHANGED inodes
  <2>1. /\ freelisthead' = Tail(freelisthead)
        /\ indexofnextfree' = indexofnextfree - FlagBehind + 1
        /\ freeinodescount' = freeinodescount - 1
        /\ filename' = [filename EXCEPT ![Head(freelisthead)] = name]
        /\ Permissions' = [Permissions EXCEPT ![Head(freelisthead)] = permissions]
        /\ UNCHANGED <<free_inodes, IITABLE>>
        /\ freeindex = MAX_INODES
    BY <1>4 DEF CreateStops
  <2>2. /\ indexofnextfree = MAX_INODES - 1 /\ freeinodescount = 1
        /\ freelisthead = [i \in 1..freeinodescount |-> indexofnextfree + i]
    BY <1>1, <2>1 DEF InodesInv, InodeTypes, AllocatorsAgree, freeindex
  <2>3. Head(freelisthead) = MAX_INODES /\ Tail(freelisthead) \in Seq(Inodes)
    <3>1. freelisthead \in Seq(Inodes) /\ Len(freelisthead) = 1 /\ freelisthead[1] = MAX_INODES
      BY <2>2 DEF InodesInv, InodeTypes
    <3> QED BY <3>1
  <2>4. indexofnextfree' \in 0..MAX_INODES /\ freeinodescount' \in 0..MAX_INODES
    <3>1. FlagBehind \in 0..indexofnextfree
      BY <2>2 DEF FlagBehind
    <3> QED BY <2>1, <2>2, <3>1
  <2>5. InodeTypes'
    BY <2>1, <2>3, <2>4 DEF InodesInv, InodeTypes
  <2> QED BY <1>2, <2>5 DEF InodesInv
<1> QED BY <1>3, <1>4

LEMMA RefusedStep ==
  ASSUME InodesInv, EntriesInv, CallTypes, NEW name \in Names, NEW mode \in Modes,
         Refused(name, mode), call' \in Names \X Modes
  PROVE  IInv' /\ Kept
<1>1. InodesInv'
  BY InodesUnchanged DEF Refused, Running
<1>2. EntriesInv' /\ Kept
  BY TablesUnchanged DEF Refused
<1>3. CallTypes'
  BY DEF Refused, CallTypes
<1> QED BY <1>1, <1>2, <1>3, PartsNext

LEMMA CreateStep ==
  ASSUME IInv, NEW name \in Names, NEW permissions \in Modes,
         createfile(name, permissions), call' = <<name, permissions>>
  PROVE  IInv' /\ Kept
<1>1. InodesInv /\ EntriesInv /\ CallTypes /\ call' \in Names \X Modes
  BY Parts
<1>2. CASE CreateNew(name, permissions)
  <2>1. InodesInv' /\ FreeNode(Head(freelisthead)) \in Node
    BY <1>1, <1>2, CreateNewInodes DEF FreeNode, Node
  <2>2. proc = "running" /\ (Describe(FreeNode(Head(freelisthead))) \/ Overrun)
    BY <1>2 DEF CreateNew
  <2>3. EntriesInv' /\ Kept /\ CallTypes'
    BY <1>1, <2>1, <2>2, DescribeOrOverrun
  <2> QED BY <2>1, <2>3, PartsNext
<1>3. CASE CreateExisting(name, permissions)
  <2>1. HashNode(namei(name)) \in Node
    BY <1>1, <1>3, NamedInode DEF CreateExisting, HashNode, Node, Running
  <2>2. EntriesInv' /\ Kept /\ CallTypes'
    BY <1>1, <1>3, <2>1, DescribeOrOverrun DEF CreateExisting
  <2>3. InodesInv'
    BY <1>1, <1>3, InodesUnchanged DEF CreateExisting, Running
  <2> QED BY <2>2, <2>3, PartsNext
<1>4. CASE Refused(name, permissions)
  BY <1>1, <1>4, RefusedStep
<1>5. CASE CreateStops(name, permissions)
  <2>1. InodesInv'
    BY <1>1, <1>5, CreateStopsInodes
  <2>2. EntriesInv' /\ Kept
    BY <1>1, <1>5, TablesUnchanged DEF CreateStops
  <2>3. CallTypes'
    BY <1>1, <1>5 DEF CreateStops, CallTypes
  <2> QED BY <2>1, <2>2, <2>3, PartsNext
<1> QED BY <1>2, <1>3, <1>4, <1>5 DEF createfile

\* openFile finds the node of the file's creation in IITABLE.
LEMMA OpenStep ==
  ASSUME IInv, NEW name \in Names, NEW mode \in Modes,
         openFile(name, mode), call' = <<name, mode>>
  PROVE  IInv' /\ Kept
<1>1. InodesInv /\ EntriesInv /\ CallTypes /\ call' \in Names \X Modes
  BY Parts
<1>2. CASE OpenExisting(name, mode)
  <2>1. IITABLE' = IITABLE /\ (Describe(FreeNode(namei(name))) \/ Overrun)
    BY <1>1, <1>2, NamedInode, PlaceOfInode DEF OpenExisting, Running
  <2>2. FreeNode(namei(name)) \in Node
    BY <1>1, <1>2, NamedInode DEF OpenExisting, FreeNode, Node, Running
  <2>3. EntriesInv' /\ Kept /\ CallTypes'
    BY <1>1, <1>2, <2>1, <2>2, DescribeOrOverrun DEF OpenExisting
  <2>4. InodesInv'
    BY <1>1, <1>2, <2>1, InodesUnchanged DEF OpenExisting, Running
  <2> QED BY <2>3, <2>4, PartsNext
<1>3. CASE Refused(name, mode)
  BY <1>1, <1>3, RefusedStep
<1>4. CASE OpenMissing(name)
  <2>1. InodesInv'
    BY <1>1, <1>4, InodesUnchanged DEF OpenMissing, Running
  <2>2. EntriesInv' /\ Kept
    BY <1>1, <1>4, TablesUnchanged DEF OpenMissing
  <2>3. CallTypes'
    BY <1>1, <1>4 DEF OpenMissing, CallTypes
  <2> QED BY <2>1, <2>2, <2>3, PartsNext
<1> QED BY <1>2, <1>3, <1>4 DEF openFile

LEMMA SearchStep ==
  ASSUME IInv, NEW name \in Names, searchfd(name), call' = <<name>>
  PROVE  IInv' /\ Kept
<1>1. InodesInv /\ EntriesInv /\ CallTypes
  BY Parts
<1>2. InodesInv'
  BY <1>1, InodesUnchanged DEF searchfd, Running
<1>3. EntriesInv' /\ Kept
  BY <1>1, TablesUnchanged DEF searchfd
<1>4. ret' \in {ret, -1} \union 0..MAX_INODES-1 /\ proc' \in {proc, "crashed"}
  BY DEF searchfd
<1>5. CallTypes'
  BY <1>1, <1>4, TableSizesAssumption DEF CallTypes, DescriptorSlots
<1> QED BY <1>2, <1>3, <1>5, PartsNext

----------------------------------------------------------------------------

LEMMA Initially == Init => IInv
<1> USE TableSizesAssumption, NoNULL
<1> SUFFICES ASSUME Init PROVE IInv
  OBVIOUS
<1>1. InodeTypes
  <2>1. freelisthead \in [1..MAX_INODES -> Inodes]
    BY DEF Init, Inodes
  <2>2. freelisthead \in Seq(Inodes)
    BY <2>1
  <2> QED BY <2>2 DEF Init, InodeTypes
<1>2. AllocatorsAgree
  BY DEF Init, AllocatorsAgree, Allocated, Inodes
<1>3. InOrder /\ LastKept
  BY DEF Init, InOrder, LastKept
<1>4. Taken(0)
  BY DEF Init, Taken, Entries
<1>5. EntryTypes /\ OwnEntry
  BY DEF Init, EntryTypes, OwnEntry, DescriptorSlots, Entries
<1>6. CallTypes
  BY DEF Init, CallTypes
<1> QED BY <1>1, <1>2, <1>3, <1>4, <1>5, <1>6, Parts DEF InodesInv, EntriesInv, EntriesTaken

LEMMA NextInvariant == IInv /\ [Next]_vars => IInv' /\ Kept
<1> SUFFICES ASSUME IInv, [Next]_vars PROVE IInv' /\ Kept
  OBVIOUS
<1>1. CASE CreateOrOpen
  <2>1. PICK name \in Names, mode \in Modes :
          (createfile(name, mode) \/ openFile(name, mode)) /\ call' = <<name, mode>>
    BY <1>1 DEF CreateOrOpen
  <2> QED BY <2>1, CreateStep, OpenStep
<1>2. CASE \E name \in Names : searchfd(name) /\ call' = <<name>>
  BY <1>2, SearchStep
<1>3. CASE UNCHANGED vars
  <2>1. InodesInv /\ EntriesInv /\ CallTypes
    BY Parts
  <2>2. InodesInv'
    BY <1>3, <2>1, InodesUnchanged DEF vars, Running
  <2>3. EntriesInv' /\ Kept
    BY <1>3, <2>1, TablesUnchanged DEF vars
  <2>4. CallTypes'
    BY <1>3, <2>1 DEF vars, CallTypes
  <2> QED BY <2>2, <2>3, <2>4, PartsNext
<1> QED BY <1>1, <1>2, <1>3 DEF Next

THEOREM Invariant == Spec => []IInv
<1>1. Init => IInv
  BY Initially
<1>2. IInv /\ [Next]_vars => IInv'
  BY NextInvariant
<1> QED BY <1>1, <1>2, PTL DEF Spec

\* Every variable keeps its type, in the stopped states too: the index stays in its range
\* although its low byte is written as a flag.
THEOREM TypeCorrect == Spec => []TypeOK
<1>1. IInv => TypeOK
  BY DEF IInv
<1> QED BY <1>1, Invariant, PTL

\* The super block and the free list always speak of the same inodes.
THEOREM AllocatorsAlwaysAgree == Spec => []AllocatorsAgree
<1>1. IInv => AllocatorsAgree
  BY DEF IInv
<1> QED BY <1>1, Invariant, PTL

\* IITABLE has exactly one node of each file, and room for another.
THEOREM OneNodeOfEachFile == Spec => []OneNodePerFile
<1>1. IInv => OneNodePerFile
  <2> USE TableSizesAssumption, NoNULL
  <2> SUFFICES ASSUME IInv, Running PROVE OneNodePerFile
    BY DEF OneNodePerFile
  <2> DEFINE k == indexofnextfree
  <2>1. k \in 0..MAX_INODES-1 /\ DOMAIN IITABLE = 0..MAX_INODES-1 /\ Allocated = 1..k
    BY DEF IInv, TypeOK, AllocatorsAgree, LastKept
  <2>2. \A i \in 0..MAX_INODES-1 :
          /\ i < k => IITABLE[i] # NULL /\ IITABLE[i].number = i + 1
          /\ i >= k => IITABLE[i] = NULL
    BY <2>1 DEF IInv, InOrder, FreeNode, Node, Inodes
  <2>3. Free(IITABLE) = k..MAX_INODES-1
    BY <2>1, <2>2 DEF Free
  <2>4. {IITABLE[i].number : i \in DOMAIN IITABLE \ Free(IITABLE)} = 1..k
    <3>1. DOMAIN IITABLE \ Free(IITABLE) = 0..k-1
      BY <2>1, <2>3
    <3>2. \A i \in 0..k-1 : IITABLE[i].number = i + 1
      BY <2>1, <2>2
    <3>3. \A m \in 1..k : m - 1 \in 0..k-1 /\ IITABLE[m - 1].number = m
      BY <2>1, <3>2
    <3>4. \A i \in 0..k-1 : IITABLE[i].number \in 1..k
      BY <2>1, <3>2
    <3>5. {IITABLE[i].number : i \in 0..k-1} = 1..k
      BY <3>3, <3>4
    <3> QED BY <3>1, <3>5
  <2>5. k \in Free(IITABLE)
    BY <2>1, <2>3
  <2> QED BY <2>1, <2>2, <2>4, <2>5 DEF OneNodePerFile
<1> QED BY <1>1, Invariant, PTL

\* Descriptors never share an entry, and an entry is lost only when they have run out.
THEOREM EntriesAlwaysOwned == Spec => []EntriesOwned
<1>1. IInv => EntriesOwned
  <2> USE TableSizesAssumption, NoNULL
  <2> SUFFICES ASSUME IInv PROVE EntriesOwned
    OBVIOUS
  <2>1. PICK n \in 0..FTABLE_SIZE : Taken(n)
    BY DEF IInv, EntriesTaken
  <2>2. \A fd \in DescriptorSlots : ufdt[fd] # NULL => ufdt[fd] = fd
    BY DEF IInv, OwnEntry
  <2>3. ASSUME NEW e \in UsedEntries
        PROVE  (\E fd \in DescriptorSlots : ufdt[fd] = e) \/ Free(ufdt) = {}
    <3>1. e \in Entries /\ FTABLE[e] # NULL /\ e < n
      BY <2>1, <2>3 DEF UsedEntries, Free, IInv, TypeOK, Taken
    <3>2. CASE e <= MAX_INODES
      BY <3>1, <3>2 DEF IInv, OwnEntry, DescriptorSlots, Entries
    <3>3. CASE e > MAX_INODES
      <4>1. \A fd \in DescriptorSlots : fd \in Entries /\ fd < n
        BY <3>1, <3>3 DEF DescriptorSlots, Entries
      <4>2. \A fd \in DescriptorSlots : ufdt[fd] # NULL
        BY <2>1, <4>1 DEF IInv, OwnEntry, Taken, Entries
      <4> QED BY <4>2 DEF Free, IInv, TypeOK
    <3>4. e <= MAX_INODES \/ e > MAX_INODES
      BY <3>1 DEF Entries
    <3> QED BY <3>2, <3>3, <3>4
  <2> QED BY <2>2, <2>3 DEF EntriesOwned
<1> QED BY <1>1, Invariant, PTL

\* A descriptor leads to the same node for ever.
THEOREM DescriptorsAreKept == Spec => DescriptorsKept
<1>1. IInv /\ [Next]_vars =>
        [\A fd \in DescriptorSlots :
           ufdt[fd] # NULL => ufdt'[fd] = ufdt[fd] /\ FTABLE'[ufdt[fd]] = FTABLE[ufdt[fd]]]_vars
  BY NextInvariant DEF Kept
<1> QED BY <1>1, Invariant, PTL DEF Spec, DescriptorsKept

\* openFile returns descriptors of the node of the file's creation.
THEOREM OpenAlwaysSharesNode == Spec => OpenSharesNode
<1> DEFINE Shares(name, mode) ==
             openFile(name, mode) /\ call' = <<name, mode>> /\ ret' # -1 /\ proc' = "running" =>
               FTABLE'[ufdt'[ret']] = FreeNode(namei(name))
<1>1. ASSUME IInv, NEW name \in Names, NEW mode \in Modes
      PROVE  Shares(name, mode)
  <2> SUFFICES ASSUME openFile(name, mode), ret' # -1, proc' = "running"
               PROVE  FTABLE'[ufdt'[ret']] = FreeNode(namei(name))
    OBVIOUS
  <2>1. InodesInv /\ EntriesInv
    BY <1>1, Parts
  <2>2. OpenExisting(name, mode)
    BY DEF openFile, Refused, OpenMissing
  <2>3. Describe(FreeNode(namei(name)))
    BY <2>1, <2>2, NamedInode, PlaceOfInode DEF OpenExisting, Overrun, Running
  <2>4. FreeNode(namei(name)) \in Node
    BY <2>1, <2>2, NamedInode DEF OpenExisting, FreeNode, Node, Running
  <2> QED BY <2>1, <2>3, <2>4, DescribeStep DEF EntriesInv
<1>2. IInv /\ [Next]_vars => [\A name \in Names, mode \in Modes : Shares(name, mode)]_vars
  BY <1>1
<1> QED BY <1>2, Invariant, PTL DEF Spec, OpenSharesNode
----------------------------------------------------------------------------
\* FileTables implements FileNames: the initial states map to initial states, and every step
\* of the tables is one of FileNames or leaves what it speaks of alone.  The mapping is the
\* one of FilesSeen in FileTables.

\* Besides IInv: a name is that of one inode, and entries lead to inodes that have one.
OneName   == \A m, n \in Inodes : filename[m] # NULL /\ filename[m] = filename[n] => m = n
NamedOnly == \A e \in Entries : FTABLE[e] # NULL => FTABLE[e].number \in Allocated

\* What FileNames sees.
Files == [name \in {filename[n] : n \in Allocated} |-> Permissions[namei(name)]]
Fds   == [i \in 1..Cardinality(Visible) |-> filename[FTABLE[ufdt[i - 1]].number]]

----------------------------------------------------------------------------

\* n entries are taken: the first n descriptors are, or all there are.
Given(n) == IF n <= MAX_INODES THEN n ELSE MAX_INODES + 1

Used(u) == {fd \in DescriptorSlots : u[fd] # NULL}

LEMMA FirstDescriptors ==
  ASSUME NEW table, NEW u, NEW n \in 0..FTABLE_SIZE,
         \A e \in Entries : table[e] # NULL <=> e < n,
         \A fd \in DescriptorSlots : u[fd] = IF table[fd] = NULL THEN NULL ELSE fd
  PROVE  /\ Given(n) \in 0..MAX_INODES + 1
         /\ Used(u) = 0..Given(n) - 1 /\ Cardinality(Used(u)) = Given(n)
         /\ \A fd \in 0..Given(n) - 1 : fd \in DescriptorSlots /\ fd \in Entries /\ fd < n /\ u[fd] = fd
<1> USE TableSizesAssumption, NoNULL
<1> DEFINE k == Given(n)
<1>1. k \in 0..MAX_INODES + 1
  BY DEF Given
<1>2. \A fd \in DescriptorSlots : fd \in Entries /\ (u[fd] # NULL <=> fd < n) /\ (fd < n <=> fd < k)
  BY DEF DescriptorSlots, Entries, Given
<1>3. \A fd \in 0..k - 1 : fd \in DescriptorSlots
  BY <1>1 DEF DescriptorSlots
<1> HIDE DEF k
<1>4. Used(u) = 0..k - 1
  BY <1>1, <1>2, <1>3 DEF Used, DescriptorSlots
<1>5. Cardinality(0..k - 1) = k
  BY <1>1, FS_Interval
<1>6. \A fd \in 0..k - 1 : fd \in Entries /\ fd < n /\ u[fd] = fd
  BY <1>1, <1>2, <1>3
<1> QED BY <1>1, <1>3, <1>4, <1>5, <1>6 DEF k

\* The name of an inode leads back to it.
LEMMA NameiFinds ==
  ASSUME NEW f, NEW m \in Inodes, \A n \in Inodes : f[n] = f[m] => n = m
  PROVE  (CHOOSE n \in Inodes : f[n] = f[m]) = m
OBVIOUS

\* The names FileNames sees are those namei finds.
LEMMA SeenNames ==
  ASSUME InodesInv, NEW name \in Names
  PROVE  name \in DOMAIN Files <=> Named(name)
BY NoNULL DEF Files, Allocated, Named

LEMMA SeenSame ==
  ASSUME UNCHANGED <<filename, Permissions, FTABLE, ufdt>>
  PROVE  Files' = Files /\ Fds' = Fds
BY DEF Files, Fds, Visible, Allocated, namei

----------------------------------------------------------------------------

\* A new descriptor is one more for FileNames, or there is none left.
LEMMA DescribeSeen ==
  ASSUME EntriesInv, NamedOnly, NEW node \in Node, NEW name, Describe(node),
         filename'[node.number] = name,
         \A n \in Allocated : filename'[n] = filename[n]
  PROVE  FilesSeen!Grant(name)
<1> USE TableSizesAssumption, NoNULL
<1>1. PICK n \in 0..FTABLE_SIZE : Taken(n)
  BY DEF EntriesInv, EntriesTaken
<1>2. n \in Entries /\ FTABLE' = [FTABLE EXCEPT ![n] = node] /\ AllocateinUAREA(n)
  <2>1. Free(FTABLE) = n..FTABLE_SIZE-1 /\ FirstFree(FTABLE) = n
    BY <1>1, FirstFreePlace DEF Taken, Describe, EntriesInv, EntryTypes, Entries
  <2> QED BY <2>1 DEF Describe, Entries
<1>3. EntryTypes' /\ OwnEntry'
  BY DescribeStep DEF EntriesInv
<1>4. \A e \in Entries : FTABLE'[e] = IF e = n THEN node ELSE FTABLE[e]
  BY <1>2 DEF EntriesInv, EntryTypes
<1>5. n + 1 \in 0..FTABLE_SIZE /\ n \in Nat
  BY <1>2 DEF Entries
<1>6. \A e \in Entries : FTABLE'[e] # NULL <=> e < n + 1
  BY <1>1, <1>4, <1>5 DEF Taken, Entries
<1> DEFINE k == Given(n)  k2 == Given(n + 1)
<1>7. /\ k \in 0..MAX_INODES + 1 /\ Visible = 0..k - 1 /\ Cardinality(Visible) = k
      /\ \A fd \in 0..k - 1 : fd \in DescriptorSlots /\ fd \in Entries /\ fd < n /\ ufdt[fd] = fd
  <2>1. \A e \in Entries : FTABLE[e] # NULL <=> e < n
    BY <1>1 DEF Taken
  <2>2. \A fd \in DescriptorSlots : ufdt[fd] = IF FTABLE[fd] = NULL THEN NULL ELSE fd
    BY DEF EntriesInv, OwnEntry
  <2>3. Visible = Used(ufdt)
    BY DEF Visible, Used
  <2> QED BY ONLY <2>1, <2>2, <2>3, n \in 0..FTABLE_SIZE, FirstDescriptors
<1>8. /\ k2 \in 0..MAX_INODES + 1 /\ Cardinality(Visible') = k2
      /\ \A fd \in 0..k2 - 1 : fd \in Entries /\ ufdt'[fd] = fd
  <2>1. \A fd \in DescriptorSlots : ufdt'[fd] = IF FTABLE'[fd] = NULL THEN NULL ELSE fd
    BY <1>3 DEF OwnEntry
  <2>2. Visible' = Used(ufdt')
    BY DEF Visible, Used
  <2> QED BY ONLY <1>5, <1>6, <2>1, <2>2, FirstDescriptors
<1>9. DOMAIN Fds = 1..k /\ \A i \in 1..k : Fds[i] = filename[FTABLE[i - 1].number]
  BY <1>7 DEF Fds
<1>10. DOMAIN Fds' = 1..k2 /\ \A i \in 1..k2 : Fds'[i] = filename'[FTABLE'[i - 1].number]
  BY <1>8 DEF Fds
<1>11. \A i \in 1..k : FTABLE'[i - 1] = FTABLE[i - 1]
                       /\ filename'[FTABLE[i - 1].number] = filename[FTABLE[i - 1].number]
  <2>1. ASSUME NEW i \in 1..k
        PROVE  FTABLE'[i - 1] = FTABLE[i - 1] /\ FTABLE[i - 1].number \in Allocated
    <3>1. i - 1 \in Entries /\ i - 1 < n
      <4>1. i - 1 \in 0..k - 1
        BY <1>7
      <4> QED BY <1>7, <4>1
    <3>2. FTABLE[i - 1] # NULL /\ i - 1 # n
      BY <1>1, <3>1 DEF Taken
    <3> QED BY <1>4, <3>1, <3>2 DEF NamedOnly
  <2> QED BY <2>1
<1>12. Free(ufdt) = n..MAX_INODES /\ (Free(ufdt) # {} => FirstFree(ufdt) = n)
  <2>1. \A fd \in 0..MAX_INODES : ufdt[fd] # NULL <=> fd < n
    BY <1>1 DEF EntriesInv, OwnEntry, Taken, Entries, DescriptorSlots
  <2> QED BY <2>1, FirstFreePlace DEF EntriesInv, EntryTypes, DescriptorSlots
<1>13. Len(Fds) = k /\ Fds = [i \in 1..k |-> filename[FTABLE[i - 1].number]]
  BY <1>7, <1>9 DEF Fds
<1>14. CASE n <= MAX_INODES
  <2>1. k = n /\ k2 = n + 1 /\ ret' = n
    BY <1>2, <1>12, <1>14 DEF Given, AllocateinUAREA, Entries
  <2>2. Fds' = Append(Fds, name)
    <3>1. \A i \in 1..k : Fds'[i] = Fds[i]
      BY <1>5, <1>9, <1>10, <1>11, <2>1
    <3>2. Fds'[n + 1] = name
      BY <1>2, <1>4, <1>5, <1>10, <2>1
    <3>3. Fds' = [i \in 1..n + 1 |-> Fds'[i]]
      BY <1>10, <2>1 DEF Fds
    <3> QED BY <1>5, <1>13, <2>1, <3>1, <3>2, <3>3
  <2>3. Len(Fds) < MAX_INODES + 1 /\ ret' = Len(Fds)
    BY <1>5, <1>13, <1>14, <2>1
  <2> QED BY <2>2, <2>3 DEF FilesSeen!Grant, Fds
<1>15. CASE n > MAX_INODES
  <2>1. k = MAX_INODES + 1 /\ k2 = k /\ ret' = -1
    <3>1. Free(ufdt) = {}
      BY <1>12, <1>15
    <3> QED BY <1>2, <1>15, <3>1 DEF Given, AllocateinUAREA, Entries
  <2>2. Fds' = Fds
    BY <1>7, <1>8, <1>9, <1>10, <1>11, <2>1 DEF Fds
  <2> QED BY <1>13, <2>1, <2>2 DEF FilesSeen!Grant, Fds
<1>16. n <= MAX_INODES \/ n > MAX_INODES
  BY <1>5
<1> QED BY <1>14, <1>15, <1>16

----------------------------------------------------------------------------
\* The calls.

\* A new file: its name has not been any inode's, and its inode has had none.
LEMMA CreateNewSeen ==
  ASSUME IInv, OneName, NamedOnly, NEW name \in Names, NEW permissions \in Modes,
         CreateNew(name, permissions)
  PROVE  /\ OneName' /\ NamedOnly'
         /\ proc' = "running" => FilesSeen!Create(name, permissions)
<1> USE NoNULL
<1> DEFINE n == Head(freelisthead)
<1>1. InodesInv /\ EntriesInv /\ n \in Inodes /\ n = indexofnextfree + 1
  BY Parts, CreateNewInodes
<1>2. n \notin Allocated
  BY <1>1 DEF InodesInv, InodeTypes, AllocatorsAgree, CreateNew, Running
<1>3. /\ \A i \in Inodes : filename'[i] = IF i = n THEN name ELSE filename[i]
      /\ \A i \in Inodes : Permissions'[i] = IF i = n THEN permissions ELSE Permissions[i]
      /\ Describe(FreeNode(n)) \/ Overrun
      /\ proc = "running"
  BY <1>1 DEF CreateNew, InodesInv, InodeTypes
<1> HIDE DEF n
<1>4. \A i \in Inodes : filename[i] # name
  BY DEF CreateNew, Named
<1>5. Allocated' = Allocated \union {n} /\ Allocated \subseteq Inodes
  BY <1>1, <1>3 DEF Allocated
<1>6. FreeNode(n) \in Node /\ FreeNode(n).number = n
  BY <1>1 DEF FreeNode, Node
<1>7. OneName'
  BY <1>3, <1>4 DEF OneName
<1>8. NamedOnly'
  <2>1. \A e \in Entries : FTABLE'[e] = FTABLE[e] \/ FTABLE'[e] = FreeNode(n)
    BY <1>1, <1>3 DEF Describe, Overrun, EntriesInv, EntryTypes
  <2> QED BY <1>5, <1>6, <2>1 DEF NamedOnly
<1>9. ASSUME proc' = "running"
      PROVE  FilesSeen!Create(name, permissions)
  <2>1. Describe(FreeNode(n))
    BY <1>3, <1>9 DEF Overrun
  <2>2. FilesSeen!Grant(name)
    <3>1. filename'[FreeNode(n).number] = name
      BY <1>1, <1>3, <1>6
    <3>2. \A i \in Allocated : filename'[i] = filename[i]
      BY <1>2, <1>3, <1>5
    <3> QED BY <1>1, <1>6, <2>1, <3>1, <3>2, DescribeSeen
  <2>3. DOMAIN Files = {filename[i] : i \in Allocated} /\ name \notin DOMAIN Files
    BY <1>4, <1>5 DEF Files
  <2>4. {filename'[i] : i \in Allocated'} = DOMAIN Files \union {name}
    <3>1. \A i \in Allocated : filename'[i] = filename[i]
      BY <1>2, <1>3, <1>5
    <3>2. filename'[n] = name
      BY <1>1, <1>3
    <3> QED BY <1>5, <2>3, <3>1, <3>2
  <2>5. ASSUME NEW x \in DOMAIN Files \union {name}
        PROVE  Permissions'[namei(x)'] = IF x = name THEN permissions ELSE Files[x]
    <3>1. CASE x = name
      <4>1. \A i \in Inodes : filename'[i] = filename'[n] => i = n
        BY <1>1, <1>3, <1>4
      <4>2. (CHOOSE i \in Inodes : filename'[i] = filename'[n]) = n
        BY <1>1, <4>1, NameiFinds
      <4>3. namei(x)' = n
        BY <1>1, <1>3, <3>1, <4>2 DEF namei
      <4> QED BY <1>1, <1>3, <3>1, <4>3
    <3>2. CASE x # name
      <4>1. PICK m \in Allocated : x = filename[m]
        BY <2>3, <3>2
      <4>2. m \in Inodes /\ m # n /\ filename[m] # NULL /\ filename'[m] = x
        BY <1>2, <1>3, <1>5, <4>1 DEF Allocated
      <4>3. /\ \A i \in Inodes : filename[i] = filename[m] => i = m
            /\ \A i \in Inodes : filename'[i] = filename'[m] => i = m
        BY <1>3, <3>2, <4>1, <4>2 DEF OneName
      <4>4. /\ (CHOOSE i \in Inodes : filename[i] = filename[m]) = m
            /\ (CHOOSE i \in Inodes : filename'[i] = filename'[m]) = m
        BY <4>2, <4>3, NameiFinds
      <4>5. namei(x) = m /\ namei(x)' = m
        BY <4>1, <4>2, <4>4 DEF namei
      <4>6. Files[x] = Permissions[m]
        BY <4>1, <4>5 DEF Files
      <4> QED BY <1>3, <3>2, <4>2, <4>5, <4>6
    <3> QED BY <3>1, <3>2
  <2>6. Files' = [x \in DOMAIN Files \union {name} |->
                    IF x = name THEN permissions ELSE Files[x]]
    <3>1. Files' = [x \in DOMAIN Files \union {name} |-> Permissions'[namei(x)']]
      BY <2>4 DEF Files
    <3> QED BY <2>5, <3>1
  <2>7. proc' = proc
    BY <1>3, <1>9
  <2> QED BY <1>3, <2>2, <2>3, <2>6, <2>7 DEF FilesSeen!Create, FilesSeen!Exists, Files
<1> QED BY <1>7, <1>8, <1>9

\* A file there is already: one of its nodes gets a new entry.
LEMMA ExistingSeen ==
  ASSUME IInv, OneName, NamedOnly, NEW name \in Names, NEW mode \in Modes,
         proc = "running", Named(name), Permissions[namei(name)] = mode,
         NEW node \in Node, node.number = namei(name),
         Describe(node) \/ Overrun, UNCHANGED inodes
  PROVE  /\ OneName' /\ NamedOnly'
         /\ proc' = "running" => FilesSeen!Open(name, mode)
<1> USE NoNULL
<1>1. InodesInv /\ EntriesInv /\ UNCHANGED <<filename, Permissions>>
  BY Parts DEF inodes
<1>2. namei(name) \in Allocated /\ filename[namei(name)] = name
  BY <1>1, NamedInode DEF Allocated, Running
<1>3. OneName' /\ Allocated' = Allocated
  BY <1>1 DEF OneName, Allocated
<1>4. NamedOnly'
  <2>1. \A e \in Entries : FTABLE'[e] = FTABLE[e] \/ FTABLE'[e] = node
    BY <1>1 DEF Describe, Overrun, EntriesInv, EntryTypes
  <2> QED BY <1>2, <1>3, <2>1 DEF NamedOnly
<1>5. ASSUME proc' = "running"
      PROVE  FilesSeen!Open(name, mode)
  <2>1. Describe(node)
    BY <1>5 DEF Overrun
  <2>2. filename'[node.number] = name /\ \A i \in Allocated : filename'[i] = filename[i]
    BY <1>1, <1>2
  <2>3. FilesSeen!Grant(name)
    BY <1>1, <2>1, <2>2, DescribeSeen
  <2>4. name \in DOMAIN Files /\ Files[name] = mode
    BY <1>1, SeenNames DEF Files
  <2>5. Files' = Files
    BY <1>1 DEF Files, Allocated, namei
  <2> QED BY <1>5, <2>3, <2>4, <2>5 DEF FilesSeen!Open, FilesSeen!Exists, Files
<1> QED BY <1>3, <1>4, <1>5

\* Nothing FileNames sees of the files and descriptors changes.
LEMMA UnchangedSeen ==
  ASSUME OneName, NamedOnly, UNCHANGED <<inodes, FTABLE, ufdt>>
  PROVE  OneName' /\ NamedOnly' /\ Files' = Files /\ Fds' = Fds
<1>1. UNCHANGED <<filename, Permissions, FTABLE, ufdt>>
  BY DEF inodes
<1>2. OneName' /\ NamedOnly'
  BY <1>1 DEF OneName, NamedOnly, Allocated
<1> QED BY <1>1, <1>2, SeenSame

\* The last inode may have got the name before the process stops.
LEMMA CreateStopsSeen ==
  ASSUME IInv, OneName, NamedOnly, NEW name \in Names, NEW permissions \in Modes,
         CreateStops(name, permissions)
  PROVE  OneName' /\ NamedOnly'
<1> USE NoNULL
<1>1. \A i \in Inodes : filename[i] # name
  BY DEF CreateStops, Named
<1>2. CASE UNCHANGED inodes
  BY <1>2, UnchangedSeen DEF CreateStops
<1>3. CASE filename' = [filename EXCEPT ![Head(freelisthead)] = name]
  <2> DEFINE n == Head(freelisthead)
  <2>1. \A i \in Inodes : filename'[i] = IF i = n THEN name ELSE filename[i]
    BY <1>3 DEF IInv, TypeOK
  <2> HIDE DEF n
  <2>2. OneName'
    BY <1>1, <2>1 DEF OneName
  <2>3. Allocated \subseteq Allocated'
    BY <2>1 DEF Allocated
  <2>4. FTABLE' = FTABLE
    BY DEF CreateStops
  <2> QED BY <2>2, <2>3, <2>4 DEF NamedOnly
<1> QED BY <1>2, <1>3 DEF CreateStops

LEMMA RefusedSeen ==
  ASSUME IInv, OneName, NamedOnly, NEW name \in Names, NEW mode \in Modes, Refused(name, mode)
  PROVE  OneName' /\ NamedOnly' /\ FilesSeen!Refuse(name, mode)
<1>1. OneName' /\ NamedOnly' /\ Files' = Files /\ Fds' = Fds
  BY UnchangedSeen DEF Refused
<1>2. name \in DOMAIN Files /\ Files[name] # mode
  BY Parts, SeenNames DEF Refused, Files
<1> QED BY <1>1, <1>2 DEF Refused, FilesSeen!Refuse, FilesSeen!Exists, Files, Fds

\* searchfd finds the first descriptor there is for the file, or stops.
LEMMA SearchSeen ==
  ASSUME IInv, OneName, NamedOnly, NEW name \in Names, searchfd(name)
  PROVE  /\ OneName' /\ NamedOnly'
         /\ proc' = "running" => FilesSeen!Search(name)
<1> USE TableSizesAssumption, NoNULL
<1>1. OneName' /\ NamedOnly' /\ Files' = Files /\ Fds' = Fds
  BY UnchangedSeen DEF searchfd
<1>2. PICK n \in 0..FTABLE_SIZE : Taken(n)
  BY DEF IInv, EntriesTaken
<1> DEFINE k == Given(n)
<1>3. /\ k \in 0..MAX_INODES + 1 /\ Used(ufdt) = 0..k - 1 /\ Cardinality(Used(ufdt)) = k
      /\ \A fd \in 0..k - 1 : fd \in DescriptorSlots /\ fd \in Entries /\ fd < n /\ ufdt[fd] = fd
  <2>1. \A e \in Entries : FTABLE[e] # NULL <=> e < n
    BY <1>2 DEF Taken
  <2>2. \A fd \in DescriptorSlots : ufdt[fd] = IF FTABLE[fd] = NULL THEN NULL ELSE fd
    BY DEF IInv, OwnEntry
  <2> QED BY ONLY <2>1, <2>2, n \in 0..FTABLE_SIZE, FirstDescriptors
<1> HIDE DEF k
<1>4. Visible = Used(ufdt)
  BY DEF Visible, Used
<1>5. Len(Fds) = k /\ \A i \in 1..k : Fds[i] = filename[FTABLE[ufdt[i - 1]].number]
  BY <1>3, <1>4 DEF Fds
<1> DEFINE has(fd)   == filename[FTABLE[ufdt[fd]].number] = name
           passes(m) == \A fd \in 0..m - 1 : ufdt[fd] # NULL /\ ~has(fd)
           found     == {i \in 0..(MAX_INODES + 1) - 2 : i < Len(Fds) /\ Fds[i + 1] = name}
<1>6. \A fd \in 0..MAX_INODES : ufdt[fd] # NULL <=> fd < k
  BY <1>3 DEF Used, DescriptorSlots
<1>7. \A fd \in 0..MAX_INODES - 1 : fd \in found <=> ufdt[fd] # NULL /\ has(fd)
  <2>1. ASSUME NEW fd \in 0..MAX_INODES - 1, fd < k
        PROVE  Fds[fd + 1] = filename[FTABLE[ufdt[fd]].number]
    <3>1. fd + 1 \in 1..k /\ (fd + 1) - 1 = fd
      BY <1>3, <2>1
    <3> QED BY <1>5, <3>1
  <2> QED BY <1>3, <1>5, <1>6, <2>1
<1>8. proc' = "running" =>
        ret' = IF found = {} THEN -1 ELSE CHOOSE i \in found : \A j \in found : i <= j
  <2> SUFFICES ASSUME proc' = "running"
               PROVE  ret' = IF found = {} THEN -1
                             ELSE CHOOSE i \in found : \A j \in found : i <= j
    OBVIOUS
  <2> HIDE DEF found
  <2>1. found \subseteq 0..MAX_INODES - 1
    BY DEF found
  <2>2. CASE passes(MAX_INODES) /\ ret' = -1
    <3>1. found = {}
      BY <1>7, <2>1, <2>2
    <3> QED BY <2>2, <3>1
  <2>3. ASSUME NEW fd \in 0..MAX_INODES - 1, passes(fd), ufdt[fd] # NULL, has(fd), ret' = fd
        PROVE  ret' = IF found = {} THEN -1 ELSE CHOOSE i \in found : \A j \in found : i <= j
    <3>1. fd \in found
      BY <1>7, <2>3
    <3>2. \A j \in found : fd <= j
      <4>1. ASSUME NEW j \in found, j < fd PROVE FALSE
        <5>1. j \in 0..fd - 1 /\ j \in 0..MAX_INODES - 1
          BY <2>1, <4>1
        <5> QED BY <1>7, <2>3, <4>1, <5>1
      <4> QED BY <2>1, <4>1
    <3>3. \A i \in found : (\A j \in found : i <= j) => i = fd
      BY <2>1, <3>1, <3>2
    <3> QED BY <2>3, <3>1, <3>2, <3>3
  <2>4. \/ passes(MAX_INODES) /\ ret' = -1
        \/ \E fd \in 0..MAX_INODES - 1 : passes(fd) /\ ufdt[fd] # NULL /\ has(fd) /\ ret' = fd
    BY DEF searchfd
  <2> QED BY <2>2, <2>3, <2>4
<1>9. proc = "running"
  BY DEF searchfd
<1>10. ASSUME proc' = "running"
       PROVE  FilesSeen!Search(name)
  <2>1. UNCHANGED <<Files, Fds, proc = "running">>
    BY <1>1, <1>9, <1>10
  <2>2. ret' = IF found = {} THEN -1 ELSE CHOOSE i \in found : \A j \in found : i <= j
    BY <1>8, <1>10
  <2> QED BY <1>9, <2>1, <2>2, Zenon DEF FilesSeen!Search, Files, Fds
<1> QED BY <1>1, <1>10

----------------------------------------------------------------------------

LEMMA SeenInit == Init => OneName /\ NamedOnly /\ FilesSeen!Init
<1> SUFFICES ASSUME Init PROVE OneName /\ NamedOnly /\ FilesSeen!Init
  OBVIOUS
<1>1. OneName /\ NamedOnly /\ Allocated = {}
  BY NoNULL DEF Init, OneName, NamedOnly, Allocated
<1>2. Visible = {} /\ Cardinality(Visible) = 0
  <2>1. Visible = {}
    BY DEF Init, Visible
  <2> QED BY <2>1, FS_EmptySet
<1>3. Fds = <<>>
  BY <1>2 DEF Fds
<1>4. Files = <<>>
  <2>1. {filename[n] : n \in Allocated} = 1..0
    BY <1>1
  <2>2. Files = [name \in 1..0 |-> Permissions[namei(name)]]
    BY <2>1 DEF Files
  <2> QED BY <2>2
<1> QED BY <1>1, <1>3, <1>4 DEF Init, FilesSeen!Init, Files, Fds

LEMMA SeenStep ==
  IInv /\ OneName /\ NamedOnly /\ [Next]_vars
    => OneName' /\ NamedOnly' /\ [FilesSeen!Next]_(FilesSeen!vars)
<1> SUFFICES ASSUME IInv, OneName, NamedOnly, [Next]_vars
             PROVE  OneName' /\ NamedOnly' /\ [FilesSeen!Next]_(FilesSeen!vars)
  OBVIOUS
<1>1. proc = "running" /\ proc' # "running" => FilesSeen!Next
  BY DEF FilesSeen!Next, FilesSeen!Halt
<1>2. CASE CreateOrOpen
  <2>1. PICK name \in Names, mode \in Modes :
          (createfile(name, mode) \/ openFile(name, mode)) /\ call' = <<name, mode>>
    BY <1>2 DEF CreateOrOpen
  <2>2. proc = "running"
    BY <2>1 DEF createfile, openFile, CreateNew, CreateExisting, Refused, CreateStops,
                OpenExisting, OpenMissing
  <2>3. FilesSeen!Create(name, mode) \/ FilesSeen!Open(name, mode) \/ FilesSeen!Refuse(name, mode)
          => FilesSeen!Next
    BY <2>1 DEF FilesSeen!Next
  <2>4. CASE CreateNew(name, mode)
    BY <1>1, <2>2, <2>3, <2>4, CreateNewSeen
  <2>5. CASE CreateExisting(name, mode)
    <3>1. HashNode(namei(name)) \in Node /\ HashNode(namei(name)).number = namei(name)
      BY <2>5, Parts, NamedInode DEF CreateExisting, HashNode, Node, Running
    <3>2. OneName' /\ NamedOnly' /\ (proc' = "running" => FilesSeen!Open(name, mode))
      BY <2>5, <3>1, ExistingSeen DEF CreateExisting
    <3> QED BY <1>1, <2>2, <2>3, <3>2
  <2>6. CASE Refused(name, mode)
    BY <2>3, <2>6, RefusedSeen
  <2>7. CASE CreateStops(name, mode)
    <3>1. proc' # "running"
      BY <2>7 DEF CreateStops
    <3> QED BY <1>1, <2>2, <2>7, <3>1, CreateStopsSeen
  <2>8. CASE OpenExisting(name, mode)
    <3>1. FreeNode(namei(name)) \in Node /\ FreeNode(namei(name)).number = namei(name)
      BY <2>8, Parts, NamedInode DEF OpenExisting, FreeNode, Node, Running
    <3>2. Describe(FreeNode(namei(name))) \/ Overrun
      BY <2>8, Parts, NamedInode, PlaceOfInode DEF OpenExisting, Running
    <3>3. OneName' /\ NamedOnly' /\ (proc' = "running" => FilesSeen!Open(name, mode))
      BY <2>8, <3>1, <3>2, ExistingSeen DEF OpenExisting
    <3> QED BY <1>1, <2>2, <2>3, <3>3
  <2>9. CASE OpenMissing(name)
    BY <1>1, <2>2, <2>9, UnchangedSeen DEF OpenMissing
  <2> QED BY <2>1, <2>4, <2>5, <2>6, <2>7, <2>8, <2>9 DEF createfile, openFile
<1>3. CASE \E name \in Names : searchfd(name) /\ call' = <<name>>
  <2>1. PICK name \in Names : searchfd(name) /\ call' = <<name>>
    BY <1>3
  <2>2. OneName' /\ NamedOnly' /\ (proc' = "running" => FilesSeen!Search(name))
    BY <2>1, SearchSeen
  <2>3. FilesSeen!Search(name) => FilesSeen!Next
    BY <2>1 DEF FilesSeen!Next
  <2>4. proc = "running"
    BY <2>1 DEF searchfd
  <2> QED BY <1>1, <2>2, <2>3, <2>4
<1>4. CASE UNCHANGED vars
  <2>1. OneName' /\ NamedOnly' /\ Files' = Files /\ Fds' = Fds
    BY <1>4, UnchangedSeen DEF vars
  <2> QED BY <1>4, <2>1 DEF vars, FilesSeen!vars, Files, Fds
<1> QED BY <1>2, <1>3, <1>4 DEF Next

\* createfile, openFile and searchfd do what FileNames says: a file keeps its name and
\* permissions, and a descriptor its file, whatever inodes, nodes and tables are behind.
THEOREM TablesImplementFileNames == Spec => ImplementsFileNames
<1>1. Init => OneName /\ NamedOnly /\ FilesSeen!Init
  BY SeenInit
<1>2. IInv /\ OneName /\ NamedOnly /\ [Next]_vars
        => OneName' /\ NamedOnly' /\ [FilesSeen!Next]_(FilesSeen!vars)
  BY SeenStep
<1> QED BY <1>1, <1>2, Invariant, PTL DEF Spec, ImplementsFileNames, FilesSeen!Spec
=============================================================================

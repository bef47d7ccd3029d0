----------------------------- MODULE FileTables -----------------------------
(***************************************************************************)
(* The in-core inodes (hashqueue.c), the inode part of the super block and *)
(* the three tables of syscalls.c, under createfile and openFile.          *)
(*                                                                         *)
(* Every inode number has TWO nodes, made by CreateHashQueue: one in a     *)
(* hash queue, found by name (namei), and one in the free list, given out  *)
(* by ialloc.  They carry the name and the permissions twice, and          *)
(* everything else of a file separately.                                   *)
(*                                                                         *)
(*   descriptor  --ufdt-->  entry of FTABLE  --ptrtoinode-->  node         *)
(*   IITABLE: the nodes in use, by first use                               *)
(*                                                                         *)
(* Left out: what is only displayed (FTABLE's mode), the device number,    *)
(* and which of the hash queues holds a node: every number is in one, none *)
(* is ever removed, and namei searches them all.                           *)
(***************************************************************************)
EXTENDS Integers, Sequences, FiniteSets

CONSTANTS
  MAX_INODES,
  FTABLE_SIZE,   \* MAX_INODES*5
  Names,         \* file names
  Modes,         \* permissions
  NULL

ASSUME TableSizesAssumption ==
  /\ MAX_INODES \in Nat /\ MAX_INODES > 1
  /\ FTABLE_SIZE \in Nat /\ FTABLE_SIZE > MAX_INODES + 1

VARIABLES
  filename,         \* the name in both nodes of each inode, NULL before createfile
  Permissions,
  freelisthead,     \* the numbers of the free list's nodes
  free_inodes,      \* sobj.free_inodes
  indexofnextfree,  \* sobj.indexofnextfree
  freeinodescount,  \* sobj.freeinodescount
  IITABLE,
  FTABLE,           \* ptrtoinode of each entry
  ufdt,             \* ufdt.ptrtofiletable, as indexes of FTABLE
  call,             \* what the last call was given: a name, and permissions
  ret,              \* what it returned
  proc

superblock == <<free_inodes, indexofnextfree, freeinodescount>>
inodes     == <<filename, Permissions, freelisthead, superblock>>
vars       == <<inodes, IITABLE, FTABLE, ufdt, call, ret, proc>>

Inodes  == 1..MAX_INODES
Node    == [list : {"hash", "free"}, number : Inodes]
Entries == 0..FTABLE_SIZE-1

\* One more than the array has: the scan for a NULL does not stop at its end, and the
\* eight bytes behind it, ufdt.offset, are 0.  What follows them is not free.
DescriptorSlots == 0..MAX_INODES

ASSUME NoNULL == NULL \notin Nat \union Names \union Modes \union Node

----------------------------------------------------------------------------

Free(table) == {i \in DOMAIN table : table[i] = NULL}
FirstFree(table) == CHOOSE i \in Free(table) : \A j \in Free(table) : i <= j

HashNode(n) == [list |-> "hash", number |-> n]
FreeNode(n) == [list |-> "free", number |-> n]

\* namei: the hash queue node with that name.  A node nobody has named yet has the
\* bytes malloc left in its filename: no name that is asked for.
Named(name) == \E n \in Inodes : filename[n] = name
namei(name) == CHOOSE n \in Inodes : filename[n] = name

\* Mutant: the walk of the table does not compare inode numbers.
PutWithoutSearch(node, table) == FirstFree(table)

\* The index PutInodeinIITABLE(node) returns, and (WithInode) the table it leaves.
PutInodeinIITABLE(node, table) ==
  LET stop == {i \in DOMAIN table : table[i] = NULL \/ table[i].number = node.number}
  IN  CHOOSE i \in stop : \A j \in stop : i <= j

WithInode(node, table) ==
  LET i == PutInodeinIITABLE(node, table)
  IN  IF table[i] = NULL THEN [table EXCEPT ![i] = node] ELSE table

\* Mutant: the scan of the descriptors starts over when none is NULL.
UAREAStartsOver(e) ==
  LET fd == IF Free(ufdt) = {} THEN 0 ELSE FirstFree(ufdt)
  IN  ufdt' = [ufdt EXCEPT ![fd] = e] /\ ret' = fd

\* Mutant: the scan goes on past ufdt.offset.
UAREAGoesOn(e) ==
  LET fd == IF Free(ufdt) = {} THEN MAX_INODES + 1 ELSE FirstFree(ufdt)
  IN  /\ ufdt' = [i \in DescriptorSlots \union {fd} |-> IF i = fd THEN e ELSE ufdt[i]]
      /\ ret' = fd

AllocateinUAREA(e) ==
  \/ /\ Free(ufdt) # {}
     /\ ufdt' = [ufdt EXCEPT ![FirstFree(ufdt)] = e]
     /\ ret' = FirstFree(ufdt)
  \/ /\ Free(ufdt) = {}
     /\ ret' = -1
     /\ UNCHANGED ufdt

\* Mutant: one entry per inode, shared by its descriptors.
ShareEntry(node) ==
  LET same == {e \in Entries : FTABLE[e] = node}
      e    == IF same = {} THEN FirstFree(FTABLE) ELSE CHOOSE x \in same : TRUE
  IN  /\ Free(FTABLE) # {}
      /\ FTABLE' = [FTABLE EXCEPT ![e] = node]
      /\ AllocateinUAREA(e)
      /\ UNCHANGED proc

\* AllocateinFILETABLE, then AllocateinUAREA: the new entry points to node.  The
\* entry is taken even when there is no descriptor left for it.
Describe(node) ==
  /\ Free(FTABLE) # {}
  /\ FTABLE' = [FTABLE EXCEPT ![FirstFree(FTABLE)] = node]
  /\ AllocateinUAREA(FirstFree(FTABLE))
  /\ UNCHANGED proc

\* With FTABLE full, the entry behind it is written (the test is iCnt >
\* MAX_INODES*5): nothing is said of the process from there on.
Overrun ==
  /\ Free(FTABLE) = {}
  /\ proc' = "overrun"
  /\ UNCHANGED <<FTABLE, ufdt, ret>>

----------------------------------------------------------------------------
\* InitialiseSuperBlock, InitialiseIITABLE, InitialiseUAREA, InitialiseFileTable and
\* CreateHashQueue, as main calls them.

Init ==
  /\ filename = [n \in Inodes |-> NULL]
  /\ Permissions = [n \in Inodes |-> NULL]
  /\ freelisthead = [i \in Inodes |-> i]
  /\ free_inodes = [i \in 0..MAX_INODES-1 |-> TRUE]
  /\ indexofnextfree = 0
  /\ freeinodescount = MAX_INODES
  /\ IITABLE = [i \in 0..MAX_INODES-1 |-> NULL]
  /\ FTABLE = [e \in Entries |-> NULL]
  /\ ufdt = [fd \in DescriptorSlots |-> NULL]
  /\ call = <<>>
  /\ ret = -1
  /\ proc = "running"

----------------------------------------------------------------------------
\* createfile(name, permissions).

freeindex == indexofnextfree + 1

\* Mutant: DeleteLastFree for DeleteFirstFree.
igetLast ==
  /\ freelisthead' = SubSeq(freelisthead, 1, Len(freelisthead) - 1)
  /\ free_inodes' = [free_inodes EXCEPT ![freeindex] = FALSE]
  /\ indexofnextfree' = indexofnextfree + 1
  /\ freeinodescount' = freeinodescount - 1

\* What ialloc and iget do to the super block and the free list.  iget checks the
\* number it was given, and takes whatever node is first in the free list.
iget ==
  /\ freelisthead' = Tail(freelisthead)
  /\ free_inodes' = [free_inodes EXCEPT ![freeindex] = FALSE]
  /\ indexofnextfree' = indexofnextfree + 1
  /\ freeinodescount' = freeinodescount - 1

\* A new file: name and permissions go to both nodes, the descriptor to the free
\* list's.
CreateNew(name, permissions) ==
  /\ proc = "running"
  /\ ~Named(name)
  /\ freeindex < MAX_INODES /\ free_inodes[freeindex]
  /\ LET n == Head(freelisthead)
     IN  /\ filename' = [filename EXCEPT ![n] = name]
         /\ Permissions' = [Permissions EXCEPT ![n] = permissions]
         /\ IITABLE' = WithInode(FreeNode(n), IITABLE)
         /\ Describe(FreeNode(n)) \/ Overrun
  /\ iget

\* free_inodes[MAX_INODES], the byte behind the array, is the low byte of indexofnextfree.
FlagBehind == indexofnextfree % 256

\* The last inode.  With a false flag iget loops for ever.  With a true one it takes the
\* node, stores the false flag in indexofnextfree, and the hash queue's node gets its
\* name; the free list is empty then, and DisplayFreeList reads through its NULL First.
\* Any byte but 0 and 1 may be read as either value.
CreateStops(name, permissions) ==
  /\ proc = "running"
  /\ ~Named(name)
  /\ ~(freeindex < MAX_INODES /\ free_inodes[freeindex])
  /\ \/ /\ freeindex = MAX_INODES => FlagBehind # 1
        /\ proc' = "spinning"
        /\ UNCHANGED inodes
     \/ /\ freeindex = MAX_INODES /\ FlagBehind # 0
        /\ proc' = "crashed"
        /\ freelisthead' = Tail(freelisthead)
        /\ indexofnextfree' = indexofnextfree - FlagBehind + 1
        /\ freeinodescount' = freeinodescount - 1
        /\ filename' = [filename EXCEPT ![Head(freelisthead)] = name]
        /\ Permissions' = [Permissions EXCEPT ![Head(freelisthead)] = permissions]
        /\ UNCHANGED free_inodes
  /\ UNCHANGED <<IITABLE, FTABLE, ufdt, ret>>

\* Mutant: without FTABLE[iCnt].ptrtoinode=temp (syscalls.c:135), the entry keeps what
\* AllocateinFILETABLE(0, permissions) put there.
CreateExistingFirst(name, permissions) ==
  /\ proc = "running"
  /\ Named(name)
  /\ Permissions[namei(name)] = permissions
  /\ Describe(IITABLE[0]) \/ Overrun
  /\ UNCHANGED <<inodes, IITABLE>>

\* A file of that name exists: the permissions must be the same, and the descriptor
\* gets the node namei has found, the hash queue's.
CreateExisting(name, permissions) ==
  /\ proc = "running"
  /\ Named(name)
  /\ Permissions[namei(name)] = permissions
  /\ Describe(HashNode(namei(name))) \/ Overrun
  /\ UNCHANGED <<inodes, IITABLE>>

\* createfile and openFile both return -1 when the permissions differ.
Refused(name, mode) ==
  /\ proc = "running"
  /\ Named(name)
  /\ Permissions[namei(name)] # mode
  /\ ret' = -1
  /\ UNCHANGED <<inodes, IITABLE, FTABLE, ufdt, proc>>

createfile(name, permissions) ==
  \/ CreateNew(name, permissions)
  \/ CreateExisting(name, permissions)
  \/ Refused(name, permissions)
  \/ CreateStops(name, permissions)

----------------------------------------------------------------------------
\* openFile(name, mode).

\* There is no such file: temp->inode_number is read before temp is compared with NULL.
OpenMissing(name) ==
  /\ proc = "running"
  /\ ~Named(name)
  /\ proc' = "crashed"
  /\ UNCHANGED <<inodes, IITABLE, FTABLE, ufdt, ret>>

\* Mutant: the entry gets the node of namei, as in createfile.
OpenHashNode(name, mode) ==
  /\ proc = "running"
  /\ Named(name)
  /\ Permissions[namei(name)] = mode
  /\ IITABLE' = WithInode(HashNode(namei(name)), IITABLE)
  /\ Describe(HashNode(namei(name))) \/ Overrun
  /\ UNCHANGED inodes

\* The node of namei is looked for, by number, in IITABLE; the descriptor gets the
\* node that is there.
OpenExisting(name, mode) ==
  /\ proc = "running"
  /\ Named(name)
  /\ Permissions[namei(name)] = mode
  /\ LET node == HashNode(namei(name))
     IN  /\ IITABLE' = WithInode(node, IITABLE)
         /\ Describe(IITABLE'[PutInodeinIITABLE(node, IITABLE)]) \/ Overrun
  /\ UNCHANGED inodes

openFile(name, mode) ==
  \/ OpenExisting(name, mode)
  \/ Refused(name, mode)
  \/ OpenMissing(name)

----------------------------------------------------------------------------
\* searchfd(name): the first descriptor of the file.  With none the scan reads through
\* the first NULL, which it tests for afterwards, and returns -1 only if there is none.
searchfd(name) ==
  LET has(fd)   == filename[FTABLE[ufdt[fd]].number] = name
      passes(n) == \A fd \in 0..n-1 : ufdt[fd] # NULL /\ ~has(fd)
  IN  /\ proc = "running"
      /\ \/ passes(MAX_INODES) /\ ret' = -1 /\ UNCHANGED proc
         \/ \E fd \in 0..MAX_INODES-1 :
              /\ passes(fd)
              /\ \/ ufdt[fd] = NULL /\ proc' = "crashed" /\ UNCHANGED ret
                 \/ ufdt[fd] # NULL /\ has(fd) /\ ret' = fd /\ UNCHANGED proc
      /\ UNCHANGED <<inodes, IITABLE, FTABLE, ufdt>>

----------------------------------------------------------------------------

CreateOrOpen ==
  \E name \in Names, mode \in Modes :
    /\ createfile(name, mode) \/ openFile(name, mode)
    /\ call' = <<name, mode>>

Next ==
  \/ CreateOrOpen
  \/ \E name \in Names : searchfd(name) /\ call' = <<name>>

Spec == Init /\ [][Next]_vars

----------------------------------------------------------------------------
\* Properties.

Running == proc = "running"
Allocated == {n \in Inodes : filename[n] # NULL}
UsedEntries == Entries \ Free(FTABLE)

\* Every variable keeps its type, but for the one descriptor in ufdt.offset.  What is
\* written behind FTABLE is not of any variable here: Overrun ends in a proc of its own.
TypeOK ==
  /\ filename \in [Inodes -> Names \union {NULL}]
  /\ Permissions \in [Inodes -> Modes \union {NULL}]
  /\ freelisthead \in Seq(Inodes)
  /\ free_inodes \in [0..MAX_INODES-1 -> BOOLEAN]
  /\ indexofnextfree \in 0..MAX_INODES
  /\ freeinodescount \in 0..MAX_INODES
  /\ IITABLE \in [0..MAX_INODES-1 -> Node \union {NULL}]
  /\ FTABLE \in [Entries -> Node \union {NULL}]
  /\ ufdt \in [DescriptorSlots -> Entries \union {NULL}]
  /\ call \in {<<>>} \union {<<name>> : name \in Names} \union (Names \X Modes)
  /\ ret \in {-1} \union DescriptorSlots
  /\ proc \in {"running", "spinning", "crashed", "overrun"}

\* iget finds its number by one rule and its node by another (hashqueue.c:102-109):
\* the super block's index, count and flags, and the order of the free list, always
\* speak of the same inodes, those that have a name.  That ends with the call for the
\* last inode, which returns to nobody.
AllocatorsAgree ==
  Running =>
    /\ Allocated = 1..indexofnextfree
    /\ freeinodescount = MAX_INODES - indexofnextfree
    /\ freelisthead = [i \in 1..freeinodescount |-> indexofnextfree + i]
    /\ \A i \in 0..MAX_INODES-1 : free_inodes[i] <=> i = 0 \/ i > indexofnextfree

\* IITABLE has exactly one node of each file, so that it has always room: neither
\* createfile nor openFile writes behind it, whatever is opened how often.
OneNodePerFile ==
  Running =>
    /\ \A i, j \in DOMAIN IITABLE :
         IITABLE[i] # NULL /\ IITABLE[j] # NULL /\ IITABLE[i].number = IITABLE[j].number
           => i = j
    /\ {IITABLE[i].number : i \in DOMAIN IITABLE \ Free(IITABLE)} = Allocated
    /\ Free(IITABLE) # {}

\* Descriptors never share an entry of FTABLE, which holds their offsets; and an entry
\* that no descriptor leads to is there only after the descriptors ran out.
EntriesOwned ==
  /\ \A fd1, fd2 \in DescriptorSlots : ufdt[fd1] = ufdt[fd2] /\ ufdt[fd1] # NULL => fd1 = fd2
  /\ \A e \in UsedEntries : (\E fd \in DescriptorSlots : ufdt[fd] = e) \/ Free(ufdt) = {}

\* A descriptor, once returned, leads to the same node for ever, whatever is created
\* or opened later.
DescriptorsKept ==
  [][\A fd \in DescriptorSlots :
       ufdt[fd] # NULL => ufdt'[fd] = ufdt[fd] /\ FTABLE'[ufdt[fd]] = FTABLE[ufdt[fd]]]_vars

\* All descriptors openFile returns for a file lead to the node of its creation: what
\* is written through one can be seen through the others.
OpenSharesNode ==
  [][\A name \in Names, mode \in Modes :
       openFile(name, mode) /\ call' = <<name, mode>> /\ ret' # -1 /\ proc' = "running" =>
         FTABLE'[ufdt'[ret']] = FreeNode(namei(name))]_vars

\* The tables implement FileNames: the file of a descriptor is the one whose name was
\* given, a name and its permissions stay, and a call with other permissions gets -1.
Visible == {fd \in DescriptorSlots : ufdt[fd] # NULL}
FilesSeen == INSTANCE FileNames WITH
  Descriptors <- MAX_INODES + 1,
  files       <- [name \in {filename[n] : n \in Allocated} |-> Permissions[namei(name)]],
  fds         <- [i \in 1..Cardinality(Visible) |-> filename[FTABLE[ufdt[i - 1]].number]],
  up          <- proc = "running"
ImplementsFileNames == FilesSeen!Spec

\* hashqueue.c:138, "inodes are from 1 to 100 in Hashqueue and SB madhe 0 to 99, so to
\* match them we add 1": flag n-1 of the super block is the one of inode n.  iget uses
\* flag n, so this does not hold.
FlagMatchesInode ==
  \A n \in Inodes : free_inodes[n - 1] <=> n \notin Allocated

\* syscalls.c:205, "if(temp==NULL || temp->Permissions!=mode){ return -1; }": opening
\* a name that no file has returns -1.  temp is used two lines earlier, so this does
\* not hold.
OpenMissingRefused ==
  [][\A name \in Names, mode \in Modes :
       openFile(name, mode) /\ ~Named(name) => ret' = -1 /\ proc' = "running"]_vars
=============================================================================

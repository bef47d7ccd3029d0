----------------------------- MODULE MainProofs -----------------------------
(***************************************************************************)
(* Proofs about Main, for tables, a cache, a disk and blocks of any sizes: *)
(* the calls of its script give five descriptors for three files, and what *)
(* is typed is stored in the second of them.                               *)
(*                                                                         *)
(* A step of main is one of FileSystem, or stops the process, so that the  *)
(* invariant of FileSystemProofs holds here.                               *)
(***************************************************************************)
EXTENDS Main, FileSystemProofs

----------------------------------------------------------------------------
\* The tables after the first c calls of the script: created are the first of the three
\* files, or all, and the descriptor of every call is the next one.

NameOf == <<"penguin", "python", "cloud">>
ModeOf == <<"0644", "0777", "0444">>
FileOf == <<1, 2, 3, 1, 2>>     \* of each call
ToOf   == <<1, 4, 5, 2, 3>>

Made(c) == IF c < 3 THEN c ELSE 3
CreatedNode(n) == Tables!FreeNode(n)

InodesAfter(c) ==
  /\ indexofnextfree = Made(c)
  /\ free_inodes \in [Slots -> BOOLEAN] /\ \A i \in Slots : i > Made(c) => free_inodes[i]
  /\ freelisthead \in Seq(Tables!Inodes) /\ Len(freelisthead) = MAX_INODES - Made(c)
  /\ \A i \in 1..Len(freelisthead) : freelisthead[i] = Made(c) + i
  /\ filename \in [Tables!Inodes -> Names \union {NULL}]
  /\ \A n \in Tables!Inodes : filename[n] = IF n <= Made(c) THEN NameOf[n] ELSE NULL
  /\ Permissions \in [Tables!Inodes -> Modes \union {NULL}]
  /\ \A n \in 1..Made(c) : Permissions[n] = ModeOf[n]
  /\ IITABLE = [i \in Slots |-> IF i < Made(c) THEN CreatedNode(i + 1) ELSE NULL]

EntriesAfter(c) ==
  /\ FTABLE = [e \in Entries |-> IF e < c THEN CreatedNode(FileOf[e + 1]) ELSE NULL]
  /\ ufdt = [d \in Tables!DescriptorSlots |-> IF d < c THEN d ELSE NULL]

\* What the calls returned.
Results(c) == fd \in [1..5 -> Nat] /\ \A j \in 1..c : fd[ToOf[j]] = j - 1

\* All of this stays when the script is over, but for the inodes and the offset.
Opened ==
  /\ \A e \in 0..4 : FTABLE[e] = CreatedNode(FileOf[e + 1]) /\ ufdt[e] = e
  /\ Results(5)

OnlyInSecond(s) == \A n \in Node : Contents(n) = IF n = CreatedNode(2) THEN s ELSE <<>>

\* Until main begins to read: what has been written so far is stored.
StoredInv ==
  /\ arr \in Strings
  /\ \/ ~Writing /\ OnlyInSecond(arr)
     \/ ~Running /\ Writing
     \/ Running /\ Writing /\ act.node = CreatedNode(2) /\ act.string = arr
        /\ OnlyInSecond(SubSeq(arr, 1, act.iCnt))

MainInv ==
  /\ line \in 1..ReadLine+1
  /\ line < WriteLine => Running
  /\ line <= WriteLine =>
       /\ act = Idle /\ \A n \in Node : FileSize[n] = 0
       /\ InodesAfter(line - 1) /\ EntriesAfter(line - 1) /\ Results(line - 1)
  /\ line > WriteLine => Opened /\ StoredInv
  /\ line > ReadLine => ~Writing

----------------------------------------------------------------------------
\* The script.

LEMMA ScriptCalls ==
  ASSUME NEW c \in 0..4
  PROVE  /\ c + 1 \in DOMAIN Script /\ Script[c + 1].tested \subseteq 1..5
         /\ Script[c + 1].to = ToOf[c + 1] /\ ToOf[c + 1] \in 1..5
         /\ FileOf[c + 1] \in 1..3
         /\ Script[c + 1].name = NameOf[FileOf[c + 1]]
         /\ Script[c + 1].mode = ModeOf[FileOf[c + 1]]
         /\ Script[c + 1].call = IF c < 3 THEN "create" ELSE "open"
         /\ c < 3 => FileOf[c + 1] = c + 1
         /\ \A j \in 1..c : ToOf[j] # ToOf[c + 1]
<1>1. CASE c = 0
  BY <1>1 DEF Script, ToOf, FileOf, NameOf, ModeOf
<1>2. CASE c = 1
  BY <1>2 DEF Script, ToOf, FileOf, NameOf, ModeOf
<1>3. CASE c = 2
  BY <1>3 DEF Script, ToOf, FileOf, NameOf, ModeOf
<1>4. CASE c = 3
  BY <1>4 DEF Script, ToOf, FileOf, NameOf, ModeOf
<1>5. CASE c = 4
  BY <1>5 DEF Script, ToOf, FileOf, NameOf, ModeOf
<1> QED BY <1>1, <1>2, <1>3, <1>4, <1>5

LEMMA ThreeNames ==
  /\ \A n \in 1..3 : NameOf[n] \in Names /\ ModeOf[n] \in Modes
  /\ \A m, n \in 1..3 : NameOf[m] = NameOf[n] => m = n
  /\ NULL \notin Names /\ NULL \notin Node /\ NULL \notin Nat
<1>1. NameOf[1] = "penguin" /\ NameOf[2] = "python" /\ NameOf[3] = "cloud"
  BY DEF NameOf
<1>2. ModeOf[1] = "0644" /\ ModeOf[2] = "0777" /\ ModeOf[3] = "0444"
  BY DEF ModeOf
<1>3. \A n \in 1..3 : n = 1 \/ n = 2 \/ n = 3
  OBVIOUS
<1>4. \A n \in 1..3 : NameOf[n] \in Names /\ ModeOf[n] \in Modes
  BY <1>1, <1>2, <1>3, MainAssumption
<1>5. \A m, n \in 1..3 : NameOf[m] = NameOf[n] => m = n
  BY <1>1, <1>3
<1> QED BY <1>4, <1>5, PointersAssumption

LEMMA MainSizes ==
  /\ MAX_INODES \in Nat /\ MAX_INODES > 4 /\ FTABLE_SIZE \in Nat /\ FTABLE_SIZE > MAX_INODES
  /\ 0..4 \subseteq Slots /\ 0..4 \subseteq Entries /\ 0..4 \subseteq Tables!DescriptorSlots
  /\ \A n \in 1..3 : n \in Tables!Inodes /\ CreatedNode(n) \in Node /\ CreatedNode(n).number = n
  /\ \A m, n \in 1..3 : CreatedNode(m) = CreatedNode(n) => m = n
<1>1. MAX_INODES \in Nat /\ MAX_INODES > 4 /\ FTABLE_SIZE \in Nat /\ FTABLE_SIZE > MAX_INODES
  BY MainAssumption, SizesAssumption
<1>2. 0..4 \subseteq Slots /\ 0..4 \subseteq Entries /\ 0..4 \subseteq Tables!DescriptorSlots
  BY <1>1 DEF Slots, Entries, Tables!Entries, Tables!DescriptorSlots
<1>3. \A n \in 1..3 : n \in Tables!Inodes
  BY <1>1 DEF Tables!Inodes
<1>4. \A n \in 1..3 : CreatedNode(n) \in Node /\ CreatedNode(n).number = n
  BY <1>3 DEF CreatedNode, Tables!FreeNode, Node, Tables!Node
<1> QED BY <1>1, <1>2, <1>3, <1>4

\* A table that is full up to c, and empty from there.
LEMMA FirstFreeIs ==
  ASSUME NEW hi \in Nat, NEW c \in 0..hi, NEW t, DOMAIN t = 0..hi,
         \A i \in 0..hi : t[i] = NULL <=> i >= c
  PROVE  Tables!Free(t) # {} /\ Tables!FirstFree(t) = c
<1> DEFINE T == Tables!Free(t)
           p == CHOOSE i \in T : \A j \in T : i <= j
<1>1. T = c..hi
  BY DEF Tables!Free
<1>2. c \in T /\ T \in SUBSET Nat
  BY <1>1
<1>3. p \in T /\ \A j \in T : p <= j
  <2> HIDE DEF T
  <2> QED BY <1>2, FirstChosen
<1>4. p = Tables!FirstFree(t)
  BY DEF Tables!FirstFree
<1> HIDE DEF p
<1>5. p = c
  BY <1>1, <1>2, <1>3
<1> QED BY <1>2, <1>4, <1>5

\* The entry and the descriptor of call c + 1 are the next ones.
LEMMA NextEntry ==
  ASSUME NEW c \in 0..4, EntriesAfter(c)
  PROVE  /\ Tables!Free(FTABLE) # {} /\ Tables!FirstFree(FTABLE) = c
         /\ Tables!Free(ufdt) # {} /\ Tables!FirstFree(ufdt) = c
<1>1. /\ c \in Entries /\ c \in Tables!DescriptorSlots /\ NULL \notin Nat /\ NULL \notin Node
      /\ FTABLE_SIZE - 1 \in Nat /\ MAX_INODES \in Nat
      /\ Entries = 0..FTABLE_SIZE-1 /\ Tables!DescriptorSlots = 0..MAX_INODES
  BY MainSizes, ThreeNames DEF Entries, Tables!Entries, Tables!DescriptorSlots
<1>2. \A e \in 0..c-1 : CreatedNode(FileOf[e + 1]) \in Node
  BY ScriptCalls, MainSizes
<1>3. \A e \in Entries : FTABLE[e] = NULL <=> e >= c
  BY <1>1, <1>2 DEF EntriesAfter
<1>4. \A d \in Tables!DescriptorSlots : ufdt[d] = NULL <=> d >= c
  BY <1>1 DEF EntriesAfter
<1>5. DOMAIN FTABLE = Entries /\ DOMAIN ufdt = Tables!DescriptorSlots
  BY DEF EntriesAfter
<1>6. Tables!Free(FTABLE) # {} /\ Tables!FirstFree(FTABLE) = c
  <2>1. FTABLE_SIZE - 1 \in Nat /\ c \in 0..FTABLE_SIZE-1 /\ DOMAIN FTABLE = 0..FTABLE_SIZE-1
    BY <1>1, <1>5
  <2>2. \A e \in 0..FTABLE_SIZE-1 : FTABLE[e] = NULL <=> e >= c
    BY <1>1, <1>3
  <2> QED BY <2>1, <2>2, FirstFreeIs
<1>7. Tables!Free(ufdt) # {} /\ Tables!FirstFree(ufdt) = c
  <2>1. MAX_INODES \in Nat /\ c \in 0..MAX_INODES /\ DOMAIN ufdt = 0..MAX_INODES
    BY <1>1, <1>5
  <2>2. \A d \in 0..MAX_INODES : ufdt[d] = NULL <=> d >= c
    BY <1>1, <1>4
  <2> QED BY <2>1, <2>2, FirstFreeIs
<1> QED BY <1>6, <1>7

LEMMA DescribesNext ==
  ASSUME NEW c \in 0..4, EntriesAfter(c), NEW m, m = CreatedNode(FileOf[c + 1]),
         Tables!Describe(m) \/ Tables!Overrun
  PROVE  EntriesAfter(c + 1)' /\ ret' = c /\ UNCHANGED proc
<1>1. /\ Tables!Free(FTABLE) # {} /\ Tables!FirstFree(FTABLE) = c
      /\ Tables!Free(ufdt) # {} /\ Tables!FirstFree(ufdt) = c
  BY NextEntry
<1>2. /\ FTABLE' = [FTABLE EXCEPT ![c] = m] /\ ufdt' = [ufdt EXCEPT ![c] = c]
      /\ ret' = c /\ UNCHANGED proc
  BY <1>1 DEF Tables!Describe, Tables!AllocateinUAREA, Tables!Overrun
<1>3. c \in Entries /\ c \in Tables!DescriptorSlots
  BY MainSizes
<1>4. \A i \in Entries \union Tables!DescriptorSlots : i < c + 1 <=> i < c \/ i = c
  BY DEF Entries, Tables!Entries, Tables!DescriptorSlots
<1>5. FTABLE' = [e \in Entries |-> IF e < c + 1 THEN CreatedNode(FileOf[e + 1]) ELSE NULL]
  BY <1>2, <1>3, <1>4 DEF EntriesAfter
<1>6. ufdt' = [d \in Tables!DescriptorSlots |-> IF d < c + 1 THEN d ELSE NULL]
  BY <1>2, <1>3, <1>4 DEF EntriesAfter
<1> QED BY <1>2, <1>5, <1>6 DEF EntriesAfter

\* The inode of the file is in IITABLE at its place, or that place is the first free one.
LEMMA PlaceInTable ==
  ASSUME NEW c \in 0..5, InodesAfter(c), NEW n \in 1..3, n <= Made(c) + 1,
         NEW m \in Node, m.number = n
  PROVE  /\ Tables!PutInodeinIITABLE(m, IITABLE) = n - 1 /\ n - 1 \in Slots
         /\ IITABLE \in [Slots -> Node \union {NULL}]
<1> DEFINE i == Tables!PutInodeinIITABLE(m, IITABLE)
<1>1. /\ Made(c) \in 0..3 /\ n - 1 \in 0..4 /\ n - 1 \in Slots /\ NULL \notin Node
      /\ \A x \in Slots : x \in Nat
  BY MainSizes, ThreeNames DEF Made, Slots
<1>2. \A x \in Slots : x < Made(c) => x + 1 \in 1..3
  BY <1>1
<1>3. /\ DOMAIN IITABLE = Slots
      /\ \A x \in Slots : IITABLE[x] = IF x < Made(c) THEN CreatedNode(x + 1) ELSE NULL
  BY DEF InodesAfter
<1>4. \A x \in Slots : /\ x < Made(c) => IITABLE[x] \in Node /\ IITABLE[x].number = x + 1
                       /\ x >= Made(c) => IITABLE[x] = NULL
  BY <1>1, <1>2, <1>3, MainSizes
<1>5. IITABLE \in [Slots -> Node \union {NULL}]
  <2>1. IITABLE = [x \in Slots |-> IITABLE[x]]
    BY DEF InodesAfter
  <2>2. \A x \in Slots : IITABLE[x] \in Node \union {NULL}
    BY <1>1, <1>4
  <2> QED BY <2>1, <2>2
<1>6. IITABLE[n - 1] = NULL \/ IITABLE[n - 1].number = m.number
  BY <1>1, <1>4
<1>7. /\ i \in Slots /\ i <= n - 1
      /\ IITABLE[i] = NULL \/ IITABLE[i].number = m.number
  BY <1>1, <1>5, <1>6, PutIsFirst
<1> HIDE DEF i
<1>8. i = n - 1
  BY <1>1, <1>4, <1>7
<1> QED BY <1>1, <1>5, <1>8 DEF i

\* createfile of one of the first three names: the next inode, for a name that no file has.
LEMMA CreatesNext ==
  ASSUME NEW c \in 0..2, InodesAfter(c), EntriesAfter(c),
         Tables!createfile(NameOf[c + 1], ModeOf[c + 1])
  PROVE  InodesAfter(c + 1)' /\ EntriesAfter(c + 1)' /\ ret' = c /\ UNCHANGED proc
<1> DEFINE n    == c + 1
           m    == CreatedNode(n)
           name == NameOf[n]
           mode == ModeOf[n]
<1>1. /\ n \in 1..3 /\ n \in Tables!Inodes /\ m \in Node /\ m.number = n
      /\ n < MAX_INODES /\ n \in Slots /\ c \in Slots /\ MAX_INODES \in Nat /\ MAX_INODES > 4
      /\ name \in Names /\ mode \in Modes /\ NULL \notin Names
      /\ Made(c) = c /\ Made(c + 1) = n /\ FileOf[n] = n /\ c \in 0..4
  BY MainSizes, ThreeNames, ScriptCalls DEF Made, Slots
<1>2. ~Tables!Named(name)
  <2> SUFFICES ASSUME NEW x \in Tables!Inodes, filename[x] = name PROVE FALSE
    BY DEF Tables!Named
  <2>1. x <= c /\ filename[x] = NameOf[x]
    BY <1>1 DEF InodesAfter
  <2>2. x \in 1..3
    BY <2>1 DEF Tables!Inodes
  <2>3. NameOf[x] = NameOf[n]
    BY <2>1
  <2>4. x = n
    BY <1>1, <2>2, <2>3, ThreeNames
  <2> QED BY <2>1, <2>4
<1>3. Tables!freeindex = n /\ free_inodes[n]
  BY <1>1 DEF InodesAfter, Tables!freeindex
<1>4. Tables!CreateNew(name, mode)
  BY <1>1, <1>2, <1>3 DEF Tables!createfile, Tables!CreateExisting, Tables!Refused, Tables!CreateStops
<1>5. freelisthead # <<>> /\ Head(freelisthead) = n /\ Tail(freelisthead) \in Seq(Tables!Inodes)
      /\ Len(Tail(freelisthead)) = MAX_INODES - n
      /\ \A i \in 1..Len(Tail(freelisthead)) : Tail(freelisthead)[i] = n + i
  <2>1. /\ freelisthead \in Seq(Tables!Inodes) /\ Len(freelisthead) = MAX_INODES - c
        /\ \A i \in 1..Len(freelisthead) : freelisthead[i] = c + i
    BY <1>1 DEF InodesAfter
  <2>2. freelisthead # <<>> /\ Len(freelisthead) \in Nat \ {0}
    BY <1>1, <2>1
  <2>3. /\ Tail(freelisthead) \in Seq(Tables!Inodes)
        /\ Len(Tail(freelisthead)) = Len(freelisthead) - 1
        /\ \A i \in 1..Len(Tail(freelisthead)) : Tail(freelisthead)[i] = freelisthead[i + 1]
    BY <2>1, <2>2, HeadTailProperties
  <2>4. Head(freelisthead) = freelisthead[1]
    OBVIOUS
  <2> QED BY <1>1, <2>1, <2>2, <2>3, <2>4
<1>6. /\ filename' = [filename EXCEPT ![n] = name]
      /\ Permissions' = [Permissions EXCEPT ![n] = mode]
      /\ IITABLE' = Tables!WithInode(m, IITABLE)
      /\ Tables!Describe(m) \/ Tables!Overrun
      /\ freelisthead' = Tail(freelisthead)
      /\ free_inodes' = [free_inodes EXCEPT ![n] = FALSE]
      /\ indexofnextfree' = indexofnextfree + 1
  BY <1>3, <1>4, <1>5 DEF Tables!CreateNew, Tables!iget, CreatedNode
<1>7. EntriesAfter(c + 1)' /\ ret' = c /\ UNCHANGED proc
  BY <1>1, <1>6, DescribesNext
<1>8. /\ Tables!PutInodeinIITABLE(m, IITABLE) = c
      /\ IITABLE \in [Slots -> Node \union {NULL}]
  <2>1. c \in 0..5 /\ n <= Made(c) + 1
    BY <1>1
  <2>2. Tables!PutInodeinIITABLE(m, IITABLE) = n - 1
    BY <1>1, <2>1, PlaceInTable
  <2>3. IITABLE \in [Slots -> Node \union {NULL}]
    BY <1>1, <2>1, PlaceInTable
  <2> QED BY <2>2, <2>3
<1>9. IITABLE' = [i \in Slots |-> IF i < n THEN CreatedNode(i + 1) ELSE NULL]
  <2>1. IITABLE = [i \in Slots |-> IF i < c THEN CreatedNode(i + 1) ELSE NULL]
    BY <1>1 DEF InodesAfter
  <2>2. IITABLE[c] = NULL
    BY <1>1, <2>1
  <2>3. IITABLE' = [IITABLE EXCEPT ![c] = m]
    BY <1>6, <1>8, <2>2 DEF Tables!WithInode
  <2>4. \A i \in Slots : i < n <=> i < c \/ i = c
    BY <1>1 DEF Slots
  <2> QED BY <1>1, <2>1, <2>3, <2>4
<1>10. /\ filename' \in [Tables!Inodes -> Names \union {NULL}]
       /\ \A x \in Tables!Inodes : filename'[x] = IF x <= n THEN NameOf[x] ELSE NULL
  <2>1. \A x \in Tables!Inodes : x <= n <=> x <= c \/ x = n
    BY <1>1 DEF Tables!Inodes
  <2> QED BY <1>1, <1>6, <2>1 DEF InodesAfter
<1>11. /\ Permissions' \in [Tables!Inodes -> Modes \union {NULL}]
       /\ \A x \in 1..n : Permissions'[x] = ModeOf[x]
  <2>1. \A x \in 1..n : x \in Tables!Inodes /\ (x \in 1..c \/ x = n)
    BY <1>1 DEF Tables!Inodes
  <2> QED BY <1>1, <1>6, <2>1 DEF InodesAfter
<1>12. /\ free_inodes' \in [Slots -> BOOLEAN]
       /\ \A i \in Slots : i > n => free_inodes'[i]
  <2>1. \A i \in Slots : i > n => i > c /\ i # n
    BY <1>1 DEF Slots
  <2> QED BY <1>1, <1>6, <2>1 DEF InodesAfter
<1>13. indexofnextfree' = n
  BY <1>1, <1>6 DEF InodesAfter
<1>14. InodesAfter(c + 1)'
  <2>1. Made(c + 1) = n
    BY <1>1
  <2> HIDE DEF n
  <2>2. /\ freelisthead' \in Seq(Tables!Inodes) /\ Len(freelisthead') = MAX_INODES - n
        /\ \A i \in 1..Len(freelisthead') : freelisthead'[i] = n + i
    BY <1>5, <1>6
  <2> QED BY <1>9, <1>10, <1>11, <1>12, <1>13, <2>1, <2>2 DEF InodesAfter
<1> QED BY <1>7, <1>14

\* openFile of a file that is there, with its permissions: IITABLE has its node.
LEMMA OpensNext ==
  ASSUME NEW c \in 3..4, InodesAfter(c), EntriesAfter(c),
         Tables!openFile(NameOf[FileOf[c + 1]], ModeOf[FileOf[c + 1]])
  PROVE  InodesAfter(c + 1)' /\ EntriesAfter(c + 1)' /\ ret' = c /\ UNCHANGED proc
<1> DEFINE n    == FileOf[c + 1]
           m    == Tables!HashNode(n)
           name == NameOf[n]
           mode == ModeOf[n]
<1>1. /\ n \in 1..3 /\ n \in Tables!Inodes /\ name \in Names /\ NULL \notin Names
      /\ Made(c) = 3 /\ Made(c + 1) = 3 /\ c \in 0..4
  BY MainSizes, ThreeNames, ScriptCalls DEF Made
<1>2. \A x \in Tables!Inodes : filename[x] = name <=> x = n
  <2> SUFFICES ASSUME NEW x \in Tables!Inodes PROVE filename[x] = name <=> x = n
    OBVIOUS
  <2>1. filename[x] = IF x <= 3 THEN NameOf[x] ELSE NULL
    BY <1>1 DEF InodesAfter
  <2>2. x <= 3 => x \in 1..3
    BY DEF Tables!Inodes
  <2>3. n <= 3
    BY <1>1
  <2>4. x <= 3 => (NameOf[x] = NameOf[n] <=> x = n)
    BY <1>1, <2>2, ThreeNames
  <2> QED BY <1>1, <2>1, <2>3, <2>4
<1>3. Tables!Named(name) /\ Tables!namei(name) = n
  BY <1>1, <1>2 DEF Tables!Named, Tables!namei
<1>4. Permissions[n] = mode
  BY <1>1 DEF InodesAfter
<1>5. Tables!OpenExisting(name, mode)
  BY <1>3, <1>4 DEF Tables!openFile, Tables!Refused, Tables!OpenMissing
<1>6. m \in Node /\ m.number = n
  BY <1>1 DEF Tables!HashNode, Node, Tables!Node
<1>7. /\ IITABLE' = Tables!WithInode(m, IITABLE)
      /\ \/ Tables!Describe(IITABLE'[Tables!PutInodeinIITABLE(m, IITABLE)])
         \/ Tables!Overrun
      /\ UNCHANGED <<filename, Permissions, freelisthead, free_inodes, indexofnextfree>>
  BY <1>3, <1>5 DEF Tables!OpenExisting, Tables!inodes, Tables!superblock
<1> HIDE DEF m
<1>8. Tables!PutInodeinIITABLE(m, IITABLE) = n - 1 /\ n - 1 \in Slots
  <2>1. c \in 0..5 /\ n \in 1..3 /\ n <= Made(c) + 1
    BY <1>1
  <2> HIDE DEF n
  <2> QED BY <1>6, <2>1, PlaceInTable
<1>9. IITABLE[n - 1] = CreatedNode(n)
  BY <1>1, <1>8 DEF InodesAfter
<1>10. CreatedNode(n) # NULL
  BY <1>1, MainSizes, ThreeNames
<1>11. IITABLE' = IITABLE
  BY <1>7, <1>8, <1>9, <1>10 DEF Tables!WithInode
<1>12. Tables!Describe(CreatedNode(n)) \/ Tables!Overrun
  BY <1>7, <1>8, <1>9, <1>11
<1>13. EntriesAfter(c + 1)' /\ ret' = c /\ UNCHANGED proc
  BY <1>1, <1>12, DescribesNext
<1>14. InodesAfter(c + 1)'
  <2>1. /\ Made(c) = 3 /\ Made(c + 1) = 3
        /\ UNCHANGED <<filename, Permissions, freelisthead, free_inodes, indexofnextfree, IITABLE>>
    BY <1>1, <1>7, <1>11
  <2> HIDE DEF n
  <2> QED BY <2>1 DEF InodesAfter
<1> QED BY <1>13, <1>14

----------------------------------------------------------------------------
\* Before the write.

LEMMA ScriptLine ==
  /\ DOMAIN Script = 1..5 /\ WriteLine = 6 /\ ReadLine = 7
  BY DEF Script, WriteLine, ReadLine

LEMMA InitMain == MainInit => MainInv
<1> SUFFICES ASSUME MainInit PROVE MainInv
  OBVIOUS
<1>1. Init /\ line = 1 /\ fd = [i \in 1..5 |-> 0]
  BY DEF MainInit
<1>2. act = Idle /\ Running /\ \A n \in Node : FileSize[n] = 0
  BY <1>1 DEF Init, Alloc!Init, Alloc!Cache!Init, Running
<1>3. InodesAfter(0)
  <2>1. /\ indexofnextfree = 0 /\ freelisthead = [i \in Tables!Inodes |-> i]
        /\ free_inodes = [i \in Slots |-> TRUE]
        /\ filename = [n \in Tables!Inodes |-> NULL]
        /\ Permissions = [n \in Tables!Inodes |-> NULL]
        /\ IITABLE = [i \in Slots |-> NULL]
    BY <1>1 DEF Init, Tables!Init, Slots
  <2>2. Made(0) = 0 /\ MAX_INODES \in Nat
    BY MainSizes DEF Made
  <2>3. freelisthead \in Seq(Tables!Inodes) /\ Len(freelisthead) = MAX_INODES
    <3>1. freelisthead \in [1..MAX_INODES -> Tables!Inodes]
      BY <2>1 DEF Tables!Inodes
    <3>2. freelisthead \in Seq(Tables!Inodes)
      BY <2>2, <3>1, SeqDef
    <3> QED BY <2>2, <3>1, <3>2, LenProperties
  <2>4. \A i \in 1..MAX_INODES : freelisthead[i] = 0 + i
    BY <2>1 DEF Tables!Inodes
  <2>5. /\ \A n \in Tables!Inodes : ~(n <= 0)
        /\ \A i \in Slots : ~(i < 0)
    BY <2>2 DEF Tables!Inodes, Slots
  <2> QED BY <2>1, <2>2, <2>3, <2>4, <2>5 DEF InodesAfter
<1>4. EntriesAfter(0)
  <2>1. /\ FTABLE = [e \in Entries |-> NULL]
        /\ ufdt = [d \in Tables!DescriptorSlots |-> NULL]
    BY <1>1 DEF Init, Tables!Init, Entries
  <2>2. /\ \A e \in Entries : ~(e < 0)
        /\ \A d \in Tables!DescriptorSlots : ~(d < 0)
    BY MainSizes DEF Entries, Tables!Entries, Tables!DescriptorSlots
  <2> QED BY <2>1, <2>2 DEF EntriesAfter
<1>5. Results(0)
  BY <1>1 DEF Results
<1>6. line - 1 = 0
  BY <1>1
<1> QED BY <1>1, <1>2, <1>3, <1>4, <1>5, <1>6, ScriptLine DEF MainInv

\* createfile and openFile, as main calls them.
LEMMA MakesCall ==
  ASSUME MainInv, OpensFiles
  PROVE  MainInv' /\ CreateOrOpen
<1> DEFINE s == Script[line]
<1>c. PICK c \in 0..4 : c = line - 1
  BY ScriptLine DEF OpensFiles
<1>1. /\ line \in 1..5 /\ line = c + 1
      /\ act = Idle /\ Running /\ \A n \in Node : FileSize[n] = 0
      /\ InodesAfter(c) /\ EntriesAfter(c) /\ Results(c)
  BY <1>c, ScriptLine DEF OpensFiles, MainInv
<1>2. /\ s.tested \subseteq 1..5 /\ s.to = ToOf[c + 1] /\ ToOf[c + 1] \in 1..5
      /\ FileOf[c + 1] \in 1..3
      /\ s.name = NameOf[FileOf[c + 1]] /\ s.mode = ModeOf[FileOf[c + 1]]
      /\ s.call = IF c < 3 THEN "create" ELSE "open"
      /\ c < 3 => FileOf[c + 1] = c + 1
      /\ \A j \in 1..c : ToOf[j] # ToOf[c + 1]
  BY <1>1, ScriptCalls
<1>3. /\ \/ s.call = "create" /\ Tables!createfile(s.name, s.mode)
         \/ s.call = "open" /\ Tables!openFile(s.name, s.mode)
      /\ call' = <<s.name, s.mode>> /\ CallerGets
      /\ fd' = [fd EXCEPT ![s.to] = ret']
      /\ line' = IF \E i \in s.tested : fd'[i] = -1 THEN Exited ELSE line + 1
      /\ UNCHANGED <<cache, alloc, files, readoffset, act, arr>>
  BY DEF OpensFiles
<1>4. s.name \in Names /\ s.mode \in Modes
  BY <1>2, ThreeNames
<1> HIDE DEF s
<1>5. CreateOrOpen
  BY <1>1, <1>3, <1>4 DEF CreateOrOpen, Tables!CreateOrOpen
<1>6. InodesAfter(c + 1)' /\ EntriesAfter(c + 1)' /\ ret' = c /\ UNCHANGED proc
  <2>1. CASE c < 3
    <3>1. c \in 0..2 /\ Tables!createfile(NameOf[c + 1], ModeOf[c + 1])
      BY <1>1, <1>2, <1>3, <2>1
    <3> QED BY <1>1, <3>1, CreatesNext
  <2>2. CASE c >= 3
    <3>1. c \in 3..4 /\ Tables!openFile(NameOf[FileOf[c + 1]], ModeOf[FileOf[c + 1]])
      BY <1>1, <1>2, <1>3, <2>2
    <3> QED BY <1>1, <3>1, OpensNext
  <2> QED BY <1>1, <2>1, <2>2
<1>7. Results(c + 1)'
  <2>1. fd \in [1..5 -> Nat] /\ \A j \in 1..c : fd[ToOf[j]] = j - 1
    BY <1>1 DEF Results
  <2>2. fd' = [fd EXCEPT ![ToOf[c + 1]] = c]
    BY <1>2, <1>3, <1>6
  <2>3. fd' \in [1..5 -> Nat]
    <3>1. ASSUME NEW t, NEW v \in Nat, fd' = [fd EXCEPT ![t] = v]
          PROVE  fd' \in [1..5 -> Nat]
      BY <2>1, <3>1
    <3>2. c \in Nat
      OBVIOUS
    <3> QED BY <2>2, <3>1, <3>2
  <2>4. ASSUME NEW j \in 1..c+1
        PROVE  fd'[ToOf[j]] = j - 1
    <3>1. CASE j = c + 1
      BY <1>1, <1>2, <2>1, <2>2, <3>1
    <3>2. CASE j # c + 1
      <4>1. j \in 1..c /\ j - 1 \in 0..4 /\ j = (j - 1) + 1
        BY <1>1, <3>2
      <4>2. ToOf[j] \in 1..5
        BY <4>1, ScriptCalls
      <4> QED BY <1>2, <2>1, <2>2, <4>1, <4>2
    <3> QED BY <3>1, <3>2
  <2> QED BY <2>3, <2>4 DEF Results
<1>8. line' = line + 1
  <2>1. \A i \in s.tested : fd'[i] \in Nat
    BY <1>2, <1>7 DEF Results
  <2> QED BY <1>3, <2>1
<1>9. act' = Idle /\ Running' /\ \A n \in Node : FileSize'[n] = 0
  BY <1>1, <1>3, <1>6 DEF files, Running
<1>10. line' - 1 = c + 1 /\ line' \in 2..6
  BY <1>1, <1>8
<1>11. MainInv'
  <2>1. InodesAfter(line - 1)' /\ EntriesAfter(line - 1)' /\ Results(line - 1)'
    BY <1>6, <1>7, <1>10 DEF InodesAfter, EntriesAfter, Results
  <2> HIDE DEF InodesAfter, EntriesAfter, Results
  <2> QED BY <1>9, <1>10, <2>1, ScriptLine DEF MainInv
<1> QED BY <1>5, <1>11

----------------------------------------------------------------------------
\* The write.

LEMMA EmptyContents ==
  ASSUME NEW n \in Node, FileSize[n] = 0
  PROVE  Contents(n) = <<>>
<1>1. 1..FileSize[n] = {}
  OBVIOUS
<1> QED BY <1>1 DEF Contents

\* When the script is over, the tables are as the rest of main needs them.
LEMMA ScriptOver ==
  ASSUME MainInv, line >= WriteLine
  PROVE  Opened
<1>1. line \in 1..8 /\ (line = 6 \/ line > 6)
  BY ScriptLine DEF MainInv
<1>2. CASE line > 6
  BY <1>2, ScriptLine DEF MainInv
<1>3. CASE line = 6
  <2>1. line - 1 = 5
    BY <1>3
  <2>2. EntriesAfter(5) /\ Results(5)
    <3> HIDE DEF EntriesAfter, Results
    <3> QED BY <1>3, <2>1, ScriptLine DEF MainInv
  <2>3. \A e \in 0..4 : e \in Entries /\ e \in Tables!DescriptorSlots /\ e < 5
    BY MainSizes
  <2> QED BY <2>2, <2>3 DEF Opened, EntriesAfter
<1> QED BY <1>1, <1>2, <1>3

LEMMA OpenedKept ==
  ASSUME Opened, UNCHANGED <<FTABLE, fd>>, \A d \in 0..4 : ufdt'[d] = ufdt[d]
  PROVE  Opened'
  BY DEF Opened, Results

LEMMA WritesToSecond ==
  ASSUME IInv, MainInv, Writes
  PROVE  MainInv' /\ \E d \in DOMAIN ufdt, string \in Strings : WriteBegins(d, string)
<1>1. line = 6 /\ line' = 7 /\ UNCHANGED fd
  BY ScriptLine DEF Writes
<1>2. PICK string \in Strings : WriteBegins(fd[3], string) /\ arr' = string
  BY DEF Writes
<1>3. Opened
  BY <1>1, ScriptLine, ScriptOver
<1>4. fd[3] = 4 /\ ufdt[4] = 4 /\ FTABLE[4] = CreatedNode(2) /\ fd[3] \in DOMAIN ufdt
  <2>1. ToOf[5] = 3 /\ FileOf[5] = 2
    BY DEF ToOf, FileOf
  <2>2. DOMAIN ufdt = Tables!DescriptorSlots
    BY DEF IInv, TablesInv, DescriptorInv
  <2>3. 5 \in 1..5 /\ 4 \in 0..4
    OBVIOUS
  <2> QED BY <1>3, <2>1, <2>2, <2>3, MainSizes DEF Opened, Results
<1>5. /\ act' = [op |-> "write", node |-> CreatedNode(2), string |-> string,
                 iCnt |-> 0, step |-> "get", buff |-> NULL]
      /\ Running /\ UNCHANGED <<cache, proc, alloc, tables, ufdt, files>>
  BY <1>2, <1>4 DEF WriteBegins
<1>6. Opened'
  BY <1>1, <1>3, <1>5, OpenedKept DEF tables
<1>7. \A n \in Node : Contents(n)' = <<>>
  <2>1. \A n \in Node : FileSize'[n] = 0
    BY <1>1, <1>5, ScriptLine DEF MainInv, files
  <2> QED BY <2>1 DEF Contents
<1>8. SubSeq(arr, 1, act.iCnt)' = <<>>
  BY <1>2, <1>5, BlockAssumption
<1>9. OnlyInSecond(SubSeq(arr, 1, act.iCnt))'
  BY <1>7, <1>8 DEF OnlyInSecond
<1>10. StoredInv'
  BY <1>2, <1>5, <1>9 DEF StoredInv, Running, Writing
<1> QED BY <1>1, <1>2, <1>4, <1>6, <1>10, ScriptLine DEF MainInv

LEMMA ReadsSecond ==
  ASSUME IInv, MainInv, Reads
  PROVE  MainInv' /\ \E d \in DOMAIN ufdt, n \in Counts : ReadBegins(d, n)
<1>1. line = 7 /\ line' = 8 /\ UNCHANGED <<fd, arr>>
  BY ScriptLine DEF Reads
<1>2. ReadBegins(fd[3], Count) /\ Count \in Counts
  BY MainAssumption DEF Reads
<1>3. Opened /\ StoredInv
  BY <1>1, ScriptLine DEF MainInv
<1>4. fd[3] = 4 /\ fd[3] \in DOMAIN ufdt
  <2>1. ToOf[5] = 3
    BY DEF ToOf
  <2>2. DOMAIN ufdt = Tables!DescriptorSlots
    BY DEF IInv, TablesInv, DescriptorInv
  <2>3. 5 \in 1..5 /\ 4 \in 0..4
    OBVIOUS
  <2> QED BY <1>3, <2>1, <2>2, <2>3, MainSizes DEF Opened, Results
<1>5. /\ act = Idle /\ act'.op = "read" /\ OffsetStored(ufdt[fd[3]]) /\ Running
      /\ UNCHANGED <<cache, proc, alloc, tables, files>>
  BY <1>2 DEF ReadBegins
<1>6. \A d \in 0..4 : ufdt'[d] = ufdt[d]
  <2>1. \A x \in Slots : ufdt'[x] = ufdt[x]
    BY <1>5, OffsetStoredTables DEF IInv
  <2> QED BY <2>1, MainSizes
<1>7. Opened'
  BY <1>1, <1>3, <1>5, <1>6, OpenedKept DEF tables
<1>8. ~Writing /\ ~Writing'
  BY <1>5 DEF Writing, Idle
<1>9. \A n \in Node : Contents(n)' = Contents(n)
  BY <1>5 DEF Contents, files, cache
<1>10. StoredInv'
  BY <1>1, <1>3, <1>8, <1>9 DEF StoredInv, OnlyInSecond
<1> QED BY <1>1, <1>2, <1>4, <1>7, <1>8, <1>10, ScriptLine DEF MainInv

LEMMA SameStored ==
  ASSUME AllContents' = AllContents, NEW s, OnlyInSecond(s)
  PROVE  OnlyInSecond(s)'
<1>1. \A n \in Node : Contents(n)' = Contents(n)
  <2> SUFFICES ASSUME NEW n \in Node PROVE Contents(n)' = Contents(n)
    OBVIOUS
  <2>1. AllContents[n] = Contents(n) /\ AllContents'[n] = Contents(n)'
    BY DEF AllContents
  <2> QED BY <2>1
<1> QED BY <1>1 DEF OnlyInSecond

\* A call that the process does not survive has not returned.
LEMMA StopsWriting ==
  ASSUME IInv, writefile, ~Running'
  PROVE  Writing'
<1>1. Writing /\ Running /\ act \in WriteRecord
  <2>1. Writing /\ Running
    BY DEF writefile, WriteGetsBlock, WriteGetsBuffer, WritePastDirect, WriteCopies,
           WriteReturns, NextChunk
  <2> QED BY <2>1, WritingHasRecord
<1>2. CASE WriteGetsBlock
  <2>1. UNCHANGED act \/ \E b : GotBuffer(b)
    BY <1>2 DEF WriteGetsBlock
  <2>2. ASSUME NEW b, GotBuffer(b)
        PROVE  act'.op = act.op
    BY <1>1, <2>2 DEF GotBuffer, WriteRecord
  <2> QED BY <1>1, <2>1, <2>2 DEF Writing
<1>3. CASE WriteGetsBuffer
  BY <1>1, <1>3, WriteGetsBufferStops DEF Writing
<1>4. CASE WritePastDirect
  BY <1>1, <1>4 DEF WritePastDirect, StopsHere, Writing
<1>5. CASE WriteCopies
  <2>1. CASE direct[act.node][blkno] = NULL
    BY <1>1, <1>5, <2>1 DEF WriteCopies, StopsHere, Writing
  <2>2. CASE direct[act.node][blkno] # NULL
    BY <1>1, <1>5, <2>2, CopyStep DEF Running
  <2> QED BY <2>1, <2>2
<1>6. CASE WriteReturns
  BY <1>1, <1>6 DEF WriteReturns, Running
<1> QED BY <1>2, <1>3, <1>4, <1>5, <1>6 DEF writefile

\* Every step of the call adds the next piece, or nothing.
LEMMA WriteGoesOn ==
  ASSUME IInv, StoredInv, writefile, UNCHANGED arr
  PROVE  StoredInv'
<1>1. Writing /\ Running
  BY DEF writefile, WriteGetsBlock, WriteGetsBuffer, WritePastDirect, WriteCopies,
         WriteReturns, NextChunk
<1>2. /\ arr \in Strings /\ act.node = CreatedNode(2) /\ act.string = arr
      /\ OnlyInSecond(SubSeq(arr, 1, act.iCnt))
  BY <1>1 DEF StoredInv
<1>3. PICK string \in Strings, f \in Nat : string = arr /\ f = act.iCnt
  BY <1>1, <1>2, WritingHasRecord DEF WriteRecord
<1>4. string \in Seq(Bytes)
  BY BlockAssumption
<1>5. CASE ~Running'
  BY <1>2, <1>5, StopsWriting DEF StoredInv
<1>6. CASE Running' /\ WriteGetsBlock
  <2>1. AllContents' = AllContents /\ Call' = Call
    BY <1>6, BlockGotSeen
  <2>2. Writing' /\ act'.node = act.node /\ act'.string = act.string /\ act'.iCnt = act.iCnt
    <3>1. Call = [file |-> {act.node}, string |-> act.string, done |-> act.iCnt]
      BY <1>1 DEF Call
    <3>2. Writing'
      <4> SUFFICES ASSUME ~Writing' PROVE FALSE
        OBVIOUS
      <4>1. Call'.file = {}
        BY DEF Call
      <4> QED BY <2>1, <3>1, <4>1
    <3>3. Call' = [file |-> {act'.node}, string |-> act'.string, done |-> act'.iCnt]
      BY <3>2 DEF Call
    <3>4. {act'.node} = {act.node} /\ act'.string = act.string /\ act'.iCnt = act.iCnt
      BY <2>1, <3>1, <3>3
    <3> QED BY <3>2, <3>4
  <2>3. OnlyInSecond(SubSeq(string, 1, f))
    BY <1>2, <1>3
  <2>4. OnlyInSecond(SubSeq(string, 1, f))'
    BY <2>1, <2>3, SameStored
  <2>5. OnlyInSecond(SubSeq(arr, 1, act.iCnt))'
    BY <1>3, <2>2, <2>4 DEF OnlyInSecond
  <2> QED BY <1>2, <1>6, <2>2, <2>5 DEF StoredInv
<1>7. CASE Running' /\ WriteCopies
  <2>1. direct[act.node][blkno] # NULL /\ act.step = "copy"
    BY <1>7 DEF WriteCopies, StopsHere, Running
  <2>2. PICK m \in Nat : m = act.iCnt + copy /\ m \in 0..Len(string) /\ f \in 0..m
    BY <1>1, <1>2, <1>3, <2>1, ChunkSize
  <2>3. /\ AllContents' = [AllContents EXCEPT ![CreatedNode(2)] = @ \o SubSeq(string, f + 1, m)]
        /\ act' \in WriteRecord /\ act'.node = CreatedNode(2) /\ act'.string = string
        /\ act'.iCnt = m
    <3>1. AllContents' = [AllContents EXCEPT
             ![act.node] = @ \o SubSeq(act.string, act.iCnt + 1, act.iCnt + copy)]
      BY <1>7, <2>1, CopySeen
    <3>2. /\ act' \in WriteRecord /\ act'.node = act.node /\ act'.string = act.string
          /\ act'.iCnt = act.iCnt + copy
      BY <1>7, <2>1, CopyStep
    <3> QED BY <1>2, <1>3, <2>2, <3>1, <3>2
  <2>4. SubSeq(string, 1, f) \o SubSeq(string, f + 1, m) = SubSeq(string, 1, m)
    BY <1>4, <2>2, PiecesJoin
  <2>5. \A n \in Node : AllContents[n] = Contents(n) /\ AllContents'[n] = Contents(n)'
    BY DEF AllContents
  <2>6. \A n \in Node : Contents(n)' = IF n = CreatedNode(2) THEN SubSeq(string, 1, m) ELSE <<>>
    <3> DEFINE c == CreatedNode(2)
               old == SubSeq(string, 1, f)
               new == SubSeq(string, f + 1, m)
    <3>1. \A n \in Node : AllContents[n] = IF n = c THEN old ELSE <<>>
      BY <1>2, <1>3, <2>5 DEF OnlyInSecond
    <3>2. AllContents' = [AllContents EXCEPT ![c] = @ \o new] /\ DOMAIN AllContents = Node
      BY <2>3 DEF AllContents
    <3>3. old \o new = SubSeq(string, 1, m)
      BY <2>4
    <3> HIDE DEF c, old, new
    <3>4. \A n \in Node : AllContents'[n] = IF n = c THEN old \o new ELSE <<>>
      BY <3>1, <3>2
    <3> QED BY <2>5, <3>3, <3>4 DEF c
  <2>7. OnlyInSecond(SubSeq(arr, 1, act.iCnt))'
    BY <1>3, <2>3, <2>6 DEF OnlyInSecond
  <2>8. Writing'
    BY <2>3 DEF WriteRecord, Writing
  <2> QED BY <1>2, <1>3, <1>7, <2>3, <2>7, <2>8 DEF StoredInv
<1>8. CASE WriteReturns
  <2>1. act' = Idle /\ UNCHANGED <<FileSize, direct, blocks>> /\ act.iCnt >= Len(act.string)
    BY <1>8 DEF WriteReturns, files, cache
  <2>2. ~Writing'
    BY <2>1 DEF Writing, Idle
  <2>3. f = Len(string)
    <3>1. f <= Len(string)
      BY <1>1, <1>2, <1>3, WritingHasRecord DEF WriteInv
    <3>2. f >= Len(string) /\ Len(string) \in Nat
      BY <1>2, <1>3, <1>4, <2>1, LenProperties
    <3> QED BY <3>1, <3>2
  <2>4. SubSeq(string, 1, f) = string
    BY <1>4, <2>3, SubSeqFull
  <2>5. OnlyInSecond(string)
    BY <1>2, <1>3, <2>4
  <2>6. OnlyInSecond(string)'
    BY <2>1, <2>5, NoFileTouched, SameStored
  <2>7. OnlyInSecond(arr)'
    BY <1>3, <2>6 DEF OnlyInSecond
  <2> QED BY <1>2, <2>2, <2>7 DEF StoredInv
<1>9. CASE Running' /\ (WriteGetsBuffer \/ WritePastDirect)
  BY <1>9, WriteGetsBufferStops DEF WritePastDirect, StopsHere, Running
<1> QED BY <1>5, <1>6, <1>7, <1>8, <1>9 DEF writefile

LEMMA CallGoesOn ==
  ASSUME IInv, MainInv, InCall
  PROVE  MainInv'
<1>1. UNCHANGED <<line, fd, arr>> /\ (writefile \/ readfile)
  BY DEF InCall
<1>2. act # Idle /\ UNCHANGED <<FTABLE, ufdt>>
  BY <1>1 DEF writefile, WriteGetsBlock, WriteGetsBuffer, WritePastDirect, WriteCopies,
         WriteReturns, NextChunk, readfile, ReadGetsBuffer, ReadThroughNull, ReadCopies,
         ReadFaults, ReadReturns, StopsHere, tables, Writing, Reading, Idle
<1>3. line \in 7..8
  BY <1>2, ScriptLine DEF MainInv
<1>4. Opened /\ StoredInv
  BY <1>3, ScriptLine DEF MainInv
<1>5. Opened'
  BY <1>1, <1>2, <1>4, OpenedKept
<1>6. CASE writefile
  <2>1. Writing
    BY <1>6 DEF writefile, WriteGetsBlock, WriteGetsBuffer, WritePastDirect, WriteCopies,
           WriteReturns, NextChunk
  <2>2. line = 7
    BY <1>3, <2>1, ScriptLine DEF MainInv
  <2>3. StoredInv'
    BY <1>1, <1>4, <1>6, WriteGoesOn
  <2> QED BY <1>1, <1>5, <2>2, <2>3, ScriptLine DEF MainInv
<1>7. CASE readfile
  <2>1. ~Writing /\ ~Writing' /\ UNCHANGED <<FileSize, direct, blocks>>
    BY <1>7, ReadTouchesNothing
  <2>2. \A n \in Node : Contents(n)' = Contents(n)
    BY <2>1 DEF Contents
  <2>3. StoredInv'
    BY <1>1, <1>4, <2>1, <2>2 DEF StoredInv, OnlyInSecond
  <2> QED BY <1>1, <1>3, <1>5, <2>1, <2>3, ScriptLine DEF MainInv
<1> QED BY <1>1, <1>6, <1>7

----------------------------------------------------------------------------
\* The invariant, and what follows from it.

LEMMA MainStep ==
  ASSUME IInv, MainInv, [MainNext]_mainvars
  PROVE  MainInv' /\ IInv'
<1>1. CASE OpensFiles
  BY <1>1, MakesCall, NextKeeps DEF Next, Calls
<1>2. CASE Writes
  BY <1>2, WritesToSecond, NextKeeps DEF Next, Calls
<1>3. CASE Reads
  BY <1>3, ReadsSecond, NextKeeps DEF Next, Calls
<1>4. CASE InCall
  BY <1>4, CallGoesOn, NextKeeps DEF InCall, Next
<1>a. CASE TypesTooMuch
  <2>1. /\ line = WriteLine /\ ~Running'
        /\ UNCHANGED <<cache, alloc, tables, ufdt, files, readoffset, act, line, fd>>
    BY <1>a DEF TypesTooMuch, Running
  <2>2. UNCHANGED <<indexofnextfree, free_inodes, freelisthead, filename, Permissions,
                    IITABLE, FTABLE, FileSize>>
    BY <2>1 DEF tables, files
  <2>3. /\ InodesAfter(line - 1) => InodesAfter(line - 1)'
        /\ EntriesAfter(line - 1) => EntriesAfter(line - 1)'
        /\ Results(line - 1) => Results(line - 1)'
    BY <2>1, <2>2 DEF InodesAfter, EntriesAfter, Results
  <2>4. MainInv'
    <3> HIDE DEF InodesAfter, EntriesAfter, Results
    <3> QED BY <2>1, <2>2, <2>3, ScriptLine DEF MainInv
  <2>5. IInv'
    BY <2>1, StopKeeps DEF cache, alloc
  <2> QED BY <2>4, <2>5
<1>5. CASE UNCHANGED mainvars
  <2>1. UNCHANGED <<vars, line, fd, arr>>
    BY <1>5 DEF mainvars
  <2>2. UNCHANGED <<indexofnextfree, free_inodes, freelisthead, filename, Permissions,
                    IITABLE, FTABLE, ufdt, act, proc, FileSize, direct, blocks, line, fd, arr>>
    BY <2>1 DEF vars, tables, files, cache
  <2>3. /\ \A n \in Node : Contents(n)' = Contents(n)
        /\ Writing' <=> Writing
        /\ Running' <=> Running
    BY <2>2 DEF Contents, Writing, Running
  <2>4. StoredInv => StoredInv'
    BY <2>2, <2>3 DEF StoredInv, OnlyInSecond
  <2>5. Opened => Opened'
    BY <2>2 DEF Opened, Results
  <2>6. /\ InodesAfter(line - 1) => InodesAfter(line - 1)'
        /\ EntriesAfter(line - 1) => EntriesAfter(line - 1)'
        /\ Results(line - 1) => Results(line - 1)'
    BY <2>2 DEF InodesAfter, EntriesAfter, Results
  <2>7. MainInv'
    BY <2>1, <2>2, <2>3, <2>4, <2>5, <2>6 DEF MainInv
  <2> QED BY <2>1, <2>7, NextKeeps
<1> QED BY <1>1, <1>2, <1>3, <1>4, <1>5, <1>a DEF MainNext

LEMMA MainInvariant == MainSpec => []MainInv
<1>1. MainInit => IInv /\ MainInv
  BY InitMain, InitIInv DEF MainInit
<1>2. IInv /\ MainInv /\ [MainNext]_mainvars => IInv' /\ MainInv'
  BY MainStep
<1> QED BY <1>1, <1>2, PTL DEF MainSpec

\* The five descriptors that main gets are five, for three nodes, those of one file the
\* same: no call of the script is refused or finds a table full, so that it makes no
\* difference which descriptors main tests.
THEOREM FilesAlwaysOpen == MainSpec => []FilesOpen
<1>1. MainInv => FilesOpen
  <2> SUFFICES ASSUME MainInv, line >= WriteLine
               PROVE  /\ \A i, j \in 1..5 : fd[i] = fd[j] => i = j
                      /\ NodeOf(1) = NodeOf(2) /\ NodeOf(3) = NodeOf(4)
                      /\ Cardinality({NodeOf(i) : i \in 1..5}) = 3
    BY DEF FilesOpen
  <2>1. Opened
    BY ScriptOver
  <2>2. fd[1] = 0 /\ fd[4] = 1 /\ fd[5] = 2 /\ fd[2] = 3 /\ fd[3] = 4
    <3>1. \A j \in 1..5 : fd[ToOf[j]] = j - 1
      BY <2>1 DEF Opened, Results
    <3>2. ToOf[1] = 1 /\ ToOf[2] = 4 /\ ToOf[3] = 5 /\ ToOf[4] = 2 /\ ToOf[5] = 3
      BY DEF ToOf
    <3> QED BY <3>1, <3>2
  <2>3. /\ FTABLE[ufdt[0]] = CreatedNode(1) /\ FTABLE[ufdt[1]] = CreatedNode(2)
        /\ FTABLE[ufdt[2]] = CreatedNode(3) /\ FTABLE[ufdt[3]] = CreatedNode(1)
        /\ FTABLE[ufdt[4]] = CreatedNode(2)
    <3>1. \A e \in 0..4 : FTABLE[ufdt[e]] = CreatedNode(FileOf[e + 1])
      BY <2>1 DEF Opened
    <3>2. FileOf[1] = 1 /\ FileOf[2] = 2 /\ FileOf[3] = 3 /\ FileOf[4] = 1 /\ FileOf[5] = 2
      BY DEF FileOf
    <3> QED BY <3>1, <3>2
  <2>4. /\ NodeOf(1) = CreatedNode(1) /\ NodeOf(2) = CreatedNode(1)
        /\ NodeOf(3) = CreatedNode(2) /\ NodeOf(4) = CreatedNode(2)
        /\ NodeOf(5) = CreatedNode(3)
    BY <2>2, <2>3 DEF NodeOf
  <2>5. \A i \in 1..5 : i = 1 \/ i = 2 \/ i = 3 \/ i = 4 \/ i = 5
    OBVIOUS
  <2>6. \A i, j \in 1..5 : fd[i] = fd[j] => i = j
    BY <2>2, <2>5
  <2>7. Cardinality({NodeOf(i) : i \in 1..5}) = 3
    <3>1. {NodeOf(i) : i \in 1..5} = {CreatedNode(1), CreatedNode(2), CreatedNode(3)}
      BY <2>4, <2>5
    <3>2. /\ CreatedNode(1) # CreatedNode(2) /\ CreatedNode(1) # CreatedNode(3)
          /\ CreatedNode(2) # CreatedNode(3)
      BY MainSizes
    <3>3. \A x, y, z : x # y /\ x # z /\ y # z => Cardinality({x, y, z}) = 3
      <4> SUFFICES ASSUME NEW x, NEW y, NEW z, x # y, x # z, y # z
                   PROVE  Cardinality({x, y, z}) = 3
        OBVIOUS
      <4>1. IsFiniteSet({x}) /\ Cardinality({x}) = 1
        BY FS_Singleton
      <4>2. IsFiniteSet({x} \union {y}) /\ Cardinality({x} \union {y}) = 2
        BY <4>1, FS_AddElement
      <4>3. Cardinality(({x} \union {y}) \union {z}) = 3
        BY <4>2, FS_AddElement
      <4>4. {x, y, z} = ({x} \union {y}) \union {z}
        OBVIOUS
      <4> QED BY <4>3, <4>4
    <3>4. Cardinality({CreatedNode(1), CreatedNode(2), CreatedNode(3)}) = 3
      BY <3>2, <3>3, Zenon
    <3> QED BY <3>1, <3>4
  <2> QED BY <2>4, <2>6, <2>7
<1> QED BY <1>1, MainInvariant, PTL

\* When main begins to read, and ever after, the second file has exactly what was typed,
\* and the others nothing: writefile has stored all of it, in order, whatever readfile
\* then does to the cache and to the offset.
THEOREM InputIsStored == MainSpec => []InputStored
<1>1. MainInv => InputStored
  <2> SUFFICES ASSUME MainInv, line > ReadLine \/ (line = ReadLine /\ act = Idle),
                      NEW n \in Node
               PROVE  Contents(n) = IF n = NodeOf(4) THEN arr ELSE <<>>
    BY DEF InputStored
  <2>1. line >= WriteLine /\ line > WriteLine /\ ~Writing
    BY ScriptLine DEF MainInv, Writing, Idle
  <2>2. OnlyInSecond(arr)
    BY <2>1 DEF MainInv, StoredInv
  <2>3. NodeOf(4) = CreatedNode(2)
    <3>1. ToOf[2] = 4 /\ FileOf[2] = 2 /\ 2 \in 1..5 /\ 1 \in 0..4
      BY DEF ToOf, FileOf
    <3>2. Opened
      BY <2>1, ScriptOver
    <3> QED BY <3>1, <3>2 DEF Opened, Results, NodeOf
  <2> QED BY <2>2, <2>3 DEF OnlyInSecond
<1> QED BY <1>1, MainInvariant, PTL
=============================================================================

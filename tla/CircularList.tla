---------------------------- MODULE CircularList ----------------------------
(***************************************************************************)
(* The doubly linked circular lists, by their pointers: those of inodes    *)
(* (DoublyCircularList.c) and those of buffers (buffer.c), which are       *)
(* written out four times, for next/prev and nextfree/prevfree of an inode *)
(* and nextbuff/prevbuff and nextfree/prevfree of a buffer.  A node is in  *)
(* one list, so that one pair is enough here.  The code for the hash       *)
(* queues of buffers differs in its deletions ("kind").  Lists of inodes   *)
(* behave like the free list of buffers, but nothing is removed from their *)
(* middle.                                                                 *)
(*                                                                         *)
(* A loop over a list is a step per node.  Nothing else runs meanwhile.    *)
(***************************************************************************)
EXTENDS Naturals, Sequences, FiniteSets

CONSTANTS
  Addresses,         \* of the nodes
  Numbers,           \* inode or block numbers
  BLOCKS_PER_LIST,
  MaxQueue,          \* bound: the addresses of a hash queue, which frees some of its nodes
  NULL

ASSUME ListAssumption ==
  /\ IsFiniteSet(Addresses) /\ Addresses \subseteq Nat
  /\ Numbers \subseteq Nat /\ BLOCKS_PER_LIST \in Nat /\ MaxQueue \in Nat
  /\ NULL \notin Addresses \union Numbers

VARIABLES
  kind,          \* a hash "queue" of buffers, or any "other" list
  First, Last,
  next, prev,
  number,        \* inode_number or block_number; NULL at an address not in use
  walk,          \* the loop under way, and the node it has reached
  did,           \* what the last call returned: the call, its number, its result; or <<>>
  proc

vars == <<kind, First, Last, next, prev, number, walk, did, proc>>

Idle    == [op |-> "none"]
Running == proc = "running"
Ready   == Running /\ walk = Idle
Empty   == First = NULL /\ Last = NULL

\* The nodes from First, by their next pointers, up to Last or to a pointer that is not
\* one (for then the rest is lost).
Nodes ==
  LET reached[k \in 1..Cardinality(Addresses)] ==
        IF k = 1 THEN First
        ELSE LET a == reached[k - 1] IN IF a \in Addresses \ {Last} THEN next[a] ELSE NULL
      steps == {k \in 1..Cardinality(Addresses) : reached[k] # NULL}
  IN  [k \in steps |-> reached[k]]

Listing  == LET nodes == Nodes IN [k \in DOMAIN nodes |-> number[nodes[k]]]
Numbered == LET list == Listing IN {list[k] : k \in DOMAIN list}

Init ==
  /\ kind \in {"queue", "other"}
  /\ First = NULL /\ Last = NULL
  /\ next = [a \in Addresses |-> NULL]
  /\ prev = [a \in Addresses |-> NULL]
  /\ number = [a \in Addresses |-> NULL]
  /\ walk = Idle
  /\ did = <<>>
  /\ proc = "running"

Returns(op, n, result) == did' = <<op, n, result>> /\ UNCHANGED <<kind, proc>>

Stops(how) ==
  /\ proc' = how /\ did' = <<>>
  /\ UNCHANGED <<kind, First, Last, next, prev, number, walk>>

Begins(loop) ==
  /\ walk' = loop /\ did' = <<>>
  /\ UNCHANGED <<kind, First, Last, next, prev, number, proc>>

----------------------------------------------------------------------------
\* Insertion: CreateNewInode or CreateNewBuffer, and the pointers.  The callers insert a
\* number that is not in the list.

\* malloc: the lowest address not in use.  The order of addresses makes no difference.
Allocated(a) ==
  /\ number[a] = NULL /\ \A b \in Addresses : number[b] = NULL => a <= b
  /\ kind = "queue" => a <= MaxQueue

New(a, n) ==
  /\ Allocated(a)
  /\ number' = [number EXCEPT ![a] = n]
  /\ UNCHANGED walk

\* The new node goes between Last and First, whichever of them it becomes.
LinkIn(a) ==
  /\ next' = [next EXCEPT ![IF Empty THEN a ELSE Last] = a, ![a] = IF Empty THEN a ELSE First]
  /\ prev' = [prev EXCEPT ![IF Empty THEN a ELSE First] = a, ![a] = IF Empty THEN a ELSE Last]

Insert(a, n) ==
  /\ Ready /\ n \notin Numbered
  /\ New(a, n) /\ LinkIn(a)
  /\ did' = <<>> /\ UNCHANGED <<kind, proc>>

InsertFirst(n) ==
  \E a \in Addresses : Insert(a, n) /\ First' = a /\ Last' = IF Empty THEN a ELSE Last

InsertLast(n) ==
  \E a \in Addresses : Insert(a, n) /\ Last' = a /\ First' = IF Empty THEN a ELSE First

----------------------------------------------------------------------------
\* Deletion at the ends.  The node is not freed.  Its own pointers are reset, except
\* those of the only node, and of any node of a hash queue of buffers.

Kept(pointer) == IF kind = "queue" THEN pointer ELSE NULL

DropFirst ==
  LET first == next[First]
  IN  IF First = Last
      THEN First' = NULL /\ Last' = NULL /\ UNCHANGED <<next, prev>>
      ELSE /\ First' = first /\ UNCHANGED Last
           /\ next' = [next EXCEPT ![First] = Kept(@), ![Last] = first]
           /\ prev' = [prev EXCEPT ![First] = Kept(@), ![first] = Last]

\* Mutant: First->prev keeps pointing to the node that is gone.
DropLastOnly ==
  LET last == prev[Last]
  IN  IF First = Last
      THEN First' = NULL /\ Last' = NULL /\ UNCHANGED <<next, prev>>
      ELSE /\ Last' = last /\ UNCHANGED First
           /\ next' = [next EXCEPT ![Last] = Kept(@), ![last] = First]
           /\ prev' = [prev EXCEPT ![Last] = Kept(@)]

DropLast ==
  LET last == prev[Last]
  IN  IF First = Last
      THEN First' = NULL /\ Last' = NULL /\ UNCHANGED <<next, prev>>
      ELSE /\ Last' = last /\ UNCHANGED First
           /\ next' = [next EXCEPT ![Last] = Kept(@), ![last] = First]
           /\ prev' = [prev EXCEPT ![Last] = Kept(@), ![First] = last]

\* DeleteFirstBuffer prints the number of First when it is done.
ReadsNull == kind = "queue" /\ First = Last

Delete(op, end, drop) ==
  /\ Ready /\ kind # "queue"
  /\ IF Empty THEN UNCHANGED <<First, Last, next, prev>> /\ Returns(op, NULL, NULL)
              ELSE drop /\ Returns(op, NULL, number[end])
  /\ UNCHANGED <<number, walk>>

DeleteFirst == Delete("DeleteFirst", First, DropFirst)
DeleteLast  == Delete("DeleteLast", Last, DropLast)

----------------------------------------------------------------------------
\* Removebuffer (of a hash queue) and Removefreebuffer.

\* A number past the disk list, or an empty list.
RemoveRefused(n) ==
  /\ Ready
  /\ n >= BLOCKS_PER_LIST \/ Empty
  /\ \/ kind = "queue" /\ Stops("exited")
     \/ /\ kind = "other" /\ Returns("Remove", n, NULL)
        /\ UNCHANGED <<First, Last, next, prev, number, walk>>

\* The first node or the last.
RemoveEnd(n) ==
  /\ Ready
  /\ n < BLOCKS_PER_LIST /\ ~Empty
  /\ \/ number[First] = n /\ ReadsNull /\ Stops("crashed")
     \/ /\ number[First] = n /\ ~ReadsNull /\ DropFirst
        /\ Returns("Remove", n, n) /\ UNCHANGED <<number, walk>>
     \/ /\ number[First] # n /\ number[Last] = n /\ DropLast
        /\ Returns("Remove", n, n) /\ UNCHANGED <<number, walk>>

RemoveBegins(n) ==
  /\ Ready
  /\ n < BLOCKS_PER_LIST /\ ~Empty /\ n \notin {number[First], number[Last]}
  /\ Begins([op |-> "Remove", for |-> n, at |-> First, found |-> NULL])

\* travel moves on (to at), with what has been found so far, until the node before First.
Travels(at, found) ==
  IF next'[at] # First
  THEN walk' = [walk EXCEPT !.at = at, !.found = found] /\ UNCHANGED <<kind, did, proc>>
  ELSE walk' = Idle /\ Returns("Remove", walk.for, found)

\* Mutant: giveback->nextbuff is reset before it is followed.
RemoveResets ==
  LET giveback == next[walk.at]
  IN  /\ Running /\ walk.op = "Remove"
      /\ number[giveback] = walk.for
      /\ next' = [next EXCEPT ![walk.at] = NULL, ![giveback] = NULL]
      /\ walk' = [walk EXCEPT !.at = NULL, !.found = walk.for]
      /\ UNCHANGED <<kind, First, Last, prev, number, did, proc>>

\* Removefreebuffer means to reset nextfree too, and compares it (buffer.c:252).
RemoveHere ==
  LET giveback == next[walk.at]
  IN  /\ Running /\ walk.op = "Remove"
      /\ number[giveback] = walk.for
      /\ next' = [next EXCEPT ![walk.at] = next[giveback],
                              ![giveback] = IF kind = "queue" THEN NULL ELSE @]
      /\ prev' = [prev EXCEPT ![next[giveback]] = walk.at, ![giveback] = NULL]
      /\ number' = IF kind = "queue" THEN [number EXCEPT ![giveback] = NULL] ELSE number
      /\ Travels(next[giveback], walk.for)
      /\ UNCHANGED <<First, Last>>

\* Mutant: the loop waits for a NULL that a ring does not have.
TravelToEnd ==
  LET at == next[walk.at]
  IN  /\ Running /\ walk.op = "Remove"
      /\ number[at] # walk.for
      /\ walk' = [walk EXCEPT !.at = at]
      /\ UNCHANGED <<kind, First, Last, next, prev, number, did, proc>>

RemoveElsewhere ==
  /\ Running /\ walk.op = "Remove"
  /\ number[next[walk.at]] # walk.for
  /\ UNCHANGED <<First, Last, next, prev, number>>
  /\ Travels(next[walk.at], walk.found)

----------------------------------------------------------------------------
\* The do-while loops that look for a number, or at every node (for a number that is not
\* there): MapToHashQueue, namei, SetParametersHashqueue, getblk, lock_unlock_buff and the
\* Display functions.

\* The first node is read before anything is compared; only DisplayFreeBufferList tests
\* for an empty list.
SearchBegins(n) ==
  /\ Ready
  /\ \/ First = NULL /\ Stops("crashed")
     \/ First = NULL /\ kind = "other" /\ Stops("exited")
     \/ First # NULL /\ Begins([op |-> "Search", for |-> n, at |-> First])

SearchEnds(result) == walk' = Idle /\ Returns("Search", walk.for, result)

SearchOn ==
  LET at == next[walk.at]
  IN  /\ Running /\ walk.op = "Search"
      /\ \/ number[walk.at] = walk.for /\ SearchEnds(walk.for)
         \/ number[walk.at] # walk.for /\ at = First /\ SearchEnds(NULL)
         \/ /\ number[walk.at] # walk.for /\ at # First
            /\ walk' = [walk EXCEPT !.at = at]
            /\ UNCHANGED <<kind, did, proc>>
      /\ UNCHANGED <<First, Last, next, prev, number>>

----------------------------------------------------------------------------

Loop == RemoveHere \/ RemoveElsewhere \/ SearchOn

Next ==
  \/ \E n \in Numbers :
       \/ InsertFirst(n)
       \/ InsertLast(n)
       \/ RemoveRefused(n)
       \/ RemoveEnd(n)
       \/ RemoveBegins(n)
       \/ SearchBegins(n)
  \/ DeleteFirst
  \/ DeleteLast
  \/ Loop

\* One process: a loop goes on as long as it can.
Spec == Init /\ [][Next]_vars /\ WF_vars(Loop)

----------------------------------------------------------------------------
\* Properties.

Pointers == Addresses \union {NULL}

TypeOK ==
  /\ {First, Last} \subseteq Pointers
  /\ next \in [Addresses -> Pointers] /\ prev \in [Addresses -> Pointers]
  /\ number \in [Addresses -> Numbers \union {NULL}]
  /\ walk = Idle \/ walk.at \in Addresses
  /\ proc \in {"running", "exited", "crashed"}

\* The nodes of the list form one ring, through next and backwards through prev, that
\* closes between Last and First; all are in use, and their numbers differ.  A node that
\* has left the list may still point into it, and never the other way round.
RingIntact ==
  LET nodes == Nodes
      len   == Len(nodes)
  IN  /\ Empty \/ nodes[len] = Last
      /\ (First = NULL) <=> (Last = NULL)
      /\ \A k \in 1..len :
           LET after == nodes[(k % len) + 1]
           IN  /\ next[nodes[k]] = after /\ prev[after] = nodes[k]
               /\ number[nodes[k]] # NULL
      /\ Cardinality(Numbered) = len

\* The pointers implement NumberList: each call does to the ring, and returns, what
\* NumberList says of the sequence of its numbers, wherever the node is.  A removal from
\* the middle takes effect when the node is found, some turns of the loop before it returns.
Listed == INSTANCE NumberList WITH
  Removable <- {n \in Numbers : n < BLOCKS_PER_LIST},
  list <- Listing,
  did  <- IF walk.op = "Remove" /\ walk.found # NULL THEN <<"Remove", walk.for, walk.found>>
          ELSE did,
  up   <- Running

ImplementsNumberList == Listed!Spec

\* Every loop over a list ends, though the only sign of its end is to come back to First.
LoopsEnd == (walk # Idle) ~> (walk = Idle)
=============================================================================

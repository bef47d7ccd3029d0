-------------------------- MODULE BufferCacheLemmas -------------------------
(***************************************************************************)
(* Lemmas about BufferCache, for every number of queues, buffers and       *)
(* blocks: its lists, its buffers, its hash queues as a whole, and the     *)
(* queues initBufferCache makes.                                           *)
(***************************************************************************)
EXTENDS BufferCache, ListLemmas

----------------------------------------------------------------------------
\* Lemmas about lists.

\* No two nodes of a list have the same block number.
Distinct(q) ==
  \A i, j \in DOMAIN q : q[i].block_number = q[j].block_number => i = j

\* With distinct numbers the walk from First stops at the only node of b.
LEMMA PositionIsUnique ==
  ASSUME NEW S, NEW q \in Seq(S), Distinct(q), NEW b, Holds(q, b)
  PROVE  /\ Position(q, b) \in DOMAIN q
         /\ q[Position(q, b)].block_number = b
         /\ \A i \in DOMAIN q : q[i].block_number = b => i = Position(q, b)
<1>1. PICK i \in DOMAIN q : q[i].block_number = b
  BY DEF Holds
<1>2. \A j \in DOMAIN q : q[j].block_number = b => i <= j
  BY <1>1 DEF Distinct
<1>3. QED
  BY <1>1, <1>2 DEF Position, Distinct

\* Unlink takes out the node of b, if there is one, and keeps all others in order.
LEMMA UnlinkElements ==
  ASSUME NEW S, NEW q \in Seq(S), Distinct(q), NEW b
  PROVE  /\ Unlink(q, b) \in Seq(S)
         /\ Holds(q, b) => Len(Unlink(q, b)) = Len(q) - 1
         /\ Len(Unlink(q, b)) >= Len(q) - 1
         /\ Distinct(Unlink(q, b))
         /\ \A j \in DOMAIN Unlink(q, b) :
              /\ Unlink(q, b)[j].block_number # b
              /\ \E i \in DOMAIN q : Unlink(q, b)[j] = q[i]
         /\ \A c : c # b /\ Holds(q, c) => Holds(Unlink(q, b), c)
<1>1. CASE ~Holds(q, b)
  BY <1>1 DEF Unlink, Holds
<1>2. CASE Holds(q, b)
  <2> DEFINE p == Position(q, b)
             u == SeqExt!RemoveAt(q, p)
  <2>1. /\ p \in 1..Len(q) /\ q[p].block_number = b
        /\ \A i \in DOMAIN q : q[i].block_number = b => i = p
    BY <1>2, PositionIsUnique
  <2>2. Unlink(q, b) = u
    BY <1>2 DEF Unlink, RemoveAt, SeqExt!RemoveAt
  <2>3. /\ u \in Seq(S) /\ Len(u) = Len(q) - 1
        /\ \A j \in 1..Len(q) - 1 : u[j] = IF j < p THEN q[j] ELSE q[j + 1]
    BY <2>1, RemoveAtElements
  <2> HIDE DEF u, p
  <2>4. Distinct(u)
    <3> SUFFICES ASSUME NEW i \in DOMAIN u, NEW j \in DOMAIN u,
                        u[i].block_number = u[j].block_number
                 PROVE  i = j
      BY DEF Distinct
    <3> DEFINE at(k) == IF k < p THEN k ELSE k + 1
    <3>1. DOMAIN u = 1..Len(q) - 1 /\ DOMAIN q = 1..Len(q) /\ Len(q) \in Nat
      BY <2>3, LenProperties
    <3>2. \A k \in DOMAIN u : at(k) \in DOMAIN q /\ u[k] = q[at(k)]
      BY <2>1, <2>3, <3>1
    <3>3. i \in Int /\ j \in Int /\ p \in Int
      BY <2>1, <3>1
    <3>4. at(i) = at(j)
      <4> HIDE DEF at
      <4>1. QED
        BY <3>2 DEF Distinct
    <3>5. QED
      BY <3>3, <3>4
  <2>5. \A j \in DOMAIN u : u[j].block_number # b /\ \E i \in DOMAIN q : u[j] = q[i]
    <3> SUFFICES ASSUME NEW j \in DOMAIN u
                 PROVE  u[j].block_number # b /\ \E i \in DOMAIN q : u[j] = q[i]
      OBVIOUS
    <3> DEFINE i == IF j < p THEN j ELSE j + 1
    <3>1. i \in DOMAIN q /\ i # p /\ u[j] = q[i]
      BY <2>1, <2>3
    <3>2. QED
      BY <2>1, <3>1
  <2>6. ASSUME NEW i \in DOMAIN q, q[i].block_number # b
        PROVE  \E j \in DOMAIN u : u[j] = q[i]
    <3> DEFINE j == IF i < p THEN i ELSE i - 1
    <3>1. DOMAIN u = 1..Len(u) /\ DOMAIN q = 1..Len(q) /\ Len(q) \in Nat
      BY <2>3, LenProperties
    <3>2. i # p /\ j \in DOMAIN u
      BY <2>1, <2>3, <2>6, <3>1
    <3>3. u[j] = q[i]
      BY <2>1, <2>3, <3>1, <3>2
    <3>4. QED
      BY <3>2, <3>3
  <2>7. ASSUME NEW c, c # b, Holds(q, c)
        PROVE  Holds(u, c)
    BY <2>6, <2>7 DEF Holds
  <2>8. QED
    BY <1>2, <2>2, <2>3, <2>4, <2>5, <2>7
<1>3. QED
  BY <1>1, <1>2

\* lock_unlock_buff changes the flags of the node of b and nothing else.
LEMMA LockElements ==
  ASSUME NEW q \in Seq(Node), Distinct(q), NEW b \in Numbers, NEW status \in BOOLEAN
  PROVE  /\ lock_unlock_buff(q, b, status) \in Seq(Node)
         /\ Len(lock_unlock_buff(q, b, status)) = Len(q)
         /\ \A i \in DOMAIN q :
              /\ lock_unlock_buff(q, b, status)[i].block_number = q[i].block_number
              /\ lock_unlock_buff(q, b, status)[i].busy =
                   IF q[i].block_number = b THEN status ELSE q[i].busy
<1>1. CASE ~Holds(q, b)
  BY <1>1 DEF lock_unlock_buff, Holds
<1>2. CASE Holds(q, b)
  <2> DEFINE p == Position(q, b)
             l == [q EXCEPT ![p] = [block_number |-> b, busy |-> status]]
  <2>1. /\ p \in DOMAIN q /\ q[p].block_number = b
        /\ \A i \in DOMAIN q : q[i].block_number = b => i = p
    BY <1>2, PositionIsUnique
  <2>2. lock_unlock_buff(q, b, status) = l
    BY <1>2 DEF lock_unlock_buff
  <2> HIDE DEF p
  <2>3. ASSUME NEW i \in DOMAIN q
        PROVE  /\ l[i] \in Node /\ l[i].block_number = q[i].block_number
               /\ l[i].busy = IF q[i].block_number = b THEN status ELSE q[i].busy
    <3>1. q[i] \in Node
      OBVIOUS
    <3>2. CASE i = p
      BY <2>1, <3>1, <3>2 DEF Node
    <3>3. CASE i # p
      BY <2>1, <3>1, <3>3 DEF Node
    <3>4. QED
      BY <3>2, <3>3
  <2>4. l \in Seq(Node) /\ Len(l) = Len(q)
    <3>1. [block_number |-> b, busy |-> status] \in Node
      BY DEF Node
    <3>2. QED
      BY <2>1, <3>1, ExceptSeq, LenProperties
  <2>5. QED
    BY <2>2, <2>3, <2>4
<1>3. QED
  BY <1>1, <1>2

----------------------------------------------------------------------------
\* Lemmas about buffers and about the hash queues as a whole.

LEMMA HashInHeaders ==
  ASSUME NEW b \in Nat
  PROVE  hashfunction(b) \in Headers
  BY SizesAssumption DEF hashfunction, Headers

LEMMA NumbersAreNat == Numbers \subseteq Nat
  BY NumbersAssumption, SizesAssumption DEF Numbers

LEMMA ZeroIsData == Zero \in Data
  BY DataAssumption DEF Zero, Data

LEMMA CopyIsData ==
  ASSUME NEW to \in Data, NEW from \in Data
  PROVE  strcpy(to, from) \in Data
<1>1. \A i \in 0..BLOCK_SIZE-1 : to[i] \in Bytes /\ from[i] \in Bytes
  BY DEF Data
<1>2. QED
  BY <1>1 DEF strcpy, Data

\* What strcpy leaves after a string that ends has its end too.
LEMMA CopyEnds ==
  ASSUME NEW to \in Data, NEW from \in Data, ~Full(from)
  PROVE  ~Full(strcpy(to, from))
<1> DEFINE ends == {i \in 0..BLOCK_SIZE-1 : from[i] = 0}
<1>1. ends \in SUBSET Nat /\ ends # {}
  BY DEF Full
<1>2. PICK i \in ends : \A j \in ends : i <= j
  <2> HIDE DEF ends
  <2>1. QED
    BY <1>1, LeastNumber
<1>3. i \in 0..BLOCK_SIZE-1 /\ from[i] = 0
  OBVIOUS
<1>4. \A j \in 0..i-1 : from[j] # 0
  <2> SUFFICES ASSUME NEW j \in 0..i-1, from[j] = 0 PROVE FALSE
    OBVIOUS
  <2>1. j \in ends
    BY <1>3, DataAssumption
  <2>2. QED
    BY <1>2, <1>3, <2>1
<1>5. strcpy(to, from)[i] = 0
  BY <1>3, <1>4 DEF strcpy
<1>6. QED
  BY <1>3, <1>5 DEF Full

LEMMA FilledBuffer ==
  ASSUME NEW buf \in Buffer, NEW d \in Data
  PROVE  LET full == [buf EXCEPT !.ptr_to_data = d]
         IN  /\ full \in Buffer
             /\ full.block_number = buf.block_number
             /\ full.ptr_to_block = buf.ptr_to_block
             /\ full.ptr_to_data = d
  BY DEF Buffer

LEMMA RenumberedBuffer ==
  ASSUME NEW buf \in Buffer, NEW b \in Numbers
  PROVE  LET new == [buf EXCEPT !.block_number = b, !.ptr_to_block = b]
         IN  /\ new \in Buffer
             /\ new.block_number = b
             /\ new.ptr_to_block = b
             /\ new.ptr_to_data = buf.ptr_to_data
  BY DEF Buffer

LEMMA FreshBuffer ==
  ASSUME NEW b \in Numbers
  PROVE  /\ CreateNewBuffer(b) \in Buffer
         /\ CreateNewBuffer(b).block_number = b
         /\ CreateNewBuffer(b).ptr_to_block = NULL
         /\ CreateNewBuffer(b).ptr_to_data = Zero
         /\ NewNode(b) \in Node
         /\ NewNode(b).block_number = b
         /\ NewNode(b).busy = FALSE
  BY ZeroIsData DEF CreateNewBuffer, NewNode, Buffer, Node

\* The part of the invariant that is about the hash queues alone: every node is in
\* the queue its number hashes to, and no number is there twice.
QueuesOK(hd) ==
  \A h \in Headers :
    /\ Distinct(hd[h])
    /\ \A i \in DOMAIN hd[h] : hashfunction(hd[h][i].block_number) = h

\* What getblk (scenario 1) and brelse do to the hash queues, and what getblk
\* (scenario 2) does.
Relocked(hd, b, status) ==
  [hd EXCEPT ![hashfunction(b)] = lock_unlock_buff(@, b, status)]
Renewed(hd, b, old) ==
  [hd EXCEPT ![hashfunction(b)] =
     lock_unlock_buff(<<NewNode(b)>> \o Unlink(@, old), b, TRUE)]

\* Setting or resetting the flags of b leaves every number where it is and changes
\* the flags of no other number.
LEMMA LockQueue ==
  ASSUME NEW hd \in [Headers -> Seq(Node)], QueuesOK(hd),
         NEW b \in Numbers, NEW status \in BOOLEAN
  PROVE  LET hs == Relocked(hd, b, status)
         IN  /\ hs \in [Headers -> Seq(Node)]
             /\ \A h \in Headers :
                  /\ Len(hs[h]) = Len(hd[h])
                  /\ DOMAIN hs[h] = DOMAIN hd[h]
                  /\ \A i \in DOMAIN hd[h] :
                       /\ hs[h][i].block_number = hd[h][i].block_number
                       /\ hs[h][i].busy =
                            IF hd[h][i].block_number = b THEN status ELSE hd[h][i].busy
             /\ QueuesOK(hs)
             /\ \A c \in Numbers : Holds(hd[hashfunction(c)], c) => Holds(hs[hashfunction(c)], c)
<1> DEFINE hs == Relocked(hd, b, status)
           g == hashfunction(b)
           q == hd[g]
           l == lock_unlock_buff(q, b, status)
<1>1. g \in Headers
  BY HashInHeaders, NumbersAreNat
<1>2. q \in Seq(Node) /\ Distinct(q)
  BY <1>1 DEF QueuesOK
<1>3. /\ l \in Seq(Node) /\ Len(l) = Len(q)
      /\ \A i \in DOMAIN q :
           /\ l[i].block_number = q[i].block_number
           /\ l[i].busy = IF q[i].block_number = b THEN status ELSE q[i].busy
  BY <1>2, LockElements
<1>4. hs = [hd EXCEPT ![g] = l]
  BY DEF Relocked
<1> HIDE DEF l, hs
<1>5. hs \in [Headers -> Seq(Node)]
  BY <1>1, <1>3, <1>4
<1>6. ASSUME NEW h \in Headers
      PROVE  /\ Len(hs[h]) = Len(hd[h])
             /\ DOMAIN hs[h] = DOMAIN hd[h]
             /\ \A i \in DOMAIN hd[h] :
                  /\ hs[h][i].block_number = hd[h][i].block_number
                  /\ hs[h][i].busy =
                       IF hd[h][i].block_number = b THEN status ELSE hd[h][i].busy
  <2>1. CASE h = g
    BY <1>1, <1>2, <1>3, <1>4, <2>1, LenProperties
  <2>2. CASE h # g
    <3>1. hs[h] = hd[h]
      BY <1>4, <2>2
    <3>2. \A i \in DOMAIN hd[h] : hd[h][i].block_number # b
      BY <2>2 DEF QueuesOK
    <3>3. QED
      BY <3>1, <3>2
  <2>3. QED
    BY <2>1, <2>2
<1>7. QueuesOK(hs)
  BY <1>6 DEF QueuesOK, Distinct
<1>8. ASSUME NEW c \in Numbers, Holds(hd[hashfunction(c)], c)
      PROVE  Holds(hs[hashfunction(c)], c)
  BY <1>6, <1>8, HashInHeaders, NumbersAreNat DEF Holds
<1>9. QED
  BY <1>5, <1>6, <1>7, <1>8 DEF hs

\* Scenario 2 on the one queue it changes, which has no node of b: it gains a
\* locked one, and loses the node of the old number only if that is there.
LEMMA MissOneQueue ==
  ASSUME NEW q \in Seq(Node), Distinct(q),
         NEW b \in Numbers, NEW old \in Numbers, ~Holds(q, b)
  PROVE  LET l == lock_unlock_buff(<<NewNode(b)>> \o Unlink(q, old), b, TRUE)
         IN  /\ l \in Seq(Node)
             /\ Len(l) >= Len(q)
             /\ Distinct(l)
             /\ Holds(l, b)
             /\ \A i \in DOMAIN l :
                  \/ l[i].block_number = b /\ l[i].busy = TRUE
                  \/ /\ l[i].block_number # b
                     /\ \E j \in DOMAIN q : /\ l[i].block_number = q[j].block_number
                                            /\ l[i].busy = q[j].busy
             /\ \A c \in Numbers \ {old} : Holds(q, c) => Holds(l, c)
<1> DEFINE u == Unlink(q, old)
           r == <<NewNode(b)>> \o u
           l == lock_unlock_buff(r, b, TRUE)
<1>1. \A i \in DOMAIN q : q[i].block_number # b
  BY DEF Holds
<1>2. /\ u \in Seq(Node)
      /\ Holds(q, old) => Len(u) = Len(q) - 1
      /\ Len(u) >= Len(q) - 1
      /\ Distinct(u)
      /\ \A j \in DOMAIN u :
           u[j].block_number # old /\ \E i \in DOMAIN q : u[j] = q[i]
      /\ \A c : c # old /\ Holds(q, c) => Holds(u, c)
  BY UnlinkElements
<1> HIDE DEF u
<1>3. NewNode(b) \in Node /\ NewNode(b).block_number = b
  BY FreshBuffer
<1>4. /\ r \in Seq(Node)
      /\ Len(r) = Len(u) + 1
      /\ r[1] = NewNode(b)
      /\ \A i \in 1..Len(u) : r[i + 1] = u[i]
      /\ \A j \in DOMAIN r : j # 1 => j - 1 \in DOMAIN u /\ r[j] = u[j - 1]
  BY <1>2, <1>3, ConsElements
<1> HIDE DEF r
<1>5. /\ Len(u) \in Nat /\ DOMAIN u = 1..Len(u)
      /\ Len(q) \in Nat /\ DOMAIN q = 1..Len(q)
      /\ DOMAIN r = 1..Len(u) + 1
  BY <1>2, <1>4, LenProperties
<1>6. \A j \in DOMAIN u : u[j].block_number # b
  BY <1>1, <1>2
<1>7. Distinct(r)
  <2> SUFFICES ASSUME NEW i \in DOMAIN r, NEW j \in DOMAIN r,
                      r[i].block_number = r[j].block_number
               PROVE  i = j
    BY DEF Distinct
  <2>1. CASE i = 1 /\ j # 1
    BY <1>3, <1>4, <1>6, <2>1
  <2>2. CASE i # 1 /\ j = 1
    BY <1>3, <1>4, <1>6, <2>2
  <2>3. CASE i # 1 /\ j # 1
    <3>1. i - 1 \in DOMAIN u /\ r[i] = u[i - 1] /\ j - 1 \in DOMAIN u /\ r[j] = u[j - 1]
      BY <1>4, <2>3
    <3>2. i - 1 = j - 1
      BY <1>2, <3>1 DEF Distinct
    <3>3. QED
      BY <1>5, <3>2
  <2>4. QED
    BY <2>1, <2>2, <2>3
<1>8. /\ l \in Seq(Node) /\ Len(l) = Len(r)
      /\ \A i \in DOMAIN r :
           /\ l[i].block_number = r[i].block_number
           /\ l[i].busy = IF r[i].block_number = b THEN TRUE ELSE r[i].busy
  BY <1>4, <1>7, LockElements
<1> HIDE DEF l
<1>9. DOMAIN l = DOMAIN r
  BY <1>4, <1>8, LenProperties
<1>10. Len(l) >= Len(q)
  <2>1. Len(l) = Len(u) + 1
    BY <1>4, <1>8
  <2>2. Len(u) >= Len(q) - 1
    BY <1>2
  <2>3. QED
    BY <1>5, <2>1, <2>2
<1>11. Distinct(l)
  BY <1>7, <1>8, <1>9 DEF Distinct
<1>12. Holds(l, b)
  <2>1. 1 \in DOMAIN r
    BY <1>5
  <2>2. r[1].block_number = b
    BY <1>3, <1>4
  <2>3. 1 \in DOMAIN l /\ l[1].block_number = b
    BY <1>8, <1>9, <2>1, <2>2
  <2>4. QED
    BY <2>3 DEF Holds
<1>13. ASSUME NEW i \in DOMAIN l
       PROVE  \/ l[i].block_number = b /\ l[i].busy = TRUE
              \/ /\ l[i].block_number # b
                 /\ \E j \in DOMAIN q : /\ l[i].block_number = q[j].block_number
                                        /\ l[i].busy = q[j].busy
  <2>1. CASE i = 1
    <3>1. r[i].block_number = b
      BY <1>3, <1>4, <2>1
    <3>2. QED
      BY <1>8, <1>9, <3>1
  <2>2. CASE i # 1
    <3>1. i - 1 \in DOMAIN u /\ r[i] = u[i - 1]
      BY <1>4, <1>9, <2>2
    <3>2. PICK j \in DOMAIN q : r[i] = q[j]
      BY <1>2, <3>1
    <3>3. r[i].block_number # b
      BY <1>6, <3>1
    <3>4. l[i].block_number = r[i].block_number /\ l[i].busy = r[i].busy
      BY <1>8, <1>9, <3>3
    <3>5. QED
      BY <3>2, <3>3, <3>4
  <2>3. QED
    BY <2>1, <2>2
<1>14. ASSUME NEW c \in Numbers \ {old}, Holds(q, c)
       PROVE  Holds(l, c)
  <2>1. PICK j \in DOMAIN u : u[j].block_number = c
    BY <1>2, <1>14 DEF Holds
  <2>2. j + 1 \in DOMAIN r /\ r[j + 1] = u[j]
    BY <1>4, <1>5, <2>1
  <2>3. j + 1 \in DOMAIN l /\ l[j + 1].block_number = c
    BY <1>8, <1>9, <2>1, <2>2
  <2>4. QED
    BY <2>3 DEF Holds
<1>15. QED
  BY <1>8, <1>10, <1>11, <1>12, <1>13, <1>14 DEF l, r, u

\* So it removes a node of the old number only if that number hashes to the queue
\* of the new one, and in no case makes a queue shorter.
LEMMA MissQueue ==
  ASSUME NEW hd \in [Headers -> Seq(Node)], QueuesOK(hd),
         NEW b \in Numbers, NEW old \in Numbers,
         ~Holds(hd[hashfunction(b)], b)
  PROVE  LET hs == Renewed(hd, b, old)
         IN  /\ hs \in [Headers -> Seq(Node)]
             /\ QueuesOK(hs)
             /\ \A h \in Headers : Len(hs[h]) >= Len(hd[h])
             /\ Holds(hs[hashfunction(b)], b)
             /\ \A h \in Headers : \A i \in DOMAIN hs[h] :
                  \/ hs[h][i].block_number = b /\ hs[h][i].busy = TRUE
                  \/ /\ hs[h][i].block_number # b
                     /\ \E j \in DOMAIN hd[h] :
                          /\ hs[h][i].block_number = hd[h][j].block_number
                          /\ hs[h][i].busy = hd[h][j].busy
             /\ \A c \in Numbers \ {old} :
                  Holds(hd[hashfunction(c)], c) => Holds(hs[hashfunction(c)], c)
<1> DEFINE hs == Renewed(hd, b, old)
           g == hashfunction(b)
           q == hd[g]
           l == lock_unlock_buff(<<NewNode(b)>> \o Unlink(q, old), b, TRUE)
<1>1. g \in Headers
  BY HashInHeaders, NumbersAreNat
<1>2. q \in Seq(Node) /\ Distinct(q) /\ ~Holds(q, b)
  BY <1>1 DEF QueuesOK
<1>3. hs = [hd EXCEPT ![g] = l]
  BY DEF Renewed
<1> HIDE DEF q
<1>4. /\ l \in Seq(Node)
      /\ Len(l) >= Len(q)
      /\ Distinct(l)
      /\ Holds(l, b)
      /\ \A i \in DOMAIN l :
           \/ l[i].block_number = b /\ l[i].busy = TRUE
           \/ /\ l[i].block_number # b
              /\ \E j \in DOMAIN q : /\ l[i].block_number = q[j].block_number
                                     /\ l[i].busy = q[j].busy
      /\ \A c \in Numbers \ {old} : Holds(q, c) => Holds(l, c)
  BY <1>2, MissOneQueue
<1> HIDE DEF l, hs, g
<1>5. q = hd[g]
  BY DEF q
<1>6. hs \in [Headers -> Seq(Node)]
  BY <1>1, <1>3, <1>4
<1>7. hs[g] = l /\ \A h \in Headers : h # g => hs[h] = hd[h]
  BY <1>1, <1>3
<1>8. ASSUME NEW h \in Headers, h # g, NEW i \in DOMAIN hd[h]
      PROVE  hd[h][i].block_number # b
  BY <1>8 DEF QueuesOK, g
<1>9. QueuesOK(hs)
  <2>1. \A i \in DOMAIN l : hashfunction(l[i].block_number) = g
    BY <1>1, <1>4, <1>5 DEF QueuesOK, g
  <2>2. QED
    BY <1>4, <1>7, <2>1 DEF QueuesOK
<1>10. \A h \in Headers : Len(hs[h]) >= Len(hd[h])
  <2> SUFFICES ASSUME NEW h \in Headers PROVE Len(hs[h]) >= Len(hd[h])
    OBVIOUS
  <2>1. Len(hd[h]) \in Nat
    BY LenProperties
  <2>2. CASE h = g
    BY <1>4, <1>5, <1>7, <2>2
  <2>3. CASE h # g
    BY <1>7, <2>1, <2>3
  <2>4. QED
    BY <2>2, <2>3
<1>11. Holds(hs[g], b)
  BY <1>4, <1>7
<1>12. ASSUME NEW h \in Headers, NEW i \in DOMAIN hs[h]
       PROVE  \/ hs[h][i].block_number = b /\ hs[h][i].busy = TRUE
              \/ /\ hs[h][i].block_number # b
                 /\ \E j \in DOMAIN hd[h] :
                      /\ hs[h][i].block_number = hd[h][j].block_number
                      /\ hs[h][i].busy = hd[h][j].busy
  <2>1. CASE h = g
    BY <1>4, <1>5, <1>7, <2>1
  <2>2. CASE h # g
    BY <1>7, <1>8, <2>2
  <2>3. QED
    BY <2>1, <2>2
<1>13. ASSUME NEW c \in Numbers \ {old}, Holds(hd[hashfunction(c)], c)
       PROVE  Holds(hs[hashfunction(c)], c)
  <2>1. CASE hashfunction(c) = g
    BY <1>4, <1>5, <1>7, <1>13, <2>1
  <2>2. CASE hashfunction(c) # g
    BY <1>7, <1>13, <2>2, HashInHeaders, NumbersAreNat
  <2>3. QED
    BY <2>1, <2>2
<1>14. QED
  BY <1>6, <1>9, <1>10, <1>11, <1>12, <1>13 DEF hs, g

----------------------------------------------------------------------------
\* The initial queues.

\* The k-th node of queue h is of a number of the cache that hashes to h, its
\* numbers are distinct, and it has a node of each buffer's number that does.
LEMMA InitialQueueElements ==
  ASSUME NEW h \in Headers
  PROVE  /\ InitialQueue(h) \in Seq(Node)
         /\ Distinct(InitialQueue(h))
         /\ \A k \in DOMAIN InitialQueue(h) :
              /\ hashfunction(InitialQueue(h)[k].block_number) = h
              /\ InitialQueue(h)[k].busy = FALSE
         /\ \A b \in 1..PRIMARY_BUFFERS :
              hashfunction(b) = h => Holds(InitialQueue(h), b)
<1> DEFINE N == DEVICE_NUM
           P == PRIMARY_BUFFERS
           F == FirstOf(h)
           n == (P + N - F) \div N
           r == (P + N - F) % N
           num(k) == F + N * (k - 1)
           q == InitialQueue(h)
<1>1. N \in Nat \ {0} /\ P \in Nat /\ h \in 0..N-1
  BY SizesAssumption DEF Headers
<1>2. F \in 1..N /\ (h = 0 => F = N) /\ (h # 0 => F = h)
  BY <1>1 DEF FirstOf
<1> HIDE DEF N, P, F
<1>3. n \in Nat /\ r \in 0..N-1 /\ P + N - F = N * n + r
  <2>1. P + N - F \in Nat
    BY <1>1, <1>2
  <2>2. QED
    BY <1>1, <2>1, Division
<1> HIDE DEF n, r
<1>4. q = [k \in 1..n |-> NewNode(num(k))]
  BY DEF InitialQueue, n, N, P, F
<1>5. ASSUME NEW k \in 1..n
      PROVE  num(k) \in 1..P /\ hashfunction(num(k)) = h
  <2>1. k - 1 \in Nat /\ N * (k - 1) \in Nat
    BY <1>1, <1>3
  <2>2. N * (k - 1) + N <= N * n
    <3>1. N * k <= N * n
      BY <1>1, <1>3
    <3>2. N * k = N * (k - 1) + N
      BY <1>1, <1>3
    <3>3. QED
      BY <3>1, <3>2
  <2>3. num(k) \in 1..P
    <3> DEFINE x == N * (k - 1)
               y == N * n
    <3>1. x \in Nat /\ x + N <= y
      BY <2>1, <2>2
    <3>2. y \in Int
      BY <1>1, <1>3
    <3>3. r \in 0..N-1 /\ P + N - F = y + r
      BY <1>1, <1>2, <1>3
    <3> HIDE DEF x, y
    <3>4. F + x \in 1..P
      BY <1>1, <1>2, <3>1, <3>2, <3>3
    <3>5. QED
      BY <3>4 DEF x
  <2>4. CASE h = 0
    <3>1. num(k) = N * k + 0
      BY <1>1, <1>2, <1>3, <2>4
    <3>2. k \in Nat /\ 0 \in 0..N-1
      BY <1>1, <1>3
    <3>3. (N * k + 0) % N = 0
      BY <1>1, <3>2, Remainder
    <3> HIDE DEF num
    <3>4. QED
      BY <2>3, <2>4, <3>1, <3>3 DEF hashfunction, N
  <2>5. CASE h # 0
    <3>1. num(k) = N * (k - 1) + h
      BY <1>1, <1>2, <1>3, <2>1, <2>5
    <3>2. QED
      BY <1>1, <2>1, <2>3, <3>1, Remainder DEF hashfunction, N
  <2>6. QED
    BY <2>3, <2>4, <2>5
<1>6. ASSUME NEW k \in 1..n
      PROVE  /\ q[k] \in Node /\ q[k].block_number = num(k) /\ q[k].busy = FALSE
  <2>1. num(k) \in Numbers
    BY <1>5 DEF Numbers, P
  <2>2. q[k] = NewNode(num(k))
    BY <1>4
  <2> HIDE DEF num, q
  <2>3. QED
    BY <2>1, <2>2, FreshBuffer
<1>7. q \in Seq(Node) /\ DOMAIN q = 1..n
  <2>1. DOMAIN q = 1..n
    BY <1>4
  <2>2. q \in [1..n -> Node]
    <3>1. q = [k \in 1..n |-> q[k]]
      BY <1>4
    <3> HIDE DEF q
    <3>2. QED
      BY <1>6, <3>1
  <2> HIDE DEF q
  <2>3. QED
    BY <1>3, <2>1, <2>2, SeqDef
<1> HIDE DEF q
<1>8. Distinct(q)
  <2> SUFFICES ASSUME NEW i \in 1..n, NEW j \in 1..n, num(i) = num(j)
               PROVE  i = j
    <3> SUFFICES ASSUME NEW i \in DOMAIN q, NEW j \in DOMAIN q,
                        q[i].block_number = q[j].block_number
                 PROVE  i = j
      BY DEF Distinct
    <3>1. num(i) = num(j)
      BY <1>6, <1>7
    <3>2. QED
      BY <1>7, <3>1
  <2>1. N * (i - 1) + 0 = N * (j - 1) + 0
    BY <1>1, <1>2, <1>3
  <2>2. i - 1 \in Int /\ j - 1 \in Int /\ 0 \in 0..N-1
    BY <1>1, <1>3
  <2>3. i - 1 = j - 1
    BY <1>1, <2>1, <2>2, DivisionIsUnique
  <2>4. QED
    BY <1>3, <2>3
<1>9. ASSUME NEW b \in 1..P, hashfunction(b) = h
      PROVE  \E k \in 1..n : num(k) = b
  <2>1. b % N = h
    BY <1>9 DEF hashfunction, N
  <2>2. F \in Nat /\ (b % N = 0 => F = N) /\ (b % N # 0 => F = b % N)
    BY <1>1, <1>2, <2>1
  <2>3. N \in Nat \ {0} /\ P \in Nat
    BY <1>1
  <2> DEFINE k == (b + N - F) \div N
  <2>4. k \in 1..n /\ num(k) = b
    BY <2>2, <2>3, PlaceInQueue DEF n
  <2> HIDE DEF k, num
  <2> QED BY <2>4
<1>10. ASSUME NEW b \in 1..P, hashfunction(b) = h
       PROVE  Holds(q, b)
  <2>1. PICK k \in 1..n : num(k) = b
    BY <1>9, <1>10
  <2> HIDE DEF num
  <2>2. QED
    BY <1>6, <1>7, <2>1 DEF Holds
<1>11. QED
  BY <1>5, <1>6, <1>7, <1>8, <1>10 DEF q, P
=============================================================================

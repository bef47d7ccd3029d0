-------------------------- MODULE BufferCacheProofs -------------------------
(***************************************************************************)
(* Proofs about BufferCache: its inductive invariant, the properties that  *)
(* follow from it, and the refinement of BufferPool.                       *)
(***************************************************************************)
EXTENDS BufferCacheLemmas

----------------------------------------------------------------------------
\* The inductive invariant.  Its parts take the lists as parameters, so that the
\* lemmas can be stated of any lists.

\* Each of the PRIMARY_BUFFERS buffers is once in the free list f or lent (l).
Owned(f, l) ==
  /\ Distinct(f)
  /\ IsFiniteSet(l)
  /\ Len(f) + Cardinality(l) = PRIMARY_BUFFERS
  /\ \A buf1, buf2 \in l : buf1.block_number = buf2.block_number => buf1 = buf2
  /\ \A i \in DOMAIN f : \A buf \in l : f[i].block_number # buf.block_number

\* The block of every buffer has a node in its hash queue.
Indexed(hd, f, l) ==
  /\ \A i \in DOMAIN f : Holds(hd[hashfunction(f[i].block_number)], f[i].block_number)
  /\ \A buf \in l : Holds(hd[hashfunction(buf.block_number)], buf.block_number)

\* Exactly the nodes of lent buffers are busy.
Locks(hd, l) ==
  \A h \in Headers : \A i \in DOMAIN hd[h] :
    hd[h][i].busy <=> \E buf \in l : buf.block_number = hd[h][i].block_number

\* A free buffer has no content and no pointer; a lent one points nowhere or to
\* its own block, which is one a caller asked for.
Clean(f, l) ==
  /\ \A i \in DOMAIN f : f[i].ptr_to_block = NULL /\ f[i].ptr_to_data = Zero
  /\ \A buf \in l : /\ buf.ptr_to_block \in {NULL, buf.block_number}
                     /\ buf.block_number \in BlockNumbers

Consistent ==
  /\ QueuesOK(headers)
  /\ Owned(freelist, lent)
  /\ Indexed(headers, freelist, lent)
  /\ Locks(headers, lent)
  /\ Clean(freelist, lent)

IInv == TypeOK /\ (proc = "running" => Consistent)

----------------------------------------------------------------------------
\* How a buffer changes hands.

\* One buffer goes from the free list to a caller, under its own or a new number.
LEMMA LendOwned ==
  ASSUME NEW f \in Seq(Buffer), NEW l \in SUBSET Buffer, Owned(f, l),
         NEW f2 \in Seq(Buffer), Len(f2) = Len(f) - 1, Distinct(f2),
         \A j \in DOMAIN f2 : \E i \in DOMAIN f : f2[j] = f[i],
         NEW nb \in Buffer,
         \A buf \in l : buf.block_number # nb.block_number,
         \A j \in DOMAIN f2 : f2[j].block_number # nb.block_number
  PROVE  Owned(f2, l \union {nb})
<1>1. nb \notin l
  OBVIOUS
<1>2. IsFiniteSet(l \union {nb}) /\ Cardinality(l \union {nb}) = Cardinality(l) + 1
  BY <1>1, FS_AddElement DEF Owned
<1>3. Cardinality(l) \in Nat /\ Len(f) \in Nat
  BY FS_CardinalityType, LenProperties DEF Owned
<1>4. Len(f2) + Cardinality(l \union {nb}) = PRIMARY_BUFFERS
  BY <1>2, <1>3 DEF Owned
<1>5. \A buf1, buf2 \in l \union {nb} :
        buf1.block_number = buf2.block_number => buf1 = buf2
  BY DEF Owned
<1>6. \A j \in DOMAIN f2 : \A buf \in l \union {nb} : f2[j].block_number # buf.block_number
  BY DEF Owned
<1>7. QED
  BY <1>2, <1>4, <1>5, <1>6 DEF Owned

\* One buffer comes back, as a fresh node of the same number.
LEMMA ReturnOwned ==
  ASSUME NEW f \in Seq(Buffer), NEW l \in SUBSET Buffer, Owned(f, l), NEW buf \in l
  PROVE  Owned(Append(f, CreateNewBuffer(buf.block_number)), l \ {buf})
<1> DEFINE n == CreateNewBuffer(buf.block_number)
           f2 == Append(f, n)
<1>1. n \in Buffer /\ n.block_number = buf.block_number
  BY FreshBuffer DEF Buffer
<1> HIDE DEF n
<1>2. /\ f2 \in Seq(Buffer) /\ Len(f2) = Len(f) + 1
      /\ \A i \in 1..Len(f) : f2[i] = f[i]
      /\ f2[Len(f) + 1] = n
  BY <1>1, AppendProperties
<1> HIDE DEF f2
<1>3. Len(f) \in Nat /\ DOMAIN f = 1..Len(f) /\ DOMAIN f2 = 1..Len(f) + 1
  BY <1>2, LenProperties
<1>4. \A i \in DOMAIN f2 : i = Len(f) + 1 \/ i \in DOMAIN f
  BY <1>3
<1>5. IsFiniteSet(l \ {buf}) /\ Cardinality(l \ {buf}) = Cardinality(l) - 1
  BY FS_RemoveElement DEF Owned
<1>6. Cardinality(l) \in Nat
  BY FS_CardinalityType DEF Owned
<1>7. Len(f2) + Cardinality(l \ {buf}) = PRIMARY_BUFFERS
  BY <1>2, <1>3, <1>5, <1>6 DEF Owned
<1>8. \A i \in DOMAIN f : f[i].block_number # n.block_number
  BY <1>1 DEF Owned
<1>9. Distinct(f2)
  BY <1>2, <1>3, <1>4, <1>8 DEF Owned, Distinct
<1>10. \A i \in DOMAIN f2 : \A b \in l \ {buf} : f2[i].block_number # b.block_number
  BY <1>1, <1>2, <1>3, <1>4 DEF Owned
<1>11. QED
  BY <1>5, <1>7, <1>9, <1>10 DEF Owned, f2, n

----------------------------------------------------------------------------
\* Initial states.

LEMMA InitInvariant == Init => IInv
<1> SUFFICES ASSUME Init PROVE IInv
  OBVIOUS
<1>1. /\ headers = [h \in Headers |-> InitialQueue(h)]
      /\ freelist = [i \in 1..PRIMARY_BUFFERS |-> CreateNewBuffer(i)]
      /\ lent = {} /\ blocks = [b \in DiskBlocks |-> Zero] /\ proc = "running"
  BY DEF Init
<1>2. headers \in [Headers -> Seq(Node)]
  BY <1>1, InitialQueueElements
<1>3. /\ freelist \in Seq(Buffer) /\ DOMAIN freelist = 1..PRIMARY_BUFFERS
      /\ Len(freelist) = PRIMARY_BUFFERS
      /\ \A i \in 1..PRIMARY_BUFFERS : freelist[i].block_number = i
      /\ \A i \in 1..PRIMARY_BUFFERS :
           freelist[i].ptr_to_block = NULL /\ freelist[i].ptr_to_data = Zero
  <2>1. \A i \in 1..PRIMARY_BUFFERS : freelist[i] = CreateNewBuffer(i) /\ i \in Numbers
    BY <1>1 DEF Numbers
  <2>2. \A i \in 1..PRIMARY_BUFFERS :
          /\ freelist[i] \in Buffer /\ freelist[i].block_number = i
          /\ freelist[i].ptr_to_block = NULL /\ freelist[i].ptr_to_data = Zero
    <3> TAKE i \in 1..PRIMARY_BUFFERS
    <3>1. freelist[i] = CreateNewBuffer(i) /\ i \in Numbers
      BY <2>1
    <3>2. QED
      BY <3>1, FreshBuffer
  <2>3. PRIMARY_BUFFERS \in Nat
    BY SizesAssumption
  <2>4. freelist \in [1..PRIMARY_BUFFERS -> Buffer]
    BY <1>1, <2>2
  <2>5. freelist \in Seq(Buffer)
    BY <2>3, <2>4, SeqDef
  <2>6. DOMAIN freelist = 1..PRIMARY_BUFFERS /\ Len(freelist) = PRIMARY_BUFFERS
    BY <2>3, <2>4, <2>5, LenProperties
  <2>7. QED
    BY <2>2, <2>5, <2>6
<1>4. TypeOK
  BY <1>1, <1>2, <1>3, ZeroIsData DEF TypeOK
<1>5. QueuesOK(headers)
  BY <1>1, InitialQueueElements DEF QueuesOK
<1>6. Owned(freelist, lent)
  <2>1. IsFiniteSet(lent) /\ Cardinality(lent) = 0
    BY <1>1, FS_EmptySet
  <2>2. Len(freelist) + Cardinality(lent) = PRIMARY_BUFFERS
    BY <1>3, <2>1, SizesAssumption
  <2>3. Distinct(freelist)
    BY <1>3 DEF Distinct
  <2>4. QED
    BY <1>1, <2>1, <2>2, <2>3 DEF Owned
<1>7. Indexed(headers, freelist, lent)
  <2> SUFFICES ASSUME NEW i \in 1..PRIMARY_BUFFERS
               PROVE  Holds(headers[hashfunction(i)], i)
    BY <1>1, <1>3 DEF Indexed
  <2>1. hashfunction(i) \in Headers
    BY HashInHeaders
  <2>2. headers[hashfunction(i)] = InitialQueue(hashfunction(i))
    BY <1>1, <2>1
  <2>3. QED
    BY <2>1, <2>2, InitialQueueElements
<1>8. Locks(headers, lent)
  BY <1>1, InitialQueueElements DEF Locks
<1>9. Clean(freelist, lent)
  BY <1>1, <1>3 DEF Clean
<1>10. QED
  BY <1>4, <1>5, <1>6, <1>7, <1>8, <1>9 DEF IInv, Consistent

----------------------------------------------------------------------------
\* Steps.

\* What the caller gets in nb if it gets buf, by bread or by getblk alone.
Receives(buf, nb) ==
  /\ nb.block_number = buf.block_number
  /\ nb.ptr_to_block = buf.ptr_to_block
  /\ \/ nb.ptr_to_data = buf.ptr_to_data
     \/ \E data \in Text(buf.block_number) :
          nb.ptr_to_data = strcpy(buf.ptr_to_data, data)

\* What Lend adds to lent.
LEMMA LendAdds ==
  ASSUME TypeOK, NEW buf \in Buffer, NEW read \in BOOLEAN,
         Lend(buf, read), proc' = "running"
  PROVE  \E nb \in Buffer : lent' = lent \union {nb} /\ Receives(buf, nb)
<1>1. CASE read
  <2>1. PICK data \in Text(buf.block_number) :
               lent' = lent \union {[buf EXCEPT !.ptr_to_data = strcpy(@, data)]}
    BY <1>1 DEF Lend
  <2> DEFINE copied == strcpy(buf.ptr_to_data, data)
             nb == [buf EXCEPT !.ptr_to_data = copied]
  <2>2. data \in Data
    BY DEF Text, TypeOK
  <2>3. copied \in Data
    <3>1. buf.ptr_to_data \in Data
      BY DEF Buffer
    <3>2. QED
      BY <2>2, <3>1, CopyIsData
  <2>4. lent' = lent \union {nb}
    BY <2>1
  <2> HIDE DEF copied
  <2>5. /\ nb \in Buffer /\ nb.block_number = buf.block_number
        /\ nb.ptr_to_block = buf.ptr_to_block
        /\ nb.ptr_to_data = copied
    BY <2>3, FilledBuffer
  <2> HIDE DEF nb
  <2>6. Receives(buf, nb)
    BY <2>5 DEF Receives, copied
  <2>7. QED
    BY <2>4, <2>5, <2>6
<1>2. CASE ~read
  BY <1>2 DEF Lend, Receives
<1>3. QED
  BY <1>1, <1>2

\* The free list's side of scenario 1.
LEMMA HitStep ==
  ASSUME IInv, NEW b \in BlockNumbers, NEW read \in BOOLEAN,
         GetblkHit(b, read), proc' = "running"
  PROVE  /\ TypeOK' /\ Consistent'
         /\ proc' = proc /\ blocks' = blocks
         /\ \A h \in Headers : Len(headers'[h]) = Len(headers[h])
         /\ \E p \in DOMAIN freelist :
              /\ freelist[p].block_number = b
              /\ freelist' = RemoveAt(freelist, p)
         /\ \E nb \in Buffer :
              /\ lent' = lent \union {nb}
              /\ nb.block_number = b
              /\ \/ nb.ptr_to_data = Zero
                 \/ \E data \in Text(b) : nb.ptr_to_data = strcpy(Zero, data)
<1> DEFINE p == Position(freelist, b)
           buf == freelist[p]
<1>1. /\ proc = "running" /\ Holds(freelist, b)
      /\ headers' = Relocked(headers, b, TRUE)
      /\ freelist' = Unlink(freelist, b)
      /\ Lend(buf, read)
  BY DEF GetblkHit, Relocked
<1>2. TypeOK /\ Consistent
  BY <1>1 DEF IInv
<1>3. /\ headers \in [Headers -> Seq(Node)] /\ QueuesOK(headers)
      /\ freelist \in Seq(Buffer) /\ Distinct(freelist) /\ lent \in SUBSET Buffer
  BY <1>2 DEF TypeOK, Consistent, Owned
<1>4. p \in DOMAIN freelist /\ buf.block_number = b /\ buf \in Buffer
  BY <1>1, <1>3, PositionIsUnique
<1>5. freelist' = RemoveAt(freelist, p)
  BY <1>1 DEF Unlink
<1>6. /\ freelist' \in Seq(Buffer) /\ Len(freelist') = Len(freelist) - 1
      /\ Distinct(freelist')
      /\ \A j \in DOMAIN freelist' :
           /\ freelist'[j].block_number # b
           /\ \E i \in DOMAIN freelist : freelist'[j] = freelist[i]
  BY <1>1, <1>3, UnlinkElements
<1>7. buf.ptr_to_block = NULL /\ buf.ptr_to_data = Zero
  BY <1>2, <1>4 DEF Consistent, Clean
<1>8. PICK nb \in Buffer :
        /\ lent' = lent \union {nb}
        /\ nb.block_number = b
        /\ nb.ptr_to_block = NULL
        /\ \/ nb.ptr_to_data = Zero
           \/ \E data \in Text(b) : nb.ptr_to_data = strcpy(Zero, data)
  <2> HIDE DEF buf
  <2>1. PICK nb \in Buffer : lent' = lent \union {nb} /\ Receives(buf, nb)
    BY <1>1, <1>2, <1>4, LendAdds
  <2>2. QED
    BY <1>4, <1>7, <2>1 DEF Receives
<1> HIDE DEF p, buf
<1>9. b \in Numbers
  BY DEF Numbers
<1>10. /\ headers' \in [Headers -> Seq(Node)]
       /\ \A h \in Headers :
            /\ Len(headers'[h]) = Len(headers[h])
            /\ DOMAIN headers'[h] = DOMAIN headers[h]
            /\ \A i \in DOMAIN headers[h] :
                 /\ headers'[h][i].block_number = headers[h][i].block_number
                 /\ headers'[h][i].busy =
                      IF headers[h][i].block_number = b THEN TRUE ELSE headers[h][i].busy
       /\ QueuesOK(headers')
       /\ \A c \in Numbers :
            Holds(headers[hashfunction(c)], c) => Holds(headers'[hashfunction(c)], c)
  <2> DEFINE hs == Relocked(headers, b, TRUE)
  <2>1. /\ hs \in [Headers -> Seq(Node)]
        /\ \A h \in Headers :
             /\ Len(hs[h]) = Len(headers[h])
             /\ DOMAIN hs[h] = DOMAIN headers[h]
             /\ \A i \in DOMAIN headers[h] :
                  /\ hs[h][i].block_number = headers[h][i].block_number
                  /\ hs[h][i].busy =
                       IF headers[h][i].block_number = b THEN TRUE ELSE headers[h][i].busy
        /\ QueuesOK(hs)
        /\ \A c \in Numbers :
             Holds(headers[hashfunction(c)], c) => Holds(hs[hashfunction(c)], c)
    BY <1>3, <1>9, LockQueue
  <2>2. headers' = hs
    BY <1>1
  <2> HIDE DEF hs
  <2>3. QED
    BY <2>1, <2>2
<1>11. \A other \in lent : other.block_number # b
  BY <1>2, <1>4 DEF Consistent, Owned, buf
<1>12. Owned(freelist', lent')
  BY <1>2, <1>3, <1>6, <1>8, <1>11, LendOwned DEF Consistent
<1>13. Indexed(headers', freelist', lent')
  <2>1. \A i \in DOMAIN freelist :
          freelist[i].block_number \in Numbers
          /\ Holds(headers[hashfunction(freelist[i].block_number)], freelist[i].block_number)
    <3> TAKE i \in DOMAIN freelist
    <3>1. freelist[i] \in Buffer
      BY <1>3
    <3>2. QED
      BY <1>2, <3>1 DEF Consistent, Indexed, Buffer
  <2>2. \A x \in lent :
          x.block_number \in Numbers
          /\ Holds(headers[hashfunction(x.block_number)], x.block_number)
    BY <1>2, <1>3 DEF Consistent, Indexed, Buffer
  <2>3. Holds(headers'[hashfunction(b)], b)
    BY <1>4, <1>9, <1>10, <2>1 DEF buf
  <2>4. QED
    BY <1>6, <1>8, <1>10, <2>1, <2>2, <2>3 DEF Indexed
<1>14. Locks(headers', lent')
  <2> SUFFICES ASSUME NEW h \in Headers, NEW i \in DOMAIN headers[h]
               PROVE  headers'[h][i].busy <=>
                        \E x \in lent' : x.block_number = headers'[h][i].block_number
    BY <1>10 DEF Locks
  <2>1. headers[h][i].busy <=> \E x \in lent : x.block_number = headers[h][i].block_number
    BY <1>2 DEF Consistent, Locks
  <2>2. /\ headers'[h][i].block_number = headers[h][i].block_number
        /\ headers'[h][i].busy =
             IF headers[h][i].block_number = b THEN TRUE ELSE headers[h][i].busy
    BY <1>10
  <2>3. CASE headers[h][i].block_number = b
    BY <1>8, <2>2, <2>3
  <2>4. CASE headers[h][i].block_number # b
    <3>1. headers'[h][i].busy = headers[h][i].busy
      BY <2>2, <2>4
    <3>2. QED
      BY <1>8, <2>1, <2>2, <2>4, <3>1
  <2>5. QED
    BY <2>3, <2>4
<1>15. Clean(freelist', lent')
  BY <1>2, <1>6, <1>8 DEF Consistent, Clean
<1>16. proc' = proc /\ blocks' = blocks
  BY <1>1, proc' = "running" DEF Lend
<1>17. TypeOK'
  <2>1. lent' \subseteq Buffer
    BY <1>3, <1>8
  <2>2. QED
    BY <1>2, <1>6, <1>10, <1>16, <2>1 DEF TypeOK
<1>18. Consistent'
  BY <1>10, <1>12, <1>13, <1>14, <1>15 DEF Consistent
<1>19. QED
  BY <1>4, <1>5, <1>8, <1>10, <1>16, <1>17, <1>18 DEF buf

\* Scenario 2.
LEMMA MissStep ==
  ASSUME IInv, NEW b \in BlockNumbers, NEW read \in BOOLEAN,
         GetblkMiss(b, read), proc' = "running"
  PROVE  /\ TypeOK' /\ Consistent'
         /\ proc' = proc /\ blocks' = blocks
         /\ \A h \in Headers : Len(headers'[h]) >= Len(headers[h])
         /\ freelist # <<>> /\ freelist' = Tail(freelist)
         /\ \A i \in DOMAIN freelist : freelist[i].block_number # b
         /\ \A x \in lent : x.block_number # b
         /\ \E nb \in Buffer :
              /\ lent' = lent \union {nb}
              /\ nb.block_number = b
              /\ \/ nb.ptr_to_data = Zero
                 \/ \E data \in Text(b) : nb.ptr_to_data = strcpy(Zero, data)
<1> DEFINE travel == Head(freelist)
           old    == travel.block_number
           buf    == [travel EXCEPT !.block_number = b, !.ptr_to_block = b]
           hs     == Renewed(headers, b, old)
<1>1. /\ proc = "running" /\ ~Holds(headers[hashfunction(b)], b) /\ freelist # <<>>
      /\ freelist' = Tail(freelist)
      /\ headers' = hs
      /\ Lend(buf, read)
  BY DEF GetblkMiss, Renewed, Queue
<1>2. TypeOK /\ Consistent
  BY <1>1 DEF IInv
<1>3. /\ headers \in [Headers -> Seq(Node)] /\ QueuesOK(headers)
      /\ freelist \in Seq(Buffer) /\ Distinct(freelist) /\ lent \in SUBSET Buffer
  BY <1>2 DEF TypeOK, Consistent, Owned
<1>4. b \in Numbers
  BY DEF Numbers
<1>5. Len(freelist) \in Nat \ {0} /\ DOMAIN freelist = 1..Len(freelist)
  BY <1>1, <1>3, EmptySeq, LenProperties
<1>6. /\ freelist' \in Seq(Buffer) /\ Len(freelist') = Len(freelist) - 1
      /\ \A i \in 1..Len(freelist) - 1 : freelist'[i] = freelist[i + 1]
      /\ DOMAIN freelist' = 1..Len(freelist) - 1
  BY <1>1, <1>3, <1>5, HeadTailProperties, LenProperties
<1>7. travel = freelist[1] /\ travel \in Buffer /\ old \in Numbers
  <2>1. travel = freelist[1] /\ freelist[1] \in Buffer
    BY <1>1, <1>3, <1>5
  <2>2. QED
    BY <2>1 DEF Buffer
<1>8. /\ buf \in Buffer /\ buf.block_number = b /\ buf.ptr_to_block = b
      /\ buf.ptr_to_data = travel.ptr_to_data
  <2> HIDE DEF travel
  <2>1. QED
    BY <1>4, <1>7, RenumberedBuffer
<1> HIDE DEF travel, buf
<1>9. travel.ptr_to_data = Zero
  BY <1>2, <1>5, <1>7 DEF Consistent, Clean
<1>10. \A j \in DOMAIN freelist' :
         /\ j + 1 \in DOMAIN freelist /\ freelist'[j] = freelist[j + 1]
         /\ freelist'[j].block_number # old
  BY <1>3, <1>5, <1>6, <1>7 DEF Distinct
<1>11. /\ \A i \in DOMAIN freelist : freelist[i].block_number # b
       /\ \A x \in lent : x.block_number # b
  BY <1>1, <1>2 DEF Consistent, Indexed
<1>12. Distinct(freelist')
  <2> SUFFICES ASSUME NEW i \in DOMAIN freelist', NEW j \in DOMAIN freelist',
                      freelist'[i].block_number = freelist'[j].block_number
               PROVE  i = j
    BY DEF Distinct
  <2>1. i + 1 = j + 1
    BY <1>3, <1>10 DEF Distinct
  <2>2. QED
    BY <1>5, <1>6, <2>1
<1>13. PICK nb \in Buffer :
         /\ lent' = lent \union {nb}
         /\ nb.block_number = b
         /\ nb.ptr_to_block = b
         /\ \/ nb.ptr_to_data = Zero
            \/ \E data \in Text(b) : nb.ptr_to_data = strcpy(Zero, data)
  <2>1. PICK nb \in Buffer : lent' = lent \union {nb} /\ Receives(buf, nb)
    BY <1>1, <1>2, <1>8, LendAdds
  <2>2. QED
    BY <1>8, <1>9, <2>1 DEF Receives
<1>14. /\ hs \in [Headers -> Seq(Node)]
       /\ QueuesOK(hs)
       /\ \A h \in Headers : Len(hs[h]) >= Len(headers[h])
       /\ Holds(hs[hashfunction(b)], b)
       /\ \A h \in Headers : \A i \in DOMAIN hs[h] :
            \/ hs[h][i].block_number = b /\ hs[h][i].busy = TRUE
            \/ /\ hs[h][i].block_number # b
               /\ \E j \in DOMAIN headers[h] :
                    /\ hs[h][i].block_number = headers[h][j].block_number
                    /\ hs[h][i].busy = headers[h][j].busy
       /\ \A c \in Numbers \ {old} :
            Holds(headers[hashfunction(c)], c) => Holds(hs[hashfunction(c)], c)
  BY <1>1, <1>3, <1>4, <1>7, MissQueue
<1> HIDE DEF hs, old
<1>15. Owned(freelist', lent')
  <2>1. \A j \in DOMAIN freelist' : \E i \in DOMAIN freelist : freelist'[j] = freelist[i]
    BY <1>10
  <2>2. \A j \in DOMAIN freelist' : freelist'[j].block_number # nb.block_number
    BY <1>10, <1>11, <1>13
  <2>3. \A x \in lent : x.block_number # nb.block_number
    BY <1>11, <1>13
  <2>4. Owned(freelist', lent \union {nb})
    BY <1>2, <1>3, <1>6, <1>12, <2>1, <2>2, <2>3, LendOwned DEF Consistent
  <2>5. QED
    BY <1>13, <2>4
<1>16. Indexed(hs, freelist', lent')
  <2>1. \A j \in DOMAIN freelist' : Holds(hs[hashfunction(freelist'[j].block_number)],
                                          freelist'[j].block_number)
    <3> SUFFICES ASSUME NEW j \in DOMAIN freelist'
                 PROVE  Holds(hs[hashfunction(freelist'[j].block_number)],
                              freelist'[j].block_number)
      OBVIOUS
    <3> DEFINE c == freelist[j + 1].block_number
    <3>1. j + 1 \in DOMAIN freelist /\ freelist'[j].block_number = c /\ c # old
      BY <1>10
    <3>2. c \in Numbers
      <4>1. freelist[j + 1] \in Buffer
        BY <1>3, <3>1
      <4>2. QED
        BY <4>1 DEF Buffer
    <3>3. Holds(headers[hashfunction(c)], c)
      BY <1>2, <3>1 DEF Consistent, Indexed
    <3> HIDE DEF c
    <3>4. QED
      BY <1>14, <3>1, <3>2, <3>3
  <2>2. \A x \in lent : Holds(hs[hashfunction(x.block_number)], x.block_number)
    <3> SUFFICES ASSUME NEW x \in lent
                 PROVE  Holds(hs[hashfunction(x.block_number)], x.block_number)
      OBVIOUS
    <3>1. x.block_number \in Numbers
      BY <1>3 DEF Buffer
    <3>2. x.block_number # old
      BY <1>2, <1>5, <1>7 DEF Consistent, Owned, old
    <3>3. Holds(headers[hashfunction(x.block_number)], x.block_number)
      BY <1>2 DEF Consistent, Indexed
    <3>4. QED
      BY <1>14, <3>1, <3>2, <3>3
  <2>3. QED
    BY <1>13, <1>14, <2>1, <2>2 DEF Indexed
<1>17. Locks(hs, lent')
  <2> SUFFICES ASSUME NEW h \in Headers, NEW i \in DOMAIN hs[h]
               PROVE  hs[h][i].busy <=>
                        \E x \in lent' : x.block_number = hs[h][i].block_number
    BY DEF Locks
  <2>1. CASE hs[h][i].block_number = b /\ hs[h][i].busy = TRUE
    BY <1>13, <2>1
  <2>2. CASE hs[h][i].block_number # b
    <3>1. PICK j \in DOMAIN headers[h] :
            /\ hs[h][i].block_number = headers[h][j].block_number
            /\ hs[h][i].busy = headers[h][j].busy
      BY <1>14, <2>2
    <3>2. headers[h][j].busy <=>
            \E x \in lent : x.block_number = headers[h][j].block_number
      BY <1>2 DEF Consistent, Locks
    <3>3. QED
      BY <1>13, <2>2, <3>1, <3>2
  <2>3. QED
    BY <1>14, <2>1, <2>2
<1>18. Clean(freelist', lent')
  BY <1>2, <1>10, <1>13 DEF Consistent, Clean
<1>19. proc' = proc /\ blocks' = blocks
  BY <1>1 DEF Lend
<1>20. TypeOK'
  <2>1. lent' \subseteq Buffer
    BY <1>3, <1>13
  <2>2. headers' \in [Headers -> Seq(Node)]
    BY <1>1, <1>14 DEF hs
  <2>3. QED
    BY <1>2, <1>6, <1>19, <2>1, <2>2 DEF TypeOK
<1>21. Consistent'
  BY <1>1, <1>14, <1>15, <1>16, <1>17, <1>18 DEF Consistent, hs
<1>22. QED
  BY <1>1, <1>11, <1>13, <1>14, <1>19, <1>20, <1>21

\* A buffer comes back.
LEMMA ReleaseStep ==
  ASSUME IInv, NEW buf \in lent, brelse(buf)
  PROVE  /\ TypeOK' /\ Consistent'
         /\ proc' = proc /\ blocks' = blocks
         /\ lent' = lent \ {buf}
         /\ freelist' = Append(freelist, CreateNewBuffer(buf.block_number))
         /\ \A h \in Headers : Len(headers'[h]) = Len(headers[h])
<1> DEFINE b  == buf.block_number
           n  == CreateNewBuffer(b)
           hs == Relocked(headers, b, FALSE)
<1>1. /\ proc = "running" /\ proc' = proc /\ blocks' = blocks
      /\ lent' = lent \ {buf}
      /\ freelist' = Append(freelist, n)
      /\ headers' = hs
  BY DEF brelse, Relocked
<1>2. TypeOK /\ Consistent
  BY <1>1 DEF IInv
<1>3. /\ headers \in [Headers -> Seq(Node)] /\ QueuesOK(headers)
      /\ freelist \in Seq(Buffer) /\ lent \in SUBSET Buffer
  BY <1>2 DEF TypeOK, Consistent
<1>4. b \in Numbers
  BY <1>3 DEF Buffer
<1>5. /\ n \in Buffer /\ n.block_number = b
      /\ n.ptr_to_block = NULL /\ n.ptr_to_data = Zero
  <2> HIDE DEF b
  <2>1. QED
    BY <1>4, FreshBuffer
<1>6. Owned(freelist', lent')
  BY <1>1, <1>2, <1>3, ReturnOwned DEF Consistent
<1> HIDE DEF n, b
<1>7. /\ freelist' \in Seq(Buffer)
      /\ \A i \in DOMAIN freelist' : i \in DOMAIN freelist \/ freelist'[i] = n
      /\ \A i \in DOMAIN freelist : freelist'[i] = freelist[i]
  <2>1. /\ freelist' \in Seq(Buffer) /\ Len(freelist') = Len(freelist) + 1
        /\ \A i \in 1..Len(freelist) : freelist'[i] = freelist[i]
        /\ freelist'[Len(freelist) + 1] = n
    BY <1>1, <1>3, <1>5, AppendProperties
  <2>2. /\ Len(freelist) \in Nat /\ DOMAIN freelist = 1..Len(freelist)
        /\ DOMAIN freelist' = 1..Len(freelist) + 1
    BY <1>3, <2>1, LenProperties
  <2>3. QED
    BY <2>1, <2>2
<1>8. /\ hs \in [Headers -> Seq(Node)]
      /\ \A h \in Headers :
           /\ Len(hs[h]) = Len(headers[h])
           /\ DOMAIN hs[h] = DOMAIN headers[h]
           /\ \A i \in DOMAIN headers[h] :
                /\ hs[h][i].block_number = headers[h][i].block_number
                /\ hs[h][i].busy =
                     IF headers[h][i].block_number = b THEN FALSE ELSE headers[h][i].busy
      /\ QueuesOK(hs)
      /\ \A c \in Numbers : Holds(headers[hashfunction(c)], c) => Holds(hs[hashfunction(c)], c)
  BY <1>3, <1>4, LockQueue
<1> HIDE DEF hs
<1>9. \A x \in lent : x.block_number = b => x = buf
  BY <1>2 DEF Consistent, Owned, b
<1>10. Indexed(hs, freelist', lent')
  <2>1. \A x \in lent : x.block_number \in Numbers
                        /\ Holds(headers[hashfunction(x.block_number)], x.block_number)
    BY <1>2, <1>3 DEF Consistent, Indexed, Buffer
  <2>2. \A i \in DOMAIN freelist :
          Holds(hs[hashfunction(freelist[i].block_number)], freelist[i].block_number)
    <3> TAKE i \in DOMAIN freelist
    <3>1. freelist[i] \in Buffer
      BY <1>3
    <3>2. freelist[i].block_number \in Numbers
      BY <3>1 DEF Buffer
    <3>3. QED
      BY <1>2, <1>8, <3>2 DEF Consistent, Indexed
  <2>3. Holds(hs[hashfunction(b)], b)
    BY <1>8, <2>1 DEF b
  <2>4. \A i \in DOMAIN freelist' :
          Holds(hs[hashfunction(freelist'[i].block_number)], freelist'[i].block_number)
    BY <1>5, <1>7, <2>2, <2>3
  <2>5. \A x \in lent' : Holds(hs[hashfunction(x.block_number)], x.block_number)
    BY <1>1, <1>8, <2>1
  <2>6. QED
    BY <2>4, <2>5 DEF Indexed
<1>11. Locks(hs, lent')
  <2> SUFFICES ASSUME NEW h \in Headers, NEW i \in DOMAIN hs[h]
               PROVE  hs[h][i].busy <=>
                        \E x \in lent' : x.block_number = hs[h][i].block_number
    BY DEF Locks
  <2> i \in DOMAIN headers[h] /\ hs[h][i].block_number = headers[h][i].block_number
    BY <1>8
  <2>1. headers[h][i].busy <=> \E x \in lent : x.block_number = headers[h][i].block_number
    BY <1>2 DEF Consistent, Locks
  <2>2. CASE headers[h][i].block_number = b
    <3>1. hs[h][i].busy = FALSE
      BY <1>8, <2>2
    <3>2. QED
      BY <1>1, <1>9, <2>2, <3>1
  <2>3. CASE headers[h][i].block_number # b
    <3>1. hs[h][i].busy = headers[h][i].busy
      BY <1>8, <2>3
    <3>2. \A x \in lent : x.block_number = headers[h][i].block_number => x \in lent'
      BY <1>1, <2>3 DEF b
    <3>3. QED
      BY <1>1, <2>1, <3>1, <3>2
  <2>4. QED
    BY <2>2, <2>3
<1>12. Clean(freelist', lent')
  BY <1>1, <1>2, <1>5, <1>7 DEF Consistent, Clean
<1>13. TypeOK'
  <2>1. headers' \in [Headers -> Seq(Node)]
    BY <1>1, <1>8
  <2>2. QED
    BY <1>1, <1>2, <1>7, <2>1 DEF TypeOK
<1>14. Consistent'
  BY <1>1, <1>6, <1>8, <1>10, <1>11, <1>12 DEF Consistent
<1>15. QED
  BY <1>1, <1>8, <1>13, <1>14 DEF n, b

\* The caller fills its buffer: the numbers lent stay the same.
LEMMA FillStep ==
  ASSUME IInv, NEW buf \in lent, NEW d \in Data, Fill(buf, d)
  PROVE  /\ TypeOK' /\ Consistent'
         /\ UNCHANGED <<headers, freelist, blocks, proc>>
         /\ LentNumbers' = LentNumbers
<1> DEFINE nb == [buf EXCEPT !.ptr_to_data = d]
<1>1. /\ proc = "running" /\ lent' = (lent \ {buf}) \union {nb}
      /\ headers' = headers /\ freelist' = freelist /\ blocks' = blocks /\ proc' = proc
  BY DEF Fill
<1>2. TypeOK /\ Consistent
  BY <1>1 DEF IInv
<1>3. lent \in SUBSET Buffer /\ buf \in Buffer
  BY <1>2 DEF TypeOK
<1>4. /\ nb \in Buffer /\ nb.block_number = buf.block_number
      /\ nb.ptr_to_block = buf.ptr_to_block
  BY <1>3, FilledBuffer
<1> HIDE DEF nb
<1>5. \A x \in lent : x.block_number = buf.block_number => x = buf
  BY <1>2 DEF Consistent, Owned
<1>6. \A x \in lent' : \E y \in lent : x.block_number = y.block_number
  BY <1>1, <1>4
<1>7. \A y \in lent : \E x \in lent' : x.block_number = y.block_number
  BY <1>1, <1>4
<1>8. Owned(freelist', lent')
  <2>1. nb \notin lent \ {buf}
    BY <1>4, <1>5
  <2>2. IsFiniteSet(lent \ {buf}) /\ Cardinality(lent \ {buf}) = Cardinality(lent) - 1
    BY <1>2, FS_RemoveElement DEF Consistent, Owned
  <2>3. IsFiniteSet(lent') /\ Cardinality(lent') = Cardinality(lent \ {buf}) + 1
    BY <1>1, <2>1, <2>2, FS_AddElement
  <2>4. Cardinality(lent) \in Nat
    BY <1>2, FS_CardinalityType DEF Consistent, Owned
  <2>5. Cardinality(lent') = Cardinality(lent)
    BY <2>2, <2>3, <2>4
  <2>6. \A x, y \in lent' : x.block_number = y.block_number => x = y
    BY <1>1, <1>2, <1>4, <1>5 DEF Consistent, Owned
  <2>7. \A i \in DOMAIN freelist : \A x \in lent' : freelist[i].block_number # x.block_number
    BY <1>2, <1>6 DEF Consistent, Owned
  <2>8. QED
    BY <1>1, <1>2, <2>3, <2>5, <2>6, <2>7 DEF Consistent, Owned
<1>9. Indexed(headers', freelist', lent')
  BY <1>1, <1>2, <1>6 DEF Consistent, Indexed
<1>10. Locks(headers', lent')
  BY <1>1, <1>2, <1>6, <1>7 DEF Consistent, Locks
<1>11. Clean(freelist', lent')
  BY <1>1, <1>2, <1>4 DEF Consistent, Clean
<1>12. TypeOK'
  BY <1>1, <1>2, <1>3, <1>4 DEF TypeOK
<1>13. Consistent'
  BY <1>1, <1>2, <1>8, <1>9, <1>10, <1>11 DEF Consistent
<1>14. LentNumbers' = LentNumbers
  BY <1>6, <1>7 DEF LentNumbers
<1>15. QED
  BY <1>1, <1>12, <1>13, <1>14

\* bwrite changes the buffer's own block and, if the buffer is full, the next one.
LEMMA WriteStep ==
  ASSUME IInv, NEW buf \in lent, bwrite(buf)
  PROVE  /\ TypeOK' /\ Consistent'
         /\ UNCHANGED <<headers, freelist, lent, proc>>
         /\ \A c \in DiskBlocks :
              blocks'[c] # blocks[c] =>
                \/ /\ buf.block_number = c
                   /\ blocks'[c] = strcpy(blocks[c], buf.ptr_to_data)
                \/ /\ buf.block_number + 1 = c
                   /\ Full(buf.ptr_to_data) /\ ~Full(blocks'[c])
<1> DEFINE b == buf.ptr_to_block
           data == buf.ptr_to_data
<1>1. /\ proc = "running" /\ b # NULL
      /\ headers' = headers /\ freelist' = freelist /\ lent' = lent /\ proc' = proc
  BY DEF bwrite
<1>2. PICK behind \in {d \in Data : ~Full(d)} :
        blocks' = [c \in DiskBlocks |->
                     CASE c = b                   -> strcpy(blocks[c], data)
                       [] c = b + 1 /\ Full(data) -> strcpy(blocks[c], behind)
                       [] OTHER                   -> blocks[c]]
  BY DEF bwrite
<1>3. TypeOK /\ Consistent
  BY <1>1 DEF IInv
<1>4. data \in Data /\ behind \in Data /\ ~Full(behind)
      /\ \A c \in DiskBlocks : blocks[c] \in Data
  BY <1>3 DEF TypeOK, Buffer
<1> HIDE DEF b, data
<1>5. ASSUME NEW c \in DiskBlocks
      PROVE  \/ c = b /\ blocks'[c] = strcpy(blocks[c], data)
             \/ c = b + 1 /\ Full(data) /\ blocks'[c] = strcpy(blocks[c], behind)
             \/ blocks'[c] = blocks[c]
  BY <1>2
<1>6. TypeOK'
  <2>1. \A c \in DiskBlocks : blocks'[c] \in Data
    BY <1>4, <1>5, CopyIsData
  <2>2. blocks' \in [DiskBlocks -> Data]
    BY <1>2, <2>1
  <2>3. QED
    BY <1>1, <1>3, <2>2 DEF TypeOK
<1>7. Consistent'
  BY <1>1, <1>3 DEF Consistent
<1>8. b = buf.block_number
  BY <1>1, <1>3 DEF Consistent, Clean, b
<1>9. ASSUME NEW c \in DiskBlocks, blocks'[c] # blocks[c]
      PROVE  \/ b = c /\ blocks'[c] = strcpy(blocks[c], data)
             \/ b + 1 = c /\ Full(data) /\ ~Full(blocks'[c])
  BY <1>4, <1>5, <1>9, CopyEnds
<1>10. QED
  BY <1>1, <1>6, <1>7, <1>8, <1>9 DEF data

\* The calls that do not return, bread's overruns among them, keep the types, and shorten no queue.
NeverReturns(b) ==
  \/ GetblkStops(b)
  \/ \E read \in BOOLEAN : GetblkHit(b, read) /\ proc' # "running"
  \/ \E read \in BOOLEAN : GetblkMiss(b, read) /\ proc' # "running"

LEMMA StopStep ==
  ASSUME IInv, NEW b \in BlockNumbers, NeverReturns(b)
  PROVE  /\ TypeOK' /\ proc = "running" /\ proc' # "running"
         /\ lent' = lent /\ blocks' = blocks
         /\ \A h \in Headers : Len(headers'[h]) >= Len(headers[h])
<1> /\ b \in Numbers
    /\ proc = "running" => /\ headers \in [Headers -> Seq(Node)] /\ QueuesOK(headers)
                           /\ freelist \in Seq(Buffer) /\ Distinct(freelist)
  BY DEF IInv, Numbers, TypeOK, Consistent, Owned
<1>len. \A h \in Headers : Len(headers[h]) \in Nat
  BY LenProperties DEF IInv, TypeOK
<1>lend. ASSUME NEW buf, NEW read, Lend(buf, read), proc = "running", proc' # "running"
         PROVE  /\ proc' \in {"overrun", "crashed"}
                /\ lent' = lent /\ blocks' = blocks
  BY <1>lend DEF Lend
<1>1. CASE GetblkLost(b)
  <2>1. TypeOK /\ Consistent
    BY <1>1 DEF IInv, GetblkLost
  <2>2. headers' = Relocked(headers, b, TRUE)
    BY <1>1 DEF GetblkLost, Relocked
  <2>3. b \in Numbers /\ headers \in [Headers -> Seq(Node)] /\ QueuesOK(headers)
    BY <2>1 DEF Numbers, TypeOK, Consistent
  <2>4. /\ headers' \in [Headers -> Seq(Node)]
        /\ \A h \in Headers : Len(headers'[h]) = Len(headers[h])
    <3> DEFINE hs == Relocked(headers, b, TRUE)
    <3>1. /\ hs \in [Headers -> Seq(Node)]
          /\ \A h \in Headers :
               /\ Len(hs[h]) = Len(headers[h])
               /\ DOMAIN hs[h] = DOMAIN headers[h]
               /\ \A i \in DOMAIN headers[h] :
                    /\ hs[h][i].block_number = headers[h][i].block_number
                    /\ hs[h][i].busy =
                         IF headers[h][i].block_number = b THEN TRUE ELSE headers[h][i].busy
          /\ QueuesOK(hs)
          /\ \A c \in Numbers :
               Holds(headers[hashfunction(c)], c) => Holds(hs[hashfunction(c)], c)
      BY <2>3, LockQueue
    <3>2. headers' = hs
      BY <2>2
    <3> HIDE DEF hs
    <3>3. QED
      BY <3>1, <3>2
  <2>5. freelist' = freelist /\ lent' = lent /\ blocks' = blocks
        /\ proc = "running" /\ proc' = "exited"
    BY <1>1 DEF GetblkLost, Stops
  <2>6. QED
    BY <1>len, <2>1, <2>4, <2>5 DEF TypeOK
<1>2. CASE GetblkBusy(b) \/ GetblkNoneFree(b)
  BY <1>len, <1>2 DEF IInv, TypeOK, GetblkBusy, GetblkNoneFree, Stops
<1>3. CASE GetblkRemoveFails(b)
  <2>1. /\ TypeOK /\ proc = "running" /\ proc' \in {"exited", "crashed"}
        /\ lent' = lent /\ blocks' = blocks /\ headers' = headers
        /\ freelist # <<>> /\ freelist' = Tail(freelist)
    BY <1>3 DEF IInv, GetblkRemoveFails, Stops
  <2>2. freelist' \in Seq(Buffer)
    BY <2>1, HeadTailProperties DEF TypeOK
  <2>3. QED
    BY <1>len, <2>1, <2>2 DEF TypeOK
<1>4. CASE \E read \in BOOLEAN : GetblkHit(b, read) /\ proc' # "running"
  <2> DEFINE hs == Relocked(headers, b, TRUE)
  <2>1. PICK read \in BOOLEAN : GetblkHit(b, read) /\ proc' # "running"
    BY <1>4
  <2>2. /\ proc = "running" /\ headers' = hs /\ freelist' = Unlink(freelist, b)
        /\ Lend(freelist[Position(freelist, b)], read)
    BY <2>1 DEF GetblkHit, Relocked
  <2>3. /\ hs \in [Headers -> Seq(Node)]
        /\ \A h \in Headers :
             /\ Len(hs[h]) = Len(headers[h])
             /\ DOMAIN hs[h] = DOMAIN headers[h]
             /\ \A i \in DOMAIN headers[h] :
                  /\ hs[h][i].block_number = headers[h][i].block_number
                  /\ hs[h][i].busy =
                       IF headers[h][i].block_number = b THEN TRUE ELSE headers[h][i].busy
        /\ QueuesOK(hs)
        /\ \A c \in Numbers : Holds(headers[hashfunction(c)], c) => Holds(hs[hashfunction(c)], c)
    BY <2>2, LockQueue
  <2>4. freelist' \in Seq(Buffer)
    BY <2>2, UnlinkElements
  <2>5. proc' \in {"overrun", "crashed"} /\ lent' = lent /\ blocks' = blocks
    BY <1>lend, <2>1, <2>2
  <2> HIDE DEF hs
  <2>6. \A h \in Headers : Len(headers'[h]) >= Len(headers[h])
    <3> SUFFICES ASSUME NEW h \in Headers PROVE Len(headers'[h]) >= Len(headers[h])
      OBVIOUS
    <3>1. Len(headers'[h]) = Len(headers[h]) /\ Len(headers[h]) \in Nat
      BY <1>len, <2>2, <2>3
    <3>2. QED
      BY <3>1
  <2>7. headers' \in [Headers -> Seq(Node)]
    BY <2>2, <2>3
  <2>8. TypeOK'
    BY <2>4, <2>5, <2>7 DEF IInv, TypeOK
  <2>9. QED
    BY <2>2, <2>5, <2>6, <2>8
<1>5. CASE \E read \in BOOLEAN : GetblkMiss(b, read) /\ proc' # "running"
  <2> DEFINE travel == Head(freelist)
             old == travel.block_number
             hs == Renewed(headers, b, old)
  <2>1. PICK read \in BOOLEAN : GetblkMiss(b, read) /\ proc' # "running"
    BY <1>5
  <2>2. /\ proc = "running" /\ headers' = hs
        /\ freelist # <<>> /\ freelist' = Tail(freelist)
        /\ ~Holds(headers[hashfunction(b)], b)
        /\ Lend([travel EXCEPT !.block_number = b, !.ptr_to_block = b], read)
    BY <2>1 DEF GetblkMiss, Renewed, Queue
  <2>3. freelist' \in Seq(Buffer) /\ travel \in Buffer
    BY <2>2, HeadTailProperties
  <2>4. old \in Numbers
    BY <2>3 DEF Buffer
  <2>5. hs \in [Headers -> Seq(Node)] /\ \A h \in Headers : Len(hs[h]) >= Len(headers[h])
    <3> HIDE DEF old
    <3>1. QED
      BY <2>2, <2>4, MissQueue
  <2>6. proc' \in {"overrun", "crashed"} /\ lent' = lent /\ blocks' = blocks
    BY <1>lend, <2>1, <2>2
  <2> HIDE DEF hs
  <2>7. QED
    BY <2>2, <2>3, <2>5, <2>6 DEF IInv, TypeOK
<1>6. QED
  BY <1>1, <1>2, <1>3, <1>4, <1>5 DEF GetblkStops, NeverReturns

\* The remaining ways to stop.
LEMMA FaultStep ==
  ASSUME IInv, NEW buf \in lent, BwriteFaults(buf) \/ BrelseAborts(buf)
  PROVE  /\ TypeOK' /\ proc = "running" /\ proc' # "running"
         /\ UNCHANGED <<headers, freelist, lent, blocks>>
BY DEF IInv, TypeOK, BwriteFaults, BrelseAborts, Stops

\* Every step is one of those above.
LEMMA StepCases ==
  ASSUME Next
  PROVE  \/ \E b \in BlockNumbers, read \in BOOLEAN :
              GetblkHit(b, read) /\ proc' = "running"
         \/ \E b \in BlockNumbers, read \in BOOLEAN :
              GetblkMiss(b, read) /\ proc' = "running"
         \/ \E b \in BlockNumbers : NeverReturns(b)
         \/ \E buf \in lent : \E d \in Data : Fill(buf, d)
         \/ \E buf \in lent : bwrite(buf)
         \/ \E buf \in lent : brelse(buf)
         \/ \E buf \in lent : BwriteFaults(buf) \/ BrelseAborts(buf)
<1>1. CASE \E b \in BlockNumbers : getblk(b) \/ bread(b)
  <2>1. PICK b \in BlockNumbers : getblk(b) \/ bread(b)
    BY <1>1
  <2>2. \/ GetblkStops(b)
        \/ \E read \in BOOLEAN : GetblkHit(b, read) \/ GetblkMiss(b, read)
    BY <2>1 DEF getblk, bread
  <2>3. QED
    BY <2>2, Zenon DEF NeverReturns
<1>2. QED
  BY <1>1, Zenon DEF Next

LEMMA NextInvariant == IInv /\ [Next]_vars => IInv'
<1> SUFFICES ASSUME IInv, [Next]_vars PROVE IInv'
  OBVIOUS
<1>1. CASE Next
  <2>1. CASE \E b \in BlockNumbers, read \in BOOLEAN :
               GetblkHit(b, read) /\ proc' = "running"
    BY <2>1, HitStep DEF IInv
  <2>2. CASE \E b \in BlockNumbers, read \in BOOLEAN :
               GetblkMiss(b, read) /\ proc' = "running"
    BY <2>2, MissStep DEF IInv
  <2>3. CASE \E b \in BlockNumbers : NeverReturns(b)
    BY <2>3, StopStep DEF IInv
  <2>4. CASE \E buf \in lent : \E d \in Data : Fill(buf, d)
    BY <2>4, FillStep DEF IInv
  <2>5. CASE \E buf \in lent : bwrite(buf)
    BY <2>5, WriteStep DEF IInv
  <2>6. CASE \E buf \in lent : brelse(buf)
    BY <2>6, ReleaseStep DEF IInv
  <2>7. CASE \E buf \in lent : BwriteFaults(buf) \/ BrelseAborts(buf)
    BY <2>7, FaultStep DEF IInv
  <2>8. QED
    BY <1>1, <2>1, <2>2, <2>3, <2>4, <2>5, <2>6, <2>7, StepCases, Zenon
<1>2. CASE vars' = vars
  BY <1>2 DEF vars, IInv, TypeOK, Consistent
<1>3. QED
  BY <1>1, <1>2

\* The invariant holds in every state of the cache.
THEOREM Invariance == Spec => []IInv
<1>1. QED
  BY InitInvariant, NextInvariant, PTL DEF Spec

----------------------------------------------------------------------------
\* The properties of BufferCache, for every number of queues, buffers and blocks.

\* All variables keep their types.
THEOREM TypeCorrect == Spec => []TypeOK
<1>1. IInv => TypeOK
  BY DEF IInv
<1>2. QED
  BY <1>1, Invariance, PTL

\* getblk, bread and brelse never lose a buffer, and never make two of one block.
THEOREM BuffersAccounted == Spec => []EveryBufferOnce
<1>1. IInv => EveryBufferOnce
  <2> SUFFICES ASSUME IInv, proc = "running", Owned(freelist, lent)
               PROVE  EveryBufferOnce
    BY DEF IInv, Consistent, EveryBufferOnce
  <2>1. FreeNumbers \intersect LentNumbers = {}
    BY DEF Owned, FreeNumbers, LentNumbers
  <2>2. \A i, j \in DOMAIN freelist :
          freelist[i].block_number = freelist[j].block_number => i = j
    BY DEF Owned, Distinct
  <2>3. QED
    BY <2>1, <2>2 DEF Owned, EveryBufferOnce
<1>2. QED
  BY <1>1, Invariance, PTL

\* A node's flags agree with where the buffer of its block is.
THEOREM LocksAreExact == Spec => []LockedIffLent
<1>1. IInv => LockedIffLent
  BY DEF IInv, Consistent, Locks, LockedIffLent, LentNumbers
<1>2. QED
  BY <1>1, Invariance, PTL

\* The block of every buffer is found in its own hash queue and only there.
THEOREM BuffersFound == Spec => []FoundOnce
<1>1. IInv => FoundOnce
  <2> SUFFICES ASSUME TypeOK, Consistent, NEW b \in FreeNumbers \union LentNumbers
               PROVE  /\ Holds(Queue(b), b)
                      /\ \A h \in Headers : \A i \in DOMAIN headers[h] :
                           headers[h][i].block_number = b =>
                             h = hashfunction(b) /\ i = Position(Queue(b), b)
    BY DEF IInv, FoundOnce
  <2>1. b \in Numbers
    <3>1. (\A i \in DOMAIN freelist : freelist[i] \in Buffer) /\ (\A x \in lent : x \in Buffer)
      BY DEF TypeOK
    <3>2. \A x \in Buffer : x.block_number \in Numbers
      BY DEF Buffer
    <3>3. QED
      BY <3>1, <3>2 DEF FreeNumbers, LentNumbers
  <2>2. Holds(Queue(b), b)
    BY DEF Consistent, Indexed, FreeNumbers, LentNumbers, Queue
  <2>3. hashfunction(b) \in Headers /\ b \in Nat
    BY <2>1, HashInHeaders, NumbersAreNat
  <2>4. Queue(b) \in Seq(Node) /\ Distinct(Queue(b))
    BY <2>3 DEF Queue, TypeOK, Consistent, QueuesOK
  <2>5. ASSUME NEW h \in Headers, NEW i \in DOMAIN headers[h], headers[h][i].block_number = b
        PROVE  h = hashfunction(b) /\ i = Position(Queue(b), b)
    <3>1. h = hashfunction(b)
      BY <2>5 DEF Consistent, QueuesOK
    <3>2. /\ Position(Queue(b), b) \in DOMAIN Queue(b)
          /\ Queue(b)[Position(Queue(b), b)].block_number = b
      BY <2>2, <2>4, PositionIsUnique
    <3>3. QED
      BY <2>4, <2>5, <3>1, <3>2 DEF Distinct, Queue
  <2>6. QED
    BY <2>2, <2>5
<1>2. QED
  BY <1>1, Invariance, PTL

\* No call shortens a hash queue.
THEOREM QueuesKeepLength == Spec => QueuesNeverShrink
<1> DEFINE Grows == \A h \in Headers : Len(headers'[h]) >= Len(headers[h])
<1>1. IInv => \A h \in Headers : Len(headers[h]) \in Nat
  BY LenProperties DEF IInv, TypeOK
<1>2. IInv /\ [Next]_vars => Grows \/ UNCHANGED vars
  <2> SUFFICES ASSUME IInv, Next PROVE Grows
    OBVIOUS
  <2>1. CASE \E b \in BlockNumbers, read \in BOOLEAN :
               GetblkHit(b, read) /\ proc' = "running"
    BY <1>1, <2>1, HitStep
  <2>2. CASE \E b \in BlockNumbers, read \in BOOLEAN :
               GetblkMiss(b, read) /\ proc' = "running"
    BY <2>2, MissStep
  <2>3. CASE \E b \in BlockNumbers : NeverReturns(b)
    BY <1>1, <2>3, StopStep
  <2>4. CASE \E buf \in lent : \E d \in Data : Fill(buf, d)
    BY <1>1, <2>4, FillStep
  <2>5. CASE \E buf \in lent : bwrite(buf)
    BY <1>1, <2>5, WriteStep
  <2>6. CASE \E buf \in lent : brelse(buf)
    BY <1>1, <2>6, ReleaseStep
  <2>7. CASE \E buf \in lent : BwriteFaults(buf) \/ BrelseAborts(buf)
    BY <1>1, <2>7, FaultStep
  <2>8. QED
    BY <2>1, <2>2, <2>3, <2>4, <2>5, <2>6, <2>7, StepCases, Zenon
<1>3. QED
  BY <1>2, Invariance, PTL DEF Spec, QueuesNeverShrink

\* A caller never receives what a buffer held for another block.
THEOREM NothingLeaks == Spec => NothingInherited
<1> DEFINE Fresh(buf) == \/ buf.block_number \in LentNumbers
                         \/ buf.ptr_to_data = Zero
                         \/ \E data \in Text(buf.block_number) :
                              buf.ptr_to_data = strcpy(Zero, data)
<1>1. IInv /\ [Next]_vars => (\A buf \in lent' : Fresh(buf)) \/ UNCHANGED vars
  <2> SUFFICES ASSUME IInv, Next PROVE \A buf \in lent' : Fresh(buf)
    OBVIOUS
  <2>1. \A buf \in lent : Fresh(buf)
    BY DEF LentNumbers
  <2>2. CASE \E b \in BlockNumbers, read \in BOOLEAN :
               GetblkHit(b, read) /\ proc' = "running"
    BY <2>1, <2>2, HitStep
  <2>3. CASE \E b \in BlockNumbers, read \in BOOLEAN :
               GetblkMiss(b, read) /\ proc' = "running"
    BY <2>1, <2>3, MissStep
  <2>4. CASE \E b \in BlockNumbers : NeverReturns(b)
    BY <2>1, <2>4, StopStep
  <2>5. CASE \E buf \in lent : \E d \in Data : Fill(buf, d)
    BY <2>5, FillStep DEF LentNumbers
  <2>6. CASE \E buf \in lent : bwrite(buf)
    BY <2>1, <2>6, WriteStep
  <2>7. CASE \E buf \in lent : brelse(buf)
    BY <2>1, <2>7, ReleaseStep
  <2>8. CASE \E buf \in lent : BwriteFaults(buf) \/ BrelseAborts(buf)
    BY <2>1, <2>8, FaultStep
  <2>9. QED
    BY <2>2, <2>3, <2>4, <2>5, <2>6, <2>7, <2>8, StepCases, Zenon
<1>2. QED
  BY <1>1, Invariance, PTL DEF Spec, NothingInherited

\* A block changes only while its buffer, or the full buffer of the block before it, is
\* with a caller, and only as that buffer says or to one with a NUL.
THEOREM WritesAreClose == Spec => WritesStayClose
<1> DEFINE Close ==
      \A b \in DiskBlocks :
        blocks'[b] # blocks[b] =>
          \E buf \in lent :
            \/ buf.block_number = b /\ blocks'[b] = strcpy(blocks[b], buf.ptr_to_data)
            \/ buf.block_number + 1 = b /\ Full(buf.ptr_to_data) /\ ~Full(blocks'[b])
<1>1. IInv /\ [Next]_vars => Close \/ UNCHANGED vars
  <2> SUFFICES ASSUME IInv, Next PROVE Close
    OBVIOUS
  <2>1. blocks' = blocks => Close
    OBVIOUS
  <2>2. CASE \E b \in BlockNumbers, read \in BOOLEAN :
               GetblkHit(b, read) /\ proc' = "running"
    BY <2>1, <2>2, HitStep
  <2>3. CASE \E b \in BlockNumbers, read \in BOOLEAN :
               GetblkMiss(b, read) /\ proc' = "running"
    BY <2>1, <2>3, MissStep
  <2>4. CASE \E b \in BlockNumbers : NeverReturns(b)
    BY <2>1, <2>4, StopStep
  <2>5. CASE \E buf \in lent : \E d \in Data : Fill(buf, d)
    BY <2>1, <2>5, FillStep
  <2>6. CASE \E buf \in lent : bwrite(buf)
    BY <2>6, WriteStep
  <2>7. CASE \E buf \in lent : brelse(buf)
    BY <2>1, <2>7, ReleaseStep
  <2>8. CASE \E buf \in lent : BwriteFaults(buf) \/ BrelseAborts(buf)
    BY <2>1, <2>8, FaultStep
  <2>9. QED
    BY <2>2, <2>3, <2>4, <2>5, <2>6, <2>7, <2>8, StepCases, Zenon
<1>2. QED
  BY <1>1, Invariance, PTL DEF Spec, WritesStayClose
----------------------------------------------------------------------------
\* BufferCache implements BufferPool: the initial states map to initial states, and every
\* step of the cache is a step of the pool or leaves the pool alone.  The mapping is the
\* one of Pool in BufferCache.

\* What the pool sees of a free list.
NumbersOf(f) == [i \in DOMAIN f |-> f[i].block_number]

\* The list of numbers changes as the list of buffers does.
LEMMA NumbersOfIsSeq ==
  ASSUME NEW f \in Seq(Buffer)
  PROVE  /\ NumbersOf(f) \in Seq(Numbers) /\ Len(NumbersOf(f)) = Len(f)
         /\ DOMAIN NumbersOf(f) = 1..Len(f)
         /\ \A i \in 1..Len(f) : NumbersOf(f)[i] = f[i].block_number
<1>1. Len(f) \in Nat /\ DOMAIN f = 1..Len(f)
  BY LenProperties
<1>2. \A i \in 1..Len(f) : f[i] \in Buffer
  BY <1>1
<1>3. \A i \in 1..Len(f) : f[i].block_number \in Numbers
  BY <1>2 DEF Buffer
<1>4. NumbersOf(f) \in [1..Len(f) -> Numbers]
  BY <1>1, <1>3 DEF NumbersOf
<1>5. NumbersOf(f) \in Seq(Numbers)
  BY <1>1, <1>4, SeqDef
<1>6. DOMAIN NumbersOf(f) = 1..Len(f)
  BY <1>4
<1>7. Len(NumbersOf(f)) = Len(f)
  BY <1>1, <1>5, <1>6, LenProperties
<1>8. QED
  BY <1>1, <1>5, <1>6, <1>7 DEF NumbersOf

LEMMA NumbersOfRemoveAt ==
  ASSUME NEW f \in Seq(Buffer), NEW p \in DOMAIN f
  PROVE  NumbersOf(RemoveAt(f, p)) = RemoveAt(NumbersOf(f), p)
<1> DEFINE f2 == SeqExt!RemoveAt(f, p)
           n2 == SeqExt!RemoveAt(NumbersOf(f), p)
<1>1. /\ Len(f) \in Nat /\ DOMAIN f = 1..Len(f) /\ p \in 1..Len(f)
      /\ NumbersOf(f) \in Seq(Numbers) /\ Len(NumbersOf(f)) = Len(f)
      /\ p \in DOMAIN NumbersOf(f)
      /\ \A i \in 1..Len(f) : NumbersOf(f)[i] = f[i].block_number
  BY LenProperties, NumbersOfIsSeq
<1>2. /\ f2 \in Seq(Buffer) /\ Len(f2) = Len(f) - 1
      /\ \A i \in 1..Len(f) - 1 : f2[i] = IF i < p THEN f[i] ELSE f[i + 1]
  BY <1>1, RemoveAtElements
<1>3. /\ n2 \in Seq(Numbers) /\ Len(n2) = Len(f) - 1
      /\ \A i \in 1..Len(f) - 1 : n2[i] = IF i < p THEN NumbersOf(f)[i] ELSE NumbersOf(f)[i + 1]
  BY <1>1, RemoveAtElements
<1> HIDE DEF f2, n2
<1>4. /\ NumbersOf(f2) \in Seq(Numbers) /\ Len(NumbersOf(f2)) = Len(f) - 1
      /\ \A i \in 1..Len(f) - 1 : NumbersOf(f2)[i] = f2[i].block_number
  BY <1>2, NumbersOfIsSeq
<1>5. \A i \in 1..Len(f) - 1 : NumbersOf(f2)[i] = n2[i]
  <2> TAKE i \in 1..Len(f) - 1
  <2>1. i \in 1..Len(f) /\ i + 1 \in 1..Len(f)
    BY <1>1
  <2>2. QED
    BY <1>1, <1>2, <1>3, <1>4, <2>1
<1>6. NumbersOf(f2) = n2
  BY <1>3, <1>4, <1>5, SeqEqual
<1>7. QED
  BY <1>6 DEF f2, n2, RemoveAt, SeqExt!RemoveAt

LEMMA NumbersOfTail ==
  ASSUME NEW f \in Seq(Buffer), f # <<>>
  PROVE  NumbersOf(Tail(f)) = Tail(NumbersOf(f)) /\ NumbersOf(f) # <<>>
<1>1. /\ Len(f) \in Nat \ {0} /\ NumbersOf(f) \in Seq(Numbers) /\ Len(NumbersOf(f)) = Len(f)
      /\ \A i \in 1..Len(f) : NumbersOf(f)[i] = f[i].block_number
  BY LenProperties, EmptySeq, NumbersOfIsSeq
<1>2. NumbersOf(f) # <<>>
  BY <1>1, EmptySeq
<1>3. /\ Tail(f) \in Seq(Buffer) /\ Len(Tail(f)) = Len(f) - 1
      /\ \A i \in 1..Len(f) - 1 : Tail(f)[i] = f[i + 1]
  BY <1>1, HeadTailProperties
<1>4. /\ Tail(NumbersOf(f)) \in Seq(Numbers) /\ Len(Tail(NumbersOf(f))) = Len(f) - 1
      /\ \A i \in 1..Len(f) - 1 : Tail(NumbersOf(f))[i] = NumbersOf(f)[i + 1]
  BY <1>1, <1>2, HeadTailProperties
<1>5. /\ NumbersOf(Tail(f)) \in Seq(Numbers) /\ Len(NumbersOf(Tail(f))) = Len(f) - 1
      /\ \A i \in 1..Len(f) - 1 : NumbersOf(Tail(f))[i] = Tail(f)[i].block_number
  BY <1>3, NumbersOfIsSeq
<1>6. \A i \in 1..Len(f) - 1 : NumbersOf(Tail(f))[i] = Tail(NumbersOf(f))[i]
  <2> TAKE i \in 1..Len(f) - 1
  <2>1. i + 1 \in 1..Len(f)
    BY <1>1
  <2>2. QED
    BY <1>1, <1>3, <1>4, <1>5, <2>1
<1>7. NumbersOf(Tail(f)) = Tail(NumbersOf(f))
  BY <1>4, <1>5, <1>6, SeqEqual
<1>8. QED
  BY <1>2, <1>7

LEMMA NumbersOfAppend ==
  ASSUME NEW f \in Seq(Buffer), NEW buf \in Buffer
  PROVE  NumbersOf(Append(f, buf)) = Append(NumbersOf(f), buf.block_number)
<1> DEFINE f2 == Append(f, buf)
           n2 == Append(NumbersOf(f), buf.block_number)
<1>1. /\ Len(f) \in Nat /\ NumbersOf(f) \in Seq(Numbers) /\ Len(NumbersOf(f)) = Len(f)
      /\ \A i \in 1..Len(f) : NumbersOf(f)[i] = f[i].block_number
      /\ buf.block_number \in Numbers
  BY LenProperties, NumbersOfIsSeq DEF Buffer
<1>2. /\ f2 \in Seq(Buffer) /\ Len(f2) = Len(f) + 1
      /\ \A i \in 1..Len(f) : f2[i] = f[i]
      /\ f2[Len(f) + 1] = buf
  BY AppendProperties
<1>3. /\ n2 \in Seq(Numbers) /\ Len(n2) = Len(f) + 1
      /\ \A i \in 1..Len(f) : n2[i] = NumbersOf(f)[i]
      /\ n2[Len(f) + 1] = buf.block_number
  BY <1>1, AppendProperties
<1> HIDE DEF f2, n2
<1>4. /\ NumbersOf(f2) \in Seq(Numbers) /\ Len(NumbersOf(f2)) = Len(f) + 1
      /\ \A i \in 1..Len(f) + 1 : NumbersOf(f2)[i] = f2[i].block_number
  BY <1>2, NumbersOfIsSeq
<1>5. \A i \in 1..Len(f) + 1 : NumbersOf(f2)[i] = n2[i]
  <2> TAKE i \in 1..Len(f) + 1
  <2>1. i \in 1..Len(f) \/ i = Len(f) + 1
    BY <1>1
  <2>2. QED
    BY <1>1, <1>2, <1>3, <1>4, <2>1
<1>6. NumbersOf(f2) = n2
  BY <1>3, <1>4, <1>5, SeqEqual
<1>7. QED
  BY <1>6 DEF f2, n2

----------------------------------------------------------------------------

LEMMA PoolInit == Init => Pool!Init
<1> SUFFICES ASSUME Init PROVE Pool!Init
  OBVIOUS
<1>1. /\ freelist = [i \in 1..PRIMARY_BUFFERS |-> CreateNewBuffer(i)]
      /\ lent = {} /\ proc = "running"
  BY DEF Init
<1>2. [i \in DOMAIN freelist |-> freelist[i].block_number] = [i \in 1..PRIMARY_BUFFERS |-> i]
  BY <1>1 DEF CreateNewBuffer
<1>3. LentNumbers = {}
  BY <1>1 DEF LentNumbers
<1>4. QED
  BY <1>1, <1>2, <1>3 DEF Pool!Init

LEMMA PoolStep == IInv /\ [Next]_vars => [Pool!Next]_(Pool!vars)
<1> SUFFICES ASSUME IInv, [Next]_vars PROVE [Pool!Next]_(Pool!vars)
  OBVIOUS
<1> DEFINE available == [i \in DOMAIN freelist |-> freelist[i].block_number]
<1>1. TypeOK /\ (proc = "running" => Consistent)
      /\ freelist \in Seq(Buffer) /\ lent \subseteq Buffer
  BY DEF IInv, TypeOK
<1>2. available = NumbersOf(freelist) /\ available' = NumbersOf(freelist')
  BY DEF NumbersOf
<1>3. DOMAIN available = DOMAIN freelist
      /\ \A i \in DOMAIN freelist : available[i] = freelist[i].block_number
  OBVIOUS
<1> HIDE DEF available
<1>4. CASE \E b \in BlockNumbers, read \in BOOLEAN :
             GetblkHit(b, read) /\ proc' = "running"
  <2>1. PICK b \in BlockNumbers, read \in BOOLEAN :
               GetblkHit(b, read) /\ proc' = "running"
    BY <1>4
  <2>2. PICK p \in DOMAIN freelist :
               freelist[p].block_number = b /\ freelist' = RemoveAt(freelist, p)
    BY <2>1, HitStep
  <2>3. LentNumbers' = LentNumbers \union {b}
    <3>1. PICK nb \in Buffer : lent' = lent \union {nb} /\ nb.block_number = b
      BY <2>1, HitStep
    <3>2. QED
      BY <3>1 DEF LentNumbers
  <2>4. proc = "running" /\ proc' = proc
    BY <2>1, HitStep DEF GetblkHit
  <2>5. available' = RemoveAt(available, p)
    BY <1>1, <1>2, <2>2, NumbersOfRemoveAt
  <2>6. p \in DOMAIN available /\ available[p] = b
    BY <1>3, <2>2
  <2>7. Pool!Reuse(b)
    <3>1. \E i \in DOMAIN available :
            available[i] = b /\ available' = Pool!RemoveAt(available, i)
      BY <2>5, <2>6 DEF RemoveAt, Pool!RemoveAt
    <3>2. UNCHANGED (proc = "running")
      BY <2>4
    <3>3. QED
      BY <2>3, <2>4, <3>1, <3>2, Zenon DEF Pool!Reuse, available
  <2>8. QED
    BY <2>7 DEF Pool!Next
<1>5. CASE \E b \in BlockNumbers, read \in BOOLEAN :
             GetblkMiss(b, read) /\ proc' = "running"
  <2>1. PICK b \in BlockNumbers, read \in BOOLEAN :
               GetblkMiss(b, read) /\ proc' = "running"
    BY <1>5
  <2>2. /\ freelist # <<>> /\ freelist' = Tail(freelist)
        /\ \A i \in DOMAIN freelist : freelist[i].block_number # b
        /\ \A x \in lent : x.block_number # b
    BY <2>1, MissStep
  <2>3. LentNumbers' = LentNumbers \union {b} /\ b \notin LentNumbers
    <3>1. PICK nb \in Buffer : lent' = lent \union {nb} /\ nb.block_number = b
      BY <2>1, MissStep
    <3>2. QED
      BY <2>2, <3>1 DEF LentNumbers
  <2>4. proc = "running" /\ proc' = proc
    BY <2>1, MissStep DEF GetblkMiss
  <2>5. available' = Tail(available) /\ available # <<>>
    BY <1>1, <1>2, <2>2, NumbersOfTail
  <2>6. ~Pool!IsAvailable(b)
    BY <1>3, <2>2 DEF Pool!IsAvailable, available
  <2>7. Pool!Reassign(b)
    BY <2>3, <2>4, <2>5, <2>6 DEF Pool!Reassign, available
  <2>8. QED
    BY <2>7 DEF Pool!Next
<1>6. CASE \/ \E b \in BlockNumbers : NeverReturns(b)
           \/ \E buf \in lent : BwriteFaults(buf) \/ BrelseAborts(buf)
  <2>1. proc = "running" /\ proc' # "running"
    BY <1>6, StopStep, FaultStep
  <2>2. Pool!Halt
    BY <2>1 DEF Pool!Halt
  <2>3. QED
    BY <2>2 DEF Pool!Next
<1>7. CASE \E buf \in lent : brelse(buf)
  <2>1. PICK buf \in lent : brelse(buf)
    BY <1>7
  <2>2. /\ proc = "running" /\ proc' = proc
        /\ lent' = lent \ {buf}
        /\ freelist' = Append(freelist, CreateNewBuffer(buf.block_number))
    BY <2>1, ReleaseStep DEF brelse
  <2> DEFINE b == buf.block_number
             n == CreateNewBuffer(b)
  <2>3. b \in Numbers
    BY <1>1 DEF Buffer
  <2>4. b \in BlockNumbers
    BY <1>1, <2>2 DEF Consistent, Clean
  <2>5. \A x \in lent : x.block_number = b => x = buf
    BY <1>1, <2>2 DEF Consistent, Owned
  <2>6. b \in LentNumbers /\ LentNumbers' = LentNumbers \ {b}
    BY <2>2, <2>5 DEF LentNumbers
  <2> HIDE DEF b
  <2>7. n \in Buffer /\ n.block_number = b
    BY <2>3, FreshBuffer
  <2>8. freelist' = Append(freelist, n)
    BY <2>2 DEF b
  <2> HIDE DEF n
  <2>9. available' = Append(available, b)
    BY <1>1, <1>2, <2>7, <2>8, NumbersOfAppend
  <2>10. Pool!Release(b)
    BY <2>2, <2>6, <2>9 DEF Pool!Release, available
  <2>11. QED
    BY <2>4, <2>10 DEF Pool!Next
<1>8. CASE \E buf \in lent : (\E d \in Data : Fill(buf, d)) \/ bwrite(buf)
  <2>1. /\ freelist' = freelist /\ proc' = proc /\ LentNumbers' = LentNumbers
    BY <1>8, FillStep, WriteStep DEF LentNumbers
  <2>2. QED
    BY <2>1 DEF Pool!vars
<1>9. CASE UNCHANGED vars
  BY <1>9 DEF vars, Pool!vars, LentNumbers
<1>10. QED
  BY <1>4, <1>5, <1>6, <1>7, <1>8, <1>9, StepCases, Zenon

\* getblk, bread, bwrite and brelse do to the buffers what the pool's operations
\* do: a block's own buffer is reused, else the one unused for longest is taken.
THEOREM CacheImplementsPool == Spec => ImplementsPool
<1>1. QED
  BY PoolInit, PoolStep, Invariance, PTL DEF Spec, ImplementsPool, Pool!Spec
=============================================================================

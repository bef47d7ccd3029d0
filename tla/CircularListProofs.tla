------------------------- MODULE CircularListProofs -------------------------
(***************************************************************************)
(* Proofs about CircularList, for any number of nodes: the pointers form a *)
(* ring whatever is inserted, deleted and removed, and implement           *)
(* NumberList.                                                             *)
(***************************************************************************)
EXTENDS CircularList, ListLemmas

----------------------------------------------------------------------------
\* Rings of any pointers.

\* The place after k in a ring of n.
Succ(k, n) == IF k = n THEN 1 ELSE k + 1

\* The nodes of s, in this order, form the ring of the pointers nxt and prv.
IsRing(s, first, last, nxt, prv) ==
  /\ s \in Seq(Addresses)
  /\ \A i, j \in DOMAIN s : s[i] = s[j] => i = j
  /\ s = <<>> => first = NULL /\ last = NULL
  /\ s # <<>> => first = s[1] /\ last = s[Len(s)]
  /\ \A k \in DOMAIN s : nxt[s[k]] = s[Succ(k, Len(s))] /\ prv[s[Succ(k, Len(s))]] = s[k]

\* Nodes and Listing, as functions of the pointers and the numbers.
NodesOf(first, last, nxt) ==
  LET reached[k \in 1..Cardinality(Addresses)] ==
        IF k = 1 THEN first
        ELSE LET a == reached[k - 1] IN IF a \in Addresses \ {last} THEN nxt[a] ELSE NULL
      steps == {k \in 1..Cardinality(Addresses) : reached[k] # NULL}
  IN  [k \in steps |-> reached[k]]

LEMMA SuccFacts ==
  ASSUME NEW n \in Nat, NEW k \in 1..n
  PROVE  /\ Succ(k, n) \in 1..n
         /\ \A j \in 1..n : Succ(j, n) = Succ(k, n) => j = k
         /\ Succ(k, n) = 1 <=> k = n
         /\ k # n => Succ(k, n) = k + 1
  BY DEF Succ

\* There are at least as many addresses as nodes.
LEMMA RingFits ==
  ASSUME NEW s \in Seq(Addresses), \A i, j \in DOMAIN s : s[i] = s[j] => i = j
  PROVE  Len(s) <= Cardinality(Addresses) /\ Cardinality(Addresses) \in Nat
<1>1. Len(s) \in Nat /\ DOMAIN s = 1..Len(s) /\ s \in [1..Len(s) -> Addresses]
  BY LenProperties
<1>2. s \in Injection(1..Len(s), Addresses)
  BY <1>1 DEF Injection, IsInjective
<1>3. IsFiniteSet(Addresses)
  BY ListAssumption
<1>4. Cardinality(1..Len(s)) <= Cardinality(Addresses)
  BY <1>2, <1>3, FS_Injection
<1>5. Cardinality(1..Len(s)) = Len(s)
  BY <1>1, FS_Interval
<1> QED BY <1>3, <1>4, <1>5, FS_CardinalityType

\* Following nxt from first yields the nodes of the ring, each once.
LEMMA NodesOfRing ==
  ASSUME NEW s, NEW first, NEW last, NEW nxt, NEW prv, IsRing(s, first, last, nxt, prv)
  PROVE  NodesOf(first, last, nxt) = s
<1> DEFINE C == Cardinality(Addresses)
           F(g) == [k \in 1..C |->
                      IF k = 1 THEN first
                      ELSE IF g[k - 1] \in Addresses \ {last} THEN nxt[g[k - 1]] ELSE NULL]
           f == [k \in 1..C |-> IF k <= Len(s) THEN s[k] ELSE NULL]
           r == CHOOSE g : g = F(g)
<1>1. /\ s \in Seq(Addresses) /\ Len(s) \in Nat /\ DOMAIN s = 1..Len(s)
      /\ Len(s) <= C /\ C \in Nat
  BY RingFits, LenProperties DEF IsRing
<1>2. NULL \notin Addresses
  BY ListAssumption
<1> HIDE DEF C
<1>3. ASSUME NEW k \in 1..C
      PROVE  f[k] = F(f)[k]
  <2>1. CASE k = 1
    <3>1. CASE s = <<>>
      BY <1>1, <2>1, <3>1 DEF IsRing
    <3>2. CASE s # <<>>
      <4>1. Len(s) >= 1
        BY <1>1, <3>2, EmptySeq
      <4> QED BY <1>1, <2>1, <3>2, <4>1 DEF IsRing
    <3> QED BY <3>1, <3>2
  <2>2. CASE k # 1 /\ k <= Len(s)
    <3>1. k - 1 \in 1..Len(s) /\ k - 1 \in 1..C /\ k - 1 # Len(s) /\ Succ(k - 1, Len(s)) = k
      BY <1>1, <2>2 DEF Succ
    <3>2. s # <<>> /\ last = s[Len(s)]
      BY <1>1, <3>1, EmptySeq DEF IsRing
    <3>3. f[k - 1] = s[k - 1] /\ s[k - 1] \in Addresses
      BY <1>1, <3>1, ElementOfSeq
    <3>4. s[k - 1] # last
      BY <1>1, <3>1, <3>2 DEF IsRing
    <3>5. nxt[s[k - 1]] = s[k]
      BY <1>1, <3>1 DEF IsRing
    <3> QED BY <2>2, <3>3, <3>4, <3>5
  <2>3. CASE k # 1 /\ k = Len(s) + 1
    <3>1. k - 1 = Len(s) /\ Len(s) \in 1..C /\ Len(s) >= 1
      BY <1>1, <2>3
    <3>2. s # <<>> /\ last = s[Len(s)]
      BY <1>1, <3>1, EmptySeq DEF IsRing
    <3>3. f[k - 1] = last
      BY <1>1, <3>1, <3>2
    <3>4. f[k] = NULL
      BY <1>1, <2>3
    <3> QED BY <2>3, <3>3, <3>4
  <2>4. CASE k # 1 /\ k > Len(s) + 1
    <3>1. k - 1 \in 1..C /\ ~(k - 1 <= Len(s)) /\ ~(k <= Len(s))
      BY <1>1, <2>4
    <3>2. f[k - 1] = NULL /\ f[k] = NULL
      BY <3>1
    <3> QED BY <1>2, <2>4, <3>2
  <2> QED BY <1>1, <2>1, <2>2, <2>3, <2>4
<1>4. f = F(f)
  <2>1. F(f) = [k \in 1..C |-> F(f)[k]]
    OBVIOUS
  <2>2. f = [k \in 1..C |-> f[k]]
    OBVIOUS
  <2> HIDE DEF f, F
  <2> QED BY <1>3, <2>1, <2>2
<1>5. r = F(r)
  <2> HIDE DEF f, F
  <2> QED BY <1>4
\* Two solutions would differ at a first place.
<1>6. \A k \in 1..C : r[k] = f[k]
  <2> SUFFICES ASSUME NEW m \in 1..C, r[m] # f[m] PROVE FALSE
    OBVIOUS
  <2> DEFINE T == {k \in 1..C : r[k] # f[k]}
  <2>1. PICK k \in T : \A j \in T : k <= j
    <3>1. T \in SUBSET Nat /\ m \in T
      <4> HIDE DEF r, f
      <4> QED OBVIOUS
    <3> HIDE DEF T
    <3> QED BY <3>1, LeastNumber
  <2>2. k \in 1..C /\ r[k] # f[k]
    BY <2>1
  <2>3. F(r)[k] # F(f)[k]
    BY <1>3, <1>5, <2>2
  <2>4. k # 1 /\ r[k - 1] # f[k - 1]
    <3> HIDE DEF r, f
    <3> QED BY <2>2, <2>3
  <2>5. k - 1 \in T
    BY <1>1, <2>2, <2>4
  <2> QED BY <1>1, <2>1, <2>2, <2>5
<1> DEFINE steps == {k \in 1..C : r[k] # NULL}
<1>7. NodesOf(first, last, nxt) = [k \in steps |-> r[k]]
  BY DEF NodesOf, C
<1> HIDE DEF r, F
<1>8. steps = 1..Len(s)
  <2>1. \A k \in 1..Len(s) : k \in 1..C /\ f[k] = s[k] /\ s[k] # NULL
    BY <1>1, <1>2, ElementOfSeq
  <2>2. \A k \in 1..C : k \notin 1..Len(s) => f[k] = NULL
    BY <1>1
  <2> HIDE DEF f
  <2> QED BY <1>6, <2>1, <2>2
<1>9. \A k \in 1..Len(s) : r[k] = s[k]
  BY <1>1, <1>6
<1> QED BY <1>1, <1>7, <1>8, <1>9

\* A new node between last and first, wherever the list is then said to begin.
LEMMA RingInsert ==
  ASSUME NEW s, NEW first, NEW last, NEW nxt, NEW prv, IsRing(s, first, last, nxt, prv),
         NEW a \in Addresses, \A k \in DOMAIN s : s[k] # a,
         NEW nxt2, NEW prv2,
         nxt2[a] = IF s = <<>> THEN a ELSE first,
         prv2[a] = IF s = <<>> THEN a ELSE last,
         s # <<>> => nxt2[last] = a /\ prv2[first] = a,
         \A x \in Addresses \ {a, last} : nxt2[x] = nxt[x],
         \A x \in Addresses \ {a, first} : prv2[x] = prv[x]
  PROVE  /\ IsRing(<<a>> \o s, a, IF s = <<>> THEN a ELSE last, nxt2, prv2)
         /\ IsRing(Append(s, a), IF s = <<>> THEN a ELSE first, a, nxt2, prv2)
<1> DEFINE n == Len(s)
<1>1. s \in Seq(Addresses) /\ n \in Nat /\ DOMAIN s = 1..n /\ \A k \in 1..n : s[k] \in Addresses
  BY LenProperties, ElementOfSeq DEF IsRing
<1>2. /\ s = <<>> <=> n = 0
      /\ s # <<>> => first = s[1] /\ last = s[n]
  BY <1>1, EmptySeq DEF IsRing
<1>3. \A i, j \in 1..n : s[i] = s[j] => i = j
  BY <1>1 DEF IsRing
\* The old links, all but the one that is opened.
<1>4. ASSUME NEW k \in 1..n, k # n
      PROVE  k + 1 \in 1..n /\ nxt2[s[k]] = s[k + 1] /\ prv2[s[k + 1]] = s[k]
  <2>1. k + 1 \in 1..n /\ s # <<>> /\ n \in 1..n /\ 1 \in 1..n /\ k + 1 # 1
    <3>1. n \in Nat /\ (s = <<>> <=> n = 0)
      BY <1>1, <1>2
    <3> HIDE DEF n
    <3> QED BY <1>4, <3>1
  <2>2. nxt[s[k]] = s[k + 1] /\ prv[s[k + 1]] = s[k]
    BY <1>1, <1>4 DEF IsRing, Succ
  <2>3. s[k] # last /\ s[k + 1] # first
    BY <1>2, <1>3, <1>4, <2>1
  <2>4. s[k] \in Addresses \ {a, last} /\ s[k + 1] \in Addresses \ {a, first}
    BY <1>1, <2>1, <2>3
  <2> QED BY <2>1, <2>2, <2>4
<1>5. IsRing(<<a>> \o s, a, IF s = <<>> THEN a ELSE last, nxt2, prv2)
  <2> DEFINE t == <<a>> \o s
  <2>1. /\ t \in Seq(Addresses) /\ Len(t) = n + 1 /\ t[1] = a
        /\ \A i \in 1..n : t[i + 1] = s[i]
    BY <1>1, ConsElements
  <2>2. DOMAIN t = 1..n+1 /\ t # <<>>
    BY <1>1, <2>1, LenProperties, EmptySeq
  <2> HIDE DEF t, n
  <2>3. \A i \in 1..n+1 : i = 1 \/ (i - 1 \in 1..n /\ t[i] = s[i - 1])
    <3> TAKE i \in 1..n+1
    <3>1. CASE i # 1
      <4>1. i - 1 \in 1..n /\ (i - 1) + 1 = i
        BY <1>1, <3>1
      <4> QED BY <2>1, <4>1
    <3> QED BY <3>1
  <2>4. ASSUME NEW i \in 1..n+1, NEW j \in 1..n+1, t[i] = t[j]
        PROVE  i = j
    <3>0. \A k \in 1..n+1 : k # 1 => t[k] # a
      BY <1>1, <2>3 DEF n
    <3>1. CASE i = 1 \/ j = 1
      BY <2>1, <2>4, <3>0, <3>1
    <3>2. CASE i # 1 /\ j # 1
      <4>1. i - 1 = j - 1
        BY <1>3, <2>3, <2>4, <3>2
      <4> QED BY <1>1, <4>1
    <3> QED BY <3>1, <3>2
  <2>5. t[n + 1] = IF s = <<>> THEN a ELSE last
    <3>1. CASE n = 0
      BY <1>2, <2>1, <3>1
    <3>2. CASE n # 0
      <4>1. n \in 1..n
        BY <1>1, <3>2
      <4> QED BY <1>2, <2>1, <3>2, <4>1 DEF n
    <3> QED BY <3>1, <3>2
  <2>6. ASSUME NEW k \in 1..n+1
        PROVE  nxt2[t[k]] = t[Succ(k, n + 1)] /\ prv2[t[Succ(k, n + 1)]] = t[k]
    <3>1. CASE k = n + 1
      <4>1. Succ(k, n + 1) = 1
        BY <3>1 DEF Succ
      <4>2. t[k] = IF s = <<>> THEN a ELSE last
        BY <2>5, <3>1
      <4>3. CASE s = <<>>
        BY <2>1, <4>1, <4>2, <4>3
      <4>4. CASE s # <<>>
        BY <2>1, <4>1, <4>2, <4>4
      <4> QED BY <4>3, <4>4
    <3>2. CASE k = 1 /\ k # n + 1
      <4>1. s # <<>> /\ Succ(k, n + 1) = 1 + 1 /\ 1 \in 1..n
        BY <1>1, <1>2, <3>2 DEF Succ
      <4>2. t[Succ(k, n + 1)] = first
        BY <1>2, <2>1, <4>1
      <4> QED BY <2>1, <3>2, <4>1, <4>2
    <3>3. CASE k # 1 /\ k # n + 1
      <4>1. PICK i \in 1..n : i = k - 1 /\ i # n /\ i + 1 \in 1..n
        BY <1>1, <3>3
      <4>2. k = i + 1 /\ Succ(k, n + 1) = (i + 1) + 1
        BY <1>1, <3>3, <4>1 DEF Succ
      <4>3. t[k] = s[i] /\ t[Succ(k, n + 1)] = s[i + 1]
        BY <2>1, <4>1, <4>2
      <4> QED BY <1>4, <4>1, <4>3
    <3> QED BY <3>1, <3>2, <3>3
  <2> QED BY <2>1, <2>2, <2>4, <2>5, <2>6 DEF IsRing, t, n
<1>6. IsRing(Append(s, a), IF s = <<>> THEN a ELSE first, a, nxt2, prv2)
  <2> DEFINE t == Append(s, a)
  <2>1. /\ t \in Seq(Addresses) /\ Len(t) = n + 1 /\ t # <<>>
        /\ \A i \in 1..n : t[i] = s[i]
        /\ t[n + 1] = a
    BY <1>1, AppendProperties
  <2>2. DOMAIN t = 1..n+1
    BY <2>1, LenProperties
  <2> HIDE DEF t, n
  <2>3. \A i \in 1..n+1 : i = n + 1 \/ (i \in 1..n /\ t[i] = s[i])
    BY <1>1, <2>1
  <2>4. ASSUME NEW i \in 1..n+1, NEW j \in 1..n+1, t[i] = t[j]
        PROVE  i = j
    BY <1>1, <1>3, <2>1, <2>3, <2>4
  <2>5. t[1] = IF s = <<>> THEN a ELSE first
    <3>1. CASE n = 0
      BY <1>2, <2>1, <3>1
    <3>2. CASE n # 0
      <4>1. 1 \in 1..n
        BY <1>1, <3>2
      <4> QED BY <1>2, <2>1, <3>2, <4>1
    <3> QED BY <3>1, <3>2
  <2>6. ASSUME NEW k \in 1..n+1
        PROVE  nxt2[t[k]] = t[Succ(k, n + 1)] /\ prv2[t[Succ(k, n + 1)]] = t[k]
    <3>1. CASE k = n + 1
      <4>1. Succ(k, n + 1) = 1 /\ t[k] = a
        BY <2>1, <3>1 DEF Succ
      <4>2. CASE s = <<>>
        BY <2>5, <4>1, <4>2
      <4>3. CASE s # <<>>
        BY <2>5, <4>1, <4>3
      <4> QED BY <4>2, <4>3
    <3>2. CASE k = n
      <4>1. s # <<>> /\ n \in 1..n /\ Succ(k, n + 1) = n + 1
        BY <1>1, <1>2, <3>2 DEF Succ
      <4>2. t[k] = last /\ t[Succ(k, n + 1)] = a
        BY <1>2, <2>1, <3>2, <4>1 DEF n
      <4> QED BY <4>1, <4>2
    <3>3. CASE k # n /\ k # n + 1
      <4>1. k \in 1..n /\ Succ(k, n + 1) = k + 1 /\ k + 1 \in 1..n
        BY <1>1, <3>3 DEF Succ
      <4>2. t[k] = s[k] /\ t[Succ(k, n + 1)] = s[k + 1]
        BY <2>1, <4>1
      <4> QED BY <1>4, <3>3, <4>1, <4>2
    <3> QED BY <3>1, <3>2, <3>3
  <2> QED BY <2>1, <2>2, <2>4, <2>5, <2>6 DEF IsRing, t, n
<1> QED BY <1>5, <1>6

\* The place k of a ring of n that lost place p, in the ring before.
Skip(k, p) == IF k < p THEN k ELSE k + 1

LEMMA SkipFacts ==
  ASSUME NEW n \in Nat, n > 1, NEW p \in 1..n, NEW k \in 1..n-1
  PROVE  /\ Skip(k, p) \in 1..n \ {p}
         /\ Succ(k, n - 1) \in 1..n-1
         /\ Skip(Succ(k, n - 1), p) = IF Succ(Skip(k, p), n) = p THEN Succ(p, n)
                                      ELSE Succ(Skip(k, p), n)
  BY DEF Skip, Succ

\* The node at p leaves: its neighbours b and a are linked to each other.
LEMMA RingRemove ==
  ASSUME NEW s, NEW first, NEW last, NEW nxt, NEW prv, IsRing(s, first, last, nxt, prv),
         Len(s) > 1, NEW p \in DOMAIN s, NEW b \in DOMAIN s, NEW a \in DOMAIN s,
         Succ(b, Len(s)) = p, Succ(p, Len(s)) = a,
         NEW nxt2, NEW prv2, NEW first2, NEW last2,
         nxt2[s[b]] = s[a], prv2[s[a]] = s[b],
         \A x \in Addresses \ {s[p], s[b]} : nxt2[x] = nxt[x],
         \A x \in Addresses \ {s[p], s[a]} : prv2[x] = prv[x],
         first2 = (IF p = 1 THEN s[2] ELSE first),
         last2 = (IF p = Len(s) THEN s[Len(s) - 1] ELSE last)
  PROVE  IsRing(SeqExt!RemoveAt(s, p), first2, last2, nxt2, prv2)
<1> DEFINE u == SeqExt!RemoveAt(s, p)
<1>n. PICK n \in Nat : n = Len(s)
  BY LenProperties DEF IsRing
<1>1. s \in Seq(Addresses) /\ DOMAIN s = 1..n /\ n > 1 /\ \A k \in 1..n : s[k] \in Addresses
  BY <1>n, LenProperties, ElementOfSeq DEF IsRing
<1>2. s # <<>> /\ first = s[1] /\ last = s[n]
  BY <1>n, <1>1, EmptySeq DEF IsRing
<1>3. \A i, j \in 1..n : s[i] = s[j] => i = j
  BY <1>1 DEF IsRing
<1>4. \A k \in 1..n : nxt[s[k]] = s[Succ(k, n)] /\ prv[s[Succ(k, n)]] = s[k]
  BY <1>n, <1>1 DEF IsRing
<1>5. p \in 1..n /\ a \in 1..n /\ b \in 1..n /\ Succ(b, n) = p /\ Succ(p, n) = a
  BY <1>n, <1>1
<1>6. u \in Seq(Addresses) /\ Len(u) = n - 1 /\ \A k \in 1..n-1 : u[k] = s[Skip(k, p)]
  <2>1. p \in 1..Len(s)
    BY <1>n, <1>5
  <2>2. /\ u \in Seq(Addresses) /\ Len(u) = Len(s) - 1
        /\ \A j \in 1..Len(s) - 1 : u[j] = IF j < p THEN s[j] ELSE s[j + 1]
    BY <1>1, <2>1, RemoveAtElements
  <2> HIDE DEF u
  <2> QED BY <1>n, <2>2 DEF Skip
<1> HIDE DEF u
<1>7. DOMAIN u = 1..n-1 /\ u # <<>>
  BY <1>1, <1>6, LenProperties, EmptySeq
<1>8. ASSUME NEW i \in 1..n-1, NEW j \in 1..n-1, u[i] = u[j]
      PROVE  i = j
  <2>1. Skip(i, p) \in 1..n /\ Skip(j, p) \in 1..n
    BY <1>1, <1>5, SkipFacts
  <2>2. Skip(i, p) = Skip(j, p)
    BY <1>3, <1>6, <1>8, <2>1
  <2> QED BY <1>5, <2>2 DEF Skip
<1>9. first2 = u[1] /\ last2 = u[n - 1]
  <2>1. 1 \in 1..n-1 /\ n - 1 \in 1..n-1
    BY <1>1
  <2>2. u[1] = s[Skip(1, p)] /\ u[n - 1] = s[Skip(n - 1, p)]
    BY <1>6, <2>1
  <2>3. /\ Skip(1, p) = IF p = 1 THEN 2 ELSE 1
        /\ Skip(n - 1, p) = IF p = n THEN n - 1 ELSE n
    BY <1>1, <1>5 DEF Skip
  <2> QED BY <1>n, <1>2, <2>2, <2>3
<1>10. ASSUME NEW k \in 1..n-1
       PROVE  nxt2[u[k]] = u[Succ(k, n - 1)] /\ prv2[u[Succ(k, n - 1)]] = u[k]
  <2>1. PICK i \in 1..n, j \in 1..n :
          /\ i = Skip(k, p) /\ j = Skip(Succ(k, n - 1), p) /\ i # p
          /\ j = IF Succ(i, n) = p THEN a ELSE Succ(i, n)
          /\ Succ(k, n - 1) \in 1..n-1
    <3>1. /\ Skip(k, p) \in 1..n \ {p}
          /\ Succ(k, n - 1) \in 1..n-1
          /\ Skip(Succ(k, n - 1), p) = IF Succ(Skip(k, p), n) = p THEN Succ(p, n)
                                       ELSE Succ(Skip(k, p), n)
      BY <1>1, <1>5, SkipFacts
    <3>2. Skip(Succ(k, n - 1), p) \in 1..n
      BY <1>1, <1>5, <3>1, SkipFacts
    <3> QED BY <1>5, <3>1, <3>2
  <2>2. u[k] = s[i] /\ u[Succ(k, n - 1)] = s[j]
    BY <1>6, <2>1
  <2>3. CASE Succ(i, n) = p
    <3>1. i = b
      BY <1>5, <2>3, SuccFacts
    <3> QED BY <2>1, <2>2, <2>3, <3>1
  <2>4. CASE Succ(i, n) # p
    <3>1. j = Succ(i, n) /\ j # p /\ j # a /\ i # b
      BY <1>5, <2>1, <2>4, SuccFacts
    <3>2. s[i] \in Addresses \ {s[p], s[b]} /\ s[j] \in Addresses \ {s[p], s[a]}
      BY <1>1, <1>3, <1>5, <2>1, <3>1
    <3>3. nxt2[s[i]] = nxt[s[i]] /\ prv2[s[j]] = prv[s[j]]
      BY <3>2
    <3>4. nxt[s[i]] = s[j] /\ prv[s[j]] = s[i]
      BY <1>4, <3>1
    <3> QED BY <2>2, <3>3, <3>4
  <2> QED BY <2>3, <2>4
<1> QED BY <1>6, <1>7, <1>8, <1>9, <1>10 DEF IsRing, u

----------------------------------------------------------------------------
\* The inductive invariant.

\* The numbers of the nodes of s: there are some, and they differ.
HasNumbers(s, num) ==
  /\ \A k \in DOMAIN s : num[s[k]] \in Numbers
  /\ \A i, j \in DOMAIN s : num[s[i]] = num[s[j]] => i = j

SearchRecord == [op : {"Search"}, for : Numbers, at : Addresses]
RemoveRecord == [op : {"Remove"}, for : Numbers, at : Addresses, found : Numbers \union {NULL}]

\* A search has passed the nodes before the one it is at, and the number was none of
\* theirs.
Searching(s) ==
  /\ walk \in SearchRecord
  /\ \E p \in DOMAIN s : s[p] = walk.at /\ \A i \in 1..p-1 : number[s[i]] # walk.for

\* A removal also knows that it is not the last one; once the node has been found, the
\* number is in the list no more.
Removing(s) ==
  /\ walk \in RemoveRecord /\ walk.for < BLOCKS_PER_LIST
  /\ \E p \in DOMAIN s :
       /\ s[p] = walk.at
       /\ walk.found = NULL =>
            number[s[Len(s)]] # walk.for /\ \A i \in 1..p : number[s[i]] # walk.for
  /\ walk.found # NULL =>
       walk.found = walk.for /\ \A i \in DOMAIN s : number[s[i]] # walk.for

Types ==
  /\ First \in Pointers /\ Last \in Pointers
  /\ next \in [Addresses -> Pointers] /\ prev \in [Addresses -> Pointers]
  /\ number \in [Addresses -> Numbers \union {NULL}]
  /\ proc \in {"running", "exited", "crashed"}

IInv ==
  /\ Types
  /\ IsRing(Nodes, First, Last, next, prev)
  /\ HasNumbers(Nodes, number)
  /\ walk = Idle \/ Searching(Nodes) \/ Removing(Nodes)

----------------------------------------------------------------------------
\* The list of numbers changes as the list of nodes does.

ListingOf(s, num) == [k \in DOMAIN s |-> num[s[k]]]

LEMMA ListingIsSeq ==
  ASSUME NEW s \in Seq(Addresses), NEW num, HasNumbers(s, num)
  PROVE  /\ ListingOf(s, num) \in Seq(Numbers) /\ Len(ListingOf(s, num)) = Len(s)
         /\ DOMAIN ListingOf(s, num) = 1..Len(s)
         /\ \A k \in 1..Len(s) : ListingOf(s, num)[k] = num[s[k]]
<1> DEFINE l == ListingOf(s, num)
<1>1. Len(s) \in Nat /\ DOMAIN s = 1..Len(s)
  BY LenProperties
<1>2. l \in [1..Len(s) -> Numbers]
  BY <1>1 DEF ListingOf, HasNumbers
<1>3. l \in Seq(Numbers)
  BY <1>1, <1>2, SeqDef
<1>4. DOMAIN l = 1..Len(s)
  BY <1>2
<1>5. Len(l) = Len(s)
  BY <1>1, <1>3, <1>4, LenProperties
<1> QED BY <1>1, <1>3, <1>4, <1>5 DEF ListingOf

LEMMA ListingEquals ==
  ASSUME NEW s \in Seq(Addresses), NEW num, HasNumbers(s, num), NEW u \in Seq(Numbers),
         Len(u) = Len(s), \A i \in 1..Len(s) : num[s[i]] = u[i]
  PROVE  ListingOf(s, num) = u
<1> DEFINE l == ListingOf(s, num)
<1>1. l \in Seq(Numbers) /\ Len(l) = Len(s) /\ \A k \in 1..Len(s) : l[k] = num[s[k]]
  BY ListingIsSeq
<1> HIDE DEF l
<1>2. l \in Seq(Numbers) /\ u \in Seq(Numbers) /\ Len(l) = Len(u)
      /\ \A i \in 1..Len(l) : l[i] = u[i]
  BY <1>1
<1>3. l = u
  BY <1>2, SeqEqual
<1> QED BY <1>3 DEF l

LEMMA ListingInsertFirst ==
  ASSUME NEW s \in Seq(Addresses), NEW num, HasNumbers(s, num), NEW a \in Addresses,
         NEW n \in Numbers, \A k \in DOMAIN s : num[s[k]] # n,
         NEW num2, num2[a] = n, \A k \in DOMAIN s : num2[s[k]] = num[s[k]]
  PROVE  /\ HasNumbers(<<a>> \o s, num2)
         /\ ListingOf(<<a>> \o s, num2) = <<n>> \o ListingOf(s, num)
<1> DEFINE l == ListingOf(s, num)
           m == Len(s)
<1>1. /\ m \in Nat /\ DOMAIN s = 1..m
      /\ \A k \in 1..m : s[k] \in Addresses /\ num2[s[k]] = num[s[k]] /\ num[s[k]] \in Numbers
      /\ num2[a] = n
  BY LenProperties, ElementOfSeq DEF HasNumbers
<1>2. l \in Seq(Numbers) /\ Len(l) = m /\ \A k \in 1..m : l[k] = num[s[k]]
  BY ListingIsSeq
<1>3. \A i, j \in 1..m : num2[s[i]] = num2[s[j]] => i = j
  BY <1>1 DEF HasNumbers
<1>4. \A k \in 1..m : num2[s[k]] # n
  BY <1>1
<1> HIDE DEF l
<1>5. HasNumbers(<<a>> \o s, num2) /\ ListingOf(<<a>> \o s, num2) = <<n>> \o l
  <2> DEFINE t == <<a>> \o s
             u == <<n>> \o l
  <2>1. /\ t \in Seq(Addresses) /\ Len(t) = m + 1 /\ t[1] = a
        /\ \A i \in 1..m : t[i + 1] = s[i]
    BY <1>1, ConsElements
  <2>2. /\ u \in Seq(Numbers) /\ Len(u) = m + 1 /\ u[1] = n
        /\ \A i \in 1..m : u[i + 1] = l[i]
    BY <1>2, ConsElements
  <2> HIDE DEF t, u, m
  <2>3. DOMAIN t = 1..m+1
    BY <2>1, LenProperties
  <2>4. \A i \in 1..m+1 : i # 1 => i - 1 \in 1..m /\ t[i] = s[i - 1] /\ u[i] = l[i - 1]
    <3> TAKE i \in 1..m+1
    <3>1. CASE i # 1
      <4>1. i - 1 \in 1..m /\ (i - 1) + 1 = i
        BY <1>1, <3>1
      <4> QED BY <2>1, <2>2, <4>1
    <3> QED BY <3>1
  <2>5. \A i \in 1..m+1 : num2[t[i]] = u[i] /\ num2[t[i]] \in Numbers
    <3> TAKE i \in 1..m+1
    <3>1. CASE i = 1
      BY <1>1, <2>1, <2>2, <3>1
    <3>2. CASE i # 1
      <4>1. PICK k \in 1..m : t[i] = s[k] /\ u[i] = l[k]
        BY <2>4, <3>2
      <4> QED BY <1>1, <1>2, <4>1
    <3> QED BY <3>1, <3>2
  <2>6. ASSUME NEW i \in 1..m+1, NEW j \in 1..m+1, num2[t[i]] = num2[t[j]]
        PROVE  i = j
    <3>0. \A k \in 1..m+1 : k # 1 => num2[t[k]] # n
      BY <1>4, <2>4
    <3>1. CASE i = 1 \/ j = 1
      BY <1>1, <2>1, <2>6, <3>0, <3>1
    <3>2. CASE i # 1 /\ j # 1
      <4>1. i - 1 = j - 1
        BY <1>3, <2>4, <2>6, <3>2
      <4> QED BY <1>1, <4>1
    <3> QED BY <3>1, <3>2
  <2>7. HasNumbers(t, num2)
    BY <2>3, <2>5, <2>6 DEF HasNumbers
  <2>8. Len(u) = Len(t) /\ \A i \in 1..Len(t) : num2[t[i]] = u[i]
    BY <2>1, <2>2, <2>5
  <2>9. ListingOf(t, num2) = u
    BY <2>1, <2>2, <2>7, <2>8, ListingEquals
  <2> QED BY <2>7, <2>9 DEF t, u
<1> QED BY <1>5 DEF l

LEMMA ListingInsertLast ==
  ASSUME NEW s \in Seq(Addresses), NEW num, HasNumbers(s, num), NEW a \in Addresses,
         NEW n \in Numbers, \A k \in DOMAIN s : num[s[k]] # n,
         NEW num2, num2[a] = n, \A k \in DOMAIN s : num2[s[k]] = num[s[k]]
  PROVE  /\ HasNumbers(Append(s, a), num2)
         /\ ListingOf(Append(s, a), num2) = Append(ListingOf(s, num), n)
<1> DEFINE l == ListingOf(s, num)
           m == Len(s)
<1>1. /\ m \in Nat /\ DOMAIN s = 1..m
      /\ \A k \in 1..m : s[k] \in Addresses /\ num2[s[k]] = num[s[k]] /\ num[s[k]] \in Numbers
      /\ num2[a] = n
  BY LenProperties, ElementOfSeq DEF HasNumbers
<1>2. l \in Seq(Numbers) /\ Len(l) = m /\ \A k \in 1..m : l[k] = num[s[k]]
  BY ListingIsSeq
<1>3. \A i, j \in 1..m : num2[s[i]] = num2[s[j]] => i = j
  BY <1>1 DEF HasNumbers
<1>4. \A k \in 1..m : num2[s[k]] # n
  BY <1>1
<1> HIDE DEF l
<1>5. HasNumbers(Append(s, a), num2) /\ ListingOf(Append(s, a), num2) = Append(l, n)
  <2> DEFINE t == Append(s, a)
             u == Append(l, n)
  <2>1. /\ t \in Seq(Addresses) /\ Len(t) = m + 1 /\ t[m + 1] = a
        /\ \A i \in 1..m : t[i] = s[i]
    BY <1>1, AppendProperties
  <2>2. /\ u \in Seq(Numbers) /\ Len(u) = m + 1 /\ u[m + 1] = n
        /\ \A i \in 1..m : u[i] = l[i]
    BY <1>2, AppendProperties
  <2> HIDE DEF t, u, m
  <2>3. DOMAIN t = 1..m+1
    BY <2>1, LenProperties
  <2>4. \A i \in 1..m+1 : i # m + 1 => i \in 1..m
    BY <1>1
  <2>5. \A i \in 1..m+1 : num2[t[i]] = u[i] /\ num2[t[i]] \in Numbers
    BY <1>1, <1>2, <2>1, <2>2, <2>4
  <2>6. ASSUME NEW i \in 1..m+1, NEW j \in 1..m+1, num2[t[i]] = num2[t[j]]
        PROVE  i = j
    BY <1>1, <1>3, <1>4, <2>1, <2>4, <2>6
  <2>7. HasNumbers(t, num2)
    BY <2>3, <2>5, <2>6 DEF HasNumbers
  <2>8. Len(u) = Len(t) /\ \A i \in 1..Len(t) : num2[t[i]] = u[i]
    BY <2>1, <2>2, <2>5
  <2>9. ListingOf(t, num2) = u
    BY <2>1, <2>2, <2>7, <2>8, ListingEquals
  <2> QED BY <2>7, <2>9 DEF t, u
<1> QED BY <1>5 DEF l

LEMMA ListingRemove ==
  ASSUME NEW s \in Seq(Addresses), NEW num, HasNumbers(s, num), NEW p \in DOMAIN s,
         NEW num2, \A k \in DOMAIN s : k # p => num2[s[k]] = num[s[k]]
  PROVE  LET u == SeqExt!RemoveAt(s, p)
         IN  /\ HasNumbers(u, num2)
             /\ ListingOf(u, num2) = SeqExt!RemoveAt(ListingOf(s, num), p)
             /\ \A k \in DOMAIN u : num2[u[k]] # num[s[p]]
<1> DEFINE u == SeqExt!RemoveAt(s, p)
           l == ListingOf(s, num)
           r == SeqExt!RemoveAt(l, p)
<1>n. PICK n \in Nat : n = Len(s) /\ DOMAIN s = 1..n
  BY LenProperties
<1>1. p \in 1..n /\ p \in 1..Len(s) /\ n >= 1
  BY <1>n
<1>2. u \in Seq(Addresses) /\ Len(u) = n - 1 /\ \A k \in 1..n-1 : u[k] = s[Skip(k, p)]
  <2>1. /\ u \in Seq(Addresses) /\ Len(u) = Len(s) - 1
        /\ \A j \in 1..Len(s) - 1 : u[j] = IF j < p THEN s[j] ELSE s[j + 1]
    BY <1>1, RemoveAtElements
  <2> HIDE DEF u
  <2> QED BY <1>n, <2>1 DEF Skip
<1>3. l \in Seq(Numbers) /\ Len(l) = n /\ \A k \in 1..n : l[k] = num[s[k]]
  BY <1>n, ListingIsSeq
<1>4. r \in Seq(Numbers) /\ Len(r) = n - 1 /\ \A k \in 1..n-1 : r[k] = l[Skip(k, p)]
  <2> HIDE DEF l
  <2>1. /\ r \in Seq(Numbers) /\ Len(r) = Len(l) - 1
        /\ \A j \in 1..Len(l) - 1 : r[j] = IF j < p THEN l[j] ELSE l[j + 1]
    BY <1>1, <1>3, RemoveAtElements
  <2> HIDE DEF r
  <2> QED BY <1>3, <2>1 DEF Skip
<1> HIDE DEF u, l, r
<1>5. DOMAIN u = 1..n-1
  BY <1>1, <1>2, LenProperties
<1>6. \A k \in 1..n-1 : Skip(k, p) \in 1..n /\ Skip(k, p) # p
  BY <1>1 DEF Skip
<1>7. \A k \in 1..n-1 : num2[u[k]] = num[s[Skip(k, p)]] /\ num2[u[k]] = r[k]
  <2> TAKE k \in 1..n-1
  <2>1. PICK q \in 1..n : q = Skip(k, p) /\ q # p
    BY <1>6
  <2>2. u[k] = s[q] /\ r[k] = l[q]
    BY <1>2, <1>4, <2>1
  <2>3. num2[s[q]] = num[s[q]] /\ l[q] = num[s[q]]
    BY <1>n, <1>3, <2>1
  <2> QED BY <2>1, <2>2, <2>3
<1>8. ASSUME NEW i \in 1..n-1, NEW j \in 1..n-1, num2[u[i]] = num2[u[j]]
      PROVE  i = j
  <2>1. Skip(i, p) = Skip(j, p)
    BY <1>n, <1>6, <1>7, <1>8 DEF HasNumbers
  <2> QED BY <1>1, <2>1 DEF Skip
<1>9. HasNumbers(u, num2)
  BY <1>n, <1>5, <1>6, <1>7, <1>8 DEF HasNumbers
<1>10. \A k \in 1..n-1 : num2[u[k]] # num[s[p]]
  BY <1>n, <1>1, <1>6, <1>7 DEF HasNumbers
<1>11. ListingOf(u, num2) = r
  <2>1. Len(r) = Len(u) /\ \A i \in 1..Len(u) : num2[u[i]] = r[i]
    BY <1>2, <1>4, <1>7
  <2> QED BY <1>2, <1>4, <1>9, <2>1, ListingEquals
<1> QED BY <1>5, <1>9, <1>10, <1>11 DEF u, l, r

----------------------------------------------------------------------------
\* What holds in the states of the invariant.

LEMMA RingStates ==
  ASSUME IInv
  PROVE  /\ Nodes \in Seq(Addresses) /\ Len(Nodes) \in Nat /\ DOMAIN Nodes = 1..Len(Nodes)
         /\ \A k \in 1..Len(Nodes) : Nodes[k] \in Addresses /\ number[Nodes[k]] \in Numbers
         /\ \A i, j \in 1..Len(Nodes) : Nodes[i] = Nodes[j] => i = j
         /\ Empty <=> Nodes = <<>>
         /\ First = NULL <=> Nodes = <<>>
         /\ Nodes # <<>> => /\ First = Nodes[1] /\ Last = Nodes[Len(Nodes)]
                            /\ First \in Addresses /\ Last \in Addresses /\ Len(Nodes) >= 1
         /\ \A k \in 1..Len(Nodes) : /\ next[Nodes[k]] = Nodes[Succ(k, Len(Nodes))]
                                     /\ prev[Nodes[Succ(k, Len(Nodes))]] = Nodes[k]
<1> DEFINE s == Nodes
<1>1. IsRing(s, First, Last, next, prev) /\ HasNumbers(s, number)
  BY DEF IInv
<1> HIDE DEF s
<1>2. s \in Seq(Addresses) /\ Len(s) \in Nat /\ DOMAIN s = 1..Len(s)
  BY <1>1, LenProperties DEF IsRing
<1>3. \A k \in 1..Len(s) : s[k] \in Addresses
  BY <1>2, ElementOfSeq
<1>4. s # <<>> => Len(s) >= 1
  BY <1>2, EmptySeq
<1>5. NULL \notin Addresses
  BY ListAssumption
<1>6. s # <<>> => First = s[1] /\ Last = s[Len(s)] /\ First \in Addresses /\ Last \in Addresses
  BY <1>1, <1>2, <1>3, <1>4 DEF IsRing
<1>7. s = <<>> => First = NULL /\ Last = NULL
  BY <1>1 DEF IsRing
<1>8. (Empty <=> s = <<>>) /\ (First = NULL <=> s = <<>>)
  BY <1>5, <1>6, <1>7 DEF Empty
<1>9. /\ \A k \in 1..Len(s) : number[s[k]] \in Numbers
      /\ \A i, j \in 1..Len(s) : s[i] = s[j] => i = j
      /\ \A k \in 1..Len(s) : next[s[k]] = s[Succ(k, Len(s))] /\ prev[s[Succ(k, Len(s))]] = s[k]
  BY <1>1, <1>2 DEF IsRing, HasNumbers
<1> QED BY <1>2, <1>3, <1>4, <1>6, <1>8, <1>9 DEF s

LEMMA ListingStates ==
  ASSUME IInv
  PROVE  /\ Listing = ListingOf(Nodes, number)
         /\ Listing \in Seq(Numbers) /\ Len(Listing) = Len(Nodes)
         /\ DOMAIN Listing = 1..Len(Nodes)
         /\ \A k \in 1..Len(Nodes) : Listing[k] = number[Nodes[k]]
         /\ \A n : n \in Numbered <=> \E k \in 1..Len(Nodes) : number[Nodes[k]] = n
         /\ Listed!ToSet(Listing) = Numbered
<1>1. Listing = ListingOf(Nodes, number)
  BY DEF Listing, ListingOf
<1>2. Nodes \in Seq(Addresses) /\ HasNumbers(Nodes, number)
  BY RingStates DEF IInv
<1>3. /\ Listing \in Seq(Numbers) /\ Len(Listing) = Len(Nodes)
      /\ DOMAIN Listing = 1..Len(Nodes)
      /\ \A k \in 1..Len(Nodes) : Listing[k] = number[Nodes[k]]
  BY <1>1, <1>2, ListingIsSeq
<1>4. Numbered = {Listing[k] : k \in DOMAIN Listing} /\ Listed!ToSet(Listing) = Numbered
  BY DEF Numbered, Listed!ToSet
<1> QED BY <1>1, <1>3, <1>4

\* The ring after a step is what following the pointers yields then.
LEMMA NewNodes ==
  ASSUME NEW t, IsRing(t, First', Last', next', prev')
  PROVE  Nodes' = t /\ Listing' = ListingOf(t, number')
<1>1. Nodes' = NodesOf(First', Last', next')
  BY DEF Nodes, NodesOf
<1>2. NodesOf(First', Last', next') = t
  BY NodesOfRing
<1>3. Listing' = ListingOf(Nodes', number')
  BY DEF Listing, ListingOf
<1> QED BY <1>1, <1>2, <1>3

LEMMA SameNodes ==
  ASSUME UNCHANGED <<First, Last, next>>
  PROVE  Nodes' = Nodes
  BY DEF Nodes

LEMMA SameListing ==
  ASSUME UNCHANGED <<First, Last, next, number>>
  PROVE  Listing' = Listing
<1>1. Nodes' = Nodes
  BY SameNodes
<1> QED BY <1>1 DEF Listing

\* The invariant when no loop is under way.
LEMMA NewRing ==
  ASSUME NEW t, IsRing(t, First', Last', next', prev'), HasNumbers(t, number'), Types',
         walk' = Idle
  PROVE  IInv'
<1>1. Nodes' = t
  BY NewNodes
<1> QED BY <1>1 DEF IInv, Idle

----------------------------------------------------------------------------
\* Insertion.

LEMMA InsertFacts ==
  ASSUME IInv, NEW n \in Numbers, NEW a \in Addresses, Insert(a, n)
  PROVE  /\ \A k \in DOMAIN Nodes : Nodes[k] # a
         /\ \A k \in DOMAIN Nodes : number[Nodes[k]] # n /\ number'[Nodes[k]] = number[Nodes[k]]
         /\ number'[a] = n
         /\ next'[a] = IF Nodes = <<>> THEN a ELSE First
         /\ prev'[a] = IF Nodes = <<>> THEN a ELSE Last
         /\ Nodes # <<>> => next'[Last] = a /\ prev'[First] = a
         /\ \A x \in Addresses \ {a, Last} : next'[x] = next[x]
         /\ \A x \in Addresses \ {a, First} : prev'[x] = prev[x]
         /\ next' \in [Addresses -> Pointers] /\ prev' \in [Addresses -> Pointers]
         /\ number' \in [Addresses -> Numbers \union {NULL}]
         /\ walk = Idle /\ walk' = Idle /\ proc = "running" /\ proc' = proc /\ did' = <<>>
<1>1. /\ walk = Idle /\ walk' = Idle /\ proc = "running" /\ proc' = proc /\ did' = <<>>
      /\ n \notin Numbered
      /\ number[a] = NULL /\ number' = [number EXCEPT ![a] = n]
      /\ LinkIn(a)
  BY DEF Insert, Ready, Running, New, Allocated
<1>2. /\ \A k \in DOMAIN Nodes : Nodes[k] \in Addresses /\ number[Nodes[k]] \in Numbers
      /\ Empty <=> Nodes = <<>>
      /\ Nodes # <<>> => First \in Addresses /\ Last \in Addresses /\ Len(Nodes) \in DOMAIN Nodes
                         /\ 1 \in DOMAIN Nodes /\ First = Nodes[1] /\ Last = Nodes[Len(Nodes)]
  BY RingStates
<1>3. First \in Pointers /\ Last \in Pointers /\ a \in Pointers
  BY DEF IInv, Types, Pointers
<1>4. /\ next \in [Addresses -> Pointers] /\ prev \in [Addresses -> Pointers]
      /\ number \in [Addresses -> Numbers \union {NULL}]
  BY DEF IInv, Types
<1>5. NULL \notin Numbers
  BY ListAssumption
<1>6. \A k \in DOMAIN Nodes : Nodes[k] # a
  BY <1>1, <1>2, <1>5
<1>7. \A k \in DOMAIN Nodes : number[Nodes[k]] # n /\ number'[Nodes[k]] = number[Nodes[k]]
  <2>1. \A k \in DOMAIN Nodes : number[Nodes[k]] # n
    BY <1>1, ListingStates, RingStates
  <2> QED BY <1>1, <1>2, <1>4, <1>6, <2>1
<1>8. number'[a] = n /\ number' \in [Addresses -> Numbers \union {NULL}]
  BY <1>1, <1>4
<1> DEFINE e == IF Empty THEN a ELSE Last
           f == IF Empty THEN a ELSE First
<1>9. /\ next' = [next EXCEPT ![e] = a, ![a] = IF Empty THEN a ELSE First]
      /\ prev' = [prev EXCEPT ![f] = a, ![a] = IF Empty THEN a ELSE Last]
  BY <1>1 DEF LinkIn
<1>10. e \in Addresses /\ f \in Addresses /\ (~Empty => e # a /\ f # a)
  BY <1>2, <1>6
<1>11. e = (IF Empty THEN a ELSE Last) /\ f = (IF Empty THEN a ELSE First)
  OBVIOUS
<1> HIDE DEF e, f
<1>12. next' \in [Addresses -> Pointers] /\ prev' \in [Addresses -> Pointers]
  BY <1>3, <1>4, <1>9, <1>10
<1>13. /\ next'[a] = (IF Empty THEN a ELSE First) /\ prev'[a] = (IF Empty THEN a ELSE Last)
       /\ ~Empty => next'[e] = a /\ prev'[f] = a
       /\ \A x \in Addresses \ {a, e} : next'[x] = next[x]
       /\ \A x \in Addresses \ {a, f} : prev'[x] = prev[x]
  BY <1>4, <1>9, <1>10
<1> QED BY <1>1, <1>2, <1>6, <1>7, <1>8, <1>11, <1>12, <1>13

LEMMA InsertFirstStep ==
  ASSUME IInv, NEW n \in Numbers, InsertFirst(n)
  PROVE  IInv' /\ Listed!Next
<1>1. PICK a \in Addresses : Insert(a, n) /\ First' = a /\ Last' = IF Empty THEN a ELSE Last
  BY DEF InsertFirst
<1> DEFINE s == Nodes
           t == <<a>> \o s
<1>2. IsRing(s, First, Last, next, prev) /\ HasNumbers(s, number) /\ s \in Seq(Addresses)
  BY RingStates DEF IInv
<1>3. /\ \A k \in DOMAIN s : s[k] # a
      /\ \A k \in DOMAIN s : number[s[k]] # n /\ number'[s[k]] = number[s[k]]
      /\ number'[a] = n
      /\ next'[a] = IF s = <<>> THEN a ELSE First
      /\ prev'[a] = IF s = <<>> THEN a ELSE Last
      /\ s # <<>> => next'[Last] = a /\ prev'[First] = a
      /\ \A x \in Addresses \ {a, Last} : next'[x] = next[x]
      /\ \A x \in Addresses \ {a, First} : prev'[x] = prev[x]
  BY <1>1, InsertFacts
<1>4. Last' = IF s = <<>> THEN a ELSE Last
  BY <1>1, RingStates
<1>5. Types' /\ walk = Idle /\ walk' = Idle /\ Running /\ Running' /\ did' = <<>>
  <2>1. /\ next' \in [Addresses -> Pointers] /\ prev' \in [Addresses -> Pointers]
        /\ number' \in [Addresses -> Numbers \union {NULL}]
        /\ walk = Idle /\ walk' = Idle /\ proc = "running" /\ proc' = proc /\ did' = <<>>
    BY <1>1, InsertFacts
  <2>2. First' \in Pointers /\ Last' \in Pointers
    BY <1>1 DEF IInv, Types, Pointers
  <2> QED BY <2>1, <2>2 DEF Types, Running
<1>6. n \notin Listed!ToSet(Listing) /\ Listing = ListingOf(s, number)
  BY <1>1, ListingStates DEF Insert
<1> HIDE DEF s
<1>7. IsRing(t, First', Last', next', prev')
  <2>1. IsRing(t, a, IF s = <<>> THEN a ELSE Last, next', prev')
    BY <1>2, <1>3, RingInsert
  <2> QED BY <1>1, <1>4, <2>1
<1>8. HasNumbers(t, number') /\ ListingOf(t, number') = <<n>> \o ListingOf(s, number)
  <2>1. /\ HasNumbers(s, number) /\ s \in Seq(Addresses) /\ number'[a] = n
        /\ \A k \in DOMAIN s : number[s[k]] # n
        /\ \A k \in DOMAIN s : number'[s[k]] = number[s[k]]
    BY <1>2, <1>3
  <2> QED BY <2>1, ListingInsertFirst
<1> HIDE DEF t
<1>9. IInv'
  BY <1>5, <1>7, <1>8, NewRing
<1>10. Listing' = <<n>> \o Listing
  BY <1>6, <1>7, <1>8, NewNodes
<1>11. Listed!InsertFirst(n)
  BY <1>6, <1>10 DEF Listed!InsertFirst
<1> QED BY <1>5, <1>9, <1>11 DEF Listed!Next, Idle

LEMMA InsertLastStep ==
  ASSUME IInv, NEW n \in Numbers, InsertLast(n)
  PROVE  IInv' /\ Listed!Next
<1>1. PICK a \in Addresses : Insert(a, n) /\ Last' = a /\ First' = IF Empty THEN a ELSE First
  BY DEF InsertLast
<1> DEFINE s == Nodes
           t == Append(s, a)
<1>2. IsRing(s, First, Last, next, prev) /\ HasNumbers(s, number) /\ s \in Seq(Addresses)
  BY RingStates DEF IInv
<1>3. /\ \A k \in DOMAIN s : s[k] # a
      /\ \A k \in DOMAIN s : number[s[k]] # n /\ number'[s[k]] = number[s[k]]
      /\ number'[a] = n
      /\ next'[a] = IF s = <<>> THEN a ELSE First
      /\ prev'[a] = IF s = <<>> THEN a ELSE Last
      /\ s # <<>> => next'[Last] = a /\ prev'[First] = a
      /\ \A x \in Addresses \ {a, Last} : next'[x] = next[x]
      /\ \A x \in Addresses \ {a, First} : prev'[x] = prev[x]
  BY <1>1, InsertFacts
<1>4. First' = IF s = <<>> THEN a ELSE First
  BY <1>1, RingStates
<1>5. Types' /\ walk = Idle /\ walk' = Idle /\ Running /\ Running' /\ did' = <<>>
  <2>1. /\ next' \in [Addresses -> Pointers] /\ prev' \in [Addresses -> Pointers]
        /\ number' \in [Addresses -> Numbers \union {NULL}]
        /\ walk = Idle /\ walk' = Idle /\ proc = "running" /\ proc' = proc /\ did' = <<>>
    BY <1>1, InsertFacts
  <2>2. First' \in Pointers /\ Last' \in Pointers
    BY <1>1 DEF IInv, Types, Pointers
  <2> QED BY <2>1, <2>2 DEF Types, Running
<1>6. n \notin Listed!ToSet(Listing) /\ Listing = ListingOf(s, number)
  BY <1>1, ListingStates DEF Insert
<1> HIDE DEF s
<1>7. IsRing(t, First', Last', next', prev')
  <2>1. /\ IsRing(<<a>> \o s, a, IF s = <<>> THEN a ELSE Last, next', prev')
        /\ IsRing(Append(s, a), IF s = <<>> THEN a ELSE First, a, next', prev')
    BY <1>2, <1>3, RingInsert
  <2> QED BY <1>1, <1>4, <2>1
<1>8. HasNumbers(t, number') /\ ListingOf(t, number') = Append(ListingOf(s, number), n)
  <2>1. /\ HasNumbers(s, number) /\ s \in Seq(Addresses) /\ number'[a] = n
        /\ \A k \in DOMAIN s : number[s[k]] # n
        /\ \A k \in DOMAIN s : number'[s[k]] = number[s[k]]
    BY <1>2, <1>3
  <2> QED BY <2>1, ListingInsertLast
<1> HIDE DEF t
<1>9. IInv'
  BY <1>5, <1>7, <1>8, NewRing
<1>10. Listing' = Append(Listing, n)
  BY <1>6, <1>7, <1>8, NewNodes
<1>11. Listed!InsertLast(n)
  BY <1>6, <1>10 DEF Listed!InsertLast
<1> QED BY <1>5, <1>9, <1>11 DEF Listed!Next, Idle

----------------------------------------------------------------------------
\* Deletion at the ends.

LEMMA EndsRemoved ==
  ASSUME NEW S, NEW s \in Seq(S), s # <<>>
  PROVE  /\ Tail(s) = SeqExt!RemoveAt(s, 1) /\ Head(s) = s[1]
         /\ SubSeq(s, 1, Len(s) - 1) = SeqExt!RemoveAt(s, Len(s))
<1>1. Len(s) \in Nat /\ 1 \in 1..Len(s) /\ Len(s) \in 1..Len(s) /\ Len(s) >= 1
      /\ \A j \in 1..Len(s) : s[j] \in S
  BY LenProperties, EmptySeq, ElementOfSeq
<1>2. Tail(s) = SeqExt!RemoveAt(s, 1)
  <2> DEFINE t == Tail(s)
             u == SeqExt!RemoveAt(s, 1)
  <2>1. t \in Seq(S) /\ Len(t) = Len(s) - 1 /\ \A j \in 1..Len(s) - 1 : t[j] = s[j + 1]
    BY <1>1, HeadTailProperties
  <2>2. /\ u \in Seq(S) /\ Len(u) = Len(s) - 1
        /\ \A j \in 1..Len(s) - 1 : u[j] = IF j < 1 THEN s[j] ELSE s[j + 1]
    BY <1>1, RemoveAtElements
  <2> HIDE DEF t, u
  <2>3. t = u
    BY <1>1, <2>1, <2>2, SeqEqual
  <2> QED BY <2>3 DEF t, u
<1>3. SubSeq(s, 1, Len(s) - 1) = SeqExt!RemoveAt(s, Len(s))
  <2> DEFINE t == SubSeq(s, 1, Len(s) - 1)
             u == SeqExt!RemoveAt(s, Len(s))
  <2>1. t \in Seq(S) /\ Len(t) = Len(s) - 1 /\ \A j \in 1..Len(s) - 1 : t[j] = s[j]
    <3>1. PICK m \in Nat : m = Len(s) - 1
      BY <1>1
    <3>2. 1 \in Int /\ m \in Int /\ \A j \in 1..m : s[j] \in S
      BY <1>1, <3>1
    <3>3. /\ SubSeq(s, 1, m) \in Seq(S)
          /\ Len(SubSeq(s, 1, m)) = IF 1 <= m THEN m - 1 + 1 ELSE 0
          /\ \A j \in 1..m - 1 + 1 : SubSeq(s, 1, m)[j] = s[1 + j - 1]
      BY <3>2, SubSeqProperties
    <3>4. t = SubSeq(s, 1, m)
      BY <3>1
    <3>5. m - 1 + 1 = m /\ (1 <= m \/ m = 0) /\ \A j \in 1..m : 1 + j - 1 = j
      BY <3>1
    <3> HIDE DEF t
    <3> QED BY <3>1, <3>3, <3>4, <3>5
  <2>2. /\ u \in Seq(S) /\ Len(u) = Len(s) - 1
        /\ \A j \in 1..Len(s) - 1 : u[j] = IF j < Len(s) THEN s[j] ELSE s[j + 1]
    BY <1>1, RemoveAtElements
  <2> HIDE DEF t, u
  <2>3. t = u
    BY <1>1, <2>1, <2>2, SeqEqual
  <2> QED BY <2>3 DEF t, u
<1> QED BY <1>2, <1>3

LEMMA EmptyRing ==
  ASSUME NEW s \in Seq(Addresses), Len(s) = 1, NEW nxt, NEW prv
  PROVE  IsRing(SeqExt!RemoveAt(s, 1), NULL, NULL, nxt, prv)
<1> DEFINE u == SeqExt!RemoveAt(s, 1)
<1>1. u \in Seq(Addresses) /\ Len(u) = 0
  <2>1. 1 \in 1..Len(s)
    OBVIOUS
  <2>2. u \in Seq(Addresses) /\ Len(u) = Len(s) - 1
    BY <2>1, RemoveAtElements
  <2> HIDE DEF u
  <2> QED BY <2>2
<1> HIDE DEF u
<1>2. u = <<>> /\ DOMAIN u = {}
  BY <1>1, EmptySeq
<1> QED BY <1>1, <1>2 DEF IsRing, u

LEMMA DropFirstRing ==
  ASSUME IInv, Nodes # <<>>, DropFirst, number' = number, proc' = proc
  PROVE  IsRing(SeqExt!RemoveAt(Nodes, 1), First', Last', next', prev') /\ Types'
<1> DEFINE s == Nodes
<1>n. PICK n \in Nat : n = Len(s)
  BY RingStates
<1>1. /\ s \in Seq(Addresses) /\ DOMAIN s = 1..n /\ \A k \in 1..n : s[k] \in Addresses
      /\ \A i, j \in 1..n : s[i] = s[j] => i = j
      /\ First = s[1] /\ Last = s[n] /\ First \in Addresses /\ Last \in Addresses /\ n >= 1
      /\ \A k \in 1..n : next[s[k]] = s[Succ(k, n)] /\ prev[s[Succ(k, n)]] = s[k]
  BY <1>n, RingStates
<1>2. IsRing(s, First, Last, next, prev) /\ Types
  BY DEF IInv
<1> HIDE DEF s
<1>3. CASE First = Last
  <2>1. n = 1
    <3>1. 1 \in 1..n /\ n \in 1..n /\ s[1] = s[n]
      BY <1>1, <1>3
    <3> QED BY <1>1, <3>1
  <2>2. First' = NULL /\ Last' = NULL /\ UNCHANGED <<next, prev>>
    BY <1>3 DEF DropFirst
  <2> QED BY <1>n, <1>1, <1>2, <2>1, <2>2, EmptyRing DEF Types, Pointers, s
<1>4. CASE First # Last
  <2>1. n > 1
    <3>1. n # 1
      BY <1>1, <1>4
    <3> QED BY <1>1, <3>1
  <2>2. 1 \in 1..n /\ 2 \in 1..n /\ n \in 1..n /\ Succ(n, n) = 1 /\ Succ(1, n) = 2
    BY <2>1 DEF Succ
  <2>3. next[First] = s[2] /\ s[2] \in Addresses /\ s[2] # First
    BY <1>1, <2>2
  <2>4. /\ First' = s[2] /\ Last' = Last
        /\ next' = [next EXCEPT ![First] = Kept(@), ![Last] = s[2]]
        /\ prev' = [prev EXCEPT ![First] = Kept(@), ![s[2]] = Last]
    BY <1>4, <2>3 DEF DropFirst
  <2>5. next \in [Addresses -> Pointers] /\ prev \in [Addresses -> Pointers]
    BY <1>2 DEF Types
  <2>6. Kept(next[First]) \in Pointers /\ Kept(prev[First]) \in Pointers
    BY <1>1, <2>5 DEF Kept, Pointers
  <2>7. /\ next' \in [Addresses -> Pointers] /\ prev' \in [Addresses -> Pointers]
        /\ next'[Last] = s[2] /\ prev'[s[2]] = Last
        /\ \A x \in Addresses \ {First, Last} : next'[x] = next[x]
        /\ \A x \in Addresses \ {First, s[2]} : prev'[x] = prev[x]
    BY <1>1, <2>3, <2>4, <2>5, <2>6 DEF Pointers
  <2>8. /\ Len(s) > 1 /\ 1 \in DOMAIN s /\ n \in DOMAIN s /\ 2 \in DOMAIN s
        /\ Succ(n, Len(s)) = 1 /\ Succ(1, Len(s)) = 2
        /\ next'[s[n]] = s[2] /\ prev'[s[2]] = s[n]
        /\ \A x \in Addresses \ {s[1], s[n]} : next'[x] = next[x]
        /\ \A x \in Addresses \ {s[1], s[2]} : prev'[x] = prev[x]
        /\ First' = (IF 1 = 1 THEN s[2] ELSE First)
        /\ Last' = (IF 1 = Len(s) THEN s[Len(s) - 1] ELSE Last)
    BY <1>n, <1>1, <2>1, <2>2, <2>4, <2>7
  <2>9. IsRing(SeqExt!RemoveAt(s, 1), First', Last', next', prev')
    BY <1>2, <2>8, RingRemove
  <2> QED BY <1>1, <1>2, <2>3, <2>4, <2>7, <2>9 DEF Types, Pointers, s
<1> QED BY <1>3, <1>4

LEMMA DropLastRing ==
  ASSUME IInv, Nodes # <<>>, DropLast, number' = number, proc' = proc
  PROVE  IsRing(SeqExt!RemoveAt(Nodes, Len(Nodes)), First', Last', next', prev') /\ Types'
<1> DEFINE s == Nodes
<1>n. PICK n \in Nat : n = Len(s)
  BY RingStates
<1>1. /\ s \in Seq(Addresses) /\ DOMAIN s = 1..n /\ \A k \in 1..n : s[k] \in Addresses
      /\ \A i, j \in 1..n : s[i] = s[j] => i = j
      /\ First = s[1] /\ Last = s[n] /\ First \in Addresses /\ Last \in Addresses /\ n >= 1
      /\ \A k \in 1..n : next[s[k]] = s[Succ(k, n)] /\ prev[s[Succ(k, n)]] = s[k]
  BY <1>n, RingStates
<1>2. IsRing(s, First, Last, next, prev) /\ Types
  BY DEF IInv
<1> HIDE DEF s
<1>3. CASE First = Last
  <2>1. n = 1
    <3>1. 1 \in 1..n /\ n \in 1..n /\ s[1] = s[n]
      BY <1>1, <1>3
    <3> QED BY <1>1, <3>1
  <2>2. First' = NULL /\ Last' = NULL /\ UNCHANGED <<next, prev>>
    BY <1>3 DEF DropLast
  <2> QED BY <1>n, <1>1, <1>2, <2>1, <2>2, EmptyRing DEF Types, Pointers, s
<1>4. CASE First # Last
  <2>1. n > 1
    <3>1. n # 1
      BY <1>1, <1>4
    <3> QED BY <1>1, <3>1
  <2>2. 1 \in 1..n /\ n - 1 \in 1..n /\ n \in 1..n /\ Succ(n, n) = 1 /\ Succ(n - 1, n) = n
        /\ n # n - 1
    BY <2>1 DEF Succ
  <2> DEFINE m == n - 1
  <2>m. m \in 1..n /\ Succ(m, n) = n /\ m = n - 1 /\ m # n
    BY <2>2
  <2> HIDE DEF m
  <2>3. prev[Last] = s[m] /\ s[m] \in Addresses /\ s[m] # Last
    BY <1>1, <2>2, <2>m
  <2>4. /\ Last' = s[m] /\ First' = First
        /\ next' = [next EXCEPT ![Last] = Kept(@), ![s[m]] = First]
        /\ prev' = [prev EXCEPT ![Last] = Kept(@), ![First] = s[m]]
    BY <1>4, <2>3 DEF DropLast
  <2>5. next \in [Addresses -> Pointers] /\ prev \in [Addresses -> Pointers]
    BY <1>2 DEF Types
  <2>6. Kept(next[Last]) \in Pointers /\ Kept(prev[Last]) \in Pointers
    BY <1>1, <2>5 DEF Kept, Pointers
  <2>7. /\ next' \in [Addresses -> Pointers] /\ prev' \in [Addresses -> Pointers]
        /\ next'[s[m]] = First /\ prev'[First] = s[m]
        /\ \A x \in Addresses \ {Last, s[m]} : next'[x] = next[x]
        /\ \A x \in Addresses \ {Last, First} : prev'[x] = prev[x]
    BY <1>1, <1>4, <2>3, <2>4, <2>5, <2>6 DEF Pointers
  <2>8. /\ Len(s) > 1 /\ n \in DOMAIN s /\ m \in DOMAIN s /\ 1 \in DOMAIN s
        /\ Succ(m, Len(s)) = n /\ Succ(n, Len(s)) = 1
        /\ next'[s[m]] = s[1] /\ prev'[s[1]] = s[m]
        /\ \A x \in Addresses \ {s[n], s[m]} : next'[x] = next[x]
        /\ \A x \in Addresses \ {s[n], s[1]} : prev'[x] = prev[x]
        /\ First' = (IF n = 1 THEN s[2] ELSE First)
        /\ Last' = (IF n = Len(s) THEN s[Len(s) - 1] ELSE Last)
    BY <1>n, <1>1, <2>1, <2>2, <2>m, <2>4, <2>7
  <2>9. IsRing(SeqExt!RemoveAt(s, n), First', Last', next', prev')
    BY <1>2, <2>8, RingRemove
  <2> QED BY <1>n, <1>1, <1>2, <2>3, <2>4, <2>7, <2>9 DEF Types, Pointers, s
<1> QED BY <1>3, <1>4

LEMMA Dropped ==
  ASSUME IInv, NEW p \in DOMAIN Nodes,
         IsRing(SeqExt!RemoveAt(Nodes, p), First', Last', next', prev'),
         number' = number, Types', walk' = Idle
  PROVE  IInv' /\ Listing' = SeqExt!RemoveAt(Listing, p)
<1> DEFINE s == Nodes
           u == SeqExt!RemoveAt(s, p)
<1>1. s \in Seq(Addresses) /\ HasNumbers(s, number) /\ p \in DOMAIN s
      /\ \A k \in DOMAIN s : k # p => number'[s[k]] = number[s[k]]
  BY RingStates DEF IInv
<1>2. Listing = ListingOf(s, number)
  BY ListingStates
<1>3. IsRing(u, First', Last', next', prev')
  OBVIOUS
<1> HIDE DEF s
<1>4. HasNumbers(u, number') /\ ListingOf(u, number') = SeqExt!RemoveAt(ListingOf(s, number), p)
  BY <1>1, ListingRemove
<1> HIDE DEF u
<1> QED BY <1>2, <1>3, <1>4, NewNodes, NewRing

LEMMA SameRing ==
  ASSUME IInv, UNCHANGED <<First, Last, next, prev, number>>,
         proc' \in {"running", "exited", "crashed"}
  PROVE  /\ Types' /\ IsRing(Nodes', First', Last', next', prev') /\ HasNumbers(Nodes', number')
         /\ Nodes' = Nodes /\ Listing' = Listing
<1>1. Nodes' = Nodes /\ Listing' = Listing
  BY SameNodes, SameListing
<1> QED BY <1>1 DEF IInv, Types, Pointers

LEMMA StopsStep ==
  ASSUME IInv, Ready, NEW how \in {"exited", "crashed"}, Stops(how)
  PROVE  IInv' /\ Listed!Next
<1>1. /\ walk = Idle /\ walk' = Idle /\ did' = <<>> /\ Running
      /\ UNCHANGED <<First, Last, next, prev, number>> /\ proc' \in {"running", "exited", "crashed"}
  BY DEF Ready, Stops
<1>2. /\ Types' /\ IsRing(Nodes', First', Last', next', prev') /\ HasNumbers(Nodes', number')
      /\ Listing' = Listing
  BY <1>1, SameRing
<1>3. IInv'
  BY <1>1, <1>2, NewRing
<1> QED BY <1>1, <1>2, <1>3 DEF Listed!Next, Idle

LEMMA DeleteFirstStep ==
  ASSUME IInv, DeleteFirst
  PROVE  IInv' /\ Listed!Next
<1>1. /\ walk = Idle /\ walk' = Idle /\ Running /\ number' = number
      /\ proc = "running"
  BY DEF DeleteFirst, Delete, Ready, Running
<1>2. CASE Empty
  <2>1. /\ UNCHANGED <<First, Last, next, prev>> /\ did' = <<"DeleteFirst", NULL, NULL>>
        /\ proc' = proc
    BY <1>2 DEF DeleteFirst, Delete, Returns
  <2>2. /\ Types' /\ IsRing(Nodes', First', Last', next', prev') /\ HasNumbers(Nodes', number')
        /\ Listing' = Listing
    BY <1>1, <2>1, SameRing
  <2>3. IInv'
    BY <1>1, <2>2, NewRing
  <2>4. Len(Listing) = 0 /\ Listing \in Seq(Numbers)
    <3>1. Nodes = <<>>
      BY <1>2, RingStates
    <3> QED BY <3>1, ListingStates
  <2>5. Listed!DeleteFirst(NULL)
    BY <2>2, <2>4, EmptySeq DEF Listed!DeleteFirst
  <2>6. Listed!Return("DeleteFirst", NULL, NULL)
    BY <1>1, <2>1 DEF Listed!Return, Running, Idle
  <2> QED BY <2>3, <2>5, <2>6 DEF Listed!Next
<1>3. CASE ~Empty
  <2>1. DropFirst /\ did' = <<"DeleteFirst", NULL, number[First]>> /\ proc' = proc
    BY <1>3 DEF DeleteFirst, Delete, Returns
  <2>2. /\ Nodes # <<>> /\ 1 \in DOMAIN Nodes /\ 1 \in 1..Len(Nodes) /\ First = Nodes[1]
        /\ number[First] \in Numbers
    BY <1>3, RingStates
  <2>3. IsRing(SeqExt!RemoveAt(Nodes, 1), First', Last', next', prev') /\ Types'
    BY <1>1, <2>1, <2>2, DropFirstRing
  <2>4. IInv' /\ Listing' = SeqExt!RemoveAt(Listing, 1)
    BY <1>1, <2>2, <2>3, Dropped
  <2>5. Listing \in Seq(Numbers) /\ Listing # <<>> /\ Listing[1] = number[First]
    BY <2>2, ListingStates, EmptySeq
  <2>6. Head(Listing) = number[First] /\ Listing' = Tail(Listing)
    BY <2>4, <2>5, EndsRemoved
  <2>7. Listed!DeleteFirst(number[First])
    BY <2>5, <2>6 DEF Listed!DeleteFirst
  <2>8. Listed!Return("DeleteFirst", NULL, number[First])
    BY <1>1, <2>1 DEF Listed!Return, Running, Idle
  <2> QED BY <2>2, <2>4, <2>7, <2>8 DEF Listed!Next
<1> QED BY <1>2, <1>3

LEMMA DeleteLastStep ==
  ASSUME IInv, DeleteLast
  PROVE  IInv' /\ Listed!Next
<1>1. /\ walk = Idle /\ walk' = Idle /\ Running /\ number' = number
      /\ proc = "running"
  BY DEF DeleteLast, Delete, Ready, Running
<1>2. CASE Empty
  <2>1. /\ UNCHANGED <<First, Last, next, prev>> /\ did' = <<"DeleteLast", NULL, NULL>>
        /\ proc' = proc
    BY <1>2 DEF DeleteLast, Delete, Returns
  <2>2. /\ Types' /\ IsRing(Nodes', First', Last', next', prev') /\ HasNumbers(Nodes', number')
        /\ Listing' = Listing
    BY <1>1, <2>1, SameRing
  <2>3. IInv'
    BY <1>1, <2>2, NewRing
  <2>4. Len(Listing) = 0 /\ Listing \in Seq(Numbers)
    <3>1. Nodes = <<>>
      BY <1>2, RingStates
    <3> QED BY <3>1, ListingStates
  <2>5. Listed!DeleteLast(NULL)
    BY <2>2, <2>4, EmptySeq DEF Listed!DeleteLast
  <2>6. Listed!Return("DeleteLast", NULL, NULL)
    BY <1>1, <2>1 DEF Listed!Return, Running, Idle
  <2> QED BY <2>3, <2>5, <2>6 DEF Listed!Next
<1>3. CASE ~Empty
  <2>1. DropLast /\ did' = <<"DeleteLast", NULL, number[Last]>> /\ proc' = proc
    BY <1>3 DEF DeleteLast, Delete, Returns
  <2>2. /\ Nodes # <<>> /\ Len(Nodes) \in DOMAIN Nodes /\ Len(Nodes) \in 1..Len(Nodes)
        /\ Last = Nodes[Len(Nodes)] /\ number[Last] \in Numbers
    BY <1>3, RingStates
  <2>3. IsRing(SeqExt!RemoveAt(Nodes, Len(Nodes)), First', Last', next', prev') /\ Types'
    BY <1>1, <2>1, <2>2, DropLastRing
  <2>4. IInv' /\ Listing' = SeqExt!RemoveAt(Listing, Len(Nodes))
    BY <1>1, <2>2, <2>3, Dropped
  <2>5. /\ Listing \in Seq(Numbers) /\ Listing # <<>> /\ Listing[Len(Listing)] = number[Last]
        /\ Len(Listing) = Len(Nodes)
    BY <2>2, ListingStates, EmptySeq
  <2>6. Listing' = SubSeq(Listing, 1, Len(Listing) - 1)
    BY <2>4, <2>5, EndsRemoved
  <2>7. Listed!DeleteLast(number[Last])
    BY <2>5, <2>6 DEF Listed!DeleteLast, Listed!Front, Listed!Last
  <2>8. Listed!Return("DeleteLast", NULL, number[Last])
    BY <1>1, <2>1 DEF Listed!Return, Running, Idle
  <2> QED BY <2>2, <2>4, <2>7, <2>8 DEF Listed!Next
<1> QED BY <1>2, <1>3

----------------------------------------------------------------------------
\* Removal, and searches.

LEMMA RemovesOne ==
  ASSUME NEW n, n \in Numbers, n < BLOCKS_PER_LIST, NEW p \in DOMAIN Listing, Listing[p] = n,
         Listing' = SeqExt!RemoveAt(Listing, p)
  PROVE  Listed!Removes(n, n)
  BY DEF Listed!Removes, Listed!RemoveAt, SeqExt!RemoveAt

LEMMA RemovesNone ==
  ASSUME IInv, NEW n \in Numbers, n >= BLOCKS_PER_LIST \/ n \notin Numbered, Listing' = Listing
  PROVE  Listed!Removes(n, NULL)
<1>1. n \notin {m \in Numbers : m < BLOCKS_PER_LIST} \/ n \notin Listed!ToSet(Listing)
  <2>1. n \in Nat /\ BLOCKS_PER_LIST \in Nat
    BY ListAssumption
  <2> QED BY <2>1, ListingStates
<1> QED BY <1>1 DEF Listed!Removes

LEMMA RemoveRefusedStep ==
  ASSUME IInv, NEW n \in Numbers, RemoveRefused(n)
  PROVE  IInv' /\ Listed!Next
<1>1. Ready /\ (n >= BLOCKS_PER_LIST \/ Empty)
  BY DEF RemoveRefused
<1>2. CASE Stops("exited")
  BY <1>1, <1>2, StopsStep
<1>3. CASE /\ Returns("Remove", n, NULL)
           /\ UNCHANGED <<First, Last, next, prev, number, walk>>
  <2>1. /\ walk = Idle /\ walk' = Idle /\ Running /\ proc = "running" /\ proc' = proc
        /\ did' = <<"Remove", n, NULL>>
    BY <1>1, <1>3 DEF Ready, Running, Returns
  <2>2. /\ Types' /\ IsRing(Nodes', First', Last', next', prev') /\ HasNumbers(Nodes', number')
        /\ Listing' = Listing
    BY <1>3, <2>1, SameRing
  <2>3. IInv'
    BY <2>1, <2>2, NewRing
  <2>4. Empty => n \notin Numbered
    BY RingStates, ListingStates
  <2>5. Listed!Removes(n, NULL)
    BY <1>1, <2>2, <2>4, RemovesNone
  <2>6. Listed!Return("Remove", n, NULL)
    BY <2>1 DEF Listed!Return, Running, Idle
  <2> QED BY <2>3, <2>5, <2>6 DEF Listed!Next
<1> QED BY <1>2, <1>3 DEF RemoveRefused

LEMMA RemoveEndStep ==
  ASSUME IInv, NEW n \in Numbers, RemoveEnd(n)
  PROVE  IInv' /\ Listed!Next
<1>1. Ready /\ walk = Idle /\ n < BLOCKS_PER_LIST /\ ~Empty /\ proc = "running"
  BY DEF RemoveEnd, Ready, Running
<1>2. /\ Nodes # <<>> /\ 1 \in DOMAIN Nodes /\ Len(Nodes) \in DOMAIN Nodes
      /\ First = Nodes[1] /\ Last = Nodes[Len(Nodes)]
      /\ DOMAIN Nodes = 1..Len(Nodes)
  BY <1>1, RingStates
<1>3. \A k \in DOMAIN Nodes : k \in DOMAIN Listing /\ Listing[k] = number[Nodes[k]]
  BY <1>2, ListingStates
\* What follows from the removal of the node at p.
<1>4. ASSUME NEW p \in DOMAIN Nodes, number[Nodes[p]] = n,
             IsRing(SeqExt!RemoveAt(Nodes, p), First', Last', next', prev'), Types',
             Returns("Remove", n, n), UNCHANGED <<number, walk>>
      PROVE  IInv' /\ Listed!Next
  <2>1. walk' = Idle /\ number' = number /\ proc' = proc /\ did' = <<"Remove", n, n>>
    BY <1>1, <1>4 DEF Returns
  <2>2. IInv' /\ Listing' = SeqExt!RemoveAt(Listing, p)
    BY <1>4, <2>1, Dropped
  <2>3. Listed!Removes(n, n)
    BY <1>1, <1>3, <1>4, <2>2, RemovesOne
  <2>4. Listed!Return("Remove", n, n)
    BY <1>1, <2>1 DEF Listed!Return, Running, Idle
  <2> QED BY <2>2, <2>3, <2>4 DEF Listed!Next
<1>5. CASE Stops("crashed")
  BY <1>1, <1>5, StopsStep
<1>6. CASE number[First] = n /\ DropFirst /\ Returns("Remove", n, n) /\ UNCHANGED <<number, walk>>
  <2>1. IsRing(SeqExt!RemoveAt(Nodes, 1), First', Last', next', prev') /\ Types'
    BY <1>2, <1>6, DropFirstRing DEF Returns
  <2> QED BY <1>2, <1>4, <1>6, <2>1
<1>7. CASE number[Last] = n /\ DropLast /\ Returns("Remove", n, n) /\ UNCHANGED <<number, walk>>
  <2>1. IsRing(SeqExt!RemoveAt(Nodes, Len(Nodes)), First', Last', next', prev') /\ Types'
    BY <1>2, <1>7, DropLastRing DEF Returns
  <2> QED BY <1>2, <1>4, <1>7, <2>1
<1> QED BY <1>5, <1>6, <1>7 DEF RemoveEnd

LEMMA RemoveBeginsStep ==
  ASSUME IInv, NEW n \in Numbers, RemoveBegins(n)
  PROVE  IInv' /\ Listed!Next
<1>1. /\ Ready /\ walk = Idle /\ n < BLOCKS_PER_LIST /\ ~Empty /\ proc = "running"
      /\ n # number[First] /\ n # number[Last]
      /\ walk' = [op |-> "Remove", for |-> n, at |-> First, found |-> NULL] /\ did' = <<>>
      /\ UNCHANGED <<First, Last, next, prev, number, proc>>
  BY DEF RemoveBegins, Ready, Running, Begins
<1>2. /\ Types' /\ IsRing(Nodes', First', Last', next', prev') /\ HasNumbers(Nodes', number')
      /\ Nodes' = Nodes /\ Listing' = Listing
  BY <1>1, SameRing
<1>3. /\ 1 \in DOMAIN Nodes /\ First = Nodes[1] /\ Last = Nodes[Len(Nodes)] /\ First \in Addresses
  BY <1>1, RingStates
<1>4. walk' \in RemoveRecord /\ walk'.for = n /\ walk'.at = First /\ walk'.found = NULL
      /\ walk'.op = "Remove"
  BY <1>1, <1>3 DEF RemoveRecord
<1>5. Removing(Nodes)'
  <2>1. \A i \in 1..1 : number'[Nodes[i]] # n
    BY <1>1, <1>3
  <2>2. number'[Nodes[Len(Nodes)]] # n
    BY <1>1, <1>3
  <2> QED BY <1>1, <1>2, <1>3, <1>4, <2>1, <2>2 DEF Removing
<1>6. IInv'
  BY <1>2, <1>5 DEF IInv
<1> QED BY <1>1, <1>2, <1>4, <1>6 DEF Listed!Next, Running

LEMMA SearchBeginsStep ==
  ASSUME IInv, NEW n \in Numbers, SearchBegins(n)
  PROVE  IInv' /\ Listed!Next
<1>1. Ready /\ walk = Idle /\ proc = "running"
  BY DEF SearchBegins, Ready, Running
<1>2. CASE Stops("crashed") \/ Stops("exited")
  BY <1>1, <1>2, StopsStep
<1>3. CASE First # NULL /\ Begins([op |-> "Search", for |-> n, at |-> First])
  <2>1. /\ walk' = [op |-> "Search", for |-> n, at |-> First] /\ did' = <<>>
        /\ UNCHANGED <<First, Last, next, prev, number, proc>>
    BY <1>3 DEF Begins
  <2>2. /\ Types' /\ IsRing(Nodes', First', Last', next', prev') /\ HasNumbers(Nodes', number')
        /\ Nodes' = Nodes /\ Listing' = Listing
    BY <1>1, <2>1, SameRing
  <2>3. 1 \in DOMAIN Nodes /\ First = Nodes[1] /\ First \in Addresses
    BY <1>3, RingStates
  <2>4. walk' \in SearchRecord /\ walk'.for = n /\ walk'.at = First /\ walk'.op = "Search"
    BY <2>1, <2>3 DEF SearchRecord
  <2>5. Searching(Nodes)'
    BY <2>1, <2>2, <2>3, <2>4 DEF Searching
  <2>6. IInv'
    BY <2>2, <2>5 DEF IInv
  <2> QED BY <1>1, <2>1, <2>2, <2>4, <2>6 DEF Listed!Next, Running
<1> QED BY <1>2, <1>3 DEF SearchBegins

\* What a step of a search does to its record.
LEMMA SearchMoves ==
  ASSUME NEW w \in SearchRecord, NEW a \in Addresses
  PROVE  LET v == [w EXCEPT !.at = a]
         IN  v \in SearchRecord /\ v.op = "Search" /\ v.for = w.for /\ v.at = a
  BY DEF SearchRecord

\* The loops are not mixed up.
LEMMA WalkKinds ==
  ASSUME IInv
  PROVE  /\ walk.op = "Search" => Searching(Nodes)
         /\ walk.op = "Remove" => Removing(Nodes)
<1>1. Idle.op # "Search" /\ Idle.op # "Remove"
  BY DEF Idle
<1>2. \A w \in SearchRecord : w.op = "Search"
  BY DEF SearchRecord
<1>3. \A w \in RemoveRecord : w.op = "Remove"
  BY DEF RemoveRecord
<1> QED BY <1>1, <1>2, <1>3 DEF IInv, Searching, Removing

LEMMA SearchOnStep ==
  ASSUME IInv, SearchOn
  PROVE  IInv' /\ [Listed!Next]_(Listed!vars)
<1> DEFINE at == next[walk.at]
           n  == Len(Nodes)
<1>1. /\ proc = "running" /\ walk.op = "Search" /\ UNCHANGED <<First, Last, next, prev, number>>
      /\ \/ number[walk.at] = walk.for /\ SearchEnds(walk.for)
         \/ number[walk.at] # walk.for /\ at = First /\ SearchEnds(NULL)
         \/ /\ number[walk.at] # walk.for /\ at # First
            /\ walk' = [walk EXCEPT !.at = at]
            /\ UNCHANGED <<kind, did, proc>>
  BY DEF SearchOn, Running
<1>2. proc' = proc
  BY <1>1 DEF SearchEnds, Returns
<1>3. /\ Types' /\ IsRing(Nodes', First', Last', next', prev') /\ HasNumbers(Nodes', number')
      /\ Nodes' = Nodes /\ Listing' = Listing
  BY <1>1, <1>2, SameRing
<1>4. walk \in SearchRecord /\ walk.for \in Numbers
  BY <1>1, WalkKinds DEF Searching, SearchRecord
<1>5. PICK p \in DOMAIN Nodes :
        Nodes[p] = walk.at /\ \A i \in 1..p-1 : number[Nodes[i]] # walk.for
  BY <1>1, WalkKinds DEF Searching
<1>6. /\ n \in Nat /\ DOMAIN Nodes = 1..n /\ p \in 1..n /\ First = Nodes[1] /\ 1 \in 1..n
      /\ \A i, j \in 1..n : Nodes[i] = Nodes[j] => i = j
      /\ Succ(p, n) \in 1..n /\ at = Nodes[Succ(p, n)] /\ at \in Addresses
  <2>1. /\ n \in Nat /\ DOMAIN Nodes = 1..n /\ p \in 1..n
        /\ \A i, j \in 1..n : Nodes[i] = Nodes[j] => i = j
        /\ \A k \in 1..n : next[Nodes[k]] = Nodes[Succ(k, n)] /\ Nodes[k] \in Addresses
    BY <1>5, RingStates
  <2>2. Nodes # <<>> /\ First = Nodes[1]
    BY <2>1, RingStates
  <2>3. Succ(p, n) \in 1..n /\ 1 \in 1..n
    BY <2>1, SuccFacts
  <2> QED BY <1>5, <2>1, <2>2, <2>3
<1>7. \A m : m \in Listed!ToSet(Listing) <=> \E k \in 1..n : number[Nodes[k]] = m
  BY ListingStates
<1> HIDE DEF at, n
<1>8. CASE number[walk.at] = walk.for /\ SearchEnds(walk.for)
  <2>1. walk' = Idle /\ did' = <<"Search", walk.for, walk.for>>
    BY <1>8 DEF SearchEnds, Returns
  <2>2. Listed!Finds(walk.for, walk.for)
    BY <1>5, <1>6, <1>7, <1>8 DEF Listed!Finds
  <2>3. Listed!Return("Search", walk.for, walk.for)
    BY <1>1, <1>2, <2>1 DEF Listed!Return, Running, Idle
  <2>4. IInv'
    BY <1>3, <2>1, NewRing
  <2> QED BY <1>3, <1>4, <2>2, <2>3, <2>4 DEF Listed!Next
<1>9. CASE number[walk.at] # walk.for /\ at = First /\ SearchEnds(NULL)
  <2>1. walk' = Idle /\ did' = <<"Search", walk.for, NULL>>
    BY <1>9 DEF SearchEnds, Returns
  <2>2. p = n
    <3>1. Succ(p, n) = 1
      BY <1>6, <1>9
    <3> QED BY <1>6, <3>1 DEF Succ
  <2>3. \A i \in 1..n : number[Nodes[i]] # walk.for
    BY <1>5, <1>6, <1>9, <2>2
  <2>4. Listed!Finds(walk.for, NULL)
    BY <1>7, <2>3 DEF Listed!Finds
  <2>5. Listed!Return("Search", walk.for, NULL)
    BY <1>1, <1>2, <2>1 DEF Listed!Return, Running, Idle
  <2>6. IInv'
    BY <1>3, <2>1, NewRing
  <2> QED BY <1>3, <1>4, <2>4, <2>5, <2>6 DEF Listed!Next
<1>10. CASE /\ number[walk.at] # walk.for /\ at # First
            /\ walk' = [walk EXCEPT !.at = at]
            /\ UNCHANGED <<kind, did, proc>>
  <2>1. /\ walk' \in SearchRecord /\ walk'.op = "Search" /\ walk'.for = walk.for /\ walk'.at = at
    BY <1>4, <1>6, <1>10, SearchMoves
  <2>2. p + 1 \in 1..n /\ Succ(p, n) = p + 1
    BY <1>6, <1>10 DEF Succ
  <2>3. \A i \in 1..(p + 1) - 1 : number[Nodes[i]] # walk.for
    <3>1. \A i \in 1..(p + 1) - 1 : i \in 1..p-1 \/ i = p
      BY <1>6
    <3> QED BY <1>5, <1>10, <3>1
  <2>4. Searching(Nodes)'
    <3>1. \E q \in DOMAIN Nodes' :
            Nodes'[q] = walk'.at /\ \A i \in 1..q-1 : number'[Nodes'[i]] # walk'.for
      BY <1>1, <1>3, <1>6, <2>1, <2>2, <2>3
    <3> QED BY <2>1, <3>1 DEF Searching
  <2>5. IInv'
    BY <1>3, <2>4 DEF IInv
  <2>6. UNCHANGED (Listed!vars)
    BY <1>1, <1>3, <1>10, <2>1 DEF Listed!vars, Running
  <2> QED BY <2>5, <2>6
<1> QED BY <1>1, <1>8, <1>9, <1>10

LEMMA RemoveElsewhereStep ==
  ASSUME IInv, RemoveElsewhere
  PROVE  IInv' /\ [Listed!Next]_(Listed!vars)
<1> DEFINE at == next[walk.at]
           n  == Len(Nodes)
<1>1. /\ proc = "running" /\ walk.op = "Remove" /\ UNCHANGED <<First, Last, next, prev, number>>
      /\ number[at] # walk.for
      /\ \/ /\ next[at] # First
            /\ walk' = [walk EXCEPT !.at = at, !.found = walk.found] /\ UNCHANGED <<kind, did, proc>>
         \/ next[at] = First /\ walk' = Idle /\ Returns("Remove", walk.for, walk.found)
  BY DEF RemoveElsewhere, Travels, Running
<1>2. proc' = proc
  BY <1>1 DEF Returns
<1>3. /\ Types' /\ IsRing(Nodes', First', Last', next', prev') /\ HasNumbers(Nodes', number')
      /\ Nodes' = Nodes /\ Listing' = Listing
  BY <1>1, <1>2, SameRing
<1>4. /\ walk \in RemoveRecord /\ walk.for \in Numbers /\ walk.found \in Numbers \union {NULL}
      /\ walk.for < BLOCKS_PER_LIST
      /\ walk.found # NULL =>
           walk.found = walk.for /\ \A i \in DOMAIN Nodes : number[Nodes[i]] # walk.for
  BY <1>1, WalkKinds DEF Removing, RemoveRecord
<1>5. PICK p \in DOMAIN Nodes :
        /\ Nodes[p] = walk.at
        /\ walk.found = NULL => /\ number[Nodes[n]] # walk.for
                                /\ \A i \in 1..p : number[Nodes[i]] # walk.for
  BY <1>1, WalkKinds DEF Removing
<1>6. /\ n \in Nat /\ DOMAIN Nodes = 1..n /\ p \in 1..n /\ First = Nodes[1] /\ 1 \in 1..n
      /\ \A i, j \in 1..n : Nodes[i] = Nodes[j] => i = j
      /\ \A k \in 1..n : next[Nodes[k]] = Nodes[Succ(k, n)] /\ Nodes[k] \in Addresses
  <2>1. /\ n \in Nat /\ DOMAIN Nodes = 1..n /\ p \in 1..n
        /\ \A i, j \in 1..n : Nodes[i] = Nodes[j] => i = j
        /\ \A k \in 1..n : next[Nodes[k]] = Nodes[Succ(k, n)] /\ Nodes[k] \in Addresses
    BY <1>5, RingStates
  <2>2. Nodes # <<>> /\ First = Nodes[1] /\ 1 \in 1..n
    BY <2>1, RingStates
  <2> QED BY <2>1, <2>2
<1>7. PICK q \in 1..n : q = Succ(p, n) /\ at = Nodes[q] /\ at \in Addresses
  <2>1. Succ(p, n) \in 1..n
    BY <1>6, SuccFacts
  <2> QED BY <1>5, <1>6, <2>1
<1> HIDE DEF at, n
<1>8. \A i \in 1..q : walk.found = NULL => number[Nodes[i]] # walk.for
  <2>1. \A i \in 1..q : i \in 1..p \/ i = q
    BY <1>6, <1>7 DEF Succ
  <2> QED BY <1>1, <1>5, <1>7, <2>1
<1>9. CASE /\ next[at] # First
           /\ walk' = [walk EXCEPT !.at = at, !.found = walk.found]
           /\ UNCHANGED <<kind, did, proc>>
  <2>1. /\ walk' \in RemoveRecord /\ walk'.op = "Remove" /\ walk'.for = walk.for /\ walk'.at = at
        /\ walk'.found = walk.found
    <3>1. /\ walk \in RemoveRecord /\ at \in Addresses /\ walk.found \in Numbers \union {NULL}
          /\ walk' = [walk EXCEPT !.at = at, !.found = walk.found]
      BY <1>4, <1>7, <1>9
    <3>2. PICK w, v, f : w = walk /\ v = walk' /\ f = walk.found
      OBVIOUS
    <3>3. /\ w \in RemoveRecord /\ at \in Addresses /\ f \in Numbers \union {NULL}
          /\ v = [w EXCEPT !.at = at, !.found = f]
      BY <3>1, <3>2
    <3>4. v \in RemoveRecord /\ v.op = "Remove" /\ v.for = w.for /\ v.at = at /\ v.found = f
      BY <3>3 DEF RemoveRecord
    <3> QED BY <3>2, <3>4
  <2>2. Removing(Nodes)'
    <3>1. \E r \in DOMAIN Nodes' :
            /\ Nodes'[r] = walk'.at
            /\ walk'.found = NULL =>
                 /\ number'[Nodes'[Len(Nodes')]] # walk'.for
                 /\ \A i \in 1..r : number'[Nodes'[i]] # walk'.for
      BY <1>1, <1>3, <1>5, <1>6, <1>7, <1>8, <2>1 DEF n
    <3> QED BY <1>1, <1>3, <1>4, <2>1, <3>1 DEF Removing
  <2>3. IInv'
    BY <1>3, <2>2 DEF IInv
  <2>4. UNCHANGED (Listed!vars)
    BY <1>1, <1>3, <1>9, <2>1 DEF Listed!vars, Running
  <2> QED BY <2>3, <2>4
<1>10. CASE next[at] = First /\ walk' = Idle /\ Returns("Remove", walk.for, walk.found)
  <2>1. walk' = Idle /\ did' = <<"Remove", walk.for, walk.found>>
    BY <1>10 DEF Returns
  <2>2. IInv'
    BY <1>3, <2>1, NewRing
  <2>3. CASE walk.found = NULL
    <3>1. q = n
      <4>1. Succ(q, n) = 1
        <5>1. Nodes[Succ(q, n)] = Nodes[1] /\ Succ(q, n) \in 1..n
          BY <1>6, <1>7, <1>10, SuccFacts
        <5> QED BY <1>6, <5>1
      <4> QED BY <1>6, <4>1, SuccFacts
    <3>2. walk.for \notin Numbered
      BY <1>8, <2>3, <3>1, ListingStates DEF n
    <3>3. Listed!Removes(walk.for, NULL)
      BY <1>3, <1>4, <3>2, RemovesNone
    <3>4. Listed!Return("Remove", walk.for, NULL)
      BY <1>1, <1>2, <2>1, <2>3 DEF Listed!Return, Running, Idle
    <3> QED BY <1>4, <2>2, <3>3, <3>4 DEF Listed!Next
  <2>4. CASE walk.found # NULL
    <3>1. UNCHANGED (Listed!vars)
      BY <1>1, <1>2, <1>3, <2>1, <2>4 DEF Listed!vars, Running, Idle
    <3> QED BY <2>2, <3>1
  <2> QED BY <2>3, <2>4
<1> QED BY <1>1, <1>9, <1>10

\* The node found is neither the first, nor the last, nor before the one the loop is at.
LEMMA FoundInside ==
  ASSUME IInv, RemoveHere
  PROVE  \E p \in DOMAIN Nodes :
           /\ p + 1 \in DOMAIN Nodes /\ p + 2 \in DOMAIN Nodes
           /\ walk.at = Nodes[p] /\ next[walk.at] = Nodes[p + 1]
           /\ next[next[walk.at]] = Nodes[p + 2]
           /\ walk \in RemoveRecord /\ walk.found = NULL /\ walk.for < BLOCKS_PER_LIST
           /\ number[Nodes[p + 1]] = walk.for
<1> DEFINE n == Len(Nodes)
<1>1. walk.op = "Remove" /\ number[next[walk.at]] = walk.for
  BY DEF RemoveHere
<1>2. walk \in RemoveRecord /\ walk.for < BLOCKS_PER_LIST
  BY <1>1, WalkKinds DEF Removing
<1>3. PICK p \in DOMAIN Nodes :
        /\ Nodes[p] = walk.at
        /\ walk.found = NULL => /\ number[Nodes[n]] # walk.for
                                /\ \A i \in 1..p : number[Nodes[i]] # walk.for
  BY <1>1, WalkKinds DEF Removing
<1>4. /\ n \in Nat /\ DOMAIN Nodes = 1..n /\ p \in 1..n
      /\ \A k \in 1..n : next[Nodes[k]] = Nodes[Succ(k, n)]
  BY <1>3, RingStates
<1> HIDE DEF n
<1>5. PICK q \in 1..n : q = Succ(p, n) /\ next[walk.at] = Nodes[q] /\ number[Nodes[q]] = walk.for
  <2>1. Succ(p, n) \in 1..n
    BY <1>4, SuccFacts
  <2> QED BY <1>1, <1>3, <1>4, <2>1
<1>6. walk.found = NULL
  BY <1>1, <1>4, <1>5, WalkKinds DEF Removing
<1>7. q \notin 1..p /\ q # n
  BY <1>3, <1>5, <1>6
<1>8. q = p + 1 /\ Succ(q, n) = p + 2 /\ p + 1 \in 1..n /\ p + 2 \in 1..n
  BY <1>4, <1>5, <1>7 DEF Succ
<1> QED BY <1>2, <1>3, <1>4, <1>5, <1>6, <1>8

LEMMA RemoveHereStep ==
  ASSUME IInv, RemoveHere
  PROVE  IInv' /\ [Listed!Next]_(Listed!vars)
<1> DEFINE s == Nodes
           giveback == next[walk.at]
           after == next[giveback]
<1>1. /\ proc = "running" /\ walk.op = "Remove" /\ First' = First /\ Last' = Last
      /\ next' = [next EXCEPT ![walk.at] = after,
                              ![giveback] = IF kind = "queue" THEN NULL ELSE @]
      /\ prev' = [prev EXCEPT ![after] = walk.at, ![giveback] = NULL]
      /\ number' = IF kind = "queue" THEN [number EXCEPT ![giveback] = NULL] ELSE number
      /\ Travels(after, walk.for)
  BY DEF RemoveHere, Running
<1>2. PICK b \in DOMAIN s :
        /\ b + 1 \in DOMAIN s /\ b + 2 \in DOMAIN s
        /\ walk.at = s[b] /\ giveback = s[b + 1] /\ after = s[b + 2]
        /\ walk \in RemoveRecord /\ walk.found = NULL /\ walk.for < BLOCKS_PER_LIST
        /\ number[s[b + 1]] = walk.for
  BY FoundInside
<1>3. PICK n \in Nat, p \in Nat, a \in Nat :
        /\ p \in 1..n /\ a \in 1..n /\ n = Len(s) /\ p = b + 1 /\ a = b + 2 /\ n >= 3 /\ p # 1 /\ p # n /\ b \in 1..n
        /\ b # p /\ a # p /\ a # b /\ Succ(b, n) = p /\ Succ(p, n) = a
  <2>1. PICK m \in Nat : m = Len(s) /\ DOMAIN s = 1..m
    BY RingStates
  <2>2. b \in 1..m /\ b + 1 \in 1..m /\ b + 2 \in 1..m
    BY <1>2, <2>1
  <2>3. Succ(b, m) = b + 1 /\ Succ(b + 1, m) = b + 2
    BY <2>2 DEF Succ
  <2>4. /\ m >= 3 /\ b + 1 # 1 /\ b + 1 # m /\ b # b + 1 /\ b + 2 # b + 1 /\ b + 2 # b
        /\ b + 1 \in Nat /\ b + 2 \in Nat
    BY <2>2
  <2> QED BY <2>1, <2>2, <2>3, <2>4
<1>4. /\ s \in Seq(Addresses) /\ DOMAIN s = 1..n /\ \A k \in 1..n : s[k] \in Addresses
      /\ \A i, j \in 1..n : s[i] = s[j] => i = j
  BY <1>3, RingStates
<1>5. IsRing(s, First, Last, next, prev) /\ HasNumbers(s, number) /\ Types
  BY DEF IInv
<1>6. Listing = ListingOf(s, number) /\ Listing[p] = walk.for /\ p \in DOMAIN Listing
  BY <1>2, <1>3, ListingStates
<1>7. walk.at = s[b] /\ giveback = s[p] /\ after = s[a] /\ number[s[p]] = walk.for
  BY <1>2, <1>3
<1> HIDE DEF s, giveback, after
<1>8. /\ next \in [Addresses -> Pointers] /\ prev \in [Addresses -> Pointers]
      /\ number \in [Addresses -> Numbers \union {NULL}]
  BY <1>5 DEF Types
<1>9. /\ s[b] \in Addresses /\ s[p] \in Addresses /\ s[a] \in Addresses
      /\ s[b] # s[p] /\ s[a] # s[p]
  BY <1>3, <1>4
<1>10. /\ next' \in [Addresses -> Pointers] /\ next'[s[b]] = s[a]
       /\ \A x \in Addresses \ {s[p], s[b]} : next'[x] = next[x]
  <2>1. next' = [next EXCEPT ![s[b]] = s[a], ![s[p]] = IF kind = "queue" THEN NULL ELSE @]
    BY <1>1, <1>7
  <2> QED BY <1>8, <1>9, <2>1 DEF Pointers
<1>11. /\ prev' \in [Addresses -> Pointers] /\ prev'[s[a]] = s[b]
       /\ \A x \in Addresses \ {s[p], s[a]} : prev'[x] = prev[x]
  <2>1. prev' = [prev EXCEPT ![s[a]] = s[b], ![s[p]] = NULL]
    BY <1>1, <1>7
  <2> QED BY <1>8, <1>9, <2>1 DEF Pointers
<1>12. /\ number' \in [Addresses -> Numbers \union {NULL}]
       /\ \A k \in DOMAIN s : k # p => number'[s[k]] = number[s[k]]
  <2>1. \A k \in DOMAIN s : s[k] \in Addresses /\ (k # p => s[k] # s[p])
    BY <1>3, <1>4
  <2>2. number' = number \/ number' = [number EXCEPT ![s[p]] = NULL]
    BY <1>1, <1>7
  <2> QED BY <1>8, <1>9, <2>1, <2>2
<1> DEFINE u == SeqExt!RemoveAt(s, p)
<1>13. IsRing(u, First', Last', next', prev')
  <2>1. /\ Len(s) > 1 /\ p \in DOMAIN s /\ b \in DOMAIN s /\ a \in DOMAIN s
        /\ Succ(b, Len(s)) = p /\ Succ(p, Len(s)) = a
        /\ First' = (IF p = 1 THEN s[2] ELSE First)
        /\ Last' = (IF p = Len(s) THEN s[Len(s) - 1] ELSE Last)
    BY <1>1, <1>3, <1>4
  <2> QED BY <1>5, <1>10, <1>11, <2>1, RingRemove
<1>14. /\ HasNumbers(u, number')
       /\ ListingOf(u, number') = SeqExt!RemoveAt(ListingOf(s, number), p)
       /\ \A k \in DOMAIN u : number'[u[k]] # number[s[p]]
  <2>1. s \in Seq(Addresses) /\ HasNumbers(s, number) /\ p \in DOMAIN s
    BY <1>3, <1>4, <1>5
  <2> QED BY <1>12, <2>1, ListingRemove
<1>15. /\ u \in Seq(Addresses) /\ DOMAIN u = 1..n-1 /\ p \in 1..n-1 /\ u[p] = s[a]
  <2>1. p \in 1..Len(s)
    BY <1>3
  <2>2. /\ u \in Seq(Addresses) /\ Len(u) = Len(s) - 1
        /\ \A j \in 1..Len(s) - 1 : u[j] = IF j < p THEN s[j] ELSE s[j + 1]
    BY <1>4, <2>1, RemoveAtElements
  <2> HIDE DEF u
  <2>3. DOMAIN u = 1..Len(s) - 1
    BY <2>2, LenProperties
  <2> QED BY <1>3, <2>2, <2>3
<1> HIDE DEF u
<1>16. Nodes' = u /\ Listing' = SeqExt!RemoveAt(Listing, p)
  BY <1>6, <1>13, <1>14, NewNodes
<1>17. /\ \/ /\ walk' = [walk EXCEPT !.at = after, !.found = walk.for]
             /\ UNCHANGED <<kind, did, proc>>
          \/ walk' = Idle /\ did' = <<"Remove", walk.for, walk.for>> /\ proc' = proc
       /\ proc' = proc
  BY <1>1 DEF Travels, Returns
<1>18. Types'
  <2>1. First' \in Pointers /\ Last' \in Pointers /\ proc' \in {"running", "exited", "crashed"}
    BY <1>1, <1>5, <1>17 DEF Types, Pointers
  <2> QED BY <1>10, <1>11, <1>12, <2>1 DEF Types, Pointers
<1>19. walk.for \in Numbers /\ walk.for # NULL
  <2>1. walk.for \in Numbers
    BY <1>2 DEF RemoveRecord
  <2> QED BY <2>1, ListAssumption
<1>20. Listed!Removes(walk.for, walk.for)
  BY <1>2, <1>6, <1>16, <1>19, RemovesOne
<1>21. CASE walk' = [walk EXCEPT !.at = after, !.found = walk.for] /\ UNCHANGED <<kind, did, proc>>
  <2>1. /\ walk' \in RemoveRecord /\ walk'.op = "Remove" /\ walk'.for = walk.for
        /\ walk'.at = s[a] /\ walk'.found = walk.for
    <3>1. PICK w, v, f : w = walk /\ v = walk' /\ f = walk.for
      OBVIOUS
    <3>2. /\ w \in RemoveRecord /\ s[a] \in Addresses /\ f \in Numbers
          /\ v = [w EXCEPT !.at = s[a], !.found = f]
      BY <1>2, <1>7, <1>9, <1>19, <1>21, <3>1
    <3>3. v \in RemoveRecord /\ v.op = "Remove" /\ v.for = w.for /\ v.at = s[a] /\ v.found = f
      BY <3>2 DEF RemoveRecord
    <3> QED BY <3>1, <3>3
  <2>2. Removing(Nodes)'
    <3>1. \A k \in DOMAIN Nodes' : number'[Nodes'[k]] # walk'.for
      BY <1>7, <1>14, <1>16, <2>1
    <3>2. p \in DOMAIN Nodes' /\ Nodes'[p] = walk'.at
      BY <1>15, <1>16, <2>1
    <3> QED BY <1>2, <1>19, <2>1, <3>1, <3>2 DEF Removing
  <2>3. IInv'
    BY <1>13, <1>14, <1>16, <1>18, <2>2 DEF IInv
  <2>4. Listed!Return("Remove", walk.for, walk.for)
    BY <1>1, <1>17, <1>19, <2>1 DEF Listed!Return, Running
  <2> QED BY <1>19, <1>20, <2>3, <2>4 DEF Listed!Next
<1>22. CASE walk' = Idle /\ did' = <<"Remove", walk.for, walk.for>>
  <2>1. IInv'
    BY <1>13, <1>14, <1>18, <1>22, NewRing
  <2>2. Listed!Return("Remove", walk.for, walk.for)
    BY <1>1, <1>17, <1>22 DEF Listed!Return, Running, Idle
  <2> QED BY <1>19, <1>20, <2>1, <2>2 DEF Listed!Next
<1> QED BY <1>17, <1>21, <1>22

----------------------------------------------------------------------------
\* The theorems.

LEMMA InitHolds ==
  ASSUME Init
  PROVE  IInv /\ Listed!Init
<1>1. /\ First = NULL /\ Last = NULL /\ walk = Idle /\ did = <<>> /\ proc = "running"
      /\ next = [a \in Addresses |-> NULL] /\ prev = [a \in Addresses |-> NULL]
      /\ number = [a \in Addresses |-> NULL]
  BY DEF Init
<1>2. IsRing(<<>>, First, Last, next, prev)
  BY <1>1 DEF IsRing
<1>3. Nodes = <<>>
  <2>1. NodesOf(First, Last, next) = <<>>
    BY <1>2, NodesOfRing
  <2> QED BY <2>1 DEF Nodes, NodesOf
<1>4. Types
  BY <1>1 DEF Types, Pointers
<1>5. HasNumbers(<<>>, number)
  BY DEF HasNumbers
<1>6. IInv
  BY <1>1, <1>2, <1>3, <1>4, <1>5 DEF IInv
<1>7. Listing = <<>>
  BY <1>3, <1>6, ListingStates, EmptySeq
<1> QED BY <1>1, <1>6, <1>7 DEF Listed!Init, Idle, Running

LEMMA NextStep ==
  ASSUME IInv, [Next]_vars
  PROVE  IInv' /\ [Listed!Next]_(Listed!vars)
<1>1. CASE UNCHANGED vars
  <2>1. /\ UNCHANGED <<First, Last, next, prev, number>> /\ walk' = walk /\ did' = did
        /\ proc' = proc /\ proc \in {"running", "exited", "crashed"}
    BY <1>1 DEF vars, IInv, Types
  <2>2. /\ Types' /\ IsRing(Nodes', First', Last', next', prev') /\ HasNumbers(Nodes', number')
        /\ Nodes' = Nodes /\ Listing' = Listing
    BY <2>1, SameRing
  <2>3. (walk = Idle \/ Searching(Nodes) \/ Removing(Nodes))'
    BY <2>1, <2>2 DEF IInv, Searching, Removing, Idle
  <2>4. IInv'
    BY <2>2, <2>3 DEF IInv
  <2>5. UNCHANGED (Listed!vars)
    BY <2>1, <2>2 DEF Listed!vars, Running
  <2> QED BY <2>4, <2>5
<1>2. ASSUME NEW n \in Numbers, InsertFirst(n)
      PROVE  IInv' /\ Listed!Next
  BY <1>2, InsertFirstStep
<1>3. ASSUME NEW n \in Numbers, InsertLast(n)
      PROVE  IInv' /\ Listed!Next
  BY <1>3, InsertLastStep
<1>4. ASSUME NEW n \in Numbers, RemoveRefused(n)
      PROVE  IInv' /\ Listed!Next
  BY <1>4, RemoveRefusedStep
<1>5. ASSUME NEW n \in Numbers, RemoveEnd(n)
      PROVE  IInv' /\ Listed!Next
  BY <1>5, RemoveEndStep
<1>6. ASSUME NEW n \in Numbers, RemoveBegins(n)
      PROVE  IInv' /\ Listed!Next
  BY <1>6, RemoveBeginsStep
<1>7. ASSUME NEW n \in Numbers, SearchBegins(n)
      PROVE  IInv' /\ Listed!Next
  BY <1>7, SearchBeginsStep
<1>8. CASE DeleteFirst
  BY <1>8, DeleteFirstStep
<1>9. CASE DeleteLast
  BY <1>9, DeleteLastStep
<1>10. CASE RemoveHere
  BY <1>10, RemoveHereStep
<1>11. CASE RemoveElsewhere
  BY <1>11, RemoveElsewhereStep
<1>12. CASE SearchOn
  BY <1>12, SearchOnStep
<1> QED BY <1>1, <1>2, <1>3, <1>4, <1>5, <1>6, <1>7, <1>8, <1>9, <1>10, <1>11, <1>12
        DEF Next, Loop

LEMMA Invariance == Spec => []IInv
<1>1. Init => IInv
  BY InitHolds
<1>2. IInv /\ [Next]_vars => IInv'
  BY NextStep
<1> QED BY <1>1, <1>2, PTL DEF Spec

LEMMA TypesHold ==
  ASSUME IInv
  PROVE  TypeOK
<1>1. walk = Idle \/ walk.at \in Addresses
  BY DEF IInv, Searching, Removing, SearchRecord, RemoveRecord
<1> QED BY <1>1 DEF IInv, Types, TypeOK

\* The pointers are addresses of nodes or NULL, and a loop is never at NULL.
THEOREM TypeCorrect == Spec => []TypeOK
<1>1. IInv => TypeOK
  BY TypesHold
<1> QED BY <1>1, Invariance, PTL

\* The place that RingIntact computes.
LEMMA NextPlace ==
  ASSUME NEW n \in Nat, NEW k \in 1..n
  PROVE  (k % n) + 1 = Succ(k, n)
<1>1. n \in Nat \ {0}
  OBVIOUS
<1>2. CASE k = n
  <2>1. 1 \in Nat /\ 0 \in 0..n-1 /\ n * 1 + 0 = k
    BY <1>1, <1>2
  <2>2. (n * 1 + 0) % n = 0
    BY <1>1, <2>1, Remainder
  <2> QED BY <1>2, <2>1, <2>2 DEF Succ
<1>3. CASE k # n
  <2>1. 0 \in Nat /\ k \in 0..n-1 /\ n * 0 + k = k
    BY <1>1, <1>3
  <2>2. (n * 0 + k) % n = k
    BY <1>1, <2>1, Remainder
  <2> QED BY <1>3, <2>1, <2>2 DEF Succ
<1> QED BY <1>2, <1>3

LEMMA RingHolds ==
  ASSUME IInv
  PROVE  RingIntact
<1>n. PICK n \in Nat : n = Len(Nodes)
  BY RingStates
<1>1. /\ Empty <=> Nodes = <<>>
      /\ First = NULL <=> Nodes = <<>>
      /\ Nodes # <<>> => Last = Nodes[n] /\ Last \in Addresses
      /\ \A k \in 1..n : /\ next[Nodes[k]] = Nodes[Succ(k, n)] /\ prev[Nodes[Succ(k, n)]] = Nodes[k]
                         /\ number[Nodes[k]] \in Numbers
  BY <1>n, RingStates
<1>2. NULL \notin Numbers /\ NULL \notin Addresses
  BY ListAssumption
<1>3. Empty \/ Nodes[Len(Nodes)] = Last
  BY <1>n, <1>1
<1>4. First = NULL <=> Last = NULL
  BY <1>1, <1>2 DEF Empty
<1>5. ASSUME NEW k \in 1..Len(Nodes)
      PROVE  LET after == Nodes[(k % Len(Nodes)) + 1]
             IN  /\ next[Nodes[k]] = after /\ prev[after] = Nodes[k]
                 /\ number[Nodes[k]] # NULL
  <2>1. k \in 1..n /\ (k % n) + 1 = Succ(k, n)
    BY <1>n, NextPlace
  <2> QED BY <1>n, <1>1, <1>2, <2>1
<1>6. Cardinality(Numbered) = Len(Nodes)
  <2> DEFINE f == [k \in 1..n |-> number[Nodes[k]]]
  <2>1. \A m : m \in Numbered <=> \E k \in 1..n : number[Nodes[k]] = m
    BY <1>n, ListingStates
  <2>2. \A i, j \in 1..n : number[Nodes[i]] = number[Nodes[j]] => i = j
    BY <1>n, RingStates DEF IInv, HasNumbers
  <2>3. f \in Bijection(1..n, Numbered)
    <3>1. f \in [1..n -> Numbered]
      BY <2>1
    <3>2. \A i, j \in 1..n : f[i] = f[j] => i = j
      BY <2>2
    <3>3. \A m \in Numbered : \E k \in 1..n : f[k] = m
      BY <2>1
    <3> HIDE DEF f
    <3> QED BY <3>1, <3>2, <3>3 DEF Bijection, Injection, Surjection, IsInjective
  <2> HIDE DEF f
  <2>4. ExistsBijection(1..n, Numbered)
    BY <2>3 DEF ExistsBijection
  <2> QED BY <1>n, <2>4, FS_CountingElements
<1> QED BY <1>3, <1>4, <1>5, <1>6 DEF RingIntact

\* Whatever is inserted, deleted and removed, and wherever: the nodes stay one ring through
\* next and back through prev, closed between Last and First, and none of them twice.
THEOREM RingStaysIntact == Spec => []RingIntact
<1>1. IInv => RingIntact
  BY RingHolds
<1> QED BY <1>1, Invariance, PTL

\* The pointer manipulations of buffer.c and DoublyCircularList.c do to a sequence of
\* numbers what NumberList says, and return what it says.
THEOREM ListImplemented == Spec => ImplementsNumberList
<1>1. Init => Listed!Init
  BY InitHolds
<1>2. IInv /\ [Next]_vars => [Listed!Next]_(Listed!vars)
  BY NextStep
<1> QED BY <1>1, <1>2, Invariance, PTL DEF Spec, ImplementsNumberList, Listed!Spec
=============================================================================

----------------------------- MODULE ListLemmas -----------------------------
(***************************************************************************)
(* Lemmas about numbers and sequences that the proofs share.               *)
(***************************************************************************)
EXTENDS Naturals, Sequences,
        TLAPS, FiniteSetTheorems, SequenceTheorems, WellFoundedInduction

\* An instance, as the variables of CircularList have names of SequencesExt.
SeqExt == INSTANCE SequencesExt

\* Every nonempty set of numbers has a least one: of the finite sets of its members up
\* to one of them, a minimal one.
LEMMA LeastNumber ==
  ASSUME NEW T \in SUBSET Nat, T # {}
  PROVE  \E n \in T : \A m \in T : n <= m
<1> DEFINE up(n) == T \intersect 0..n
           F == {up(n) : n \in T}
<1>1. \A n \in T : up(n) \in FiniteSubsetsOf(Nat)
  <2> SUFFICES ASSUME NEW n \in T PROVE up(n) \in FiniteSubsetsOf(Nat)
    OBVIOUS
  <2>1. n \in Nat OBVIOUS
  <2>2. IsFiniteSet(0..n) BY <2>1, FS_Interval
  <2>3. IsFiniteSet(up(n)) BY <2>2, FS_Subset
  <2> QED BY <2>3 DEF FiniteSubsetsOf
<1>2. F \subseteq FiniteSubsetsOf(Nat) /\ F # {}
  BY <1>1
<1>3. \E x \in F : \A y \in F : <<y, x>> \notin StrictSubsetOrdering(Nat)
  <2> HIDE DEF F
  <2> QED BY <1>2, FS_StrictSubsetOrderingWellFounded, WFMin
<1>4. PICK n \in T : \A m \in T : <<up(m), up(n)>> \notin StrictSubsetOrdering(Nat)
  BY <1>3
<1>5. ASSUME NEW m \in T PROVE n <= m
  <2>1. m \in Nat /\ n \in Nat OBVIOUS
  <2>2. SUFFICES ASSUME m < n PROVE FALSE BY <2>1
  <2>3. up(m) \subseteq up(n) BY <2>1, <2>2
  <2>4. n \in up(n) /\ n \notin up(m) BY <2>1, <2>2
  <2>5. <<up(m), up(n)>> \in StrictSubsetOrdering(Nat)
     BY <2>3, <2>4 DEF StrictSubsetOrdering
  <2> QED BY <1>4, <2>5
<1> QED BY <1>5

\* What CHOOSE yields for "the first".
LEMMA FirstChosen ==
  ASSUME NEW T \in SUBSET Nat, T # {}
  PROVE  LET n == CHOOSE i \in T : \A j \in T : i <= j
         IN  n \in T /\ \A j \in T : n <= j
  BY LeastNumber

\* Taking out one element moves the later ones forward by one.
LEMMA RemoveAtElements ==
  ASSUME NEW S, NEW s \in Seq(S), NEW i \in 1..Len(s)
  PROVE  /\ SeqExt!RemoveAt(s, i) \in Seq(S)
         /\ Len(SeqExt!RemoveAt(s, i)) = Len(s) - 1
         /\ \A j \in 1..Len(s) - 1 :
              SeqExt!RemoveAt(s, i)[j] = IF j < i THEN s[j] ELSE s[j + 1]
<1> DEFINE front == SubSeq(s, 1, i - 1)
           back  == SubSeq(s, i + 1, Len(s))
<1>1. Len(s) \in Nat /\ \A j \in 1..Len(s) : s[j] \in S
  BY LenProperties, ElementOfSeq
<1>2. /\ front \in Seq(S) /\ Len(front) = i - 1
      /\ \A j \in 1..i - 1 : front[j] = s[j]
  BY <1>1, SubSeqProperties
<1>3. /\ back \in Seq(S) /\ Len(back) = Len(s) - i
      /\ \A j \in 1..Len(s) - i : back[j] = s[i + j]
  <2>1. i + 1 \in Int /\ Len(s) \in Int /\ \A j \in i + 1..Len(s) : s[j] \in S
    BY <1>1
  <2>2. /\ back \in Seq(S)
        /\ Len(back) = IF i + 1 <= Len(s) THEN Len(s) - (i + 1) + 1 ELSE 0
        /\ \A j \in 1..Len(s) - (i + 1) + 1 : back[j] = s[(i + 1) + j - 1]
    BY <2>1, SubSeqProperties
  <2> HIDE DEF back
  <2>3. QED
    BY <1>1, <2>2
<1>4. SeqExt!RemoveAt(s, i) = front \o back
  BY DEF SeqExt!RemoveAt
<1> HIDE DEF front, back
<1>5. /\ front \o back \in Seq(S)
      /\ Len(front \o back) = Len(front) + Len(back)
      /\ \A j \in 1..Len(front) + Len(back) :
           (front \o back)[j] = IF j <= Len(front) THEN front[j] ELSE back[j - Len(front)]
  BY <1>2, <1>3, ConcatProperties
<1>6. ASSUME NEW j \in 1..Len(s) - 1
      PROVE  (front \o back)[j] = IF j < i THEN s[j] ELSE s[j + 1]
  <2>1. CASE j < i
    BY <1>1, <1>2, <1>3, <1>5, <2>1
  <2>2. CASE j >= i
    <3>1. j - (i - 1) \in 1..Len(s) - i /\ i + (j - (i - 1)) = j + 1 /\ ~(j <= Len(front))
      BY <1>1, <1>2, <2>2
    <3>2. (front \o back)[j] = back[j - (i - 1)]
      BY <1>1, <1>2, <1>3, <1>5, <3>1
    <3>3. QED
      BY <1>3, <2>2, <3>1, <3>2
  <2>3. j \in Int /\ i \in Int
    BY <1>1
  <2>4. j < i \/ j >= i
    BY <2>3
  <2>5. QED
    BY <2>1, <2>2, <2>4
<1>7. QED
  BY <1>1, <1>2, <1>3, <1>4, <1>5, <1>6

\* What is left are the other elements, each once.
LEMMA RemoveAtOthers ==
  ASSUME NEW S, NEW s \in Seq(S), NEW p \in DOMAIN s
  PROVE  LET u == SeqExt!RemoveAt(s, p)
         IN  /\ u \in Seq(S) /\ Len(u) = Len(s) - 1
             /\ \A j \in DOMAIN u :
                  \E i \in DOMAIN s \ {p} : u[j] = s[i] /\ ((j < p /\ i = j) \/ (j >= p /\ i = j + 1))
             /\ \A i \in DOMAIN s \ {p} : \E j \in DOMAIN u : u[j] = s[i]
<1> DEFINE u == SeqExt!RemoveAt(s, p)
<1>1. p \in 1..Len(s) /\ Len(s) \in Nat /\ DOMAIN s = 1..Len(s)
  BY LenProperties
<1>2. /\ u \in Seq(S) /\ Len(u) = Len(s) - 1
      /\ \A j \in 1..Len(s) - 1 : u[j] = IF j < p THEN s[j] ELSE s[j + 1]
  BY <1>1, RemoveAtElements
<1> HIDE DEF u
<1>3. DOMAIN u = 1..Len(s) - 1
  BY <1>2, LenProperties
<1>4. ASSUME NEW j \in DOMAIN u
      PROVE  \E i \in DOMAIN s \ {p} : u[j] = s[i] /\ ((j < p /\ i = j) \/ (j >= p /\ i = j + 1))
  <2>1. j < p => j \in DOMAIN s \ {p} /\ u[j] = s[j]
    BY <1>1, <1>2, <1>3
  <2>2. j >= p => j + 1 \in DOMAIN s \ {p} /\ u[j] = s[j + 1]
    BY <1>1, <1>2, <1>3
  <2> QED BY <1>1, <1>3, <2>1, <2>2
<1>5. ASSUME NEW i \in DOMAIN s \ {p}
      PROVE  \E j \in DOMAIN u : u[j] = s[i]
  <2>1. i < p => i \in DOMAIN u /\ u[i] = s[i]
    BY <1>1, <1>2, <1>3
  <2>2. i > p => i - 1 \in DOMAIN u /\ u[i - 1] = s[i]
    BY <1>1, <1>2, <1>3
  <2> QED BY <1>1, <2>1, <2>2
<1> QED BY <1>2, <1>4, <1>5 DEF u

\* A new node at the front.
LEMMA ConsElements ==
  ASSUME NEW S, NEW q \in Seq(S), NEW n \in S
  PROVE  /\ <<n>> \o q \in Seq(S)
         /\ Len(<<n>> \o q) = Len(q) + 1
         /\ (<<n>> \o q)[1] = n
         /\ \A i \in 1..Len(q) : (<<n>> \o q)[i + 1] = q[i]
         /\ \A j \in DOMAIN (<<n>> \o q) :
              j # 1 => j - 1 \in DOMAIN q /\ (<<n>> \o q)[j] = q[j - 1]
<1>1. <<n>> \in Seq(S) /\ Len(<<n>>) = 1 /\ <<n>>[1] = n
  OBVIOUS
<1>2. /\ <<n>> \o q \in Seq(S)
      /\ Len(<<n>> \o q) = 1 + Len(q)
      /\ \A i \in 1..1 + Len(q) :
           (<<n>> \o q)[i] = IF i <= 1 THEN <<n>>[i] ELSE q[i - 1]
  BY <1>1, ConcatProperties
<1>3. Len(q) \in Nat /\ DOMAIN q = 1..Len(q) /\ DOMAIN (<<n>> \o q) = 1..Len(q) + 1
  BY <1>2, LenProperties
<1>4. ASSUME NEW i \in 1..Len(q) PROVE (<<n>> \o q)[i + 1] = q[i]
  BY <1>2, <1>3
<1>5. ASSUME NEW j \in 1..Len(q) + 1, j # 1
      PROVE  j - 1 \in 1..Len(q) /\ (<<n>> \o q)[j] = q[j - 1]
  <2>1. j \in 1..1 + Len(q) /\ ~(j <= 1) /\ j - 1 \in 1..Len(q)
    BY <1>3, <1>5
  <2>2. QED
    BY <1>2, <2>1
<1>6. QED
  BY <1>1, <1>2, <1>3, <1>4, <1>5

----------------------------------------------------------------------------
\* Division with remainder.

LEMMA DivisionIsUnique ==
  ASSUME NEW N \in Nat \ {0}, NEW q \in Int, NEW k \in Int,
         NEW h \in 0..N-1, NEW m \in 0..N-1, N * q + m = N * k + h
  PROVE  q = k
<1>1. CASE q >= k + 1
  <2>1. N * q >= N * (k + 1)
    BY <1>1
  <2>2. N * (k + 1) = N * k + N
    OBVIOUS
  <2>3. QED
    BY <2>1, <2>2
<1>2. CASE k >= q + 1
  <2>1. N * k >= N * (q + 1)
    BY <1>2
  <2>2. N * (q + 1) = N * q + N
    OBVIOUS
  <2>3. QED
    BY <2>1, <2>2
<1>3. QED
  BY <1>1, <1>2

LEMMA Division ==
  ASSUME NEW N \in Nat \ {0}, NEW a \in Nat
  PROVE  /\ a \div N \in Nat /\ a % N \in 0..N-1
         /\ a = N * (a \div N) + (a % N)
<1> DEFINE d == a \div N
           r == a % N
<1>1. d \in Int /\ r \in 0..N-1 /\ a = N * d + r
  OBVIOUS
<1> HIDE DEF d, r
<1>2. d >= 0
  <2>1. SUFFICES ASSUME d <= -1 PROVE FALSE
    BY <1>1
  <2>2. N * d <= N * (-1)
    BY <1>1, <2>1
  <2>3. N * (-1) = -N /\ N * d \in Int
    BY <1>1
  <2>4. QED
    BY <1>1, <2>2, <2>3
<1>3. d \in Nat
  BY <1>1, <1>2
<1>4. QED
  BY <1>1, <1>3, Zenon DEF d, r

LEMMA Remainder ==
  ASSUME NEW N \in Nat \ {0}, NEW k \in Nat, NEW h \in 0..N-1
  PROVE  (N * k + h) % N = h /\ (N * k + h) \div N = k
<1> DEFINE a == N * k + h
<1>1. a \in Nat
  OBVIOUS
<1>2. a \div N \in Nat /\ a % N \in 0..N-1 /\ a = N * (a \div N) + (a % N)
  BY <1>1, Division
<1>3. a \div N = k
  BY <1>2, DivisionIsUnique
<1>4. QED
  BY <1>2, <1>3

\* The numbers up to P go round N queues, number 1 to queue 1: the place of b in its queue.
LEMMA PlaceInQueue ==
  ASSUME NEW N \in Nat \ {0}, NEW P \in Nat, NEW b \in 1..P,
         NEW F \in Nat, b % N = 0 => F = N, b % N # 0 => F = b % N
  PROVE  LET k == (b + N - F) \div N
         IN  k \in 1..((P + N - F) \div N) /\ F + N * (k - 1) = b
<1> DEFINE h == b % N
           n == (P + N - F) \div N
           r == (P + N - F) % N
           d == b \div N
           k == IF h = 0 THEN d ELSE d + 1
<1>1. d \in Nat /\ h \in 0..N-1 /\ b = N * d + h /\ b \in Nat /\ b <= P /\ b >= 1
  <2>1. b \in Nat /\ b <= P /\ b >= 1
    OBVIOUS
  <2>2. d \in Nat /\ h \in 0..N-1 /\ b = N * d + h
    BY <2>1, Division
  <2> HIDE DEF d, h
  <2> QED BY <2>1, <2>2
<1>a. (h = 0 => F = N) /\ (h # 0 => F = h)
  OBVIOUS
<1> HIDE DEF d, h
<1>2. F \in 1..N /\ (h = 0 => F = N) /\ (h # 0 => F = h)
  BY <1>1, <1>a
<1>3. n \in Nat /\ r \in 0..N-1 /\ P + N - F = N * n + r
  <2>1. P + N - F \in Nat
    BY <1>2
  <2> QED BY <2>1, Division
<1> HIDE DEF n, r
<1>4. k \in Int /\ F + N * (k - 1) = b
  <2>1. CASE h = 0
    <3>1. k = d /\ F = N
      BY <1>2, <2>1
    <3>2. F + N * (d - 1) = N * d
      BY <1>1, <3>1
    <3>3. N * d + h = N * d
      BY <1>1, <2>1
    <3> QED BY <1>1, <3>1, <3>2, <3>3
  <2>2. CASE h # 0
    <3>1. k = d + 1 /\ F = h /\ k - 1 = d
      BY <1>1, <1>2, <2>2
    <3>2. h + N * d = b
      BY <1>1
    <3> QED BY <1>1, <3>1, <3>2
  <2> QED BY <2>1, <2>2
<1>5. k >= 1
  <2>1. CASE h = 0
    <3>1. d # 0
      BY <1>1, <2>1
    <3> QED BY <1>1, <2>1, <3>1
  <2>2. CASE h # 0
    BY <1>1, <2>2
  <2> QED BY <2>1, <2>2
<1> HIDE DEF k
<1>6. k <= n
  <2>1. SUFFICES ASSUME k >= n + 1 PROVE FALSE
    BY <1>3, <1>4
  <2>2. N * (k - 1) >= N * n
    BY <1>3, <1>4, <2>1
  <2> DEFINE x == N * (k - 1)
             y == N * n
  <2>3. x \in Int /\ y \in Int /\ x >= y
    BY <1>3, <1>4, <2>2
  <2>4. P + N - F = y + r /\ F + x = b
    BY <1>3, <1>4
  <2> HIDE DEF x, y
  <2> QED BY <1>1, <1>2, <1>3, <2>3, <2>4
<1>7. k \in 1..n
  BY <1>3, <1>4, <1>5, <1>6
<1>8. (b + N - F) \div N = k
  <2>1. b + N - F = N * k + 0 /\ k \in Nat /\ b + N - F \in Nat /\ 0 \in 0..N-1
    <3> DEFINE x == N * (k - 1)
               y == N * k
    <3>1. y = x + N /\ x \in Int /\ F + x = b
      BY <1>4
    <3> HIDE DEF x
    <3>2. y = b + N - F
      BY <1>2, <3>1
    <3>3. b + N - F \in Nat
      BY <1>1, <1>2
    <3> QED BY <1>4, <1>5, <3>2, <3>3
  <2> QED BY <2>1, Division, DivisionIsUnique
<1> QED BY <1>4, <1>7, <1>8 DEF n

\* What was written up to f, and the next piece.
LEMMA PiecesJoin ==
  ASSUME NEW S, NEW s \in Seq(S), NEW m \in 0..Len(s), NEW f \in 0..m
  PROVE  SubSeq(s, 1, f) \o SubSeq(s, f + 1, m) = SubSeq(s, 1, m)
<1> DEFINE a == SubSeq(s, 1, f)
           b == SubSeq(s, f + 1, m)
           c == SubSeq(s, 1, m)
<1>1. Len(s) \in Nat /\ \A i \in 1..Len(s) : s[i] \in S
  BY LenProperties, ElementOfSeq
<1>2. a \in Seq(S) /\ Len(a) = f /\ \A i \in 1..f : a[i] = s[i]
  <2>1. \A i \in 1..f : s[i] \in S
    BY <1>1
  <2>2. /\ SubSeq(s, 1, f) \in Seq(S)
        /\ Len(SubSeq(s, 1, f)) = IF 1 <= f THEN f - 1 + 1 ELSE 0
        /\ \A i \in 1..f - 1 + 1 : SubSeq(s, 1, f)[i] = s[1 + i - 1]
    BY <1>1, <2>1, SubSeqProperties
  <2>3. f - 1 + 1 = f /\ \A i \in 1..f : 1 + i - 1 = i
    BY <1>1
  <2> QED BY <1>1, <2>2, <2>3
<1>3. c \in Seq(S) /\ Len(c) = m /\ \A i \in 1..m : c[i] = s[i]
  <2>1. \A i \in 1..m : s[i] \in S
    BY <1>1
  <2>2. /\ SubSeq(s, 1, m) \in Seq(S)
        /\ Len(SubSeq(s, 1, m)) = IF 1 <= m THEN m - 1 + 1 ELSE 0
        /\ \A i \in 1..m - 1 + 1 : SubSeq(s, 1, m)[i] = s[1 + i - 1]
    BY <1>1, <2>1, SubSeqProperties
  <2>3. m - 1 + 1 = m /\ \A i \in 1..m : 1 + i - 1 = i
    BY <1>1
  <2> QED BY <1>1, <2>2, <2>3
<1>4. b \in Seq(S) /\ Len(b) = m - f /\ \A i \in 1..m-f : b[i] = s[f + i]
  <2>1. \A i \in f+1..m : s[i] \in S
    BY <1>1
  <2>2. /\ SubSeq(s, f + 1, m) \in Seq(S)
        /\ Len(SubSeq(s, f + 1, m)) = IF f + 1 <= m THEN m - (f + 1) + 1 ELSE 0
        /\ \A i \in 1..m - (f + 1) + 1 : SubSeq(s, f + 1, m)[i] = s[f + 1 + i - 1]
    BY <1>1, <2>1, SubSeqProperties
  <2>3. m - (f + 1) + 1 = m - f /\ \A i \in 1..m-f : f + 1 + i - 1 = f + i
    BY <1>1
  <2> QED BY <1>1, <2>2, <2>3
<1> HIDE DEF a, b, c
<1>5. /\ a \o b \in Seq(S) /\ Len(a \o b) = m
      /\ \A i \in 1..m : (a \o b)[i] = IF i <= f THEN a[i] ELSE b[i - f]
  <2>1. /\ a \o b \in Seq(S)
        /\ Len(a \o b) = Len(a) + Len(b)
        /\ \A i \in 1..Len(a) + Len(b) : (a \o b)[i] = IF i <= Len(a) THEN a[i] ELSE b[i - Len(a)]
    BY <1>2, <1>4, ConcatProperties
  <2>2. Len(a) = f /\ Len(a) + Len(b) = m
    BY <1>1, <1>2, <1>4
  <2> QED BY <2>1, <2>2
<1>6. \A i \in 1..m : (a \o b)[i] = c[i]
  <2> SUFFICES ASSUME NEW i \in 1..m PROVE (a \o b)[i] = c[i]
    OBVIOUS
  <2>1. i \in Nat /\ f \in Nat /\ m \in Nat
    BY <1>1
  <2>2. CASE i <= f
    BY <1>2, <1>3, <1>5, <2>1, <2>2
  <2>3. CASE i > f
    <3>1. i - f \in 1..m-f /\ f + (i - f) = i
      BY <2>1, <2>3
    <3>2. b[i - f] = s[f + (i - f)]
      BY <1>4, <3>1
    <3>3. (a \o b)[i] = b[i - f]
      BY <1>5, <2>1, <2>3
    <3> QED BY <1>3, <3>1, <3>2, <3>3
  <2>4. i <= f \/ i > f
    BY <2>1
  <2> QED BY <2>2, <2>3, <2>4
<1>7. a \o b = c
  BY <1>3, <1>5, <1>6, SeqEqual
<1> QED BY <1>7 DEF a, b, c
=============================================================================

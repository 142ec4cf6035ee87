----------------------------- MODULE QueueLemmas -----------------------------
(***************************************************************************)
(* Facts about the arrays this code uses as queues (push, shift and        *)
(* arrayRemoveItem of packages/core/src/array.ts) for the other proofs.    *)
(***************************************************************************)
EXTENDS Integers, SequencesExt, SequenceTheorems, FiniteSetTheorems, TLAPS

\* No element occurs twice.
Distinct(s) == \A j, k \in DOMAIN s : s[j] = s[k] => j = k

\* arrayRemoveItem of an item that is not in the array changes nothing.
LEMMA RemoveFirstAbsent ==
    ASSUME NEW S, NEW s \in Seq(S), NEW e, \A k \in DOMAIN s : s[k] # e
    PROVE  RemoveFirst(s, e) = s
BY DEF RemoveFirst

\* arrayRemoveItem of the item at position k: what is before k stays where
\* it is, what is behind k moves up by one.
LEMMA RemoveFirstAt ==
    ASSUME NEW S, NEW s \in Seq(S), NEW k \in DOMAIN s, Distinct(s)
    PROVE  LET r == RemoveFirst(s, s[k])
           IN  /\ r \in Seq(S)
               /\ Len(r) = Len(s) - 1
               /\ \A j \in 1 .. Len(s) - 1 : r[j] = IF j < k THEN s[j] ELSE s[j + 1]
<1> DEFINE I == {i \in 1 .. Len(s) : s[i] = s[k]}
           front == SubSeq(s, 1, k - 1)
           back  == SubSeq(s, k + 1, Len(s))
<1>1. /\ k \in 1 .. Len(s)
      /\ Len(s) \in Nat
      /\ \A i \in 1 .. Len(s) : s[i] \in S
  OBVIOUS
<1>2. I = {k}
  BY <1>1 DEF Distinct
<1>3. Min(I) = k
  BY <1>1, <1>2 DEF Min
<1>4. RemoveFirst(s, s[k]) = front \o back
  BY <1>1, <1>2, <1>3 DEF RemoveFirst, RemoveAt, SelectInSeq
<1>5. /\ front \in Seq(S)
      /\ Len(front) = k - 1
      /\ \A i \in 1 .. k - 1 : front[i] = s[i]
  <2>1. \A i \in 1 .. k - 1 : s[i] \in S
    BY <1>1
  <2> QED
    BY <1>1, <2>1, SubSeqProperties
<1>6. /\ back \in Seq(S)
      /\ Len(back) = Len(s) - k
      /\ \A i \in 1 .. Len(s) - k : back[i] = s[k + i]
  <2>1. \A i \in k + 1 .. Len(s) : s[i] \in S
    BY <1>1
  <2>2. /\ back \in Seq(S)
        /\ Len(back) = IF k + 1 <= Len(s) THEN Len(s) - (k + 1) + 1 ELSE 0
        /\ \A i \in 1 .. Len(s) - (k + 1) + 1 : back[i] = s[k + 1 + i - 1]
    BY <1>1, <2>1, SubSeqProperties
  <2> QED
    BY <1>1, <2>2
<1> HIDE DEF I, front, back
<1> DEFINE r == front \o back
<1>7. /\ r \in Seq(S)
      /\ Len(r) = Len(front) + Len(back)
      /\ \A i \in 1 .. Len(front) + Len(back) :
            r[i] = IF i <= Len(front) THEN front[i] ELSE back[i - Len(front)]
  BY <1>5, <1>6, ConcatProperties
<1> HIDE DEF r
<1>8. Len(r) = Len(s) - 1
  BY <1>1, <1>5, <1>6, <1>7
<1>9. ASSUME NEW j \in 1 .. Len(s) - 1
      PROVE  r[j] = IF j < k THEN s[j] ELSE s[j + 1]
  <2>1. r[j] = IF j <= k - 1 THEN front[j] ELSE back[j - (k - 1)]
    <3>1. j \in 1 .. Len(front) + Len(back) /\ Len(front) = k - 1
      BY <1>1, <1>5, <1>6
    <3> QED
      BY <1>7, <3>1
  <2>2. CASE j < k
    BY <1>1, <1>5, <2>1, <2>2
  <2>3. CASE ~(j < k)
    <3>1. ~(j <= k - 1) /\ j - (k - 1) \in 1 .. Len(s) - k /\ k + (j - (k - 1)) = j + 1
      BY <1>1, <2>3
    <3>2. back[j - (k - 1)] = s[k + (j - (k - 1))]
      BY <1>6, <3>1
    <3> QED
      BY <2>1, <2>3, <3>1, <3>2
  <2> QED
    BY <2>2, <2>3
<1> QED
  BY <1>4, <1>7, <1>8, <1>9 DEF r

\* What the users of a queue need of arrayRemoveItem: the other items stay
\* queued, in their order, and nothing is queued twice.
LEMMA RemoveFirstKeeps ==
    ASSUME NEW S, NEW s \in Seq(S), NEW e, Distinct(s)
    PROVE  LET r == RemoveFirst(s, e)
           IN  /\ r \in Seq(S)
               /\ Distinct(r)
               /\ \A j \in DOMAIN r : r[j] # e /\ \E i \in DOMAIN s : r[j] = s[i]
               /\ \A i \in DOMAIN s : s[i] # e => \E j \in DOMAIN r : r[j] = s[i]
<1> DEFINE r == RemoveFirst(s, e)
<1>1. CASE \A k \in DOMAIN s : s[k] # e
  BY <1>1, RemoveFirstAbsent
<1>2. CASE \E k \in DOMAIN s : s[k] = e
  <2>1. PICK k \in DOMAIN s : s[k] = e
    BY <1>2
  <2>2. /\ r \in Seq(S)
        /\ Len(r) = Len(s) - 1
        /\ \A j \in 1 .. Len(s) - 1 : r[j] = IF j < k THEN s[j] ELSE s[j + 1]
    BY <2>1, RemoveFirstAt
  <2> HIDE DEF r
  <2>3. DOMAIN s = 1 .. Len(s) /\ DOMAIN r = 1 .. Len(s) - 1 /\ Len(s) \in Nat
    BY <2>2
  <2>4. Distinct(r)
    BY <2>1, <2>2, <2>3 DEF Distinct
  <2>5. \A j \in DOMAIN r : r[j] # e /\ \E i \in DOMAIN s : r[j] = s[i]
    <3> TAKE j \in DOMAIN r
    <3>1. CASE j < k
      BY <2>1, <2>2, <2>3, <3>1 DEF Distinct
    <3>2. CASE ~(j < k)
      <4>1. j + 1 \in DOMAIN s /\ j + 1 # k /\ r[j] = s[j + 1]
        BY <2>1, <2>2, <2>3, <3>2
      <4> QED
        BY <2>1, <4>1 DEF Distinct
    <3> QED
      BY <3>1, <3>2
  <2>6. \A i \in DOMAIN s : s[i] # e => \E j \in DOMAIN r : r[j] = s[i]
    <3> SUFFICES ASSUME NEW i \in DOMAIN s, s[i] # e
                 PROVE  \E j \in DOMAIN r : r[j] = s[i]
      OBVIOUS
    <3>1. CASE i < k
      BY <2>1, <2>2, <2>3, <3>1
    <3>2. CASE i > k
      <4>1. i - 1 \in DOMAIN r /\ ~(i - 1 < k)
        BY <2>1, <2>3, <3>2
      <4>2. r[i - 1] = s[(i - 1) + 1]
        BY <2>2, <2>3, <4>1
      <4> QED
        BY <2>3, <4>1, <4>2
    <3> QED
      BY <2>1, <2>3, <3>1, <3>2
  <2> QED
    BY <2>2, <2>4, <2>5, <2>6 DEF r
<1> QED
  BY <1>1, <1>2

\* shift(): the first item leaves, the others keep their order.
LEMMA TailIs ==
  ASSUME NEW S, NEW s \in Seq(S), s # <<>>, Distinct(s)
  PROVE  /\ Head(s) \in S /\ Head(s) = s[1] /\ 1 \in DOMAIN s
         /\ Tail(s) \in Seq(S) /\ Distinct(Tail(s))
         /\ \A k \in DOMAIN Tail(s) : /\ k + 1 \in DOMAIN s /\ Tail(s)[k] = s[k + 1]
                                     /\ Tail(s)[k] # Head(s)
<1>1. /\ Head(s) \in S /\ Tail(s) \in Seq(S) /\ Len(Tail(s)) = Len(s) - 1
      /\ \A i \in 1 .. Len(Tail(s)) : Tail(s)[i] = s[i + 1]
  BY HeadTailProperties
<1>2. Len(s) \in Nat /\ Len(s) # 0 /\ DOMAIN s = 1 .. Len(s) /\ DOMAIN Tail(s) = 1 .. Len(s) - 1
  BY <1>1, LenProperties, EmptySeq
<1>3. Head(s) = s[1]
  OBVIOUS
<1>4. \A k \in DOMAIN Tail(s) : k \in Int /\ k + 1 \in DOMAIN s /\ k + 1 # 1 /\ Tail(s)[k] = s[k + 1]
  BY <1>1, <1>2
<1>5. 1 \in DOMAIN s
  BY <1>2
<1>6. \A k \in DOMAIN Tail(s) : Tail(s)[k] # Head(s)
  BY <1>3, <1>4, <1>5 DEF Distinct
<1>7. Distinct(Tail(s))
  <2> SUFFICES ASSUME NEW i \in DOMAIN Tail(s), NEW j \in DOMAIN Tail(s), Tail(s)[i] = Tail(s)[j]
               PROVE  i = j
    BY DEF Distinct
  <2>1. i + 1 = j + 1
    BY <1>4 DEF Distinct
  <2> QED
    BY <1>4, <2>1
<1> QED
  BY <1>1, <1>3, <1>4, <1>5, <1>6, <1>7

\* push() of an item that is not queued.
LEMMA PushKeeps ==
  ASSUME NEW S, NEW s \in Seq(S), NEW e \in S, Distinct(s), \A k \in DOMAIN s : s[k] # e
  PROVE  /\ Append(s, e) \in Seq(S) /\ Distinct(Append(s, e))
         /\ \A k \in DOMAIN Append(s, e) : Append(s, e)[k] = e \/ \E j \in DOMAIN s : Append(s, e)[k] = s[j]
<1> DEFINE r == Append(s, e)
<1>1. /\ r \in Seq(S) /\ DOMAIN s = 1 .. Len(s) /\ DOMAIN r = 1 .. Len(s) + 1 /\ Len(s) \in Nat
      /\ \A k \in 1 .. Len(s) : r[k] = s[k]
      /\ r[Len(s) + 1] = e
  OBVIOUS
<1> HIDE DEF r
<1>2. \A k \in DOMAIN r : (k \in DOMAIN s /\ r[k] = s[k]) \/ (k = Len(s) + 1 /\ r[k] = e)
  BY <1>1
<1>3. Distinct(r)
  BY <1>1, <1>2 DEF Distinct
<1> QED
  BY <1>1, <1>2, <1>3 DEF r

\* shift(): what is left, position by position.
LEMMA TailAt ==
  ASSUME NEW S, NEW s \in Seq(S), s # <<>>
  PROVE  /\ Tail(s) \in Seq(S) /\ Len(s) \in Nat \ {0} /\ Len(Tail(s)) = Len(s) - 1
         /\ DOMAIN s = 1 .. Len(s) /\ DOMAIN Tail(s) = 1 .. Len(s) - 1
         /\ Head(s) = s[1] /\ s[1] \in S
         /\ \A k \in 1 .. Len(s) - 1 : Tail(s)[k] = s[k + 1]
<1>1. /\ Head(s) \in S /\ Tail(s) \in Seq(S) /\ Len(Tail(s)) = Len(s) - 1
      /\ \A i \in 1 .. Len(Tail(s)) : Tail(s)[i] = s[i + 1]
  BY HeadTailProperties
<1>2. Len(s) \in Nat /\ Len(s) # 0 /\ DOMAIN s = 1 .. Len(s) /\ DOMAIN Tail(s) = 1 .. Len(s) - 1
  BY <1>1, LenProperties, EmptySeq
<1>3. Head(s) = s[1]
  OBVIOUS
<1> QED
  BY <1>1, <1>2, <1>3

\* push(...r): what was there stays, what is new is behind it.
LEMMA ConcatAt ==
  ASSUME NEW S, NEW s \in Seq(S), NEW r \in Seq(S)
  PROVE  /\ s \o r \in Seq(S) /\ Len(s) \in Nat /\ Len(r) \in Nat /\ Len(s \o r) = Len(s) + Len(r)
         /\ DOMAIN s = 1 .. Len(s) /\ DOMAIN r = 1 .. Len(r) /\ DOMAIN (s \o r) = 1 .. Len(s) + Len(r)
         /\ \A k \in 1 .. Len(s) : (s \o r)[k] = s[k]
         /\ \A k \in Len(s) + 1 .. Len(s) + Len(r) : (s \o r)[k] = r[k - Len(s)]
<1>1. /\ s \o r \in Seq(S) /\ Len(s \o r) = Len(s) + Len(r)
      /\ \A i \in 1 .. Len(s) + Len(r) : (s \o r)[i] = IF i <= Len(s) THEN s[i] ELSE r[i - Len(s)]
  BY ConcatProperties
<1>2. Len(s) \in Nat /\ Len(r) \in Nat /\ DOMAIN s = 1 .. Len(s) /\ DOMAIN r = 1 .. Len(r)
  BY LenProperties
<1>3. DOMAIN (s \o r) = 1 .. Len(s) + Len(r)
  BY <1>1, LenProperties
<1> QED
  BY <1>1, <1>2, <1>3

\* push(e)
LEMMA PushAt ==
  ASSUME NEW S, NEW s \in Seq(S), NEW e \in S
  PROVE  /\ s \o <<e>> \in Seq(S) /\ Len(s) \in Nat /\ Len(s \o <<e>>) = Len(s) + 1
         /\ DOMAIN s = 1 .. Len(s) /\ DOMAIN (s \o <<e>>) = 1 .. Len(s) + 1
         /\ \A k \in 1 .. Len(s) : (s \o <<e>>)[k] = s[k]
         /\ (s \o <<e>>)[Len(s) + 1] = e
<1>1. <<e>> \in Seq(S) /\ Len(<<e>>) = 1 /\ <<e>>[1] = e
  OBVIOUS
<1> DEFINE r == <<e>>
<1> HIDE DEF r
<1>2. /\ s \o r \in Seq(S) /\ Len(s) \in Nat /\ Len(r) \in Nat /\ Len(s \o r) = Len(s) + Len(r)
      /\ DOMAIN s = 1 .. Len(s) /\ DOMAIN r = 1 .. Len(r) /\ DOMAIN (s \o r) = 1 .. Len(s) + Len(r)
      /\ \A k \in 1 .. Len(s) : (s \o r)[k] = s[k]
      /\ \A k \in Len(s) + 1 .. Len(s) + Len(r) : (s \o r)[k] = r[k - Len(s)]
  <2>1. r \in Seq(S)
    BY <1>1 DEF r
  <2> QED
    BY <2>1, ConcatAt
<1>3. Len(r) = 1 /\ r[1] = e
  BY <1>1 DEF r
<1>4. (s \o r)[Len(s) + 1] = e
  <2>1. Len(s) + 1 \in Len(s) + 1 .. Len(s) + Len(r) /\ (Len(s) + 1) - Len(s) = 1
    BY <1>2, <1>3
  <2> QED
    BY <1>2, <1>3, <2>1
<1>5. /\ s \o r \in Seq(S) /\ Len(s) \in Nat /\ Len(s \o r) = Len(s) + 1
      /\ DOMAIN s = 1 .. Len(s) /\ DOMAIN (s \o r) = 1 .. Len(s) + 1
      /\ \A k \in 1 .. Len(s) : (s \o r)[k] = s[k]
      /\ (s \o r)[Len(s) + 1] = e
  BY <1>2, <1>3, <1>4
<1> QED
  BY <1>5 DEF r

\* A function on 1 .. n is an array of length n.
LEMMA MappedAt ==
  ASSUME NEW S, NEW n \in Nat, NEW f \in [1 .. n -> S]
  PROVE  f \in Seq(S) /\ Len(f) = n /\ DOMAIN f = 1 .. n
BY SeqDef, LenProperties

\* Array.from() of a finite set: each element once.
LEMMA SetToSeqAt ==
  ASSUME NEW S, IsFiniteSet(S)
  PROVE  LET s == SetToSeq(S)
         IN  /\ s \in Seq(S) /\ Len(s) \in Nat /\ DOMAIN s = 1 .. Len(s)
             /\ \A j, k \in DOMAIN s : s[j] = s[k] => j = k
             /\ \A e \in S : \E k \in DOMAIN s : s[k] = e
             /\ (s = <<>>) <=> (S = {})
<1> DEFINE n == Cardinality(S)
           s == SetToSeq(S)
<1>1. n \in Nat /\ ExistsBijection(1 .. n, S)
  BY FS_CardinalityType
<1>2. PICK b : b \in Bijection(1 .. n, S)
  BY <1>1 DEF ExistsBijection
<1>3. b \in [1 .. n -> S] /\ IsInjective(b)
  BY <1>2 DEF Bijection, Injection
<1>4. s \in [1 .. n -> S] /\ IsInjective(s)
  BY <1>3 DEF SetToSeq
<1> HIDE DEF s
<1>5. s \in Seq(S) /\ Len(s) = n /\ DOMAIN s = 1 .. n
  BY <1>1, <1>4, MappedAt
<1>6. \A j, k \in DOMAIN s : s[j] = s[k] => j = k
  BY <1>4 DEF IsInjective
<1>7. \A e \in S : \E k \in DOMAIN s : s[k] = e
  <2>1. s \in Injection(1 .. n, S)
    BY <1>4 DEF Injection
  <2>2. IsFiniteSet(1 .. n) /\ Cardinality(1 .. n) = n
    BY <1>1, FS_Interval
  <2>3. s \in Surjection(1 .. n, S)
    BY <2>1, <2>2, FS_Injection
  <2> QED
    BY <1>5, <2>3 DEF Surjection
<1>8. (s = <<>>) <=> (S = {})
  BY <1>4, <1>5, <1>7
<1> QED
  BY <1>1, <1>5, <1>6, <1>7, <1>8 DEF s

\* An array whose elements are all different, and from a finite set, is no
\* longer than the set is large.
LEMMA DistinctFits ==
  ASSUME NEW S, IsFiniteSet(S), NEW s \in Seq(S), Distinct(s)
  PROVE  Len(s) \in Nat /\ Len(s) <= Cardinality(S)
<1>1. Len(s) \in Nat /\ DOMAIN s = 1 .. Len(s) /\ s \in [1 .. Len(s) -> S]
  BY LenProperties
<1>2. s \in Injection(1 .. Len(s), S)
  BY <1>1 DEF Distinct, Injection, IsInjective
<1>3. Cardinality(1 .. Len(s)) = Len(s)
  BY <1>1, FS_Interval
<1> QED
  BY <1>1, <1>2, <1>3, FS_Injection

\* How many items of s are in T.
HowMany(s, T) == Cardinality({k \in DOMAIN s : s[k] \in T})

\* The positions of s that hold an item of T.
LEMMA HowManyBounds ==
  ASSUME NEW S, NEW s \in Seq(S), NEW T
  PROVE  /\ IsFiniteSet({k \in DOMAIN s : s[k] \in T})
         /\ HowMany(s, T) \in Nat /\ Len(s) \in Nat /\ HowMany(s, T) <= Len(s)
         /\ \A k \in DOMAIN s : s[k] \in T => HowMany(s, T) >= 1
<1> DEFINE K == {k \in DOMAIN s : s[k] \in T}
<1>1. DOMAIN s = 1 .. Len(s) /\ Len(s) \in Nat
  BY LenProperties
<1>2. IsFiniteSet(1 .. Len(s)) /\ Cardinality(1 .. Len(s)) = Len(s)
  BY <1>1, FS_Interval
<1>3. K \in SUBSET (1 .. Len(s))
  BY <1>1
<1>4. IsFiniteSet(K) /\ Cardinality(K) <= Len(s)
  BY <1>2, <1>3, FS_Subset
<1>5. Cardinality(K) \in Nat
  BY <1>4, FS_CardinalityType
<1>6. Cardinality(K) = 0 => K = {}
  BY <1>4, FS_EmptySet
<1>7. ASSUME NEW k \in DOMAIN s, s[k] \in T
      PROVE  Cardinality(K) >= 1
  <2>1. k \in K
    BY <1>7
  <2> QED
    BY <1>5, <1>6, <2>1
<1> QED
  BY <1>1, <1>4, <1>5, <1>7 DEF HowMany

\* An item more, an item less, another item instead.
LEMMA HowManyAppend ==
  ASSUME NEW S, NEW s \in Seq(S), NEW e \in S, NEW T
  PROVE  HowMany(Append(s, e), T) = HowMany(s, T) + (IF e \in T THEN 1 ELSE 0)
<1> DEFINE K == {k \in DOMAIN s : s[k] \in T}
           r == Append(s, e)
<1>1. /\ DOMAIN s = 1 .. Len(s) /\ DOMAIN r = 1 .. Len(s) + 1 /\ Len(s) \in Nat
      /\ \A k \in 1 .. Len(s) : r[k] = s[k]
      /\ r[Len(s) + 1] = e
  BY AppendProperties
<1>2. {k \in DOMAIN r : r[k] \in T} = IF e \in T THEN K \cup {Len(s) + 1} ELSE K
  <2> HIDE DEF r
  <2> QED
    BY <1>1
<1>3. Len(s) + 1 \notin K
  BY <1>1
<1>4. IsFiniteSet(K) /\ HowMany(s, T) \in Nat
  BY HowManyBounds
<1>5. Cardinality(K \cup {Len(s) + 1}) = Cardinality(K) + 1
  BY <1>3, <1>4, FS_AddElement
<1>6. HowMany(s, T) = Cardinality(K) /\ HowMany(r, T) = Cardinality({k \in DOMAIN r : r[k] \in T})
  BY DEF HowMany
<1> HIDE DEF K, r
<1>7. CASE e \in T
  <2>1. HowMany(r, T) = Cardinality(K \cup {Len(s) + 1})
    BY <1>2, <1>6, <1>7
  <2> QED
    BY <1>4, <1>5, <1>6, <1>7, <2>1 DEF r
<1>8. CASE e \notin T
  <2>1. HowMany(r, T) = Cardinality(K)
    BY <1>2, <1>6, <1>8
  <2> QED
    BY <1>4, <1>6, <1>8, <2>1, HowMany(s, T) + 0 = HowMany(s, T) DEF r
<1> QED
  BY <1>7, <1>8

LEMMA HowManyTail ==
  ASSUME NEW S, NEW s \in Seq(S), s # <<>>, NEW T
  PROVE  HowMany(s, T) = HowMany(Tail(s), T) + (IF s[1] \in T THEN 1 ELSE 0)
<1> DEFINE K == {k \in DOMAIN s : s[k] \in T}
           r == Tail(s)
           R == {k \in DOMAIN r : r[k] \in T}
           f == [k \in R |-> k + 1]
<1>1. /\ DOMAIN s = 1 .. Len(s) /\ DOMAIN r = 1 .. Len(s) - 1 /\ Len(s) \in Nat \ {0}
      /\ r \in Seq(S)
      /\ \A k \in 1 .. Len(s) - 1 : r[k] = s[k + 1]
  BY TailAt
<1> HIDE DEF r
<1>2. f \in Bijection(R, K \ {1})
  <2>1. f \in [R -> K \ {1}]
    BY <1>1
  <2>2. \A a, b \in R : f[a] = f[b] => a = b
    BY <1>1
  <2>3. \A k \in K \ {1} : \E a \in R : f[a] = k
    <3> TAKE k \in K \ {1}
    <3>1. k - 1 \in R /\ f[k - 1] = k
      BY <1>1
    <3> QED
      BY <3>1
  <2> QED
    BY <2>1, <2>2, <2>3 DEF Bijection, Injection, Surjection, IsInjective
<1>3. IsFiniteSet(R) /\ IsFiniteSet(K) /\ HowMany(s, T) \in Nat
  BY <1>1, HowManyBounds
<1>4. Cardinality(K \ {1}) = Cardinality(R)
  BY <1>2, <1>3, FS_Bijection DEF ExistsBijection
<1>5. Cardinality(K \ {1}) = IF 1 \in K THEN Cardinality(K) - 1 ELSE Cardinality(K)
  BY <1>3, FS_RemoveElement
<1>6. 1 \in K <=> s[1] \in T
  BY <1>1
<1>7. HowMany(s, T) = Cardinality(K) /\ HowMany(r, T) = Cardinality(R)
  BY DEF HowMany
<1> HIDE DEF K, R
<1> QED
  BY <1>3, <1>4, <1>5, <1>6, <1>7 DEF r

LEMMA HowManyExcept ==
  ASSUME NEW S, NEW s \in Seq(S), NEW r \in Seq(S), NEW n \in DOMAIN s, NEW T,
         DOMAIN r = DOMAIN s, \A k \in DOMAIN s \ {n} : r[k] = s[k]
  PROVE  HowMany(r, T) + (IF s[n] \in T THEN 1 ELSE 0) = HowMany(s, T) + (IF r[n] \in T THEN 1 ELSE 0)
<1> DEFINE K == {k \in DOMAIN s : s[k] \in T}
           R == {k \in DOMAIN r : r[k] \in T}
<1>1. IsFiniteSet(R) /\ IsFiniteSet(K) /\ HowMany(s, T) \in Nat /\ HowMany(r, T) \in Nat
  BY HowManyBounds
<1>2. R \ {n} = K \ {n}
  OBVIOUS
<1>3. /\ Cardinality(K \ {n}) = IF n \in K THEN Cardinality(K) - 1 ELSE Cardinality(K)
      /\ Cardinality(R \ {n}) = IF n \in R THEN Cardinality(R) - 1 ELSE Cardinality(R)
  BY <1>1, FS_RemoveElement
<1>4. (n \in K <=> s[n] \in T) /\ (n \in R <=> r[n] \in T)
  OBVIOUS
<1>5. HowMany(s, T) = Cardinality(K) /\ HowMany(r, T) = Cardinality(R)
  BY DEF HowMany
<1> HIDE DEF K, R
<1>6. HowMany(s, T) = Cardinality(K \ {n}) + (IF s[n] \in T THEN 1 ELSE 0)
  BY <1>1, <1>3, <1>4, <1>5
<1>7. HowMany(r, T) = Cardinality(K \ {n}) + (IF r[n] \in T THEN 1 ELSE 0)
  <2>1. Cardinality(R) = Cardinality(R \ {n}) + (IF r[n] \in T THEN 1 ELSE 0)
    BY <1>1, <1>3, <1>4, <1>5
  <2> QED
    BY <1>2, <1>5, <2>1
<1>8. Cardinality(K \ {n}) \in Int
  BY <1>1, <1>3, <1>5
<1> QED
  BY <1>6, <1>7, <1>8

LEMMA HowManyEmpty ==
  ASSUME NEW T
  PROVE  HowMany(<<>>, T) = 0
<1>1. {k \in DOMAIN <<>> : <<>>[k] \in T} = {}
  OBVIOUS
<1> QED
  BY <1>1, FS_EmptySet DEF HowMany
=============================================================================

--------------------------- MODULE StructureProofs ---------------------------
(***************************************************************************)
(* Proofs about the structures of the library, each for every value of its  *)
(* constants: the slab list of the object cache (Slab), the tree of the     *)
(* parser (HtmlDom) and the matrix of links that user rank walks            *)
(* (UserRank).                                                              *)
(*                                                                          *)
(* The order of the slab list and the count of empty slabs are inductive    *)
(* together with the types; the proof of each operation follows the slabs   *)
(* from their old places on the list to their new ones.                     *)
(*                                                                          *)
(* The tree is inductive as DomTree: its nodes are numbered in preorder by  *)
(* their parents, and its other links are those the parents give.           *)
(* HtmlSound adds what lies in the extent of each node.                     *)
(***************************************************************************)
EXTENDS Slab, HtmlDom, UserRank, TLAPS, FiniteSetTheorems, SequenceTheorems,
        NaturalsInduction, WellFoundedInduction

\* What holds of 0, and of every number up to N with its predecessor, holds up to N.
LEMMA UpTo ==
  ASSUME NEW N \in Nat, NEW T, 0 \in T, \A n \in 0 .. N : n \in T /\ n < N => n + 1 \in T
  PROVE  \A n \in 0 .. N : n \in T
<1> DEFINE D == {n \in 0 .. N : n \notin T}
<1> SUFFICES ASSUME D # {} PROVE FALSE
  OBVIOUS
<1>1. D \subseteq Nat
  OBVIOUS
<1>2. PICK d \in D : \A e \in D : ~ (<<e, d>> \in OpToRel(<, Nat))
  <2> HIDE DEF D
  <2> QED
    BY <1>1, NatLessThanWellFounded, WFMin
<1>3. d \in 0 .. N /\ d \notin T /\ d # 0
  OBVIOUS
<1>4. d - 1 \in 0 .. N /\ d - 1 < N /\ d - 1 < d /\ d - 1 \in Nat /\ d \in Nat /\ (d - 1) + 1 = d
  BY <1>3
<1>5. d - 1 \notin T
  BY <1>3, <1>4
<1>6. d - 1 \in D
  BY <1>4, <1>5
<1>7. <<d - 1, d>> \in OpToRel(<, Nat)
  BY <1>4 DEF OpToRel
<1> QED
  BY <1>2, <1>6, <1>7

-----------------------------------------------------------------------------
(* The object cache *)

\* A set of numbers below a bound has a greatest one.
LEMMA Greatest ==
  ASSUME NEW N \in Nat, NEW T \in SUBSET (0 .. N), T # {}
  PROVE  Max(T) \in T /\ \A y \in T : y <= Max(T)
<1> DEFINE D == {N - x : x \in T}
<1>1. D \subseteq Nat /\ D # {}
  <2>1. \A x \in T : x \in 0 .. N
    OBVIOUS
  <2>2. \A x \in T : N - x \in Nat
    BY <2>1
  <2>3. \E x \in T : N - x \in D
    OBVIOUS
  <2> QED
    BY <2>2, <2>3
<1>2. PICK d \in D : \A e \in D : ~ (<<e, d>> \in OpToRel(<, Nat))
  <2> HIDE DEF D
  <2> QED
    BY <1>1, NatLessThanWellFounded, WFMin
<1>3. \A e \in D : ~ (e < d)
  BY <1>1, <1>2 DEF OpToRel
<1>4. PICK x \in T : d = N - x
  OBVIOUS
<1>5. \A y \in T : x >= y
  <2> SUFFICES ASSUME NEW y \in T PROVE x >= y
    OBVIOUS
  <2>1. N - y \in D
    OBVIOUS
  <2> HIDE DEF D
  <2> QED
    BY <1>3, <1>4, <2>1
<1> QED
  BY <1>5 DEF Max

-----------------------------------------------------------------------------
(* Lists: what the operations of List.cpp do to a sequence. *)

\* The first n elements of a list.
LEMMA Prefix ==
  ASSUME NEW T, NEW l \in Seq(T), NEW n \in 0 .. Len(l)
  PROVE  /\ SubSeq(l, 1, n) \in Seq(T) /\ Len(SubSeq(l, 1, n)) = n
         /\ DOMAIN SubSeq(l, 1, n) = 1 .. n
         /\ \A i \in 1 .. n : SubSeq(l, 1, n)[i] = l[i]
<1>1. Len(l) \in Nat /\ \A i \in 1 .. n : l[i] \in T
  BY LenProperties, ElementOfSeq
<1>2. /\ SubSeq(l, 1, n) \in Seq(T) /\ Len(SubSeq(l, 1, n)) = n
      /\ \A i \in 1 .. n : SubSeq(l, 1, n)[i] = l[1 + i - 1]
  BY <1>1, SubSeqProperties
<1> QED
  BY <1>1, <1>2, LenProperties

\* The elements after the first n.
LEMMA Suffix ==
  ASSUME NEW T, NEW l \in Seq(T), NEW n \in 0 .. Len(l)
  PROVE  /\ SubSeq(l, n + 1, Len(l)) \in Seq(T) /\ Len(SubSeq(l, n + 1, Len(l))) = Len(l) - n
         /\ \A i \in 1 .. Len(l) - n : SubSeq(l, n + 1, Len(l))[i] = l[n + i]
<1>1. Len(l) \in Nat /\ \A i \in n + 1 .. Len(l) : l[i] \in T
  BY LenProperties, ElementOfSeq
<1>2. /\ SubSeq(l, n + 1, Len(l)) \in Seq(T)
      /\ Len(SubSeq(l, n + 1, Len(l))) = IF n + 1 <= Len(l) THEN Len(l) - (n + 1) + 1 ELSE 0
      /\ \A i \in 1 .. Len(l) - (n + 1) + 1 : SubSeq(l, n + 1, Len(l))[i] = l[n + 1 + i - 1]
  BY <1>1, SubSeqProperties
<1> QED
  BY <1>1, <1>2

\* A list without its k-th element.
LEMMA Removed ==
  ASSUME NEW T, NEW l \in Seq(T), NEW k \in 1 .. Len(l)
  PROVE  /\ RemoveAt(l, k) \in Seq(T) /\ Len(RemoveAt(l, k)) = Len(l) - 1
         /\ DOMAIN RemoveAt(l, k) = 1 .. Len(l) - 1
         /\ \A i \in 1 .. Len(l) - 1 : RemoveAt(l, k)[i] = IF i < k THEN l[i] ELSE l[i + 1]
<1> DEFINE a == SubSeq(l, 1, k - 1)
           b == SubSeq(l, k + 1, Len(l))
<1>1. Len(l) \in Nat /\ k \in Nat
  BY LenProperties
<1>2. a \in Seq(T) /\ Len(a) = k - 1 /\ \A i \in 1 .. k - 1 : a[i] = l[i]
  BY <1>1, Prefix
<1>3. b \in Seq(T) /\ Len(b) = Len(l) - k /\ \A i \in 1 .. Len(l) - k : b[i] = l[k + i]
  BY <1>1, Suffix
<1>4. RemoveAt(l, k) = a \o b
  BY DEF RemoveAt
<1> HIDE DEF a, b
<1>5. /\ a \o b \in Seq(T) /\ Len(a \o b) = Len(a) + Len(b)
      /\ \A i \in 1 .. Len(a) + Len(b) : (a \o b)[i] = IF i <= Len(a) THEN a[i] ELSE b[i - Len(a)]
  BY <1>2, <1>3, ConcatProperties
<1>6. \A i \in 1 .. Len(l) - 1 : (a \o b)[i] = IF i < k THEN l[i] ELSE l[i + 1]
  <2> SUFFICES ASSUME NEW i \in 1 .. Len(l) - 1
               PROVE  (a \o b)[i] = IF i < k THEN l[i] ELSE l[i + 1]
    OBVIOUS
  <2>1. CASE i < k
    BY <1>1, <1>2, <1>3, <1>5, <2>1
  <2>2. CASE ~ (i < k)
    <3>1. i - (k - 1) \in 1 .. Len(l) - k /\ k + (i - (k - 1)) = i + 1
      BY <1>1, <2>2
    <3>2. (a \o b)[i] = b[i - (k - 1)]
      BY <1>1, <1>2, <1>3, <1>5, <2>2
    <3>3. b[i - (k - 1)] = l[i + 1]
      BY <1>3, <3>1
    <3> QED
      BY <2>2, <3>2, <3>3
  <2> QED
    BY <2>1, <2>2
<1> QED
  BY <1>1, <1>2, <1>3, <1>4, <1>5, <1>6, LenProperties

\* A list with x before its k-th element.
IsInserted(T, l, k, x, r) ==
  /\ r \in Seq(T) /\ Len(r) = Len(l) + 1
  /\ \A i \in 1 .. Len(l) + 1 : r[i] = IF i < k THEN l[i] ELSE IF i = k THEN x ELSE l[i - 1]

LEMMA Inserted ==
  ASSUME NEW T, NEW l \in Seq(T), NEW k \in 1 .. Len(l), NEW x \in T
  PROVE  IsInserted(T, l, k, x, InsertAt(l, k, x))
<1> DEFINE a == SubSeq(l, 1, k - 1)
           b == SubSeq(l, k, Len(l))
           c == Append(a, x)
<1>1. Len(l) \in Nat /\ k \in Nat /\ k - 1 \in 0 .. Len(l)
  BY LenProperties
<1>2. a \in Seq(T) /\ Len(a) = k - 1 /\ \A i \in 1 .. k - 1 : a[i] = l[i]
  BY <1>1, Prefix
<1>3. /\ b \in Seq(T) /\ Len(b) = Len(l) - (k - 1)
      /\ \A i \in 1 .. Len(l) - (k - 1) : b[i] = l[k - 1 + i]
  <2>1. b = SubSeq(l, (k - 1) + 1, Len(l))
    BY <1>1
  <2> QED
    BY <1>1, <2>1, Suffix
<1>4. InsertAt(l, k, x) = c \o b
  <2>1. c = a \o <<x>>
    BY <1>2, AppendIsConcat
  <2> QED
    BY <2>1 DEF InsertAt
<1> HIDE DEF a, b
<1>5. c \in Seq(T) /\ Len(c) = k /\ c[k] = x /\ \A i \in 1 .. k - 1 : c[i] = l[i]
  BY <1>1, <1>2, AppendProperties
<1> HIDE DEF c
<1>6. /\ c \o b \in Seq(T) /\ Len(c \o b) = Len(c) + Len(b)
      /\ \A i \in 1 .. Len(c) + Len(b) : (c \o b)[i] = IF i <= Len(c) THEN c[i] ELSE b[i - Len(c)]
  BY <1>3, <1>5, ConcatProperties
<1>7. \A i \in 1 .. Len(l) + 1 :
        (c \o b)[i] = IF i < k THEN l[i] ELSE IF i = k THEN x ELSE l[i - 1]
  <2> SUFFICES ASSUME NEW i \in 1 .. Len(l) + 1
               PROVE  (c \o b)[i] = IF i < k THEN l[i] ELSE IF i = k THEN x ELSE l[i - 1]
    OBVIOUS
  <2>1. CASE i <= k
    BY <1>1, <1>3, <1>5, <1>6, <2>1
  <2>2. CASE ~ (i <= k)
    <3>1. i - k \in 1 .. Len(l) - (k - 1) /\ k - 1 + (i - k) = i - 1
      BY <1>1, <2>2
    <3> QED
      BY <1>1, <1>3, <1>5, <1>6, <2>2, <3>1
  <2> QED
    BY <2>1, <2>2
<1> QED
  BY <1>1, <1>3, <1>4, <1>5, <1>6, <1>7 DEF IsInserted

\* A list with x at its tail.
LEMMA Appended ==
  ASSUME NEW T, NEW l \in Seq(T), NEW x \in T
  PROVE  /\ Append(l, x) \in Seq(T) /\ Len(Append(l, x)) = Len(l) + 1
         /\ DOMAIN Append(l, x) = 1 .. Len(l) + 1
         /\ \A i \in 1 .. Len(l) + 1 : Append(l, x)[i] = IF i <= Len(l) THEN l[i] ELSE x
<1>1. Len(l) \in Nat
  BY LenProperties
<1>2. /\ Append(l, x) \in Seq(T) /\ Len(Append(l, x)) = Len(l) + 1
      /\ \A i \in 1 .. Len(l) : Append(l, x)[i] = l[i]
      /\ Append(l, x)[Len(l) + 1] = x
  BY AppendProperties
<1> QED
  BY <1>1, <1>2, LenProperties

-----------------------------------------------------------------------------
(* The slab cache *)

\* Lists of slabs, how many objects of each are in use, and the empty ones of a list.
SlabList == Seq(SlabIds)
SlabUse == [SlabIds -> 0 .. slabObjs]
SlabEmptyIn(l, inuse) == {s \in SlabSet(l) : inuse[s] = 0}
SlabDistinct(l) == \A i, j \in 1 .. Len(l) : i < j => l[i] # l[j]

\* A slab is where it is.
LEMMA SlabPlace ==
  ASSUME NEW l \in SlabList, SlabDistinct(l), NEW i \in 1 .. Len(l)
  PROVE  SlabAt(l, l[i]) = i
<1>1. DOMAIN l = 1 .. Len(l) /\ Len(l) \in Nat
  BY LenProperties DEF SlabList
<1>2. \A j \in DOMAIN l : l[j] = l[i] => j = i
  BY <1>1 DEF SlabDistinct
<1> QED
  BY <1>1, <1>2 DEF SlabAt

\* The loop of reclaim frees empty slabs only, at most as many as it is asked for.
LEMMA SlabFreedIs ==
  ASSUME NEW l \in SlabList, NEW inuse, NEW n \in Nat
  PROVE  LET i == SlabFreed(l, inuse, n)
         IN  /\ i \in 0 .. Len(l) /\ i <= n
             /\ \A k \in Len(l) - i + 1 .. Len(l) : inuse[l[k]] = 0
<1> DEFINE T == {i \in 0 .. Len(l) : i <= n /\ \A k \in Len(l) - i + 1 .. Len(l) : inuse[l[k]] = 0}
<1>1. Len(l) \in Nat
  BY LenProperties DEF SlabList
<1>2. 0 \in T
  BY <1>1
<1>3. Max(T) \in T
  <2>1. T \in SUBSET (0 .. Len(l)) /\ T # {}
    BY <1>2
  <2> HIDE DEF T
  <2> QED
    BY <1>1, <2>1, Greatest
<1> QED
  BY <1>3 DEF SlabFreed

\* What reclaim returns: a prefix of the list, and a firstNotFull that is kept when it
\* is on that prefix and given up when all that is left is full.
LEMMA SlabReclaimIs ==
  ASSUME NEW l \in SlabList, NEW inuse, NEW first, NEW n \in Nat
  PROVE  LET r == SlabReclaim(l, inuse, first, n)
         IN  /\ r.freed \in 0 .. Len(l) /\ r.freed <= n
             /\ \A k \in Len(l) - r.freed + 1 .. Len(l) : inuse[l[k]] = 0
             /\ r.list = SubSeq(l, 1, Len(l) - r.freed)
             /\ r.list \in SlabList /\ Len(r.list) = Len(l) - r.freed
             /\ \A i \in 1 .. Len(l) - r.freed : r.list[i] = l[i]
             /\ first = SlabHead \/ first \in SlabSet(r.list) => r.first = first
             /\ (/\ first # SlabHead /\ first \notin SlabSet(r.list)
                 /\ \A i \in 1 .. Len(l) - r.freed : inuse[l[i]] = slabObjs)
                => r.first = SlabHead
<1> DEFINE i == SlabFreed(l, inuse, n)
           kept == SubSeq(l, 1, Len(l) - i)
           r == SlabReclaim(l, inuse, first, n)
<1>1. /\ i \in 0 .. Len(l) /\ i <= n
      /\ \A k \in Len(l) - i + 1 .. Len(l) : inuse[l[k]] = 0
  BY SlabFreedIs
<1>2. r.list = kept /\ r.freed = i
  BY DEF SlabReclaim
<1>3. Len(l) \in Nat
  BY LenProperties DEF SlabList
<1>4. /\ kept \in SlabList /\ Len(kept) = Len(l) - i /\ DOMAIN kept = 1 .. Len(l) - i
      /\ \A k \in 1 .. Len(l) - i : kept[k] = l[k]
  BY <1>1, <1>3, Prefix DEF SlabList
<1>5. first = SlabHead \/ first \in SlabSet(kept) => r.first = first
  BY DEF SlabReclaim
<1>6. ASSUME first # SlabHead, first \notin SlabSet(kept),
             \A k \in 1 .. Len(l) - i : inuse[l[k]] = slabObjs
      PROVE  r.first = SlabHead
  <2>1. r.first = LET back == SlabPrevOf(kept, SlabHead)
                  IN  IF back # first /\ back # SlabHead /\ inuse[back] = slabObjs
                      THEN SlabHead ELSE back
    BY <1>6 DEF SlabReclaim
  <2>2. CASE kept = <<>>
    BY <2>1, <2>2 DEF SlabPrevOf
  <2>3. CASE kept # <<>>
    <3> HIDE DEF kept, i
    <3>1. Len(kept) \in 1 .. Len(l) - i
      BY <1>4, <2>3, EmptySeq DEF SlabList
    <3>2. SlabPrevOf(kept, SlabHead) = kept[Len(kept)]
      BY <2>3 DEF SlabPrevOf
    <3>3. kept[Len(kept)] \in SlabSet(kept) /\ kept[Len(kept)] \in SlabIds
      BY <1>4, <3>1, ElementOfSeq DEF SlabSet, SlabList
    <3>4. inuse[kept[Len(kept)]] = slabObjs
      BY <1>4, <1>6, <3>1
    <3> QED
      BY <1>6, <2>1, <3>2, <3>3, <3>4, SlabAssumption
  <2> QED
    BY <2>2, <2>3
<1> HIDE DEF i, kept, r
<1> QED
  BY <1>1, <1>2, <1>4, <1>5, <1>6 DEF r, kept

\* The slabs cut off the tail, all empty, are counted one by one.
LEMMA SlabCut ==
  ASSUME NEW l \in SlabList, NEW inuse, NEW c \in 0 .. Len(l), SlabDistinct(l),
         \A k \in Len(l) - c + 1 .. Len(l) : inuse[l[k]] = 0,
         NEW p \in SlabList, Len(p) = Len(l) - c, \A i \in 1 .. Len(l) - c : p[i] = l[i]
  PROVE  /\ IsFiniteSet(SlabEmptyIn(l, inuse)) /\ IsFiniteSet(SlabEmptyIn(p, inuse))
         /\ Cardinality(SlabEmptyIn(l, inuse)) = Cardinality(SlabEmptyIn(p, inuse)) + c
<1> DEFINE D == {l[k] : k \in Len(l) - c + 1 .. Len(l)}
           f == [m \in 1 .. c |-> l[Len(l) - c + m]]
<1>1. /\ DOMAIN l = 1 .. Len(l) /\ Len(l) \in Nat /\ DOMAIN p = 1 .. Len(l) - c /\ c \in Nat
  BY LenProperties DEF SlabList
<1>2. IsFiniteSet(SlabSet(l))
  <2>1. SlabSet(l) = {l[i] : i \in 1 .. Len(l)}
    BY <1>1 DEF SlabSet
  <2>2. l \in Surjection(1 .. Len(l), SlabSet(l))
    BY <1>1, LenProperties DEF Surjection, SlabList, SlabSet
  <2> QED
    BY <1>1, <2>2, FS_NatSurjection DEF ExistsSurjection
<1>3. SlabSet(l) = SlabSet(p) \cup D
  <2>1. ASSUME NEW k \in 1 .. Len(l) PROVE l[k] \in SlabSet(p) \cup D
    <3>1. CASE k \in 1 .. Len(l) - c
      BY <1>1, <3>1 DEF SlabSet
    <3>2. CASE k \in Len(l) - c + 1 .. Len(l)
      BY <3>2
    <3> QED
      BY <1>1, <3>1, <3>2
  <2>2. ASSUME NEW k \in 1 .. Len(l) - c PROVE p[k] \in SlabSet(l)
    <3>1. k \in 1 .. Len(l) /\ p[k] = l[k]
      BY <1>1
    <3> QED
      BY <1>1, <3>1 DEF SlabSet
  <2>3. ASSUME NEW k \in Len(l) - c + 1 .. Len(l) PROVE l[k] \in SlabSet(l)
    <3>1. k \in 1 .. Len(l)
      BY <1>1
    <3> QED
      BY <1>1, <3>1 DEF SlabSet
  <2>4. SlabSet(l) = {l[k] : k \in 1 .. Len(l)} /\ SlabSet(p) = {p[k] : k \in 1 .. Len(l) - c}
    BY <1>1 DEF SlabSet
  <2>5. SlabSet(l) \subseteq SlabSet(p) \cup D
    BY <2>1, <2>4
  <2>6. SlabSet(p) \cup D \subseteq SlabSet(l)
    BY <2>2, <2>3, <2>4
  <2> QED
    BY <2>5, <2>6
<1>4. SlabSet(p) \cap D = {}
  BY <1>1 DEF SlabSet, SlabDistinct
<1>5. Cardinality(D) = c
  <2>1. f \in Bijection(1 .. c, D)
    <3>1. \A m \in 1 .. c : Len(l) - c + m \in Len(l) - c + 1 .. Len(l)
      BY <1>1
    <3>2. f \in [1 .. c -> D]
      BY <3>1
    <3>3. ASSUME NEW m \in 1 .. c, NEW q \in 1 .. c, m < q PROVE f[m] # f[q]
      <4>1. /\ Len(l) - c + m \in 1 .. Len(l) /\ Len(l) - c + q \in 1 .. Len(l)
            /\ Len(l) - c + m < Len(l) - c + q
        BY <1>1, <3>3
      <4> QED
        BY <4>1 DEF SlabDistinct
    <3>4. ASSUME NEW x \in D PROVE \E m \in 1 .. c : f[m] = x
      <4>1. PICK k \in Len(l) - c + 1 .. Len(l) : x = l[k]
        OBVIOUS
      <4>2. k - (Len(l) - c) \in 1 .. c /\ Len(l) - c + (k - (Len(l) - c)) = k
        BY <1>1
      <4> QED
        BY <4>1, <4>2
    <3> HIDE DEF f, D
    <3>5. f \in Injection(1 .. c, D)
      <4>1. \A m, q \in 1 .. c : f[m] = f[q] => m = q
        BY <3>3
      <4> QED
        BY <3>2, <4>1 DEF Injection, IsInjective
    <3>6. f \in Surjection(1 .. c, D)
      BY <3>2, <3>4 DEF Surjection
    <3> QED
      BY <3>5, <3>6 DEF Bijection
  <2> QED
    BY <1>1, <2>1, FS_CountingElements DEF ExistsBijection
<1>6. SlabEmptyIn(l, inuse) = SlabEmptyIn(p, inuse) \cup D
  BY <1>3 DEF SlabEmptyIn
<1>7. SlabEmptyIn(p, inuse) \cap D = {}
  BY <1>4 DEF SlabEmptyIn
<1>8. IsFiniteSet(D) /\ IsFiniteSet(SlabEmptyIn(p, inuse))
  <2>1. D \subseteq SlabSet(l) /\ SlabEmptyIn(p, inuse) \subseteq SlabSet(l)
    BY <1>3 DEF SlabEmptyIn
  <2> QED
    BY <1>2, <2>1, FS_Subset
<1>9. Cardinality(SlabEmptyIn(p, inuse)) \in Nat /\ Cardinality({}) = 0
  BY <1>8, FS_CardinalityType, FS_EmptySet
<1> HIDE DEF D, f
<1>10. /\ IsFiniteSet(SlabEmptyIn(l, inuse))
       /\ Cardinality(SlabEmptyIn(l, inuse)) =
            Cardinality(SlabEmptyIn(p, inuse)) + Cardinality(D) - Cardinality({})
  <2>1. /\ IsFiniteSet(SlabEmptyIn(p, inuse) \cup D)
        /\ Cardinality(SlabEmptyIn(p, inuse) \cup D) =
             Cardinality(SlabEmptyIn(p, inuse)) + Cardinality(D)
               - Cardinality(SlabEmptyIn(p, inuse) \cap D)
    BY <1>8, FS_Union
  <2> QED
    BY <1>6, <1>7, <2>1, Zenon
<1> QED
  BY <1>1, <1>5, <1>8, <1>9, <1>10

\* The empty slabs of a list are finitely many.
LEMMA SlabEmptyFinite ==
  ASSUME NEW l \in SlabList, NEW inuse, SlabDistinct(l)
  PROVE  /\ IsFiniteSet(SlabEmptyIn(l, inuse)) /\ Cardinality(SlabEmptyIn(l, inuse)) \in Nat
<1>1. Len(l) \in Nat
  BY LenProperties DEF SlabList
<1>2. /\ 0 \in 0 .. Len(l) /\ Len(l) = Len(l) - 0
      /\ \A k \in Len(l) - 0 + 1 .. Len(l) : inuse[l[k]] = 0
      /\ \A i \in 1 .. Len(l) - 0 : l[i] = l[i]
  BY <1>1
<1>3. IsFiniteSet(SlabEmptyIn(l, inuse))
  BY <1>2, SlabCut
<1> QED
  BY <1>3, FS_CardinalityType

\* The inductive invariant.
SlabInv == SlabTypeOK /\ SlabKept

\* The parts of the invariant, while nothing freed was used.
LEMMA SlabFacts ==
  ASSUME SlabInv, slabBroken = "no"
  PROVE  /\ slabList \in SlabList /\ Len(slabList) \in Nat /\ DOMAIN slabList = 1 .. Len(slabList)
         /\ \A i \in 1 .. Len(slabList) : slabList[i] \in SlabIds
         /\ slabInuse \in SlabUse /\ firstNotFull \in SlabIds \cup {SlabHead}
         /\ numFreeSlabs \in Int /\ slabLost \in 0 .. SlabMaxLost
         /\ SlabDistinct(slabList)
         /\ SlabSorted(slabList, slabInuse) /\ SlabFirst(slabList, slabInuse, firstNotFull)
         /\ numFreeSlabs = Cardinality(SlabEmptyIn(slabList, slabInuse)) + 2 * slabLost
<1>1. slabList \in SlabList
  BY DEF SlabInv, SlabTypeOK, SlabList
<1>2. Len(slabList) \in Nat /\ DOMAIN slabList = 1 .. Len(slabList)
  BY <1>1, LenProperties DEF SlabList
<1>3. \A i \in 1 .. Len(slabList) : slabList[i] \in SlabIds
  BY <1>1, ElementOfSeq DEF SlabList
<1>4. SlabSorted(slabList, slabInuse) /\ SlabFirst(slabList, slabInuse, firstNotFull)
  BY DEF SlabInv, SlabKept, SlabOrder
<1>5. SlabDistinct(slabList)
  BY <1>2, <1>4 DEF SlabSorted, SlabDistinct
<1>6. numFreeSlabs = Cardinality(SlabEmptyIn(slabList, slabInuse)) + 2 * slabLost
  BY DEF SlabInv, SlabKept, SlabAccounts, SlabEmpties, SlabEmptyIn
<1> QED
  BY <1>1, <1>2, <1>3, <1>4, <1>5, <1>6 DEF SlabInv, SlabTypeOK, SlabUse

\* The parts of the invariant again, after a step.
LEMMA SlabInvNext ==
  ASSUME slabBroken' = "no", SlabTypeOK',
         SlabSorted(slabList', slabInuse'), SlabFirst(slabList', slabInuse', firstNotFull'),
         numFreeSlabs' = Cardinality(SlabEmptyIn(slabList', slabInuse')) + 2 * slabLost'
  PROVE  SlabInv'
BY DEF SlabInv, SlabKept, SlabOrder, SlabAccounts, SlabEmpties, SlabEmptyIn

\* allocObj takes from the first slab that is not full; when that one becomes full, the
\* next has room, because it comes after it.
LEMMA SlabAllocInv ==
  ASSUME SlabInv, SlabAlloc
  PROVE  SlabInv'
<1> DEFINE l == slabList  u == slabInuse  s == firstNotFull
<1>1. slabBroken = "no" /\ firstNotFull # SlabHead
  BY DEF SlabAlloc
<1>2. /\ l \in SlabList /\ Len(l) \in Nat /\ DOMAIN l = 1 .. Len(l)
      /\ \A i \in 1 .. Len(l) : l[i] \in SlabIds
      /\ u \in SlabUse /\ numFreeSlabs \in Int /\ slabLost \in 0 .. SlabMaxLost
      /\ SlabDistinct(l) /\ SlabSorted(l, u) /\ SlabFirst(l, u, s)
      /\ numFreeSlabs = Cardinality(SlabEmptyIn(l, u)) + 2 * slabLost
  BY <1>1, SlabFacts
<1>3. PICK i \in 1 .. Len(l) : /\ s = l[i] /\ u[s] < slabObjs
                               /\ \A j \in 1 .. i - 1 : u[l[j]] = slabObjs
  BY <1>1, <1>2 DEF SlabFirst
<1>4. s \in SlabIds /\ u[s] \in 0 .. slabObjs - 1 /\ slabObjs \in Nat /\ slabObjs > 1
  BY <1>2, <1>3, SlabAssumption DEF SlabUse
<1>5. /\ slabInuse' = [u EXCEPT ![s] = u[s] + 1]
      /\ numFreeSlabs' = IF u[s] = 0 THEN numFreeSlabs - 1 ELSE numFreeSlabs
      /\ firstNotFull' = IF u[s] + 1 = slabObjs THEN SlabNextOf(l, s) ELSE s
      /\ slabList' = l /\ slabLost' = slabLost /\ slabBroken' = slabBroken
  BY DEF SlabAlloc
<1>6. /\ slabInuse' \in SlabUse /\ slabInuse'[s] = u[s] + 1
      /\ \A x \in SlabIds : x # s => slabInuse'[x] = u[x]
  <2>1. u[s] + 1 \in 0 .. slabObjs /\ u \in [SlabIds -> 0 .. slabObjs]
    BY <1>2, <1>4 DEF SlabUse
  <2> QED
    BY <1>4, <1>5, <2>1 DEF SlabUse
<1>7. \A j \in 1 .. Len(l) : u[l[j]] \in 0 .. slabObjs /\ (j # i => l[j] # s /\ slabInuse'[l[j]] = u[l[j]])
  BY <1>2, <1>3, <1>6 DEF SlabUse, SlabDistinct
<1>8. ASSUME NEW j \in i + 1 .. Len(l) PROVE u[l[j]] < slabObjs
  <2>1. j \in 1 .. Len(l) /\ i < j
    OBVIOUS
  <2>2. SlabRank(u, l[i]) <= SlabRank(u, l[j]) /\ u[l[j]] \in 0 .. slabObjs
    BY <1>2, <1>7, <2>1 DEF SlabSorted
  <2>3. SlabRank(u, l[i]) >= 1
    BY <1>3, <1>4 DEF SlabRank
  <2> QED
    BY <1>4, <2>2, <2>3 DEF SlabRank
<1>9. SlabSorted(slabList', slabInuse')
  <2> SUFFICES ASSUME NEW a \in 1 .. Len(l), NEW b \in 1 .. Len(l), a < b
               PROVE  l[a] # l[b] /\ SlabRank(slabInuse', l[a]) <= SlabRank(slabInuse', l[b])
    BY <1>2, <1>5 DEF SlabSorted
  <2>1. l[a] # l[b] /\ SlabRank(u, l[a]) <= SlabRank(u, l[b])
    BY <1>2 DEF SlabSorted
  <2>2. CASE a < i
    BY <1>3, <1>4, <1>6, <1>7, <2>1, <2>2 DEF SlabRank
  <2>3. CASE a = i
    <3>1. SlabRank(slabInuse', l[a]) \in {0, 1}
      BY <1>3, <1>4, <1>6, <2>3 DEF SlabRank
    <3>2. b \in i + 1 .. Len(l) /\ b # i
      BY <2>3
    <3>3. slabInuse'[l[b]] # slabObjs
      BY <1>4, <1>7, <1>8, <3>2
    <3>4. SlabRank(slabInuse', l[b]) \in {1, 2}
      BY <3>3 DEF SlabRank
    <3> QED
      BY <2>1, <3>1, <3>4
  <2>4. CASE a > i
    BY <1>3, <1>4, <1>6, <1>7, <2>1, <2>4 DEF SlabRank
  <2> QED
    BY <1>2, <2>2, <2>3, <2>4
<1>10. SlabNextOf(l, s) = IF i = Len(l) THEN SlabHead ELSE l[i + 1]
  <2>1. SlabAt(l, s) = i
    BY <1>2, <1>3, SlabPlace
  <2>2. l # <<>>
    BY <1>2, <1>3
  <2> QED
    BY <1>1, <2>1, <2>2 DEF SlabNextOf
<1>11. ASSUME u[s] + 1 = slabObjs, NEW j \in 1 .. i PROVE slabInuse'[l[j]] = slabObjs
  <2>1. CASE j = i
    BY <1>3, <1>6, <1>11, <2>1
  <2>2. CASE j # i
    BY <1>3, <1>7, <2>2
  <2> QED
    BY <2>1, <2>2
<1>12. SlabFirst(slabList', slabInuse', firstNotFull')
  <2>1. CASE u[s] + 1 # slabObjs
    <3>1. firstNotFull' = l[i] /\ slabInuse'[l[i]] < slabObjs
      BY <1>3, <1>4, <1>5, <1>6, <2>1
    <3>2. ASSUME NEW j \in 1 .. i - 1 PROVE slabInuse'[l[j]] = slabObjs
      <4>1. j \in 1 .. Len(l) /\ j # i
        OBVIOUS
      <4> QED
        BY <1>3, <1>7, <4>1
    <3> QED
      BY <1>2, <1>5, <3>1, <3>2 DEF SlabFirst
  <2>2. CASE u[s] + 1 = slabObjs /\ i = Len(l)
    <3>1. firstNotFull' = SlabHead
      BY <1>5, <1>10, <2>2
    <3> HIDE DEF l, u, s
    <3> QED
      BY <1>2, <1>5, <1>11, <2>2, <3>1 DEF SlabFirst
  <2>3. CASE u[s] + 1 = slabObjs /\ i # Len(l)
    <3>1. i + 1 \in 1 .. Len(l) /\ firstNotFull' = l[i + 1]
      BY <1>2, <1>5, <1>10, <2>3
    <3>2. slabInuse'[l[i + 1]] < slabObjs
      BY <1>2, <1>7, <1>8, <3>1
    <3>3. \A j \in 1 .. (i + 1) - 1 : slabInuse'[l[j]] = slabObjs
      BY <1>11, <2>3
    <3> QED
      BY <1>2, <1>5, <3>1, <3>2, <3>3 DEF SlabFirst
  <2> QED
    BY <2>1, <2>2, <2>3
<1>13. firstNotFull' \in SlabIds \cup {SlabHead}
  <2>1. CASE i = Len(l)
    BY <1>4, <1>5, <1>10, <2>1
  <2>2. CASE i # Len(l)
    <3>1. Len(l) \in Nat
      BY <1>2
    <3>2. i + 1 \in 1 .. Len(l)
      BY <2>2, <3>1
    <3> QED
      BY <1>2, <1>4, <1>5, <1>10, <2>2, <3>2
  <2> QED
    BY <2>1, <2>2
<1>14. numFreeSlabs' = Cardinality(SlabEmptyIn(slabList', slabInuse')) + 2 * slabLost'
  <2>1. \A x \in SlabSet(l) : x \in SlabIds
    BY <1>2 DEF SlabSet
  <2>2. s \in SlabSet(l)
    BY <1>2, <1>3 DEF SlabSet
  <2>3. CASE u[s] # 0
    <3>1. SlabEmptyIn(slabList', slabInuse') = SlabEmptyIn(l, u)
      BY <1>4, <1>5, <1>6, <2>1, <2>3 DEF SlabEmptyIn
    <3> QED
      BY <1>2, <1>5, <2>3, <3>1
  <2>4. CASE u[s] = 0
    <3>1. SlabEmptyIn(slabList', slabInuse') = SlabEmptyIn(l, u) \ {s}
      BY <1>4, <1>5, <1>6, <2>1, <2>4 DEF SlabEmptyIn
    <3>2. s \in SlabEmptyIn(l, u)
      BY <2>2, <2>4 DEF SlabEmptyIn
    <3>3. /\ IsFiniteSet(SlabEmptyIn(l, u)) /\ Cardinality(SlabEmptyIn(l, u)) \in Nat
      BY <1>2, SlabEmptyFinite
    <3>4. Cardinality(SlabEmptyIn(l, u) \ {s}) = Cardinality(SlabEmptyIn(l, u)) - 1
      BY <3>2, <3>3, FS_RemoveElement
    <3>5. Cardinality(SlabEmptyIn(slabList', slabInuse')) = Cardinality(SlabEmptyIn(l, u)) - 1
      BY <3>1, <3>4, Zenon
    <3> QED
      BY <1>2, <1>5, <2>4, <3>3, <3>5
  <2> QED
    BY <2>3, <2>4
<1>15. SlabTypeOK'
  <2>1. numFreeSlabs' \in Int
    BY <1>2, <1>5
  <2> QED
    BY <1>1, <1>2, <1>5, <1>6, <1>13, <2>1 DEF SlabTypeOK, SlabList, SlabUse
<1> QED
  BY <1>1, <1>5, <1>9, <1>12, <1>14, <1>15, SlabInvNext

\* A list whose slabs are all full has no empty ones.
LEMMA SlabAllFull ==
  ASSUME NEW l \in SlabList, NEW inuse, \A i \in 1 .. Len(l) : inuse[l[i]] = slabObjs
  PROVE  SlabEmptyIn(l, inuse) = {}
<1>1. DOMAIN l = 1 .. Len(l) /\ slabObjs # 0
  BY LenProperties, SlabAssumption DEF SlabList
<1> QED
  BY <1>1 DEF SlabEmptyIn, SlabSet

\* newSlab is called when all slabs are full, and the new one goes to the tail.
LEMMA SlabTakeNewOrder ==
  ASSUME NEW l \in SlabList, slabInuse \in SlabUse, SlabDistinct(l),
         \A i \in 1 .. Len(l) : slabInuse[l[i]] = slabObjs,
         NEW s \in SlabIds \ SlabSet(l), SlabTakeNew(l, s)
  PROVE  /\ slabList' \in SlabList /\ slabInuse' \in SlabUse /\ firstNotFull' \in SlabIds
         /\ SlabSorted(slabList', slabInuse') /\ SlabFirst(slabList', slabInuse', firstNotFull')
         /\ SlabEmptyIn(slabList', slabInuse') = {}
<1> DEFINE N == Len(l)
<1>1. /\ slabList' = Append(l, s) /\ slabInuse' = [slabInuse EXCEPT ![s] = 1] /\ firstNotFull' = s
  BY DEF SlabTakeNew
<1>2. /\ N \in Nat /\ DOMAIN l = 1 .. N /\ \A i \in 1 .. N : l[i] \in SlabIds
  BY LenProperties, ElementOfSeq DEF SlabList
<1>3. /\ slabList' \in SlabList /\ DOMAIN slabList' = 1 .. N + 1
      /\ \A i \in 1 .. N + 1 : slabList'[i] = IF i <= N THEN l[i] ELSE s
  BY <1>1, Appended DEF SlabList
<1>4. slabObjs \in Nat /\ slabObjs > 1
  BY SlabAssumption
<1>5. /\ slabInuse' \in SlabUse /\ slabInuse'[s] = 1
      /\ \A x \in SlabIds : x # s => slabInuse'[x] = slabInuse[x]
  BY <1>1, <1>4 DEF SlabUse
<1>6. \A i \in 1 .. N : l[i] # s /\ slabInuse'[l[i]] = slabObjs
  BY <1>2, <1>5 DEF SlabSet
<1>7. SlabSorted(slabList', slabInuse')
  <2> SUFFICES ASSUME NEW a \in 1 .. N + 1, NEW b \in 1 .. N + 1, a < b
               PROVE  /\ slabList'[a] # slabList'[b]
                      /\ SlabRank(slabInuse', slabList'[a]) <= SlabRank(slabInuse', slabList'[b])
    BY <1>3 DEF SlabSorted
  <2>1. a \in 1 .. N /\ slabList'[a] = l[a] /\ slabInuse'[l[a]] = slabObjs
    BY <1>2, <1>3, <1>6
  <2>2. SlabRank(slabInuse', slabList'[a]) = 0 /\ SlabRank(slabInuse', slabList'[b]) \in {0, 1, 2}
    BY <2>1 DEF SlabRank
  <2>3. CASE b = N + 1
    BY <1>2, <1>3, <1>6, <2>1, <2>2, <2>3
  <2>4. CASE b # N + 1
    <3>1. b \in 1 .. N /\ slabList'[b] = l[b]
      BY <1>2, <1>3, <2>4
    <3> QED
      BY <2>1, <2>2, <3>1 DEF SlabDistinct
  <2> QED
    BY <2>3, <2>4
<1>8. SlabFirst(slabList', slabInuse', firstNotFull')
  <2>1. N + 1 \in DOMAIN slabList' /\ firstNotFull' = slabList'[N + 1]
    BY <1>1, <1>2, <1>3
  <2>2. \A j \in 1 .. (N + 1) - 1 : slabInuse'[slabList'[j]] = slabObjs
    BY <1>2, <1>3, <1>6
  <2> QED
    BY <1>1, <1>4, <1>5, <2>1, <2>2 DEF SlabFirst
<1>9. SlabEmptyIn(slabList', slabInuse') = {}
  <2>1. \A i \in 1 .. N + 1 : slabInuse'[slabList'[i]] # 0
    BY <1>2, <1>3, <1>4, <1>5, <1>6
  <2> QED
    BY <1>3, <2>1 DEF SlabEmptyIn, SlabSet
<1> QED
  BY <1>1, <1>3, <1>5, <1>7, <1>8, <1>9

\* A new slab is made only when every slab on the list is full.
LEMMA SlabHeadFirst ==
  ASSUME SlabInv, slabBroken = "no", firstNotFull = SlabHead
  PROVE  /\ \A i \in 1 .. Len(slabList) : slabInuse[slabList[i]] = slabObjs
         /\ numFreeSlabs = 2 * slabLost
<1>1. \A i \in 1 .. Len(slabList) : slabInuse[slabList[i]] = slabObjs
  BY SlabFacts, SlabAssumption DEF SlabFirst
<1>2. SlabEmptyIn(slabList, slabInuse) = {}
  BY <1>1, SlabFacts, SlabAllFull
<1>3. Cardinality(SlabEmptyIn(slabList, slabInuse)) = 0
  BY <1>2, FS_EmptySet, Zenon
<1> QED
  BY <1>1, <1>3, SlabFacts

\* allocObj makes a new slab, the first and only one with room.
LEMMA SlabAllocNewInv ==
  ASSUME SlabInv, SlabAllocNew
  PROVE  SlabInv'
<1>1. slabBroken = "no" /\ firstNotFull = SlabHead
      /\ UNCHANGED <<numFreeSlabs, slabLost, slabBroken>>
  BY DEF SlabAllocNew
<1>2. PICK s \in SlabIds \ SlabSet(slabList) : SlabTakeNew(slabList, s)
  BY DEF SlabAllocNew
<1>3. /\ slabList' \in SlabList /\ slabInuse' \in SlabUse /\ firstNotFull' \in SlabIds
      /\ SlabSorted(slabList', slabInuse') /\ SlabFirst(slabList', slabInuse', firstNotFull')
      /\ SlabEmptyIn(slabList', slabInuse') = {}
  BY <1>1, <1>2, SlabFacts, SlabHeadFirst, SlabTakeNewOrder
<1>4. numFreeSlabs' = Cardinality(SlabEmptyIn(slabList', slabInuse')) + 2 * slabLost'
  <2>1. Cardinality(SlabEmptyIn(slabList', slabInuse')) = 0
    BY <1>3, FS_EmptySet, Zenon
  <2> QED
    BY <1>1, <2>1, SlabFacts, SlabHeadFirst
<1>5. SlabTypeOK'
  BY <1>1, <1>3, SlabFacts DEF SlabTypeOK, SlabList, SlabUse
<1> QED
  BY <1>1, <1>3, <1>4, <1>5, SlabInvNext

\* With every slab full reclaim frees nothing here, whatever the other caches free.
LEMMA SlabAllocNoMemoryInv ==
  ASSUME SlabInv, SlabAllocNoMemory
  PROVE  SlabInv'
<1> DEFINE r == SlabReclaim(slabList, slabInuse, firstNotFull, SlabAll)
<1>1. slabBroken = "no" /\ firstNotFull = SlabHead
  BY DEF SlabAllocNoMemory
<1>2. /\ r.freed \in 0 .. Len(slabList) /\ r.list = SubSeq(slabList, 1, Len(slabList) - r.freed)
      /\ \A k \in Len(slabList) - r.freed + 1 .. Len(slabList) : slabInuse[slabList[k]] = 0
      /\ r.first = SlabHead
  <2>1. SlabAll \in Nat /\ slabList \in SlabList
    BY <1>1, SlabFacts DEF SlabAll
  <2>2. r.freed \in 0 .. Len(slabList) /\ r.list = SubSeq(slabList, 1, Len(slabList) - r.freed)
    BY <2>1, SlabReclaimIs
  <2>3. \A k \in Len(slabList) - r.freed + 1 .. Len(slabList) : slabInuse[slabList[k]] = 0
    BY <2>1, SlabReclaimIs
  <2>4. r.first = SlabHead
    BY <1>1, <2>1, SlabReclaimIs
  <2> HIDE DEF r
  <2> QED
    BY <2>2, <2>3, <2>4
<1> HIDE DEF r
<1>3. r.freed = 0 /\ r.list = slabList
  <2>1. Len(slabList) \in Nat /\ slabList \in SlabList
    BY <1>1, SlabFacts
  <2>2. r.freed = 0
    <3>1. SUFFICES ASSUME r.freed # 0 PROVE FALSE
      OBVIOUS
    <3>2. Len(slabList) \in Len(slabList) - r.freed + 1 .. Len(slabList) /\ Len(slabList) \in 1 .. Len(slabList)
      BY <1>2, <2>1, <3>1
    <3> QED
      BY <1>1, <1>2, <3>2, SlabHeadFirst, SlabAssumption
  <2> QED
    BY <1>2, <2>1, <2>2, SubSeqFull DEF SlabList
<1>4. \/ /\ slabBroken' = "null"
         /\ UNCHANGED <<slabList, slabInuse, firstNotFull, numFreeSlabs, slabLost>>
      \/ UNCHANGED slabVars
      \/ /\ UNCHANGED <<numFreeSlabs, slabLost, slabBroken>>
         /\ \E s \in SlabIds \ SlabSet(slabList) : SlabTakeNew(slabList, s)
  <2>1. \/ /\ slabBroken' = "null"
           /\ UNCHANGED <<slabList, slabInuse, firstNotFull, numFreeSlabs, slabLost>>
        \/ /\ slabBroken' = "no"
           /\ \/ SlabReclaimed(r) /\ UNCHANGED slabInuse
              \/ /\ \E s \in SlabIds \ SlabSet(r.list) : SlabTakeNew(r.list, s)
                 /\ numFreeSlabs' = numFreeSlabs + r.freed
                 /\ slabLost' = slabLost + r.freed
    BY DEF SlabAllocNoMemory, r
  <2>2. numFreeSlabs + r.freed = numFreeSlabs /\ slabLost + r.freed = slabLost
    BY <1>1, <1>3, SlabFacts
  <2>3. CASE slabBroken' = "no" /\ SlabReclaimed(r) /\ UNCHANGED slabInuse
    BY <1>1, <1>2, <1>3, <2>2, <2>3 DEF SlabReclaimed, slabVars
  <2> QED
    BY <1>1, <1>3, <2>1, <2>2, <2>3
<1>5. CASE slabBroken' = "null" /\ UNCHANGED <<slabList, slabInuse, firstNotFull, numFreeSlabs, slabLost>>
  BY <1>5 DEF SlabInv, SlabTypeOK, SlabKept, SlabOrder, SlabAccounts
<1>6. CASE UNCHANGED slabVars
  BY <1>6 DEF slabVars, SlabInv, SlabTypeOK, SlabKept, SlabOrder, SlabAccounts, SlabEmpties,
              SlabSorted, SlabRank, SlabFirst, SlabSet
<1>7. CASE UNCHANGED <<numFreeSlabs, slabLost, slabBroken>>
           /\ \E s \in SlabIds \ SlabSet(slabList) : SlabTakeNew(slabList, s)
  BY <1>1, <1>7, SlabAllocNewInv DEF SlabAllocNew
<1> QED
  BY <1>4, <1>5, <1>6, <1>7

\* When another cache is out of memory the empty slabs go, and firstNotFull with them
\* when only full slabs are left.
LEMMA SlabReclaimAllInv ==
  ASSUME SlabInv, SlabReclaimAll
  PROVE  SlabInv'
<1> DEFINE r == SlabReclaim(slabList, slabInuse, firstNotFull, SlabAll)
           N == Len(slabList)
<1>1. /\ slabBroken = "no" /\ slabLost + r.freed <= SlabMaxLost
      /\ slabList' = r.list /\ firstNotFull' = r.first
      /\ numFreeSlabs' = numFreeSlabs + r.freed /\ slabLost' = slabLost + r.freed
      /\ slabInuse' = slabInuse /\ slabBroken' = slabBroken
  BY DEF SlabReclaimAll, SlabReclaimed
<1>2. /\ slabList \in SlabList /\ N \in Nat /\ DOMAIN slabList = 1 .. N
      /\ \A i \in 1 .. N : slabList[i] \in SlabIds
      /\ slabInuse \in SlabUse /\ firstNotFull \in SlabIds \cup {SlabHead}
      /\ numFreeSlabs \in Int /\ slabLost \in 0 .. SlabMaxLost
      /\ SlabDistinct(slabList) /\ SlabSorted(slabList, slabInuse)
      /\ SlabFirst(slabList, slabInuse, firstNotFull)
      /\ numFreeSlabs = Cardinality(SlabEmptyIn(slabList, slabInuse)) + 2 * slabLost
  BY <1>1, SlabFacts
<1>3. /\ r.freed \in 0 .. N
      /\ \A k \in N - r.freed + 1 .. N : slabInuse[slabList[k]] = 0
      /\ r.list \in SlabList /\ Len(r.list) = N - r.freed
      /\ \A i \in 1 .. N - r.freed : r.list[i] = slabList[i]
      /\ firstNotFull = SlabHead \/ firstNotFull \in SlabSet(r.list) => r.first = firstNotFull
      /\ (/\ firstNotFull # SlabHead /\ firstNotFull \notin SlabSet(r.list)
          /\ \A i \in 1 .. N - r.freed : slabInuse[slabList[i]] = slabObjs)
         => r.first = SlabHead
  <2>1. SlabAll \in Nat /\ slabList \in SlabList
    BY <1>2 DEF SlabAll
  <2>2. /\ r.freed \in 0 .. Len(slabList)
        /\ \A k \in Len(slabList) - r.freed + 1 .. Len(slabList) : slabInuse[slabList[k]] = 0
        /\ r.list \in SlabList /\ Len(r.list) = Len(slabList) - r.freed
        /\ \A i \in 1 .. Len(slabList) - r.freed : r.list[i] = slabList[i]
    BY <2>1, SlabReclaimIs
  <2>3. firstNotFull = SlabHead \/ firstNotFull \in SlabSet(r.list) => r.first = firstNotFull
    BY <2>1, SlabReclaimIs
  <2>4. (/\ firstNotFull # SlabHead /\ firstNotFull \notin SlabSet(r.list)
         /\ \A i \in 1 .. Len(slabList) - r.freed : slabInuse[slabList[i]] = slabObjs)
        => r.first = SlabHead
    BY <2>1, SlabReclaimIs
  <2> HIDE DEF r
  <2> QED
    BY <2>2, <2>3, <2>4
<1> HIDE DEF r, N
<1>4. /\ DOMAIN r.list = 1 .. N - r.freed /\ r.freed \in Nat /\ N \in Nat
      /\ \A i \in 1 .. N - r.freed : i \in 1 .. N
  BY <1>2, <1>3, LenProperties DEF SlabList
<1>5. SlabSorted(r.list, slabInuse)
  <2> SUFFICES ASSUME NEW a \in 1 .. N - r.freed, NEW b \in 1 .. N - r.freed, a < b
               PROVE  /\ r.list[a] # r.list[b]
                      /\ SlabRank(slabInuse, r.list[a]) <= SlabRank(slabInuse, r.list[b])
    BY <1>4 DEF SlabSorted
  <2>1. a \in DOMAIN slabList /\ b \in DOMAIN slabList
    BY <1>2, <1>4
  <2>2. r.list[a] = slabList[a] /\ r.list[b] = slabList[b]
    BY <1>3
  <2> QED
    BY <1>2, <2>1, <2>2 DEF SlabSorted
<1>6. SlabFirst(slabList', slabInuse', firstNotFull') /\ firstNotFull' \in SlabIds \cup {SlabHead}
  <2>1. CASE firstNotFull = SlabHead
    <3>1. \A i \in 1 .. N : slabInuse[slabList[i]] = slabObjs
      BY <1>2, <2>1, SlabAssumption DEF SlabFirst
    <3>2. firstNotFull' = SlabHead
      BY <1>1, <1>3, <2>1
    <3>3. \A i \in DOMAIN r.list : slabInuse[r.list[i]] = slabObjs
      BY <1>3, <1>4, <3>1
    <3> QED
      BY <1>1, <3>2, <3>3 DEF SlabFirst
  <2>2. CASE firstNotFull # SlabHead
    <3>1. PICK i \in 1 .. N : /\ firstNotFull = slabList[i] /\ slabInuse[slabList[i]] < slabObjs
                              /\ \A j \in 1 .. i - 1 : slabInuse[slabList[j]] = slabObjs
      BY <1>2, <2>2 DEF SlabFirst
    <3>2. CASE i <= N - r.freed
      <4>1. i \in 1 .. N - r.freed /\ r.list[i] = slabList[i]
        BY <1>2, <1>3, <1>4, <3>2
      <4>2. firstNotFull \in SlabSet(r.list)
        BY <1>4, <3>1, <4>1 DEF SlabSet
      <4>3. firstNotFull' = r.list[i] /\ slabInuse'[r.list[i]] < slabObjs
        BY <1>1, <1>3, <3>1, <4>1, <4>2
      <4>4. \A j \in 1 .. i - 1 : slabInuse'[r.list[j]] = slabObjs
        <5> SUFFICES ASSUME NEW j \in 1 .. i - 1 PROVE slabInuse'[r.list[j]] = slabObjs
          OBVIOUS
        <5>1. j \in 1 .. N - r.freed
          BY <1>4, <4>1, <3>2
        <5>2. r.list[j] = slabList[j]
          BY <1>3, <5>1
        <5>3. slabInuse[slabList[j]] = slabObjs
          BY <3>1
        <5> QED
          BY <1>1, <5>2, <5>3
      <4> QED
        BY <1>1, <1>2, <1>3, <1>4, <4>1, <4>2, <4>3, <4>4 DEF SlabFirst
    <3>3. CASE ~ (i <= N - r.freed)
      <4>1. \A j \in 1 .. N - r.freed : slabInuse[slabList[j]] = slabObjs
        BY <1>2, <1>4, <3>1, <3>3
      <4>2. \A j \in 1 .. N - r.freed : r.list[j] # firstNotFull
        BY <1>2, <1>3, <1>4, <3>1, <3>3 DEF SlabDistinct, N
      <4>3. firstNotFull' = SlabHead
        BY <1>1, <1>3, <1>4, <2>2, <4>1, <4>2 DEF SlabSet
      <4> QED
        BY <1>1, <1>3, <1>4, <4>1, <4>3 DEF SlabFirst
    <3> QED
      BY <3>2, <3>3
  <2> QED
    BY <2>1, <2>2
<1>7. numFreeSlabs' = Cardinality(SlabEmptyIn(slabList', slabInuse')) + 2 * slabLost'
  <2>1. Cardinality(SlabEmptyIn(slabList, slabInuse)) =
          Cardinality(SlabEmptyIn(r.list, slabInuse)) + r.freed
    BY <1>2, <1>3, SlabCut DEF N
  <2>2. Cardinality(SlabEmptyIn(r.list, slabInuse)) \in Nat
    <3>1. SlabDistinct(r.list)
      BY <1>2, <1>3, <1>4 DEF SlabDistinct, N
    <3> QED
      BY <1>3, <3>1, SlabEmptyFinite
  <2> DEFINE a == Cardinality(SlabEmptyIn(slabList, slabInuse))
             b == Cardinality(SlabEmptyIn(r.list, slabInuse))
             c == r.freed
             d == slabLost
  <2>3. b \in Nat /\ c \in Nat /\ d \in Nat /\ a = b + c
    BY <1>2, <1>4, <2>1, <2>2
  <2>4. numFreeSlabs' = (a + 2 * d) + c /\ slabLost' = d + c
    BY <1>1, <1>2
  <2>5. Cardinality(SlabEmptyIn(slabList', slabInuse')) = b
    BY <1>1
  <2> HIDE DEF a, b, c, d
  <2> QED
    BY <2>3, <2>4, <2>5
<1>8. SlabTypeOK'
  <2>1. numFreeSlabs' \in Int
    BY <1>1, <1>2, <1>4
  <2>2. slabLost' \in 0 .. SlabMaxLost
    BY <1>1, <1>2, <1>4, SlabAssumption
  <2>3. slabList' \in SlabList /\ slabInuse' \in SlabUse /\ slabBroken' = "no"
    BY <1>1, <1>2, <1>3
  <2> QED
    BY <1>6, <2>1, <2>2, <2>3 DEF SlabTypeOK, SlabList, SlabUse
<1>9. SlabSorted(slabList', slabInuse')
  BY <1>1, <1>5
<1> QED
  BY <1>1, <1>9, <1>6, <1>7, <1>8, SlabInvNext

\* A slab with some objects in use and room for others stays where it is.
LEMMA SlabFreeOneInv ==
  ASSUME SlabInv, NEW s \in SlabSet(slabList), SlabFreeOne(s)
  PROVE  SlabInv'
<1>1. /\ slabBroken = "no" /\ slabInuse[s] \in 2 .. slabObjs - 1
      /\ slabInuse' = [slabInuse EXCEPT ![s] = slabInuse[s] - 1]
      /\ slabList' = slabList /\ firstNotFull' = firstNotFull /\ numFreeSlabs' = numFreeSlabs
      /\ slabLost' = slabLost /\ slabBroken' = slabBroken
  BY DEF SlabFreeOne
<1>2. /\ DOMAIN slabList = 1 .. Len(slabList) /\ Len(slabList) \in Nat
      /\ \A i \in 1 .. Len(slabList) : slabList[i] \in SlabIds
      /\ slabInuse \in SlabUse /\ SlabSorted(slabList, slabInuse)
      /\ SlabFirst(slabList, slabInuse, firstNotFull) /\ slabList \in SlabList
      /\ numFreeSlabs = Cardinality(SlabEmptyIn(slabList, slabInuse)) + 2 * slabLost
  BY <1>1, SlabFacts
<1>3. s \in SlabIds /\ slabObjs \in Nat
  BY <1>2, SlabAssumption DEF SlabSet
<1>4. /\ slabInuse' \in SlabUse /\ slabInuse'[s] \in 1 .. slabObjs - 2
      /\ \A x \in SlabIds : x # s => slabInuse'[x] = slabInuse[x]
  BY <1>1, <1>2, <1>3 DEF SlabUse
<1>5. /\ slabList' = slabList /\ firstNotFull' = firstNotFull /\ numFreeSlabs' = numFreeSlabs
      /\ slabLost' = slabLost /\ slabBroken' = slabBroken
  BY <1>1
<1>6. \A x \in SlabIds : /\ SlabRank(slabInuse', x) = SlabRank(slabInuse, x)
                         /\ slabInuse'[x] = slabObjs <=> slabInuse[x] = slabObjs
                         /\ slabInuse'[x] < slabObjs <=> slabInuse[x] < slabObjs
                         /\ slabInuse'[x] = 0 <=> slabInuse[x] = 0
  BY <1>1, <1>3, <1>4 DEF SlabRank
<1>7. SlabSorted(slabList', slabInuse') /\ SlabFirst(slabList', slabInuse', firstNotFull')
  <2>1. SlabSorted(slabList', slabInuse')
    BY <1>2, <1>5, <1>6 DEF SlabSorted
  <2>2. \A i \in 1 .. Len(slabList) :
           /\ slabInuse'[slabList[i]] = slabObjs <=> slabInuse[slabList[i]] = slabObjs
           /\ slabInuse'[slabList[i]] < slabObjs <=> slabInuse[slabList[i]] < slabObjs
    BY <1>2, <1>6
  <2>3. CASE firstNotFull = SlabHead
    <3>1. \A i \in 1 .. Len(slabList) : slabInuse'[slabList[i]] = slabObjs
      BY <1>1, <2>2, <2>3, SlabHeadFirst
    <3> QED
      BY <1>2, <1>5, <2>1, <2>3, <3>1 DEF SlabFirst
  <2>4. CASE firstNotFull # SlabHead
    <3>1. PICK i \in 1 .. Len(slabList) :
                 /\ firstNotFull = slabList[i] /\ slabInuse[slabList[i]] < slabObjs
                 /\ \A j \in 1 .. i - 1 : slabInuse[slabList[j]] = slabObjs
      BY <1>2, <2>4 DEF SlabFirst
    <3>2. \A j \in 1 .. i - 1 : slabInuse'[slabList[j]] = slabObjs
      BY <1>2, <2>2, <3>1
    <3>3. /\ i \in DOMAIN slabList' /\ firstNotFull' = slabList'[i]
          /\ slabInuse'[slabList'[i]] < slabObjs
          /\ \A j \in 1 .. i - 1 : slabInuse'[slabList'[j]] = slabObjs
      BY <1>2, <1>5, <2>2, <3>1, <3>2
    <3> QED
      BY <2>1, <3>3 DEF SlabFirst
  <2> QED
    BY <2>1, <2>3, <2>4
<1>8. SlabEmptyIn(slabList', slabInuse') = SlabEmptyIn(slabList, slabInuse)
  BY <1>2, <1>5, <1>6 DEF SlabEmptyIn, SlabSet
<1>9. numFreeSlabs' = Cardinality(SlabEmptyIn(slabList', slabInuse')) + 2 * slabLost'
  <2>1. Cardinality(SlabEmptyIn(slabList', slabInuse')) = Cardinality(SlabEmptyIn(slabList, slabInuse))
    BY <1>8, Zenon
  <2> QED
    BY <1>1, <1>2, <2>1
<1>10. SlabTypeOK'
  BY <1>1, <1>4 DEF SlabInv, SlabTypeOK, SlabUse
<1> QED
  BY <1>1, <1>7, <1>9, <1>10, SlabInvNext

\* A full slab that gets room becomes the first with room: it goes right before the one
\* that was, to the tail when there was none, or stays when it is there already.
LEMMA SlabFreeFullInv ==
  ASSUME SlabInv, NEW s \in SlabSet(slabList), SlabFreeFull(s)
  PROVE  SlabInv'
<1> DEFINE l == slabList  u == slabInuse  N == Len(slabList)
<1>1. /\ slabBroken = "no" /\ u[s] = slabObjs
      /\ slabInuse' = [u EXCEPT ![s] = u[s] - 1] /\ firstNotFull' = s
      /\ slabList' = IF SlabNextOf(l, s) = firstNotFull THEN l
                     ELSE SlabAdd(SlabRemove(l, s), firstNotFull, s)
      /\ numFreeSlabs' = numFreeSlabs /\ slabLost' = slabLost /\ slabBroken' = slabBroken
  BY DEF SlabFreeFull
<1>2. /\ l \in SlabList /\ N \in Nat /\ DOMAIN l = 1 .. N
      /\ \A i \in 1 .. N : l[i] \in SlabIds
      /\ u \in SlabUse /\ numFreeSlabs \in Int
      /\ SlabDistinct(l) /\ SlabSorted(l, u) /\ SlabFirst(l, u, firstNotFull)
      /\ numFreeSlabs = Cardinality(SlabEmptyIn(l, u)) + 2 * slabLost
  BY <1>1, SlabFacts
<1>3. N \in Nat /\ 1 .. N = DOMAIN l
  BY <1>2
<1>4. PICK k \in 1 .. N : s = l[k]
  BY <1>2 DEF SlabSet
<1>5. s \in SlabIds /\ slabObjs \in Nat /\ slabObjs > 1
  BY <1>2, <1>4, SlabAssumption
<1>6. /\ slabInuse' \in SlabUse /\ slabInuse'[s] = slabObjs - 1
      /\ \A x \in SlabIds : x # s => slabInuse'[x] = u[x]
  BY <1>1, <1>2, <1>5 DEF SlabUse
<1>7. \A i \in 1 .. N : i # k => l[i] # s /\ slabInuse'[l[i]] = u[l[i]]
  BY <1>2, <1>4, <1>6 DEF SlabDistinct
\* What remains: where s is, with the full slabs before it and the others after it.
<1>8. ASSUME slabList' \in SlabList, Len(slabList') = N, NEW q \in 1 .. N, slabList'[q] = s,
             k <= q,
             \A i \in 1 .. N : slabList'[i] = IF i < k THEN l[i] ELSE IF i < q THEN l[i + 1]
                                             ELSE IF i = q THEN s ELSE l[i],
             \A i \in 1 .. q : u[l[i]] = slabObjs,
             \A i \in q + 1 .. N : u[l[i]] < slabObjs
      PROVE  SlabInv'
  <2>1. DOMAIN slabList' = 1 .. N
    BY <1>8, LenProperties DEF SlabList
  <2>2. \A i \in 1 .. q - 1 : slabList'[i] \in SlabIds /\ slabInuse'[slabList'[i]] = slabObjs
    <3> SUFFICES ASSUME NEW i \in 1 .. q - 1
                 PROVE  slabList'[i] \in SlabIds /\ slabInuse'[slabList'[i]] = slabObjs
      OBVIOUS
    <3>1. CASE i < k
      <4>1. i \in 1 .. N /\ i \in 1 .. q /\ i # k /\ slabList'[i] = l[i]
        BY <1>2, <1>8, <3>1
      <4> QED
        BY <1>2, <1>7, <1>8, <4>1
    <3>2. CASE ~ (i < k)
      <4>1. i \in 1 .. N /\ i + 1 \in 1 .. N /\ i + 1 \in 1 .. q /\ i + 1 # k
            /\ ~ (i < k) /\ i < q
        BY <1>2, <3>2
      <4>2. slabList'[i] = l[i + 1]
        BY <1>8, <4>1
      <4> QED
        BY <1>2, <1>7, <1>8, <4>1, <4>2
    <3> QED
      BY <3>1, <3>2
  <2>3. \A i \in q + 1 .. N : slabList'[i] = l[i] /\ slabInuse'[l[i]] = u[l[i]]
    <3> SUFFICES ASSUME NEW i \in q + 1 .. N
                 PROVE  slabList'[i] = l[i] /\ slabInuse'[l[i]] = u[l[i]]
      OBVIOUS
    <3>1. i \in 1 .. N /\ i # k /\ ~ (i < k) /\ ~ (i < q) /\ i # q
      BY <1>2, <1>8
    <3> QED
      BY <1>7, <1>8, <3>1
  <2>4. SlabFirst(slabList', slabInuse', firstNotFull')
    BY <1>1, <1>5, <1>6, <1>8, <2>1, <2>2 DEF SlabFirst
  <2>5. SlabDistinct(slabList')
    <3> SUFFICES ASSUME NEW a \in 1 .. N, NEW b \in 1 .. N, a < b
                 PROVE  slabList'[a] # slabList'[b]
      BY <1>8 DEF SlabDistinct
    <3> DEFINE from(i) == IF i < k THEN i ELSE IF i < q THEN i + 1 ELSE IF i = q THEN k ELSE i
    <3>1. from(a) \in 1 .. N /\ from(b) \in 1 .. N /\ from(a) # from(b)
      BY <1>2, <1>8
    <3>2. slabList'[a] = l[from(a)] /\ slabList'[b] = l[from(b)]
      BY <1>4, <1>8
    <3> HIDE DEF from
    <3> QED
      BY <1>2, <3>1, <3>2 DEF SlabDistinct
  <2>6. SlabSorted(slabList', slabInuse')
    <3> SUFFICES ASSUME NEW a \in 1 .. N, NEW b \in 1 .. N, a < b
                 PROVE  SlabRank(slabInuse', slabList'[a]) <= SlabRank(slabInuse', slabList'[b])
      BY <1>8, <2>1, <2>5 DEF SlabSorted, SlabDistinct
    <3>1. SlabRank(slabInuse', slabList'[b]) \in {0, 1, 2}
      BY DEF SlabRank
    <3>2. CASE a < q
      BY <1>8, <2>2, <3>1, <3>2 DEF SlabRank
    <3>3. CASE a = q
      <4>1. b \in q + 1 .. N
        BY <1>2, <1>8, <3>3
      <4>2. slabInuse'[slabList'[b]] # slabObjs
        BY <1>8, <2>3, <4>1, <1>5
      <4>3. SlabRank(slabInuse', slabList'[b]) >= 1
        BY <4>2 DEF SlabRank
      <4>4. SlabRank(slabInuse', s) = 1
        BY <1>5, <1>6 DEF SlabRank
      <4> QED
        BY <1>8, <3>1, <3>3, <4>3, <4>4
    <3>4. CASE a > q
      <4>1. a \in q + 1 .. N /\ b \in q + 1 .. N
        BY <1>2, <1>8, <3>4
      <4>2. SlabRank(u, l[a]) <= SlabRank(u, l[b])
        BY <1>2 DEF SlabSorted
      <4> QED
        BY <2>3, <4>1, <4>2 DEF SlabRank
    <3> QED
      BY <1>2, <1>8, <3>2, <3>3, <3>4
  <2>7. SlabEmptyIn(slabList', slabInuse') = SlabEmptyIn(l, u)
    <3>1. ASSUME NEW i \in 1 .. N, slabInuse'[slabList'[i]] = 0
          PROVE  i \in q + 1 .. N
      <4>1. i \notin 1 .. q - 1
        BY <1>5, <2>2, <3>1
      <4>2. i # q
        BY <1>5, <1>6, <1>8, <3>1
      <4>3. q \in Int /\ N \in Int /\ i \in Int /\ 1 <= i /\ i <= N
        BY <1>2, <1>8
      <4> QED
        BY <4>1, <4>2, <4>3
    <3>2. ASSUME NEW i \in 1 .. N, u[l[i]] = 0
          PROVE  i \in q + 1 .. N
      <4>1. i \notin 1 .. q
        BY <1>5, <1>8, <3>2
      <4>2. q \in Int /\ N \in Int /\ i \in Int /\ 1 <= i /\ i <= N
        BY <1>2, <1>8
      <4> QED
        BY <4>1, <4>2
    <3>3. \A i \in q + 1 .. N : i \in 1 .. N
      BY <1>2, <1>8
    <3>4. SlabEmptyIn(l, u) = {l[i] : i \in {j \in q + 1 .. N : u[l[j]] = 0}}
      BY <1>2, <3>2, <3>3 DEF SlabEmptyIn, SlabSet
    <3>5. SlabEmptyIn(slabList', slabInuse') = {l[i] : i \in {j \in q + 1 .. N : u[l[j]] = 0}}
      BY <1>2, <2>1, <2>3, <3>1, <3>3 DEF SlabEmptyIn, SlabSet
    <3> QED
      BY <3>4, <3>5
  <2>8. numFreeSlabs' = Cardinality(SlabEmptyIn(slabList', slabInuse')) + 2 * slabLost'
    <3>1. Cardinality(SlabEmptyIn(slabList', slabInuse')) = Cardinality(SlabEmptyIn(l, u))
      BY <2>7, Zenon
    <3> QED
      BY <1>1, <1>2, <3>1
  <2>9. SlabTypeOK'
    BY <1>1, <1>5, <1>6, <1>8 DEF SlabInv, SlabTypeOK, SlabList, SlabUse
  <2> QED
    BY <1>1, <2>4, <2>6, <2>8, <2>9, SlabInvNext
<1>9. SlabAt(l, s) = k /\ SlabNextOf(l, s) = IF k = N THEN SlabHead ELSE l[k + 1]
  <2>1. SlabAt(l, s) = k
    BY <1>2, <1>4, SlabPlace
  <2>2. l # <<>> /\ s # SlabHead
    BY <1>2, <1>4, <1>5, SlabAssumption
  <2> QED
    BY <2>1, <2>2 DEF SlabNextOf
<1>10. SlabRemove(l, s) = RemoveAt(l, k)
  BY <1>9 DEF SlabRemove
<1>11. /\ RemoveAt(l, k) \in SlabList /\ Len(RemoveAt(l, k)) = N - 1
       /\ \A i \in 1 .. N - 1 : RemoveAt(l, k)[i] = IF i < k THEN l[i] ELSE l[i + 1]
  BY <1>2, Removed DEF SlabList
<1>12. CASE firstNotFull = SlabHead
  <2>1. \A i \in 1 .. N : u[l[i]] = slabObjs
    BY <1>2, <1>12, SlabAssumption DEF SlabFirst
  <2>2. CASE k = N
    <3>1. slabList' = l
      BY <1>1, <1>9, <1>12, <2>2
    <3>2. slabList' \in SlabList /\ Len(slabList') = N
      BY <1>2, <3>1
    <3>3. /\ N \in 1 .. N /\ slabList'[N] = s /\ k <= N
          /\ \A i \in 1 .. N : slabList'[i] = IF i < k THEN l[i] ELSE IF i < N THEN l[i + 1]
                                              ELSE IF i = N THEN s ELSE l[i]
          /\ \A i \in N + 1 .. N : u[l[i]] < slabObjs
      BY <1>3, <1>4, <2>2, <3>1
    <3> QED
      BY <1>8, <2>1, <3>2, <3>3
  <2>3. CASE k # N
    <3>1. slabList' = Append(RemoveAt(l, k), s)
      <4>1. k + 1 \in 1 .. N
        BY <1>3, <2>3
      <4>2. l[k + 1] \in SlabIds
        BY <1>2, <4>1
      <4> QED
        BY <1>1, <1>2, <1>9, <1>10, <1>12, <2>3, <4>2, SlabAssumption DEF SlabAdd
    <3>2. /\ slabList' \in SlabList /\ Len(slabList') = N
          /\ \A i \in 1 .. N : slabList'[i] = IF i <= N - 1 THEN RemoveAt(l, k)[i] ELSE s
      <4>1. (N - 1) + 1 = N /\ RemoveAt(l, k) \in Seq(SlabIds)
        BY <1>3, <1>11 DEF SlabList
      <4> QED
        BY <1>5, <1>11, <3>1, <4>1, Appended DEF SlabList
    <3>3. /\ N \in 1 .. N /\ slabList'[N] = s /\ k <= N
          /\ \A i \in N + 1 .. N : u[l[i]] < slabObjs
      BY <1>2, <3>2
    <3>4. \A i \in 1 .. N : slabList'[i] = IF i < k THEN l[i] ELSE IF i < N THEN l[i + 1]
                                           ELSE IF i = N THEN s ELSE l[i]
      BY <1>3, <1>11, <3>2
    <3> QED
      BY <1>8, <2>1, <3>2, <3>3, <3>4
  <2> QED
    BY <2>2, <2>3
<1>13. CASE firstNotFull # SlabHead
  <2>1. PICK j \in 1 .. N : /\ firstNotFull = l[j] /\ u[l[j]] < slabObjs
                            /\ \A i \in 1 .. j - 1 : u[l[i]] = slabObjs
    BY <1>2, <1>13 DEF SlabFirst
  <2>2. \A i \in j .. N : u[l[i]] < slabObjs
    <3> SUFFICES ASSUME NEW i \in j .. N PROVE u[l[i]] < slabObjs
      OBVIOUS
    <3>1. CASE i = j
      BY <2>1, <3>1
    <3>2. CASE i # j
      <4>1. i \in 1 .. N /\ j < i /\ u[l[i]] \in 0 .. slabObjs /\ u[l[j]] \in 0 .. slabObjs
        BY <1>2, <3>2 DEF SlabUse
      <4>2. SlabRank(u, l[j]) <= SlabRank(u, l[i])
        BY <1>2, <4>1 DEF SlabSorted
      <4> QED
        BY <1>5, <2>1, <4>1, <4>2 DEF SlabRank
    <3> QED
      BY <3>1, <3>2
  <2>3. k < j
    BY <1>1, <1>2, <1>4, <1>5, <2>2
  <2>4. /\ j - 1 \in 1 .. N /\ k <= j - 1 /\ \A i \in 1 .. j - 1 : u[l[i]] = slabObjs
        /\ \A i \in (j - 1) + 1 .. N : u[l[i]] < slabObjs
    BY <1>2, <2>1, <2>2, <2>3
  <2>5. SlabNextOf(l, s) = l[k + 1] /\ k + 1 \in 1 .. N
    <3>1. k # N /\ k + 1 \in 1 .. N
      BY <1>3, <2>3
    <3> QED
      BY <1>9, <3>1
  <2>6. CASE j = k + 1
    <3>1. slabList' = l
      BY <1>1, <2>1, <2>5, <2>6
    <3>2. \A i \in 1 .. N : slabList'[i] = IF i < k THEN l[i] ELSE IF i < j - 1 THEN l[i + 1]
                                           ELSE IF i = j - 1 THEN s ELSE l[i]
      BY <1>2, <1>4, <2>6, <3>1
    <3>3. slabList'[j - 1] = s
      BY <1>2, <1>4, <2>6, <3>1
    <3> QED
      BY <1>2, <1>8, <2>4, <3>1, <3>2, <3>3
  <2>7. CASE j # k + 1
    <3>1. l[k + 1] # l[j]
      BY <1>2, <2>3, <2>5, <2>7 DEF SlabDistinct
    <3> DEFINE m == RemoveAt(l, k)
    <3>2. SlabAt(m, firstNotFull) = j - 1
      <4>1. j - 1 \in 1 .. Len(m) /\ m[j - 1] = l[j]
        BY <1>2, <1>11, <2>3, <2>7
      <4>2. SlabDistinct(m)
        <5> SUFFICES ASSUME NEW a \in 1 .. N - 1, NEW b \in 1 .. N - 1, a < b
                     PROVE  m[a] # m[b]
          BY <1>11 DEF SlabDistinct
        <5> DEFINE from(i) == IF i < k THEN i ELSE i + 1
        <5>1. from(a) \in 1 .. N /\ from(b) \in 1 .. N /\ from(a) < from(b)
          BY <1>2
        <5>2. m[a] = l[from(a)] /\ m[b] = l[from(b)]
          BY <1>11
        <5> HIDE DEF from, m
        <5> QED
          BY <1>2, <5>1, <5>2 DEF SlabDistinct
      <4> HIDE DEF m
      <4> QED
        BY <1>11, <2>1, <4>1, <4>2, SlabPlace DEF m
    <3>3. slabList' = InsertAt(m, j - 1, s)
      BY <1>1, <1>10, <1>13, <2>1, <2>5, <3>1, <3>2 DEF SlabAdd
    <3> HIDE DEF m
    <3>4. /\ slabList' \in SlabList /\ Len(slabList') = N
          /\ \A i \in 1 .. N :
               slabList'[i] = IF i < j - 1 THEN m[i] ELSE IF i = j - 1 THEN s ELSE m[i - 1]
      <4>1. j - 1 \in 1 .. Len(m) /\ m \in Seq(SlabIds) /\ Len(m) + 1 = N
        BY <1>2, <1>11, <2>3, <2>7 DEF m, SlabList
      <4> DEFINE q == j - 1
      <4>2. q \in 1 .. Len(m) /\ s \in SlabIds
        BY <1>5, <4>1
      <4> HIDE DEF q
      <4>3. /\ InsertAt(m, q, s) \in Seq(SlabIds) /\ Len(InsertAt(m, q, s)) = Len(m) + 1
            /\ \A i \in 1 .. Len(m) + 1 :
                 InsertAt(m, q, s)[i] = IF i < q THEN m[i] ELSE IF i = q THEN s ELSE m[i - 1]
        <5>1. IsInserted(SlabIds, m, q, s, InsertAt(m, q, s))
          BY <4>1, <4>2, Inserted
        <5> QED
          BY <5>1 DEF IsInserted
      <4>4. /\ InsertAt(m, j - 1, s) \in Seq(SlabIds) /\ Len(InsertAt(m, j - 1, s)) = Len(m) + 1
            /\ \A i \in 1 .. Len(m) + 1 :
                 InsertAt(m, j - 1, s)[i] = IF i < j - 1 THEN m[i] ELSE IF i = j - 1 THEN s ELSE m[i - 1]
        BY <4>3 DEF q
      <4> QED
        BY <3>3, <4>1, <4>4 DEF SlabList
    <3>5. \A i \in 1 .. N : slabList'[i] = IF i < k THEN l[i] ELSE IF i < j - 1 THEN l[i + 1]
                                           ELSE IF i = j - 1 THEN s ELSE l[i]
      <4> SUFFICES ASSUME NEW i \in 1 .. N
                   PROVE  slabList'[i] = IF i < k THEN l[i] ELSE IF i < j - 1 THEN l[i + 1]
                                         ELSE IF i = j - 1 THEN s ELSE l[i]
        OBVIOUS
      <4>1. CASE i < j - 1
        BY <1>2, <1>11, <2>3, <3>4, <4>1 DEF m
      <4>2. CASE i = j - 1
        BY <1>2, <2>3, <3>4, <4>2
      <4>3. CASE i > j - 1
        <5>1. i - 1 \in 1 .. N - 1 /\ ~ (i - 1 < k) /\ (i - 1) + 1 = i
          BY <1>2, <2>3, <4>3
        <5>2. m[i - 1] = l[i]
          BY <1>11, <5>1 DEF m
        <5> QED
          BY <1>2, <2>3, <3>4, <4>3, <5>2
      <4> QED
        BY <1>2, <4>1, <4>2, <4>3
    <3>6. slabList'[j - 1] = s
      BY <2>4, <3>4
    <3> QED
      BY <1>8, <2>4, <3>4, <3>5, <3>6
  <2> QED
    BY <2>6, <2>7
<1> QED
  BY <1>12, <1>13

\* The slab that is emptied goes to the tail.  Before that reclaim may free what is empty
\* at the tail, and reaches the slab in hand only when it was the last one in use and is asked
\* for all empty ones and more, which numFreeSlabs allows when enough were freed before.
LEMMA SlabFreeLastInv ==
  ASSUME SlabInv, NEW s \in SlabSet(slabList), SlabFreeLast(s)
  PROVE  SlabInv'
<1> DEFINE l == slabList  u == slabInuse  N == Len(slabList)
           v == [slabInuse EXCEPT ![s] = 0]
           n == numFreeSlabs + 1 - SlabMaxFree
           r == IF n > 0 THEN SlabReclaim(slabList, v, firstNotFull, n)
                ELSE [list |-> slabList, first |-> firstNotFull, freed |-> 0]
           t == SlabPrevOf(r.list, r.first)
           moved == Append(SlabRemove(r.list, s), s)
<1>1. /\ slabBroken = "no" /\ u[s] = 1 /\ slabLost + r.freed <= SlabMaxLost /\ slabInuse' = v
      /\ numFreeSlabs' = numFreeSlabs + 1 + r.freed /\ slabLost' = slabLost + r.freed
      /\ s \notin SlabSet(r.list) =>
           slabBroken' = "freed" /\ slabList' = r.list /\ firstNotFull' = r.first
      /\ s \in SlabSet(r.list) =>
           /\ slabBroken' = slabBroken /\ slabList' = moved
           /\ firstNotFull' = IF r.first = s THEN SlabNextOf(moved, t) ELSE r.first
  BY DEF SlabFreeLast
<1>2. /\ l \in SlabList /\ N \in Nat /\ DOMAIN l = 1 .. N
      /\ \A i \in 1 .. N : l[i] \in SlabIds
      /\ u \in SlabUse /\ numFreeSlabs \in Int /\ slabLost \in Nat
      /\ SlabDistinct(l) /\ SlabSorted(l, u) /\ SlabFirst(l, u, firstNotFull)
      /\ numFreeSlabs = Cardinality(SlabEmptyIn(l, u)) + 2 * slabLost
  BY <1>1, SlabFacts, SlabAssumption
<1>3. PICK k \in 1 .. N : s = l[k]
  BY <1>2 DEF SlabSet
<1>4. s \in SlabIds /\ slabObjs \in Nat /\ slabObjs > 1 /\ SlabMaxFree \in Nat /\ SlabMaxLost \in Nat
  BY <1>2, <1>3, SlabAssumption
<1>5. v \in SlabUse /\ v[s] = 0 /\ \A x \in SlabIds : x # s => v[x] = u[x]
  BY <1>2, <1>4 DEF SlabUse
<1>6. N \in Nat /\ 1 .. N = DOMAIN l
  BY <1>2
<1> HIDE DEF v
<1>7. /\ \A i \in 1 .. N : u[l[i]] \in 0 .. slabObjs
      /\ \A i \in 1 .. N : i # k => l[i] # s /\ v[l[i]] = u[l[i]]
      /\ \A i \in 1 .. k - 1 : u[l[i]] # 0
      /\ \A i \in k + 1 .. N : u[l[i]] # slabObjs
  <2>1. \A i \in 1 .. N : u[l[i]] \in 0 .. slabObjs
    BY <1>2 DEF SlabUse
  <2>2. \A i \in 1 .. N : i # k => l[i] # s /\ v[l[i]] = u[l[i]]
    BY <1>2, <1>3, <1>5 DEF SlabDistinct
  <2>3. SlabRank(u, s) = 1
    BY <1>1, <1>4 DEF SlabRank
  <2>4. ASSUME NEW i \in 1 .. k - 1 PROVE u[l[i]] # 0
    <3>1. i \in 1 .. N /\ i < k
      BY <1>6
    <3>2. SlabRank(u, l[i]) <= 1
      BY <1>2, <1>3, <2>3, <3>1 DEF SlabSorted
    <3> QED
      BY <1>4, <3>2 DEF SlabRank
  <2>5. ASSUME NEW i \in k + 1 .. N PROVE u[l[i]] # slabObjs
    <3>1. i \in 1 .. N /\ k < i
      BY <1>6
    <3>2. SlabRank(u, l[i]) >= 1
      BY <1>2, <1>3, <2>3, <3>1 DEF SlabSorted
    <3> QED
      BY <3>2 DEF SlabRank
  <2> QED
    BY <2>1, <2>2, <2>4, <2>5
<1>8. PICK j \in 1 .. k : /\ firstNotFull = l[j]
                          /\ \A i \in 1 .. j - 1 : u[l[i]] = slabObjs
  <2>1. ~ \A i \in DOMAIN l : u[l[i]] = slabObjs
    BY <1>1, <1>3, <1>4, <1>6
  <2>2. PICK j \in 1 .. N : firstNotFull = l[j] /\ \A i \in 1 .. j - 1 : u[l[i]] = slabObjs
    BY <1>2, <1>6, <2>1 DEF SlabFirst
  <2>3. j <= k
    <3>1. SUFFICES ASSUME k < j PROVE FALSE
      BY <1>6
    <3>2. k \in 1 .. j - 1
      BY <3>1
    <3> QED
      BY <1>1, <1>3, <1>4, <2>2, <3>2
  <2> QED
    BY <2>2, <2>3
<1>9. /\ r.freed \in 0 .. N /\ (r.freed # 0 => r.freed <= n)
      /\ \A i \in N - r.freed + 1 .. N : v[l[i]] = 0
      /\ r.list \in SlabList /\ Len(r.list) = N - r.freed
      /\ \A i \in 1 .. N - r.freed : r.list[i] = l[i]
      /\ firstNotFull \in SlabSet(r.list) => r.first = firstNotFull
      /\ (/\ firstNotFull # SlabHead /\ firstNotFull \notin SlabSet(r.list)
          /\ \A i \in 1 .. N - r.freed : v[l[i]] = slabObjs)
         => r.first = SlabHead
  <2>1. CASE n > 0
    <3> DEFINE q == SlabReclaim(l, v, firstNotFull, n)
    <3>1. r = q
      BY <2>1
    <3>2. n \in Nat /\ l \in SlabList
      BY <1>2, <1>4, <2>1
    <3> HIDE DEF n, r
    <3>3. /\ q.freed \in 0 .. Len(l) /\ q.freed <= n
          /\ \A i \in Len(l) - q.freed + 1 .. Len(l) : v[l[i]] = 0
          /\ q.list \in SlabList /\ Len(q.list) = Len(l) - q.freed
          /\ \A i \in 1 .. Len(l) - q.freed : q.list[i] = l[i]
      BY <3>2, SlabReclaimIs
    <3>4. firstNotFull \in SlabSet(q.list) => q.first = firstNotFull
      BY <3>2, SlabReclaimIs
    <3>5. (/\ firstNotFull # SlabHead /\ firstNotFull \notin SlabSet(q.list)
           /\ \A i \in 1 .. Len(l) - q.freed : v[l[i]] = slabObjs)
          => q.first = SlabHead
      BY <3>2, SlabReclaimIs
    <3> HIDE DEF q
    <3> QED
      BY <3>1, <3>3, <3>4, <3>5
  <2>2. CASE ~ (n > 0)
    <3>1. r.freed = 0 /\ r.list = l /\ r.first = firstNotFull
      BY <2>2
    <3>2. firstNotFull \in SlabSet(r.list)
      BY <1>6, <1>8, <3>1 DEF SlabSet
    <3> HIDE DEF r
    <3> QED
      BY <1>2, <1>6, <3>1, <3>2
  <2> QED
    BY <2>1, <2>2
<1> HIDE DEF r
<1>10. Cardinality(SlabEmptyIn(l, v)) = Cardinality(SlabEmptyIn(l, u)) + 1
       /\ Cardinality(SlabEmptyIn(l, u)) \in Nat
  <2>1. IsFiniteSet(SlabEmptyIn(l, u)) /\ Cardinality(SlabEmptyIn(l, u)) \in Nat
    BY <1>2, SlabEmptyFinite
  <2>2. SlabEmptyIn(l, v) = SlabEmptyIn(l, u) \cup {s} /\ s \notin SlabEmptyIn(l, u)
    <3>1. \A x \in SlabSet(l) : x \in SlabIds
      BY <1>2 DEF SlabSet
    <3> QED
      BY <1>1, <1>5, <3>1 DEF SlabEmptyIn
  <2>3. Cardinality(SlabEmptyIn(l, u) \cup {s}) = Cardinality(SlabEmptyIn(l, u)) + 1
    BY <2>1, <2>2, FS_AddElement
  <2> QED
    BY <2>1, <2>2, <2>3, Zenon
<1>11. /\ Cardinality(SlabEmptyIn(l, v)) = Cardinality(SlabEmptyIn(r.list, v)) + r.freed
       /\ DOMAIN r.list = 1 .. N - r.freed
       /\ SlabDistinct(r.list) /\ Cardinality(SlabEmptyIn(r.list, v)) \in Nat
  <2>1. Cardinality(SlabEmptyIn(l, v)) = Cardinality(SlabEmptyIn(r.list, v)) + r.freed
    BY <1>2, <1>9, SlabCut
  <2>2. DOMAIN r.list = 1 .. N - r.freed
    BY <1>9, LenProperties DEF SlabList
  <2>3. SlabDistinct(r.list)
    BY <1>2, <1>9 DEF SlabDistinct
  <2>4. Cardinality(SlabEmptyIn(r.list, v)) \in Nat
    BY <1>9, <2>3, SlabEmptyFinite
  <2> QED
    BY <2>1, <2>2, <2>3, <2>4
<1>12. CASE s \notin SlabSet(r.list)
  <2>1. N - r.freed < k
    <3>1. SUFFICES ASSUME k <= N - r.freed PROVE FALSE
      BY <1>6, <1>9
    <3>2. k \in 1 .. N - r.freed
      BY <1>6, <1>9, <3>1
    <3> QED
      BY <1>3, <1>9, <1>11, <1>12, <3>2 DEF SlabSet
  <2>2. \A i \in 1 .. N - r.freed : i \in 1 .. N /\ i \in 1 .. k - 1 /\ i # k
    BY <1>6, <1>9, <2>1
  <2>3. \A i \in 1 .. N - r.freed : v[r.list[i]] # 0
    BY <1>7, <1>9, <2>2
  <2>4. SlabEmptyIn(r.list, v) = {}
    BY <1>11, <2>3 DEF SlabEmptyIn, SlabSet
  <2>5. Cardinality(SlabEmptyIn(r.list, v)) = 0
    BY <2>4, FS_EmptySet, Zenon
  <2>6. r.freed # 0 /\ r.freed \in Nat
    BY <1>6, <1>9, <2>1
  <2>7. SlabMaxFree <= 2 * slabLost
    <3>1. r.freed = Cardinality(SlabEmptyIn(l, u)) + 1 /\ r.freed <= n
      BY <1>9, <1>10, <1>11, <2>5, <2>6
    <3> QED
      BY <1>2, <1>4, <1>10, <3>1
  <2>8. r.first \in SlabIds \cup {SlabHead}
    <3>1. CASE firstNotFull \in SlabSet(r.list)
      BY <1>2, <1>8, <1>9, <1>6, <3>1
    <3>2. CASE firstNotFull \notin SlabSet(r.list)
      <4>1. N - r.freed < j
        <5>1. SUFFICES ASSUME j <= N - r.freed PROVE FALSE
          BY <1>6, <1>9
        <5>2. j \in 1 .. N - r.freed
          BY <1>6, <1>9, <5>1
        <5> QED
          BY <1>8, <1>9, <1>11, <3>2, <5>2 DEF SlabSet
      <4>2. \A i \in 1 .. N - r.freed : i \in 1 .. j - 1
        BY <1>6, <1>9, <4>1
      <4>3. \A i \in 1 .. N - r.freed : v[l[i]] = slabObjs
        BY <1>7, <1>8, <2>2, <4>2
      <4>4. firstNotFull \in SlabIds
        BY <1>2, <1>6, <1>8
      <4> QED
        BY <1>9, <3>2, <4>3, <4>4, SlabAssumption
    <3> QED
      BY <3>1, <3>2
  <2>9. SlabTypeOK'
    <3>1. numFreeSlabs' \in Int
      BY <1>1, <1>2, <2>6
    <3>2. slabLost' \in 0 .. SlabMaxLost
      BY <1>1, <1>2, <1>4, <2>6
    <3> QED
      BY <1>1, <1>5, <1>9, <1>12, <2>8, <3>1, <3>2 DEF SlabTypeOK, SlabList, SlabUse
  <2>10. 2 * slabLost' >= SlabMaxFree
    <3>1. slabLost' = slabLost + r.freed
      BY <1>1
    <3>2. slabLost \in Nat /\ SlabMaxFree \in Nat
      BY <1>2, <1>4
    <3> QED
      BY <2>6, <2>7, <3>1, <3>2
  <2> QED
    BY <1>1, <1>12, <2>9, <2>10 DEF SlabInv, SlabKept, SlabOrder, SlabAccounts
<1>13. CASE s \in SlabSet(r.list)
  <2> DEFINE M == N - r.freed
  <2>1. M \in Nat /\ k \in 1 .. M /\ M <= N
    <3>1. PICK i \in 1 .. M : r.list[i] = s
      BY <1>11, <1>13 DEF SlabSet
    <3>2. i \in 1 .. N /\ l[i] = s
      BY <1>6, <1>9, <3>1
    <3>3. i = k
      BY <1>7, <3>2
    <3> QED
      BY <1>6, <1>9, <3>1, <3>3
  <2>2. SlabRemove(r.list, s) = RemoveAt(r.list, k) /\ r.list[k] = s
    <3>1. r.list[k] = s
      BY <1>3, <1>9, <2>1
    <3>2. SlabAt(r.list, r.list[k]) = k
      BY <1>9, <1>11, <2>1, SlabPlace
    <3> QED
      BY <3>1, <3>2 DEF SlabRemove
  <2>3. /\ moved \in SlabList /\ Len(moved) = M /\ DOMAIN moved = 1 .. M
        /\ \A i \in 1 .. M : moved[i] = IF i < k THEN l[i] ELSE IF i < M THEN l[i + 1] ELSE s
    <3> DEFINE q == RemoveAt(r.list, k)
    <3>1. /\ q \in Seq(SlabIds) /\ Len(q) = M - 1
          /\ \A i \in 1 .. M - 1 : q[i] = IF i < k THEN r.list[i] ELSE r.list[i + 1]
      <4>1. r.list \in Seq(SlabIds) /\ Len(r.list) = M /\ k \in 1 .. Len(r.list)
        BY <1>9, <2>1 DEF SlabList
      <4> HIDE DEF M
      <4> QED
        BY <4>1, Removed
    <3>2. \A i \in 1 .. M - 1 : i \in 1 .. M /\ i + 1 \in 1 .. M
      BY <2>1
    <3>3. \A i \in 1 .. M - 1 : q[i] = IF i < k THEN l[i] ELSE l[i + 1]
      BY <1>9, <3>1, <3>2
    <3>4. moved = Append(q, s)
      BY <2>2
    <3> HIDE DEF q, moved
    <3>5. /\ moved \in Seq(SlabIds) /\ Len(moved) = (M - 1) + 1 /\ DOMAIN moved = 1 .. (M - 1) + 1
          /\ \A i \in 1 .. (M - 1) + 1 : moved[i] = IF i <= M - 1 THEN q[i] ELSE s
      BY <1>4, <3>1, <3>4, Appended
    <3>6. (M - 1) + 1 = M
      BY <2>1
    <3> QED
      BY <2>1, <3>3, <3>5, <3>6 DEF SlabList
  <2>4. firstNotFull \in SlabSet(r.list) /\ r.first = firstNotFull
    <3>1. j \in 1 .. M
      BY <2>1
    <3>2. r.list[j] = firstNotFull
      BY <1>8, <1>9, <3>1
    <3> QED
      BY <1>9, <1>11, <3>1, <3>2 DEF SlabSet
  <2>5. t = IF j = 1 THEN SlabHead ELSE l[j - 1]
    <3>1. j \in 1 .. M /\ r.list[j] = firstNotFull
      BY <1>8, <1>9, <2>1
    <3>2. SlabAt(r.list, firstNotFull) = j
      BY <1>9, <1>11, <3>1, SlabPlace
    <3>3. firstNotFull # SlabHead /\ r.list # <<>>
      <4>1. firstNotFull \in SlabIds
        BY <1>2, <1>6, <1>8
      <4> QED
        BY <1>9, <2>1, <4>1, SlabAssumption
    <3>4. j # 1 => r.list[j - 1] = l[j - 1]
      BY <1>9, <2>1, <3>1
    <3> QED
      BY <2>4, <3>2, <3>3, <3>4 DEF SlabPrevOf
  <2>6. /\ slabBroken' = slabBroken /\ slabList' = moved
        /\ firstNotFull' = IF r.first = s THEN SlabNextOf(moved, t) ELSE r.first
    BY <1>1, <1>13
  <2> HIDE DEF moved, t
  \* Where the slabs of the new list come from.
  <2> DEFINE from(i) == IF i < k THEN i ELSE IF i < M THEN i + 1 ELSE k
  <2>7. \A i \in 1 .. M : /\ from(i) \in 1 .. M /\ from(i) \in 1 .. N /\ moved[i] = l[from(i)]
                          /\ \A b \in 1 .. M : i < b => from(i) # from(b)
                          /\ from(i) # k => from(i) \in 1 .. k - 1 \/ from(i) \in k + 1 .. N
    BY <1>3, <1>6, <2>1, <2>3
  <2>8. SlabDistinct(moved)
    <3> SUFFICES ASSUME NEW a \in 1 .. M, NEW b \in 1 .. M, a < b PROVE moved[a] # moved[b]
      BY <2>3 DEF SlabDistinct
    <3> HIDE DEF from, M
    <3>1. from(a) \in 1 .. N /\ from(b) \in 1 .. N /\ from(a) # from(b)
      BY <2>7
    <3>2. moved[a] = l[from(a)] /\ moved[b] = l[from(b)]
      BY <2>7
    <3> QED
      BY <1>2, <1>6, <3>1, <3>2 DEF SlabDistinct
  <2>9. SlabSorted(moved, v)
    <3> SUFFICES ASSUME NEW a \in 1 .. M, NEW b \in 1 .. M, a < b
                 PROVE  SlabRank(v, moved[a]) <= SlabRank(v, moved[b])
      BY <2>3, <2>8 DEF SlabSorted, SlabDistinct
    <3>1. SlabRank(v, moved[a]) \in {0, 1, 2}
      BY DEF SlabRank
    <3>2. CASE b = M
      <4>1. moved[b] = s
        BY <2>1, <2>3, <3>2
      <4>2. SlabRank(v, moved[b]) = 2
        BY <1>4, <1>5, <4>1 DEF SlabRank
      <4> QED
        BY <3>1, <4>2
    <3>3. CASE b # M
      <4>1. from(a) # k /\ from(b) # k /\ from(a) < from(b)
        BY <2>1, <3>3
      <4>2. /\ from(a) \in 1 .. N /\ from(b) \in 1 .. N
            /\ moved[a] = l[from(a)] /\ moved[b] = l[from(b)]
        BY <2>7
      <4> HIDE DEF from
      <4>3. v[moved[a]] = u[l[from(a)]] /\ v[moved[b]] = u[l[from(b)]]
        BY <1>7, <4>1, <4>2
      <4>4. SlabRank(u, l[from(a)]) <= SlabRank(u, l[from(b)])
        BY <1>2, <4>1, <4>2 DEF SlabSorted
      <4> QED
        BY <4>2, <4>3, <4>4 DEF SlabRank
    <3> QED
      BY <3>2, <3>3
  <2>10. SlabFirst(moved, v, firstNotFull') /\ firstNotFull' \in SlabIds
    <3>1. \A i \in 1 .. j - 1 : i \in 1 .. M /\ moved[i] = l[i] /\ v[moved[i]] = slabObjs
      <4> SUFFICES ASSUME NEW i \in 1 .. j - 1
                   PROVE  i \in 1 .. M /\ moved[i] = l[i] /\ v[moved[i]] = slabObjs
        OBVIOUS
      <4>1. i \in 1 .. M /\ i \in 1 .. N /\ i < k
        BY <1>6, <2>1
      <4>2. moved[i] = l[i]
        BY <2>3, <4>1
      <4> QED
        BY <1>7, <1>8, <4>1, <4>2
    <3>2. /\ j \in 1 .. M /\ firstNotFull' = moved[j]
      <4>1. CASE j < k
        <5>1. j \in 1 .. N /\ j # k /\ j \in 1 .. M
          BY <1>6, <2>1, <4>1
        <5>2. firstNotFull # s
          BY <1>7, <1>8, <5>1
        <5> QED
          BY <1>8, <2>3, <2>4, <2>6, <4>1, <5>1, <5>2
      <4>2. CASE j = k
        <5>1. firstNotFull' = SlabNextOf(moved, t) /\ j \in 1 .. M
          BY <1>3, <1>8, <2>1, <2>4, <2>6, <4>2
        <5>2. moved # <<>>
          BY <2>1, <2>3
        <5>3. CASE j = 1
          BY <2>5, <5>1, <5>2, <5>3 DEF SlabNextOf
        <5>4. CASE j # 1
          <6>1. j - 1 \in 1 .. j - 1 /\ j - 1 \in 1 .. M /\ j - 1 # M /\ (j - 1) + 1 = j
            BY <2>1, <5>4
          <6>2. moved[j - 1] = t /\ t \in SlabIds
            BY <1>2, <2>1, <2>5, <3>1, <5>4, <6>1
          <6>3. SlabAt(moved, t) = j - 1
            <7>1. j - 1 \in 1 .. Len(moved)
              BY <2>3, <6>1
            <7> QED
              BY <2>3, <2>8, <6>2, <7>1, SlabPlace
          <6> QED
            BY <2>3, <5>1, <5>2, <6>1, <6>2, <6>3, SlabAssumption DEF SlabNextOf
        <5> QED
          BY <5>3, <5>4
      <4> QED
        BY <4>1, <4>2
    <3>3. v[moved[j]] < slabObjs
      <4>1. CASE from(j) = k
        BY <1>3, <1>4, <1>5, <2>7, <3>2, <4>1
      <4>2. CASE from(j) # k
        <5>1. from(j) \in 1 .. N /\ moved[j] = l[from(j)]
          BY <2>7, <3>2
        <5>2. u[l[from(j)]] # slabObjs
          <6>1. CASE j < k
            <7>1. j \in 1 .. N /\ l[j] = firstNotFull /\ from(j) = j
              BY <1>6, <1>8, <2>1, <6>1
            <7>2. ~ \A i \in 1 .. N : u[l[i]] = slabObjs
              BY <1>1, <1>3, <1>4
            <7>3. firstNotFull # SlabHead
              BY <1>2, <7>1, SlabAssumption
            <7>4. PICK i \in 1 .. N : firstNotFull = l[i] /\ u[l[i]] < slabObjs
              BY <1>2, <7>3 DEF SlabFirst
            <7> QED
              BY <1>4, <7>1, <7>4
          <6>2. CASE j = k
            <7>1. from(j) \in k + 1 .. N
              BY <1>6, <2>1, <4>2, <6>2
            <7> HIDE DEF from
            <7> QED
              BY <1>7, <7>1
          <6> QED
            BY <6>1, <6>2
        <5> HIDE DEF from
        <5>3. v[moved[j]] = u[l[from(j)]] /\ u[l[from(j)]] \in 0 .. slabObjs
          BY <1>7, <4>2, <5>1
        <5> QED
          BY <1>4, <5>2, <5>3
      <4> QED
        BY <4>1, <4>2
    <3>4. SlabFirst(moved, v, firstNotFull')
      BY <2>3, <3>1, <3>2, <3>3 DEF SlabFirst
    <3>5. moved[j] \in SlabIds
      BY <1>2, <2>7, <3>2
    <3> QED
      BY <3>2, <3>4, <3>5
  <2>11. SlabEmptyIn(moved, v) = SlabEmptyIn(r.list, v)
    <3>1. SlabSet(moved) \subseteq SlabSet(r.list)
      <4>1. \A i \in 1 .. M : moved[i] = r.list[from(i)] /\ from(i) \in 1 .. M
        BY <1>9, <2>7
      <4> HIDE DEF from, M
      <4>2. \A i \in 1 .. M : moved[i] \in {r.list[h] : h \in 1 .. M}
        BY <4>1
      <4>3. SlabSet(moved) = {moved[i] : i \in 1 .. M}
        BY <2>3 DEF SlabSet
      <4>4. SlabSet(r.list) = {r.list[h] : h \in 1 .. M}
        BY <1>11 DEF SlabSet, M
      <4> QED
        BY <4>2, <4>3, <4>4
    <3>2. ASSUME NEW i \in 1 .. M PROVE r.list[i] \in SlabSet(moved)
      <4>1. CASE i < k
        BY <1>9, <2>1, <2>3, <4>1 DEF SlabSet
      <4>2. CASE i = k
        <5>1. M \in 1 .. M /\ moved[M] = s
          BY <2>1, <2>3
        <5> QED
          BY <2>2, <2>3, <4>2, <5>1 DEF SlabSet
      <4>3. CASE i > k
        <5>1. i - 1 \in 1 .. M /\ ~ (i - 1 < k) /\ i - 1 < M /\ (i - 1) + 1 = i
          BY <2>1, <4>3
        <5>2. moved[i - 1] = r.list[i]
          BY <1>9, <2>3, <5>1
        <5> QED
          BY <2>3, <5>1, <5>2 DEF SlabSet
      <4> QED
        BY <2>1, <4>1, <4>2, <4>3
    <3>3. SlabSet(r.list) \subseteq SlabSet(moved)
      BY <1>11, <3>2 DEF SlabSet
    <3> QED
      BY <3>1, <3>3 DEF SlabEmptyIn
  <2>12. numFreeSlabs' = Cardinality(SlabEmptyIn(slabList', slabInuse')) + 2 * slabLost'
    <3>1. Cardinality(SlabEmptyIn(slabList', slabInuse')) = Cardinality(SlabEmptyIn(r.list, v))
      BY <1>1, <2>6, <2>11, Zenon
    <3>2. /\ r.freed \in Nat /\ slabLost \in Nat /\ slabLost' = slabLost + r.freed
          /\ numFreeSlabs' = Cardinality(SlabEmptyIn(l, u)) + 2 * slabLost + 1 + r.freed
      BY <1>1, <1>2, <1>9
    <3>3. /\ Cardinality(SlabEmptyIn(l, u)) \in Nat /\ Cardinality(SlabEmptyIn(r.list, v)) \in Nat
          /\ Cardinality(SlabEmptyIn(l, u)) + 1 = Cardinality(SlabEmptyIn(r.list, v)) + r.freed
      BY <1>10, <1>11
    <3> DEFINE a == Cardinality(SlabEmptyIn(l, u))
               b == Cardinality(SlabEmptyIn(r.list, v))
               c == r.freed
               d == slabLost
    <3>4. a \in Nat /\ b \in Nat /\ c \in Nat /\ d \in Nat /\ a + 1 = b + c
      BY <3>2, <3>3
    <3>5. numFreeSlabs' = a + 2 * d + 1 + c /\ slabLost' = d + c
      BY <3>2
    <3>6. Cardinality(SlabEmptyIn(slabList', slabInuse')) = b
      BY <3>1
    <3> HIDE DEF a, b, c, d
    <3> QED
      BY <3>4, <3>5, <3>6
  <2>13. SlabTypeOK'
    <3>1. numFreeSlabs' \in Int /\ slabLost' \in 0 .. SlabMaxLost
      <4>1. r.freed \in Nat /\ slabLost \in Nat /\ numFreeSlabs \in Int
        BY <1>2, <1>9
      <4> QED
        BY <1>1, <1>4, <4>1
    <3> QED
      BY <1>1, <1>5, <2>3, <2>6, <2>10, <3>1 DEF SlabTypeOK, SlabList, SlabUse
  <2>14. SlabSorted(slabList', slabInuse') /\ SlabFirst(slabList', slabInuse', firstNotFull')
    BY <1>1, <2>6, <2>9, <2>10
  <2> QED
    BY <1>1, <2>6, <2>12, <2>13, <2>14, SlabInvNext
<1> QED
  BY <1>12, <1>13

\* The slab list is as allocObj and freeObj rely on, as long as nothing freed was used, and
\* the count of free slabs is off by twice what reclaim freed and by nothing else: for
\* any number of slabs and of objects in one, and any bound on the free ones.
THEOREM SlabIsKept == SlabSpec => [](SlabTypeOK /\ SlabKept)
<1>1. SlabInit => SlabInv
  <2> SUFFICES ASSUME SlabInit PROVE SlabInv
    OBVIOUS
  <2>1. slabList = <<>> /\ DOMAIN slabList = {} /\ slabList \in Seq(SlabIds)
    BY EmptySeq DEF SlabInit
  <2>2. SlabSorted(slabList, slabInuse) /\ SlabFirst(slabList, slabInuse, firstNotFull)
    BY <2>1 DEF SlabInit, SlabSorted, SlabFirst
  <2>3. SlabEmpties = {}
    BY <2>1 DEF SlabEmpties, SlabSet
  <2>4. Cardinality(SlabEmpties) = 0
    BY <2>3, FS_EmptySet, Zenon
  <2>5. SlabTypeOK
    BY <2>1, SlabAssumption DEF SlabInit, SlabTypeOK
  <2> QED
    BY <2>2, <2>4, <2>5 DEF SlabInit, SlabInv, SlabKept, SlabOrder, SlabAccounts
<1>2. SlabInv /\ [SlabNext]_slabVars => SlabInv'
  <2> SUFFICES ASSUME SlabInv, [SlabNext]_slabVars PROVE SlabInv'
    OBVIOUS
  <2>1. CASE SlabAlloc
    BY <2>1, SlabAllocInv
  <2>2. CASE SlabAllocNew
    BY <2>2, SlabAllocNewInv
  <2>3. CASE SlabAllocNoMemory
    BY <2>3, SlabAllocNoMemoryInv
  <2>4. CASE SlabReclaimAll
    BY <2>4, SlabReclaimAllInv
  <2>5. CASE SlabFree
    BY <2>5, SlabFreeFullInv, SlabFreeOneInv, SlabFreeLastInv DEF SlabFree
  <2>6. CASE UNCHANGED slabVars
    <3>1. SlabTypeOK'
      BY <2>6 DEF slabVars, SlabInv, SlabTypeOK
    <3>2. SlabOrder'
      BY <2>6 DEF slabVars, SlabInv, SlabKept, SlabOrder, SlabSorted, SlabRank, SlabFirst, SlabSet
    <3>3. SlabAccounts'
      BY <2>6 DEF slabVars, SlabInv, SlabKept, SlabAccounts, SlabEmpties, SlabSet
    <3> QED
      BY <3>1, <3>2, <3>3, <2>6 DEF slabVars, SlabInv, SlabKept
  <2> QED
    BY <2>1, <2>2, <2>3, <2>4, <2>5, <2>6 DEF SlabNext
<1> QED
  BY <1>1, <1>2, PTL DEF SlabSpec, SlabInv

-----------------------------------------------------------------------------
(* Recursion *)

\* The value e gives at k depends on the places of a lower rank only.
RecLower(D, V, r, e) ==
  \A k \in D : \A f, g \in [D -> V] :
    (\A j \in D : r[j] < r[k] => f[j] = g[j]) => e[<<k, f>>] = e[<<k, g>>]

RecStep(D, V, N, r, e) ==
  /\ V # {} /\ N \in Nat /\ r \in [D -> 0 .. N] /\ e \in [D \X [D -> V] -> V]
  /\ RecLower(D, V, r, e)

RecHas(D, V, e) == \E h \in [D -> V] : h = [k \in D |-> e[<<k, h>>]]

\* What is defined by such an e exists: the values up to one rank give those of the next.
LEMMA RecExists ==
  ASSUME NEW D, NEW V, NEW N, NEW r, NEW e, RecStep(D, V, N, r, e)
  PROVE  RecHas(D, V, e)
<1>0. /\ V # {} /\ N \in Nat /\ r \in [D -> 0 .. N] /\ e \in [D \X [D -> V] -> V]
      /\ RecLower(D, V, r, e)
  BY DEF RecStep
<1> DEFINE T == {n \in 0 .. N + 1 : \E h \in [D -> V] : \A k \in D : r[k] < n => h[k] = e[<<k, h>>]}
<1>1. 0 \in T
  <2>1. PICK v \in V : TRUE
    BY <1>0
  <2>2. [k \in D |-> v] \in [D -> V] /\ \A k \in D : ~ r[k] < 0
    BY <1>0
  <2>3. \E h \in [D -> V] : \A k \in D : r[k] < 0 => h[k] = e[<<k, h>>]
    BY <2>2
  <2>4. 0 \in 0 .. N + 1
    BY <1>0
  <2> QED
    BY <2>3, <2>4
<1>2. ASSUME NEW n \in 0 .. N + 1, n \in T, n < N + 1 PROVE n + 1 \in T
  <2>1. PICK h \in [D -> V] : \A k \in D : r[k] < n => h[k] = e[<<k, h>>]
    BY <1>2
  <2> DEFINE g == [k \in D |-> e[<<k, h>>]]
  <2>2. g \in [D -> V]
    BY <1>0
  <2>3. \A j \in D : r[j] < n => g[j] = h[j]
    BY <2>1
  <2>4. ASSUME NEW k \in D, r[k] < n + 1 PROVE g[k] = e[<<k, g>>]
    <3>1. \A j \in D : r[j] < r[k] => r[j] < n
      BY <1>0, <2>4
    <3>2. \A j \in D : r[j] < r[k] => g[j] = h[j]
      BY <2>3, <3>1
    <3>3. e[<<k, g>>] = e[<<k, h>>]
      <4> HIDE DEF g
      <4> QED
        BY <1>0, <2>2, <3>2 DEF RecLower
    <3> QED
      BY <3>3
  <2>5. n + 1 \in 0 .. N + 1
    BY <1>0, <1>2
  <2> HIDE DEF g
  <2> QED
    BY <2>2, <2>4, <2>5
<1> HIDE DEF T
<1>3. N + 1 \in Nat
  BY <1>0
<1>4. \A n \in 0 .. N + 1 : n \in T
  BY <1>1, <1>2, <1>3, UpTo
<1>5. N + 1 \in T
  BY <1>3, <1>4
<1>6. PICK h \in [D -> V] : \A k \in D : r[k] < N + 1 => h[k] = e[<<k, h>>]
  BY <1>5 DEF T
<1>7. \A k \in D : r[k] < N + 1
  BY <1>0
<1>8. \A k \in D : h[k] = e[<<k, h>>]
  BY <1>6, <1>7
<1>9. h = [k \in D |-> e[<<k, h>>]]
  BY <1>8
<1> QED
  BY <1>9 DEF RecHas

-----------------------------------------------------------------------------
(* The parser: the scanner *)

\* A set of numbers has a least one.
LEMMA Least ==
  ASSUME NEW S \in SUBSET Nat, S # {}
  PROVE  \E k \in S : \A m \in S : k <= m
<1>1. PICK k \in S : \A m \in S : ~ (<<m, k>> \in OpToRel(<, Nat))
  BY NatLessThanWellFounded, WFMin
<1>2. ASSUME NEW m \in S PROVE k <= m
  <2>1. k \in Nat /\ m \in Nat
    OBVIOUS
  <2>2. ~ m < k
    BY <1>1, <2>1 DEF OpToRel
  <2> QED
    BY <2>1, <2>2
<1> QED
  BY <1>2

LEMMA HtmlFindIs ==
  ASSUME NEW d, Len(d) \in Nat, NEW c \in 1 .. HtmlEnd(d), NEW S
  PROVE  /\ HtmlFind(d, c, S) \in c .. HtmlEnd(d)
         /\ HtmlFind(d, c, S) # HtmlEnd(d) => d[HtmlFind(d, c, S)] \in S
<1> DEFINE found == {k \in c .. Len(d) : d[k] \in S}
           m == CHOOSE k \in found : \A j \in found : k <= j
<1>1. HtmlFind(d, c, S) = IF found = {} THEN HtmlEnd(d) ELSE m
  BY DEF HtmlFind
<1>2. ASSUME found # {} PROVE m \in found
  <2>1. found \subseteq Nat
    BY DEF HtmlEnd
  <2>2. \E k \in found : \A j \in found : k <= j
    <3> HIDE DEF found
    <3> QED
      BY <1>2, <2>1, Least
  <2> QED
    BY <2>2
<1>3. CASE found = {}
  BY <1>1, <1>3 DEF HtmlEnd
<1>4. CASE found # {}
  <2>1. HtmlFind(d, c, S) = m /\ m \in c .. Len(d) /\ d[m] \in S
    <3>1. m \in found
      BY <1>2, <1>4
    <3>2. HtmlFind(d, c, S) = m
      BY <1>1, <1>4
    <3> HIDE DEF m
    <3> QED
      BY <3>1, <3>2
  <2> HIDE DEF m
  <2> QED
    BY <2>1 DEF HtmlEnd
<1> QED
  BY <1>3, <1>4

\* A recursion on places that go up.
ScanLower(n, e) ==
  \A k \in 1 .. n : \A f, g \in [1 .. n -> 1 .. n] :
    (\A j \in 1 .. n : j > k => f[j] = g[j]) => e[<<k, f>>] = e[<<k, g>>]

LEMMA ScanExists ==
  ASSUME NEW n \in Nat \ {0},
         NEW e \in [(1 .. n) \X [1 .. n -> 1 .. n] -> 1 .. n], ScanLower(n, e)
  PROVE  \E h \in [1 .. n -> 1 .. n] : h = [k \in 1 .. n |-> e[<<k, h>>]]
<1> DEFINE D == 1 .. n
           r == [k \in D |-> n - k]
<1>1. r \in [D -> 0 .. n] /\ D # {} /\ n \in Nat
  <2>1. \A k \in D : n - k \in 0 .. n
    OBVIOUS
  <2>2. 1 \in D
    OBVIOUS
  <2> HIDE DEF D
  <2> QED
    BY <2>1, <2>2
<1>2. RecLower(D, D, r, e)
  <2> SUFFICES ASSUME NEW k \in D, NEW f \in [D -> D], NEW g \in [D -> D],
                      \A j \in D : r[j] < r[k] => f[j] = g[j]
               PROVE  e[<<k, f>>] = e[<<k, g>>]
    BY DEF RecLower
  <2>1. \A j \in D : j > k => f[j] = g[j]
    OBVIOUS
  <2> QED
    BY <2>1 DEF ScanLower
<1> HIDE DEF D, r
<1>3. e \in [D \X [D -> D] -> D]
  BY DEF D
<1>4. RecStep(D, D, n, r, e)
  BY <1>1, <1>2, <1>3 DEF RecStep
<1>5. \E h \in [D -> D] : h = [k \in D |-> e[<<k, h>>]]
  <2>1. RecHas(D, D, e)
    BY <1>4, RecExists
  <2> QED
    BY <2>1 DEF RecHas
<1> QED
  BY <1>5 DEF D

\* What holds from the end of a text down to every place.
LEMMA DownFrom ==
  ASSUME NEW n \in Nat \ {0}, NEW T,
         \A k \in 1 .. n : (\A j \in 1 .. n : j > k => j \in T) => k \in T
  PROVE  \A k \in 1 .. n : k \in T
<1> DEFINE U == {m \in 0 .. n : \A k \in 1 .. n : k > n - m => k \in T}
<1>1. 0 \in U
  OBVIOUS
<1>2. ASSUME NEW m \in 0 .. n, m \in U, m < n PROVE m + 1 \in U
  <2>1. n - m \in 1 .. n
    BY <1>2
  <2>2. \A j \in 1 .. n : j > n - m => j \in T
    BY <1>2
  <2>3. n - m \in T
    BY <2>1, <2>2
  <2>4. ASSUME NEW k \in 1 .. n, k > n - (m + 1) PROVE k \in T
    <3>1. k > n - m \/ k = n - m
      BY <2>4
    <3> QED
      BY <2>2, <2>3, <3>1
  <2> QED
    BY <1>2, <2>4
<1> HIDE DEF U
<1>3. \A m \in 0 .. n : m \in U
  BY <1>1, <1>2, UpTo
<1>4. n \in U
  BY <1>3
<1> QED
  BY <1>4 DEF U

\* A scan of n places that stops at those of B, at v[k], and goes on from v[k] at the others.
ScanStep(B, v, f, k) == IF k \in B THEN v[k] ELSE f[v[k]]
ScanRun(n, B, v, f) == f = [k \in 1 .. n |-> ScanStep(B, v, f, k)]

ScanGoes(n, B, v) ==
  /\ n \in Nat \ {0}
  /\ \A k \in 1 .. n : v[k] \in k .. n /\ (k \notin B => v[k] > k)

\* It ends, at a place that is not before the one it began at.
ScanEnds(n, B, v) ==
  /\ \E f : ScanRun(n, B, v, f)
  /\ \A f : ScanRun(n, B, v, f) => \A k \in 1 .. n : f[k] \in k .. n

LEMMA ScanRuns ==
  ASSUME NEW n, NEW B, NEW v, ScanGoes(n, B, v)
  PROVE  ScanEnds(n, B, v)
<1>0. n \in Nat \ {0} /\ \A k \in 1 .. n : v[k] \in k .. n /\ v[k] \in 1 .. n /\ (k \notin B => v[k] > k)
  BY DEF ScanGoes
<1>1. \E f : ScanRun(n, B, v, f)
  <2> DEFINE F == [1 .. n -> 1 .. n]
             e == [p \in (1 .. n) \X F |-> ScanStep(B, v, p[2], p[1])]
  <2>1. ASSUME NEW k \in 1 .. n, NEW f \in F PROVE e[<<k, f>>] = ScanStep(B, v, f, k)
    OBVIOUS
  <2>2. ASSUME NEW k \in 1 .. n, NEW f \in F PROVE ScanStep(B, v, f, k) \in 1 .. n
    BY <1>0 DEF ScanStep
  <2>3. e \in [(1 .. n) \X F -> 1 .. n]
    <3>1. ASSUME NEW p \in (1 .. n) \X F PROVE ScanStep(B, v, p[2], p[1]) \in 1 .. n
      BY <2>2
    <3> QED
      BY <3>1
  <2>4. ScanLower(n, e)
    <3> SUFFICES ASSUME NEW k \in 1 .. n, NEW f \in F, NEW g \in F, \A j \in 1 .. n : j > k => f[j] = g[j]
                 PROVE  e[<<k, f>>] = e[<<k, g>>]
      BY DEF ScanLower
    <3>1. ScanStep(B, v, f, k) = ScanStep(B, v, g, k)
      BY <1>0 DEF ScanStep
    <3> HIDE DEF e
    <3> QED
      BY <2>1, <3>1
  <2> HIDE DEF e
  <2>5. PICK h \in F : h = [k \in 1 .. n |-> e[<<k, h>>]]
    BY <1>0, <2>3, <2>4, ScanExists
  <2>6. h = [k \in 1 .. n |-> ScanStep(B, v, h, k)]
    BY <2>1, <2>5
  <2> QED
    BY <2>6 DEF ScanRun
<1>2. ASSUME NEW f, ScanRun(n, B, v, f) PROVE \A k \in 1 .. n : f[k] \in k .. n
  <2> DEFINE T == {k \in 1 .. n : f[k] \in k .. n}
  <2>1. \A k \in 1 .. n : f[k] = ScanStep(B, v, f, k)
    BY <1>2 DEF ScanRun
  <2>2. ASSUME NEW k \in 1 .. n, \A j \in 1 .. n : j > k => j \in T PROVE k \in T
    BY <1>0, <2>1, <2>2 DEF ScanStep
  <2> HIDE DEF T
  <2>3. \A k \in 1 .. n : k \in T
    BY <1>0, <2>2, DownFrom
  <2> QED
    BY <2>3 DEF T
<1> QED
  BY <1>1, <1>2 DEF ScanEnds

HtmlText(d) == Len(d) \in Nat

\* skipHtmlTag: where the loop goes from k, and where it returns.
HtmlTagStep(d, f, k) ==
  IF k = HtmlEnd(d) THEN k
  ELSE IF d[k] = ">" THEN k + 1
  ELSE IF d[k] # "=" THEN f[k + 1]
  ELSE LET v == HtmlBlanks(d, k + 1) IN
       IF v = HtmlEnd(d) THEN v
       ELSE IF d[v] # "q" THEN f[v]
       ELSE LET q == HtmlFind(d, v + 1, {"q"}) IN
            f[IF q = HtmlEnd(d) THEN v + 1 ELSE q + 1]

HtmlTagGo(d, k) ==
  IF k = HtmlEnd(d) THEN k
  ELSE IF d[k] # "=" THEN k + 1
  ELSE LET v == HtmlBlanks(d, k + 1) IN
       IF v = HtmlEnd(d) \/ d[v] # "q" THEN v
       ELSE LET q == HtmlFind(d, v + 1, {"q"}) IN IF q = HtmlEnd(d) THEN v + 1 ELSE q + 1

HtmlTagStops(d, k) ==
  k = HtmlEnd(d) \/ d[k] = ">" \/ (d[k] = "=" /\ HtmlBlanks(d, k + 1) = HtmlEnd(d))

LEMMA HtmlTagGoes ==
  ASSUME NEW d, HtmlText(d), NEW k \in 1 .. HtmlEnd(d)
  PROVE  /\ HtmlTagGo(d, k) \in k .. HtmlEnd(d)
         /\ ~ HtmlTagStops(d, k) => HtmlTagGo(d, k) > k
         /\ \A f : HtmlTagStep(d, f, k) = IF HtmlTagStops(d, k) THEN HtmlTagGo(d, k) ELSE f[HtmlTagGo(d, k)]
<1> DEFINE n == HtmlEnd(d)
           v == HtmlBlanks(d, k + 1)
           q == HtmlFind(d, v + 1, {"q"})
<1>0. n \in Nat /\ n = Len(d) + 1 /\ k \in 1 .. n
  BY DEF HtmlText, HtmlEnd
<1>1. CASE k = n
  BY <1>0, <1>1 DEF HtmlTagGo, HtmlTagStops, HtmlTagStep
<1>2. CASE k # n /\ d[k] # "="
  BY <1>0, <1>2 DEF HtmlTagGo, HtmlTagStops, HtmlTagStep
<1>3. CASE k # n /\ d[k] = "="
  <2>1. k + 1 \in 1 .. n
    BY <1>0, <1>3
  <2>2. v \in k + 1 .. n
    BY <2>1, HtmlFindIs DEF HtmlBlanks, HtmlText
  <2>3. CASE v = n \/ d[v] # "q"
    <3>1. HtmlTagGo(d, k) = v
      BY <1>3, <2>3 DEF HtmlTagGo
    <3>2. HtmlTagStops(d, k) <=> v = n
      BY <1>3 DEF HtmlTagStops
    <3>3. \A f : HtmlTagStep(d, f, k) = IF v = n THEN v ELSE f[v]
      BY <1>3, <2>3 DEF HtmlTagStep
    <3> HIDE DEF v, n
    <3> QED
      BY <1>0, <2>1, <2>2, <3>1, <3>2, <3>3 DEF n
  <2>4. CASE v # n /\ d[v] = "q"
    <3>1. v + 1 \in 1 .. n
      BY <1>0, <2>2, <2>4
    <3>2. q \in v + 1 .. n
      BY <3>1, HtmlFindIs DEF HtmlText
    <3> DEFINE w == IF q = n THEN v + 1 ELSE q + 1
    <3>3. HtmlTagGo(d, k) = w /\ ~ HtmlTagStops(d, k)
      BY <1>3, <2>4 DEF HtmlTagGo, HtmlTagStops
    <3>4. \A f : HtmlTagStep(d, f, k) = f[w]
      BY <1>3, <2>4 DEF HtmlTagStep
    <3>5. w \in k .. n /\ w > k
      <4> HIDE DEF v, n, q
      <4> QED
        BY <1>0, <2>2, <3>1, <3>2, <2>4
    <3> HIDE DEF w, v
    <3> QED
      BY <3>3, <3>4, <3>5
  <2> QED
    BY <2>3, <2>4
<1> QED
  BY <1>1, <1>2, <1>3

LEMMA HtmlTagEndIs ==
  ASSUME NEW d, HtmlText(d), NEW c \in 1 .. HtmlEnd(d)
  PROVE  HtmlTagEnd(d, c) \in c .. HtmlEnd(d)
<1> DEFINE n == HtmlEnd(d)
           B == {k \in 1 .. n : HtmlTagStops(d, k)}
           v == [k \in 1 .. n |-> HtmlTagGo(d, k)]
           Skip(f) == f = [k \in 1 .. n |-> HtmlTagStep(d, f, k)]
           skip == CHOOSE f : Skip(f)
<1>0. n \in Nat \ {0}
  BY DEF HtmlText, HtmlEnd
<1>1. ScanGoes(n, B, v)
  BY <1>0, HtmlTagGoes DEF ScanGoes
<1>2. ASSUME NEW f PROVE Skip(f) <=> ScanRun(n, B, v, f)
  <2>1. \A k \in 1 .. n : HtmlTagStep(d, f, k) = ScanStep(B, v, f, k)
    BY HtmlTagGoes DEF ScanStep
  <2> QED
    BY <2>1 DEF ScanRun
<1>3. HtmlTagEnd(d, c) = skip[c]
  BY Zenon DEF HtmlTagEnd, HtmlTagStep
<1> HIDE DEF B, v, Skip
<1>4. ScanEnds(n, B, v)
  BY <1>1, ScanRuns
<1>5. \E f : Skip(f)
  BY <1>2, <1>4 DEF ScanEnds
<1>6. Skip(skip)
  BY <1>5, Zenon
<1>7. ScanRun(n, B, v, skip)
  BY <1>2, <1>6
<1> HIDE DEF skip
<1>8. skip[c] \in c .. n
  BY <1>4, <1>7 DEF ScanEnds
<1> QED
  BY <1>3, <1>8

\* skipHtmlComment.
HtmlDashes(d, k) == d[k] = "-" /\ HtmlIs(d, k + 1, {"-"})

HtmlCommentStep(d, f, k) ==
  IF k = HtmlEnd(d) THEN k
  ELSE IF d[k] = "-" /\ HtmlIs(d, k + 1, {"-"})
  THEN LET e == HtmlBlanks(d, k + 2) IN
       IF e = HtmlEnd(d) THEN e
       ELSE IF d[e] = ">" THEN e + 1 ELSE f[k + 1]
  ELSE f[k + 1]

HtmlCommentStops(d, k) ==
  k = HtmlEnd(d)
    \/ (HtmlDashes(d, k) /\ (HtmlBlanks(d, k + 2) = HtmlEnd(d) \/ d[HtmlBlanks(d, k + 2)] = ">"))

HtmlCommentGo(d, k) ==
  IF k = HtmlEnd(d) THEN k
  ELSE IF ~ HtmlCommentStops(d, k) THEN k + 1
  ELSE IF HtmlBlanks(d, k + 2) = HtmlEnd(d) THEN HtmlEnd(d) ELSE HtmlBlanks(d, k + 2) + 1

LEMMA HtmlCommentGoes ==
  ASSUME NEW d, HtmlText(d), NEW k \in 1 .. HtmlEnd(d)
  PROVE  /\ HtmlCommentGo(d, k) \in k .. HtmlEnd(d)
         /\ ~ HtmlCommentStops(d, k) => HtmlCommentGo(d, k) > k
         /\ \A f : HtmlCommentStep(d, f, k)
                     = IF HtmlCommentStops(d, k) THEN HtmlCommentGo(d, k) ELSE f[HtmlCommentGo(d, k)]
<1> DEFINE n == HtmlEnd(d)
           e == HtmlBlanks(d, k + 2)
<1>0. n \in Nat /\ n = Len(d) + 1 /\ k \in 1 .. n
  BY DEF HtmlText, HtmlEnd
<1>1. CASE k = n
  BY <1>0, <1>1 DEF HtmlCommentGo, HtmlCommentStops, HtmlCommentStep
<1>2. CASE k # n /\ ~ HtmlDashes(d, k)
  BY <1>0, <1>2 DEF HtmlCommentGo, HtmlCommentStops, HtmlCommentStep, HtmlDashes
<1>3. CASE k # n /\ HtmlDashes(d, k)
  <2>1. k + 2 \in 1 .. n
    BY <1>0, <1>3 DEF HtmlDashes, HtmlIs
  <2>2. e \in k + 2 .. n
    BY <2>1, HtmlFindIs DEF HtmlBlanks, HtmlText
  <2>3. HtmlCommentStops(d, k) <=> (e = n \/ d[e] = ">")
    BY <1>3 DEF HtmlCommentStops
  <2>4. HtmlCommentGo(d, k) = IF ~ (e = n \/ d[e] = ">") THEN k + 1 ELSE IF e = n THEN n ELSE e + 1
    BY <1>3, <2>3 DEF HtmlCommentGo
  <2>5. \A f : HtmlCommentStep(d, f, k) = IF e = n THEN e ELSE IF d[e] = ">" THEN e + 1 ELSE f[k + 1]
    BY <1>3 DEF HtmlCommentStep, HtmlDashes
  <2> HIDE DEF e, n
  <2> QED
    BY <1>0, <2>1, <2>2, <2>3, <2>4, <2>5 DEF n
<1> QED
  BY <1>1, <1>2, <1>3

LEMMA HtmlCommentEndIs ==
  ASSUME NEW d, HtmlText(d), NEW c \in 1 .. HtmlEnd(d)
  PROVE  HtmlCommentEnd(d, c) \in c .. HtmlEnd(d)
<1> DEFINE n == HtmlEnd(d)
           B == {k \in 1 .. n : HtmlCommentStops(d, k)}
           v == [k \in 1 .. n |-> HtmlCommentGo(d, k)]
           Skip(f) == f = [k \in 1 .. n |-> HtmlCommentStep(d, f, k)]
           skip == CHOOSE f : Skip(f)
<1>0. n \in Nat \ {0}
  BY DEF HtmlText, HtmlEnd
<1>1. ScanGoes(n, B, v)
  BY <1>0, HtmlCommentGoes DEF ScanGoes
<1>2. ASSUME NEW f PROVE Skip(f) <=> ScanRun(n, B, v, f)
  <2>1. \A k \in 1 .. n : HtmlCommentStep(d, f, k) = ScanStep(B, v, f, k)
    BY HtmlCommentGoes DEF ScanStep
  <2> QED
    BY <2>1 DEF ScanRun
<1>3. HtmlCommentEnd(d, c) = skip[c]
  BY Zenon DEF HtmlCommentEnd, HtmlCommentStep
<1> HIDE DEF B, v, Skip
<1>4. ScanEnds(n, B, v)
  BY <1>1, ScanRuns
<1>5. \E f : Skip(f)
  BY <1>2, <1>4 DEF ScanEnds
<1>6. Skip(skip)
  BY <1>5, Zenon
<1>7. ScanRun(n, B, v, skip)
  BY <1>2, <1>6
<1> HIDE DEF skip
<1>8. skip[c] \in c .. n
  BY <1>4, <1>7 DEF ScanEnds
<1> QED
  BY <1>3, <1>8

\* while (mpLiteral).
HtmlCloses(d, name, c) ==
  /\ HtmlIs(d, c + 1, {"/"}) /\ name # <<"p">>
  /\ HtmlIs(d, c + 2, {name[1]})
  /\ HtmlIs(d, HtmlBlanks(d, c + 3), {">"})

HtmlSkips(d, c) ==
  HtmlIs(d, c + 1, {"!"}) /\ HtmlIs(d, c + 2, {"-"}) /\ HtmlIs(d, c + 3, {"-"})

HtmlLiteralStep(d, name, f, k) ==
  LET c == HtmlFind(d, k, {"<"}) IN
  IF c = HtmlEnd(d) \/ HtmlCloses(d, name, c) THEN c
  ELSE IF HtmlIs(d, c + 1, {"!"}) /\ HtmlIs(d, c + 2, {"-"}) /\ HtmlIs(d, c + 3, {"-"})
  THEN f[HtmlCommentEnd(d, c + 4)] ELSE f[c + 1]

HtmlLiteralStops(d, name, k) ==
  LET c == HtmlFind(d, k, {"<"}) IN c = HtmlEnd(d) \/ HtmlCloses(d, name, c)

HtmlLiteralGo(d, name, k) ==
  LET c == HtmlFind(d, k, {"<"}) IN
  IF HtmlLiteralStops(d, name, k) THEN c
  ELSE IF HtmlSkips(d, c) THEN HtmlCommentEnd(d, c + 4) ELSE c + 1

LEMMA HtmlLiteralGoes ==
  ASSUME NEW d, HtmlText(d), NEW name, NEW k \in 1 .. HtmlEnd(d)
  PROVE  /\ HtmlLiteralGo(d, name, k) \in k .. HtmlEnd(d)
         /\ ~ HtmlLiteralStops(d, name, k) => HtmlLiteralGo(d, name, k) > k
         /\ \A f : HtmlLiteralStep(d, name, f, k)
                     = IF HtmlLiteralStops(d, name, k) THEN HtmlLiteralGo(d, name, k)
                       ELSE f[HtmlLiteralGo(d, name, k)]
<1> DEFINE n == HtmlEnd(d)
           c == HtmlFind(d, k, {"<"})
           stops == c = n \/ HtmlCloses(d, name, c)
           e == HtmlCommentEnd(d, c + 4)
<1>0. n \in Nat /\ n = Len(d) + 1 /\ k \in 1 .. n
  BY DEF HtmlText, HtmlEnd
<1>1. c \in k .. n
  BY HtmlFindIs DEF HtmlText
<1>2. HtmlLiteralStops(d, name, k) <=> stops
  BY DEF HtmlLiteralStops
<1>3. HtmlLiteralGo(d, name, k) = IF stops THEN c ELSE IF HtmlSkips(d, c) THEN e ELSE c + 1
  BY <1>2 DEF HtmlLiteralGo
<1>4. \A f : HtmlLiteralStep(d, name, f, k) = IF stops THEN c ELSE IF HtmlSkips(d, c) THEN f[e] ELSE f[c + 1]
  BY DEF HtmlLiteralStep, HtmlSkips
<1>5. ASSUME ~ stops, HtmlSkips(d, c) PROVE e \in c + 4 .. n
  <2>1. c + 4 \in 1 .. n
    BY <1>0, <1>1, <1>5 DEF HtmlSkips, HtmlIs
  <2> QED
    BY <2>1, HtmlCommentEndIs
<1>6. ~ stops => c + 1 \in k .. n
  BY <1>0, <1>1
<1>7. stops \in BOOLEAN
  OBVIOUS
<1> HIDE DEF c, n, e, stops
<1>8. CASE stops
  BY <1>1, <1>2, <1>3, <1>4, <1>8 DEF n
<1>9. CASE ~ stops /\ HtmlSkips(d, c)
  <2>1. e \in k .. n /\ e > k
    BY <1>0, <1>1, <1>5, <1>9
  <2> QED
    BY <2>1, <1>2, <1>3, <1>4, <1>9 DEF n
<1>10. CASE ~ stops /\ ~ HtmlSkips(d, c)
  <2>1. c + 1 \in k .. n /\ c + 1 > k
    BY <1>0, <1>1, <1>6, <1>10
  <2> QED
    BY <2>1, <1>2, <1>3, <1>4, <1>10 DEF n
<1> QED
  BY <1>8, <1>9, <1>10

LEMMA HtmlLiteralEndIs ==
  ASSUME NEW d, HtmlText(d), NEW name, NEW b \in 1 .. HtmlEnd(d)
  PROVE  HtmlLiteralEnd(d, b, name) \in b .. HtmlEnd(d)
<1> DEFINE n == HtmlEnd(d)
           B == {k \in 1 .. n : HtmlLiteralStops(d, name, k)}
           v == [k \in 1 .. n |-> HtmlLiteralGo(d, name, k)]
           Skip(f) == f = [k \in 1 .. n |-> HtmlLiteralStep(d, name, f, k)]
           skip == CHOOSE f : Skip(f)
<1>0. n \in Nat \ {0}
  BY DEF HtmlText, HtmlEnd
<1>1. ScanGoes(n, B, v)
  BY <1>0, HtmlLiteralGoes DEF ScanGoes
<1>2. ASSUME NEW f PROVE Skip(f) <=> ScanRun(n, B, v, f)
  <2>1. \A k \in 1 .. n : HtmlLiteralStep(d, name, f, k) = ScanStep(B, v, f, k)
    BY HtmlLiteralGoes DEF ScanStep
  <2> QED
    BY <2>1 DEF ScanRun
<1>3. HtmlLiteralEnd(d, b, name) = skip[b]
  BY Zenon DEF HtmlLiteralEnd, HtmlLiteralStep, HtmlCloses
<1> HIDE DEF B, v, Skip
<1>4. ScanEnds(n, B, v)
  BY <1>1, ScanRuns
<1>5. \E f : Skip(f)
  BY <1>2, <1>4 DEF ScanEnds
<1>6. Skip(skip)
  BY <1>5, Zenon
<1>7. ScanRun(n, B, v, skip)
  BY <1>2, <1>6
<1> HIDE DEF skip
<1>8. skip[b] \in b .. n
  BY <1>4, <1>7 DEF ScanEnds
<1> QED
  BY <1>3, <1>8

\* Markup is not empty, and ends in the text.
LEMMA HtmlMarkupEndIs ==
  ASSUME NEW d, HtmlText(d), NEW c \in 1 .. HtmlEnd(d), HtmlMarkup(d, c) # "none"
  PROVE  c # HtmlEnd(d) /\ HtmlMarkupEnd(d, c) \in c + 1 .. HtmlEnd(d)
<1> DEFINE n == HtmlEnd(d)
<1>0. n \in Nat /\ n = Len(d) + 1 /\ c \in 1 .. n
  BY DEF HtmlText, HtmlEnd
<1>1. c <= Len(d)
  BY DEF HtmlMarkup, HtmlIs
<1>2. c + 1 \in 1 .. n
  BY <1>0, <1>1
<1>3. HtmlTagEnd(d, c + 1) \in c + 1 .. n
  BY <1>2, HtmlTagEndIs
<1>4. ASSUME HtmlIs(d, c + 3, {"-"}) PROVE HtmlCommentEnd(d, c + 4) \in c + 1 .. n
  <2>1. c + 4 \in 1 .. n
    BY <1>0, <1>4 DEF HtmlIs
  <2>2. HtmlCommentEnd(d, c + 4) \in c + 4 .. n
    BY <2>1, HtmlCommentEndIs
  <2> HIDE DEF n
  <2> QED
    BY <2>2, <1>0
<1>5. HtmlMarkupEnd(d, c) \in c + 1 .. n
  <2> HIDE DEF n
  <2> QED
    BY <1>3, <1>4 DEF HtmlMarkupEnd, HtmlBang
<1> QED
  BY <1>0, <1>1, <1>5

-----------------------------------------------------------------------------
(* The parser: the tree.  Its nodes are numbered 1 .. n in preorder when the numbers of the
   parents are nested; its links are given by the parents. *)

DomRecords == [parent : Int, first : Int, last : Int, prev : Int, next : Int]

DomPlaces(n) == {DomHead, DomFeet} \cup 1 .. n

\* The nodes between the parent of x and x are below that parent.
DomNested(t, n) ==
  /\ t[1].parent = 0
  /\ \A x \in 2 .. n : t[x].parent \in 1 .. x - 1
  /\ \A x \in 2 .. n : \A y \in 1 .. x - 1 : y > t[x].parent => t[y].parent >= t[x].parent

\* The first child is the next node, if it is a child.
DomFirsts(t, n) ==
  \A x \in 1 .. n : t[x].first = IF x < n /\ t[x + 1].parent = x THEN x + 1 ELSE 0

DomLasts(t, n) ==
  \A x \in 1 .. n :
    IF t[x].last = 0 THEN \A y \in 1 .. n : t[y].parent # x
    ELSE /\ t[x].last \in 1 .. n /\ t[t[x].last].parent = x
         /\ \A y \in 1 .. n : y > t[x].last => t[y].parent # x

DomNexts(t, n) ==
  \A x \in 2 .. n :
    IF t[x].next = 0 THEN \A y \in x + 1 .. n : t[y].parent # t[x].parent
    ELSE /\ t[x].next \in x + 1 .. n /\ t[t[x].next].parent = t[x].parent
         /\ \A y \in x + 1 .. t[x].next - 1 : t[y].parent # t[x].parent

DomEnds(t) ==
  /\ t[DomHead].next = 1 /\ t[DomHead].parent = 0
  /\ t[DomFeet].next = 0 /\ t[DomFeet].parent = 0
  /\ t[1].next = DomFeet

DomTree(t, n) ==
  /\ n \in Nat \ {0} /\ t \in [DomPlaces(n) -> DomRecords]
  /\ DomNested(t, n) /\ DomFirsts(t, n) /\ DomLasts(t, n) /\ DomNexts(t, n) /\ DomEnds(t)

\* All nodes after x are below it: x is a node that is still open, or the last one.
DomIsOpen(t, n, x) == x \in 1 .. n /\ \A y \in x + 1 .. n : t[y].parent >= x

LEMMA DomEmptyTree == DomTree(DomEmpty, 1) /\ DomIsOpen(DomEmpty, 1, 1)
<1> DEFINE t == DomEmpty
<1>1. DomLinks(0, 0, 0, 0, DomRoot) \in DomRecords /\ DomLinks(0, 0, 0, DomRoot, 0) \in DomRecords
      /\ DomLinks(0, 0, 0, DomHead, DomFeet) \in DomRecords
  BY DEF DomLinks, DomRecords, DomRoot, DomHead, DomFeet
<1>2. DOMAIN t = {-2, -1, 1} /\ t[-2] = DomLinks(0, 0, 0, 0, DomRoot)
      /\ t[-1] = DomLinks(0, 0, 0, DomRoot, 0) /\ t[1] = DomLinks(0, 0, 0, DomHead, DomFeet)
  BY DEF DomEmpty, DomRoot, DomHead, DomFeet
<1>3. t \in [DomPlaces(1) -> DomRecords]
  <2>1. DomPlaces(1) = {-2, -1, 1}
    BY DEF DomPlaces, DomHead, DomFeet
  <2>2. t = [x \in DOMAIN t |-> t[x]]
    BY DEF DomEmpty
  <2> HIDE DEF t
  <2> QED
    BY <1>1, <1>2, <2>1, <2>2
<1>4. t[1].parent = 0 /\ t[1].first = 0 /\ t[1].last = 0 /\ t[1].next = DomFeet
      /\ t[-2].next = 1 /\ t[-2].parent = 0 /\ t[-1].next = 0 /\ t[-1].parent = 0
  BY <1>2 DEF DomLinks, DomRoot
<1> HIDE DEF t
<1>5. DomEnds(t)
  BY <1>4 DEF DomEnds, DomHead, DomFeet
<1>6. DomNested(t, 1) /\ DomFirsts(t, 1) /\ DomLasts(t, 1) /\ DomNexts(t, 1)
  BY <1>4 DEF DomNested, DomFirsts, DomLasts, DomNexts
<1>7. DomIsOpen(t, 1, 1)
  BY DEF DomIsOpen
<1> QED
  BY <1>3, <1>5, <1>6, <1>7 DEF DomTree, t

\* The parent of an open node is open.
LEMMA DomOpenParent ==
  ASSUME NEW t, NEW n, DomTree(t, n), NEW x \in 2 .. n, DomIsOpen(t, n, x)
  PROVE  t[x].parent \in 1 .. x - 1 /\ DomIsOpen(t, n, t[x].parent)
<1> DEFINE p == t[x].parent
<1>1. n \in Nat /\ p \in 1 .. x - 1 /\ DomNested(t, n)
  BY DEF DomTree, DomNested
<1>2. \A y \in 2 .. n : t[y].parent \in 1 .. y - 1
  BY <1>1 DEF DomNested
<1>3. ASSUME NEW y \in p + 1 .. n PROVE t[y].parent >= p
  <2>1. CASE y < x
    BY <1>1, <2>1 DEF DomNested
  <2>2. CASE y = x
    BY <1>1, <2>2
  <2>3. CASE y > x
    <3>1. t[y].parent >= x /\ y \in 2 .. n
      BY <1>1, <2>3 DEF DomIsOpen
    <3>2. t[y].parent \in 1 .. y - 1
      BY <1>2, <3>1
    <3> HIDE DEF p
    <3> QED
      BY <1>1, <3>1, <3>2
  <2> QED
    BY <1>1, <2>1, <2>2, <2>3
<1> QED
  BY <1>1, <1>3 DEF DomIsOpen

\* What append_child leaves in each node.
LEMMA DomAppendIs ==
  ASSUME NEW t, NEW n, DomTree(t, n), NEW c \in 1 .. n
  PROVE  LET x == n + 1
             u == DomAppend(t, c, x)
             old == t[c].last
         IN /\ u \in [DomPlaces(x) -> DomRecords]
            /\ u[x].parent = c /\ u[x].first = 0 /\ u[x].last = 0 /\ u[x].next = 0
            /\ \A y \in DomPlaces(n) :
                 /\ u[y].parent = t[y].parent
                 /\ u[y].next = IF old # 0 /\ y = old THEN x ELSE t[y].next
                 /\ u[y].last = IF y = c THEN x ELSE t[y].last
                 /\ u[y].first = IF old = 0 /\ y = c THEN x ELSE t[y].first
<1> DEFINE x == n + 1
           old == t[c].last
           v == [m \in DOMAIN t \cup {x} |-> IF m = x THEN DomLinks(c, 0, 0, old, 0) ELSE t[m]]
           P == DomPlaces(n)
           Q == DomPlaces(x)
<1>1. n \in Nat \ {0} /\ t \in [P -> DomRecords] /\ c \in P /\ x \in Q /\ x \notin P /\ Q = P \cup {x}
  BY DEF DomTree, DomPlaces, DomHead, DomFeet
<1>2. old \in Int /\ (old # 0 => old \in P)
  <2>1. old \in Int
    BY <1>1 DEF DomRecords
  <2>2. old # 0 => old \in 1 .. n
    BY DEF DomTree, DomLasts
  <2> QED
    BY <2>1, <2>2 DEF DomPlaces
<1>3. DomLinks(c, 0, 0, old, 0) \in DomRecords
  BY <1>1, <1>2 DEF DomLinks, DomRecords
<1>4. /\ v \in [Q -> DomRecords] /\ v[x] = DomLinks(c, 0, 0, old, 0)
      /\ \A y \in P : v[y] = t[y]
  BY <1>1, <1>3
<1>5. DomAppend(t, c, x) = IF old # 0 THEN [v EXCEPT ![old].next = x, ![c].last = x]
                           ELSE [v EXCEPT ![c].first = x, ![c].last = x]
  BY DEF DomAppend, DomNull
<1>6. v[x].parent = c /\ v[x].first = 0 /\ v[x].last = 0 /\ v[x].next = 0
  BY <1>4 DEF DomLinks
<1>7. x \in Int
  BY <1>1
<1> HIDE DEF v, x, old, P, Q
<1>8. CASE old # 0
  <2> DEFINE w == [v EXCEPT ![old].next = x]
             u == [w EXCEPT ![c].last = x]
  <2>1. old \in Q /\ c \in Q
    BY <1>1, <1>2, <1>8
  <2>2. /\ w \in [Q -> DomRecords]
        /\ \A y \in Q : /\ w[y].parent = v[y].parent /\ w[y].first = v[y].first /\ w[y].last = v[y].last
                        /\ w[y].next = IF y = old THEN x ELSE v[y].next
    BY <1>4, <1>7, <2>1 DEF DomRecords
  <2> HIDE DEF w
  <2>3. /\ u \in [Q -> DomRecords]
        /\ \A y \in Q : /\ u[y].parent = w[y].parent /\ u[y].first = w[y].first /\ u[y].next = w[y].next
                        /\ u[y].last = IF y = c THEN x ELSE w[y].last
    BY <2>2, <1>7, <2>1 DEF DomRecords
  <2>4. DomAppend(t, c, x) = u
    BY <1>5, <1>8 DEF w
  <2> HIDE DEF u
  <2> QED
    BY <1>1, <1>2, <1>4, <1>6, <1>8, <2>1, <2>2, <2>3, <2>4 DEF x, old, P, Q
<1>9. CASE old = 0
  <2> DEFINE w == [v EXCEPT ![c].first = x]
             u == [w EXCEPT ![c].last = x]
  <2>1. c \in Q
    BY <1>1
  <2>2. /\ w \in [Q -> DomRecords]
        /\ \A y \in Q : /\ w[y].parent = v[y].parent /\ w[y].next = v[y].next /\ w[y].last = v[y].last
                        /\ w[y].first = IF y = c THEN x ELSE v[y].first
    BY <1>4, <1>7, <2>1 DEF DomRecords
  <2> HIDE DEF w
  <2>3. /\ u \in [Q -> DomRecords]
        /\ \A y \in Q : /\ u[y].parent = w[y].parent /\ u[y].first = w[y].first /\ u[y].next = w[y].next
                        /\ u[y].last = IF y = c THEN x ELSE w[y].last
    BY <2>2, <1>7, <2>1 DEF DomRecords
  <2>4. DomAppend(t, c, x) = u
    BY <1>5, <1>9 DEF w
  <2> HIDE DEF u
  <2> QED
    BY <1>1, <1>2, <1>4, <1>6, <1>9, <2>1, <2>2, <2>3, <2>4 DEF x, old, P, Q
<1> QED
  BY <1>8, <1>9

\* A child appended to an open node keeps the preorder, and is open itself.
LEMMA DomAppendTree ==
  ASSUME NEW t, NEW n, DomTree(t, n), NEW c, DomIsOpen(t, n, c)
  PROVE  LET u == DomAppend(t, c, n + 1)
         IN /\ DomTree(u, n + 1) /\ DomIsOpen(u, n + 1, c) /\ DomIsOpen(u, n + 1, n + 1)
            /\ u[n + 1].parent = c /\ \A y \in 1 .. n : u[y].parent = t[y].parent
<1> DEFINE x == n + 1
           u == DomAppend(t, c, x)
           old == t[c].last
<1>1. n \in Nat \ {0} /\ c \in 1 .. n
  BY DEF DomTree, DomIsOpen
<1>2. /\ u \in [DomPlaces(x) -> DomRecords]
      /\ u[x].parent = c /\ u[x].first = 0 /\ u[x].last = 0 /\ u[x].next = 0
      /\ \A y \in DomPlaces(n) :
           /\ u[y].parent = t[y].parent
           /\ u[y].next = IF old # 0 /\ y = old THEN x ELSE t[y].next
           /\ u[y].last = IF y = c THEN x ELSE t[y].last
           /\ u[y].first = IF old = 0 /\ y = c THEN x ELSE t[y].first
  BY <1>1, DomAppendIs
<1> HIDE DEF u
<1>3. \A y \in 1 .. n :
        /\ u[y].parent = t[y].parent
        /\ u[y].next = IF old # 0 /\ y = old THEN x ELSE t[y].next
        /\ u[y].last = IF y = c THEN x ELSE t[y].last
        /\ u[y].first = IF old = 0 /\ y = c THEN x ELSE t[y].first
  BY <1>2 DEF DomPlaces
<1>4. \A y \in 1 .. x : y \in 1 .. n \/ y = x
  BY <1>1
<1>5. /\ t[1].parent = 0 /\ \A y \in 2 .. n : t[y].parent \in 1 .. y - 1
      /\ \A y \in 2 .. n : \A z \in 1 .. y - 1 : z > t[y].parent => t[z].parent >= t[y].parent
  BY DEF DomTree, DomNested
<1>6. \A y \in c + 1 .. n : t[y].parent >= c
  BY DEF DomIsOpen
<1>7. IF old = 0 THEN \A y \in 1 .. n : t[y].parent # c
      ELSE old \in 1 .. n /\ t[old].parent = c /\ \A y \in 1 .. n : y > old => t[y].parent # c
  BY <1>1 DEF DomTree, DomLasts
<1> HIDE DEF old
<1>8. DomNested(u, x)
  <2>1. u[1].parent = 0
    BY <1>1, <1>3, <1>5
  <2>2. \A y \in 2 .. x : u[y].parent \in 1 .. y - 1
    BY <1>1, <1>2, <1>3, <1>4, <1>5
  <2>3. ASSUME NEW y \in 2 .. x, NEW z \in 1 .. y - 1, z > u[y].parent PROVE u[z].parent >= u[y].parent
    <3>1. CASE y = x
      BY <1>1, <1>2, <1>3, <1>6, <2>3, <3>1
    <3>2. CASE y \in 2 .. n
      BY <1>1, <1>3, <1>5, <2>3, <3>2
    <3> QED
      BY <1>1, <3>1, <3>2
  <2> QED
    BY <2>1, <2>2, <2>3 DEF DomNested
<1>9. DomFirsts(u, x)
  <2> SUFFICES ASSUME NEW y \in 1 .. x
               PROVE  u[y].first = IF y < x /\ u[y + 1].parent = y THEN y + 1 ELSE 0
    BY DEF DomFirsts
  <2>1. CASE y = x
    BY <1>1, <1>2, <2>1
  <2>2. CASE y \in 1 .. n
    <3>1. t[y].first = IF y < n /\ t[y + 1].parent = y THEN y + 1 ELSE 0
      BY <2>2 DEF DomTree, DomFirsts
    <3>2. CASE y < n
      <4>1. u[y + 1].parent = t[y + 1].parent
        BY <1>1, <1>3, <2>2, <3>2
      <4>2. old = 0 => y # c
        <5>1. SUFFICES ASSUME old = 0, y = c PROVE FALSE
          OBVIOUS
        <5>2. c + 1 \in 2 .. n /\ c + 1 \in c + 1 .. n /\ c + 1 \in 1 .. n
          BY <1>1, <3>2, <5>1
        <5>3. t[c + 1].parent >= c /\ t[c + 1].parent \in 1 .. (c + 1) - 1
          BY <1>5, <1>6, <5>2
        <5>4. t[c + 1].parent = c
          BY <1>1, <5>3
        <5> QED
          BY <1>7, <5>1, <5>2, <5>4
      <4> QED
        BY <1>1, <1>3, <2>2, <3>1, <3>2, <4>1, <4>2
    <3>3. CASE y = n
      <4>1. t[y].first = 0 /\ y + 1 = x /\ y < x
        BY <1>1, <3>1, <3>3
      <4>2. c = n => old = 0
        <5>1. SUFFICES ASSUME c = n, old # 0 PROVE FALSE
          OBVIOUS
        <5>2. t[old].parent = c /\ old \in 1 .. n
          BY <1>7, <5>1
        <5> QED
          BY <1>1, <1>5, <5>1, <5>2
      <4> QED
        BY <1>2, <1>3, <2>2, <3>3, <4>1, <4>2
    <3> QED
      BY <1>1, <2>2, <3>2, <3>3
  <2> QED
    BY <1>4, <2>1, <2>2
<1>10. DomLasts(u, x)
  <2> SUFFICES ASSUME NEW z \in 1 .. x
               PROVE  IF u[z].last = 0 THEN \A y \in 1 .. x : u[y].parent # z
                      ELSE /\ u[z].last \in 1 .. x /\ u[u[z].last].parent = z
                           /\ \A y \in 1 .. x : y > u[z].last => u[y].parent # z
    BY DEF DomLasts
  <2>1. \A y \in 1 .. x : u[y].parent < x
    BY <1>1, <1>2, <1>3, <1>4, <1>5
  <2>2. CASE z = x
    BY <1>2, <2>1, <2>2
  <2>3. CASE z = c
    BY <1>1, <1>2, <1>3, <2>3
  <2>4. CASE z \in 1 .. n /\ z # c
    <3>1. IF t[z].last = 0 THEN \A y \in 1 .. n : t[y].parent # z
          ELSE /\ t[z].last \in 1 .. n /\ t[t[z].last].parent = z
               /\ \A y \in 1 .. n : y > t[z].last => t[y].parent # z
      BY <2>4 DEF DomTree, DomLasts
    <3>2. u[z].last = t[z].last
      BY <1>3, <2>4
    <3>3. \A y \in 1 .. x : (y \in 1 .. n /\ u[y].parent = t[y].parent) \/ (y = x /\ u[y].parent # z)
      BY <1>2, <1>3, <1>4, <2>4
    <3> QED
      BY <1>1, <3>1, <3>2, <3>3
  <2> QED
    BY <1>4, <2>2, <2>3, <2>4
<1>11. DomNexts(u, x)
  <2> SUFFICES ASSUME NEW z \in 2 .. x
               PROVE  IF u[z].next = 0 THEN \A y \in z + 1 .. x : u[y].parent # u[z].parent
                      ELSE /\ u[z].next \in z + 1 .. x /\ u[u[z].next].parent = u[z].parent
                           /\ \A y \in z + 1 .. u[z].next - 1 : u[y].parent # u[z].parent
    BY DEF DomNexts
  <2>1. CASE z = x
    BY <1>1, <1>2, <2>1
  <2>2. CASE z \in 2 .. n
    <3>1. IF t[z].next = 0 THEN \A y \in z + 1 .. n : t[y].parent # t[z].parent
          ELSE /\ t[z].next \in z + 1 .. n /\ t[t[z].next].parent = t[z].parent
               /\ \A y \in z + 1 .. t[z].next - 1 : t[y].parent # t[z].parent
      BY <2>2 DEF DomTree, DomNexts
    <3>2. u[z].parent = t[z].parent
      BY <1>3, <2>2
    <3>3. \A y \in z + 1 .. n : u[y].parent = t[y].parent
      BY <1>3, <2>2
    <3>4. \A y \in z + 1 .. x : y \in z + 1 .. n \/ y = x
      BY <1>1
    <3>5. CASE old # 0 /\ z = old
      <4>1. u[z].next = x /\ t[z].parent = c
        BY <1>3, <1>7, <2>2, <3>5
      <4>2. \A y \in z + 1 .. x - 1 : u[y].parent # c
        BY <1>1, <1>7, <3>3, <3>5, <2>2
      <4> QED
        BY <1>1, <1>2, <2>2, <3>2, <4>1, <4>2
    <3>6. CASE ~ (old # 0 /\ z = old)
      <4>1. u[z].next = t[z].next
        BY <1>3, <2>2, <3>6
      <4>2. CASE t[z].next = 0
        <5>1. t[z].parent # c
          <6>1. SUFFICES ASSUME t[z].parent = c PROVE FALSE
            OBVIOUS
          <6>2. old # 0 /\ old \in 1 .. n /\ t[old].parent = c /\ z \in 1 .. n
            BY <1>7, <2>2, <6>1
          <6>3. ~ z > old
            BY <1>7, <6>1, <6>2
          <6>4. old \in z + 1 .. n
            BY <3>6, <6>2, <6>3
          <6> QED
            BY <3>1, <4>2, <6>1, <6>2, <6>4
        <5> QED
          BY <1>2, <3>1, <3>2, <3>3, <3>4, <4>1, <4>2, <5>1
      <4>3. CASE t[z].next # 0
        <5>1. t[z].next \in z + 1 .. n /\ t[t[z].next].parent = t[z].parent
              /\ \A y \in z + 1 .. t[z].next - 1 : t[y].parent # t[z].parent
          BY <3>1, <4>3
        <5>2. \A y \in z + 1 .. t[z].next - 1 : y \in z + 1 .. n
          <6> DEFINE w == t[z].next
          <6>1. w \in z + 1 .. n /\ n \in Int /\ z \in Int
            BY <1>1, <5>1
          <6> HIDE DEF w
          <6>2. \A y \in z + 1 .. w - 1 : y \in z + 1 .. n
            BY <6>1
          <6> QED
            BY <6>2 DEF w
        <5>3. t[z].next \in z + 1 .. x
          BY <1>1, <5>1
        <5> QED
          BY <3>2, <3>3, <4>1, <4>3, <5>1, <5>2, <5>3
      <4> QED
        BY <4>2, <4>3
    <3> QED
      BY <3>5, <3>6
  <2> QED
    BY <1>1, <2>1, <2>2
<1>12. DomEnds(u)
  <2>1. DomEnds(t) /\ old # DomHead /\ old # DomFeet
    BY <1>7 DEF DomTree, DomHead, DomFeet
  <2>2. old # 0 => old # 1
    BY <1>1, <1>5, <1>7
  <2>3. DomHead \in DomPlaces(n) /\ DomFeet \in DomPlaces(n) /\ 1 \in DomPlaces(n)
    BY <1>1 DEF DomPlaces
  <2> QED
    BY <1>2, <2>1, <2>2, <2>3 DEF DomEnds
<1>13. DomIsOpen(u, x, c) /\ DomIsOpen(u, x, x)
  BY <1>1, <1>2, <1>3, <1>4, <1>6 DEF DomIsOpen
<1>14. DomTree(u, x)
  BY <1>1, <1>2, <1>8, <1>9, <1>10, <1>11, <1>12 DEF DomTree
<1> QED
  BY <1>2, <1>3, <1>13, <1>14 DEF u

\* The siblings from x on.
DomRun(t, f, D) == f = [m \in D |-> IF m = DomNull THEN {} ELSE {m} \cup f[t[m].next]]

DomAfter(t, n, m) == {y \in 2 .. n : y >= m /\ t[y].parent = t[m].parent}

LEMMA DomSiblingsFound ==
  ASSUME NEW t, NEW n, DomTree(t, n), NEW x \in 2 .. n
  PROVE  DomSiblings(t, x) = DomAfter(t, n, x)
<1> DEFINE D == DomPlaces(n) \cup {DomNull}
           from == CHOOSE f : DomRun(t, f, D)
           h == [m \in D |-> IF m \in 2 .. n THEN DomAfter(t, n, m)
                             ELSE IF m = DomNull THEN {}
                             ELSE IF m = 1 THEN {1, DomFeet}
                             ELSE IF m = DomFeet THEN {DomFeet} ELSE {DomHead, 1, DomFeet}]
           N(m) == {m} \cup h[t[m].next]
<1>0. n \in Nat \ {0} /\ DOMAIN t = DomPlaces(n) /\ DomEnds(t)
  BY DEF DomTree
<1>1. \A m \in 2 .. n :
        IF t[m].next = 0 THEN \A y \in m + 1 .. n : t[y].parent # t[m].parent
        ELSE /\ t[m].next \in m + 1 .. n /\ t[t[m].next].parent = t[m].parent
             /\ \A y \in m + 1 .. t[m].next - 1 : t[y].parent # t[m].parent
  BY DEF DomTree, DomNexts
<1>2. ASSUME NEW m \in 2 .. n, t[m].next = 0 PROVE DomAfter(t, n, m) = {m}
  <2>1. \A y \in 2 .. n : y >= m /\ t[y].parent = t[m].parent <=> y = m
    BY <1>0, <1>1, <1>2
  <2> QED
    BY <2>1 DEF DomAfter
<1>3. ASSUME NEW m \in 2 .. n, t[m].next # 0
      PROVE  t[m].next \in 2 .. n /\ DomAfter(t, n, m) = {m} \cup DomAfter(t, n, t[m].next)
  <2> DEFINE w == t[m].next
  <2>1. /\ w \in m + 1 .. n /\ t[w].parent = t[m].parent
        /\ \A y \in m + 1 .. w - 1 : t[y].parent # t[m].parent
    BY <1>1, <1>3
  <2> HIDE DEF w
  <2>2. \A y \in 2 .. n : y >= m <=> (y = m \/ y \in m + 1 .. w - 1 \/ y >= w)
    BY <1>0, <2>1
  <2>3. \A y \in 2 .. n : (y >= m /\ t[y].parent = t[m].parent)
                            <=> (y = m \/ (y >= w /\ t[y].parent = t[w].parent))
    BY <2>1, <2>2
  <2>4. w \in 2 .. n
    BY <1>0, <2>1
  <2> QED
    BY <2>3, <2>4 DEF DomAfter, w
<1>4. ASSUME NEW m \in D, m # DomNull PROVE h[m] = N(m) /\ t[m].next \in D
  <2>1. CASE m \in 2 .. n /\ t[m].next = 0
    <3>1. h[m] = {m} /\ h[t[m].next] = {}
      BY <1>0, <1>2, <2>1 DEF DomNull
    <3> QED
      BY <2>1, <3>1 DEF DomNull
  <2>2. CASE m \in 2 .. n /\ t[m].next # 0
    <3>1. t[m].next \in 2 .. n /\ DomAfter(t, n, m) = {m} \cup DomAfter(t, n, t[m].next)
      BY <1>3, <2>2
    <3>2. t[m].next \in D
      BY <1>0, <3>1 DEF DomPlaces
    <3> QED
      BY <2>2, <3>1, <3>2
  <2>3. CASE m = 1
    <3>1. t[m].next = DomFeet /\ DomFeet \in D /\ 1 \in D
      BY <1>0, <2>3 DEF DomEnds, DomPlaces
    <3>2. h[m] = {1, DomFeet} /\ h[DomFeet] = {DomFeet}
      BY <2>3, <3>1 DEF DomFeet, DomNull
    <3> QED
      BY <2>3, <3>1, <3>2
  <2>4. CASE m = DomFeet
    <3>1. t[m].next = DomNull /\ DomNull \in D
      BY <1>0, <2>4 DEF DomEnds, DomNull
    <3>2. h[m] = {DomFeet} /\ h[DomNull] = {}
      BY <2>4, <3>1 DEF DomFeet, DomNull
    <3> QED
      BY <2>4, <3>1, <3>2
  <2>5. CASE m = DomHead
    <3>1. t[m].next = 1 /\ 1 \in D
      BY <1>0, <2>5 DEF DomEnds, DomPlaces
    <3>2. h[m] = {DomHead, 1, DomFeet} /\ h[1] = {1, DomFeet}
      BY <2>5, <3>1 DEF DomFeet, DomNull, DomHead
    <3> QED
      BY <2>5, <3>1, <3>2
  <2>6. m \in 2 .. n \/ m = 1 \/ m = DomFeet \/ m = DomHead
    BY <1>0, <1>4 DEF DomPlaces
  <2> QED
    BY <2>1, <2>2, <2>3, <2>4, <2>5, <2>6
<1>5. DomRun(t, h, D)
  <2>1. h[DomNull] = {}
    BY DEF DomNull
  <2>2. \A m \in D : h[m] = IF m = DomNull THEN {} ELSE {m} \cup h[t[m].next]
    BY <1>4, <2>1
  <2>3. h = [m \in D |-> h[m]]
    OBVIOUS
  <2> HIDE DEF h, D
  <2>4. h = [m \in D |-> IF m = DomNull THEN {} ELSE {m} \cup h[t[m].next]]
    BY <2>2, <2>3
  <2> QED
    BY <2>4, Zenon DEF DomRun
<1>6. DomRun(t, from, D)
  <2> HIDE DEF h, D
  <2> QED
    BY <1>5, Zenon
<1>7. DomSiblings(t, x) = from[x]
  <2>1. DomSiblings(t, x) = (CHOOSE f : DomRun(t, f, DOMAIN t \cup {DomNull}))[x]
    BY Zenon DEF DomSiblings, DomRun
  <2> QED
    BY <1>0, <2>1
<1> HIDE DEF from, h
<1>8. \A m \in 2 .. n : from[m] = {m} \cup (IF t[m].next = 0 THEN {} ELSE from[t[m].next])
  <2>1. \A m \in D : from[m] = IF m = DomNull THEN {} ELSE {m} \cup from[t[m].next]
    BY <1>6 DEF DomRun
  <2>2. \A m \in 2 .. n : m \in D /\ m # DomNull
    BY DEF DomNull, DomPlaces
  <2>3. from[0] = {} /\ DomNull = 0
    BY <2>1 DEF DomNull
  <2> HIDE DEF D
  <2> QED
    BY <2>1, <2>2, <2>3
<1> DEFINE T == {m \in 1 .. n : m = 1 \/ from[m] = DomAfter(t, n, m)}
<1>9. ASSUME NEW m \in 1 .. n, \A j \in 1 .. n : j > m => j \in T PROVE m \in T
  <2>1. CASE m = 1
    BY <2>1
  <2>2. CASE m \in 2 .. n /\ t[m].next = 0
    <3>1. from[m] = {m}
      BY <1>8, <2>2
    <3> QED
      BY <1>2, <2>2, <3>1
  <2>3. CASE m \in 2 .. n /\ t[m].next # 0
    <3> DEFINE w == t[m].next
    <3>1. from[m] = {m} \cup from[w]
      BY <1>8, <2>3
    <3>2. w \in 2 .. n /\ DomAfter(t, n, m) = {m} \cup DomAfter(t, n, w)
      BY <1>3, <2>3
    <3>3. w \in m + 1 .. n
      BY <1>1, <2>3
    <3> HIDE DEF w
    <3>4. w \in T /\ w # 1
      BY <1>0, <1>9, <3>2, <3>3
    <3> QED
      BY <3>1, <3>2, <3>4
  <2> QED
    BY <1>0, <2>1, <2>2, <2>3
<1> HIDE DEF T
<1>10. \A m \in 1 .. n : m \in T
  BY <1>0, <1>9, DownFrom
<1>11. from[x] = DomAfter(t, n, x)
  BY <1>10 DEF T
<1> QED
  BY <1>7, <1>11

\* The children of a node that is open, and what it looks like.
LEMMA DomOpenIs ==
  ASSUME NEW t, NEW n, DomTree(t, n), NEW x \in 2 .. n, DomIsOpen(t, n, x), t[x].first # 0
  PROVE  /\ t[x].parent \in 1 .. x - 1 /\ t[x].next = 0
         /\ x < n /\ t[x].first = x + 1 /\ t[x + 1].parent = x
         /\ t[x].last \in 1 .. n /\ t[t[x].last].parent = x /\ t[x].last > x
         /\ \A y \in 1 .. n : y > t[x].last => t[y].parent # x
         /\ DomSiblings(t, x + 1) = {y \in 1 .. n : t[y].parent = x}
<1>0. /\ n \in Nat \ {0} /\ t[1].parent = 0 /\ \A y \in 2 .. n : t[y].parent \in 1 .. y - 1
  BY DEF DomTree, DomNested
<1>1. t[x].parent \in 1 .. x - 1
  BY <1>0
<1>2. t[x].next = 0
  <2> DEFINE w == t[x].next
  <2>1. SUFFICES ASSUME w # 0 PROVE FALSE
    OBVIOUS
  <2>2. w \in x + 1 .. n /\ t[w].parent = t[x].parent
    BY <2>1 DEF DomTree, DomNexts
  <2>3. t[w].parent >= x
    BY <2>2 DEF DomIsOpen
  <2> HIDE DEF w
  <2> QED
    BY <1>1, <2>2, <2>3
<1>3. x < n /\ t[x].first = x + 1 /\ t[x + 1].parent = x
  BY <1>0 DEF DomTree, DomFirsts
<1>4. /\ t[x].last \in 1 .. n /\ t[t[x].last].parent = x
      /\ \A y \in 1 .. n : y > t[x].last => t[y].parent # x
  <2>1. x + 1 \in 1 .. n
    BY <1>0, <1>3
  <2> QED
    BY <1>3, <2>1 DEF DomTree, DomLasts
<1>5. t[x].last > x
  <2> DEFINE l == t[x].last
  <2>1. l \in 1 .. n /\ t[l].parent = x
    BY <1>4
  <2> HIDE DEF l
  <2>2. l > x
    BY <1>0, <2>1
  <2> QED
    BY <2>2 DEF l
<1>6. DomSiblings(t, x + 1) = {y \in 1 .. n : t[y].parent = x}
  <2>1. x + 1 \in 2 .. n
    BY <1>0, <1>3
  <2>2. DomSiblings(t, x + 1) = DomAfter(t, n, x + 1)
    BY <2>1, DomSiblingsFound
  <2>3. \A y \in 1 .. n : t[y].parent = x <=> y \in 2 .. n /\ y >= x + 1 /\ t[y].parent = x
    BY <1>0
  <2> QED
    BY <1>3, <2>2, <2>3 DEF DomAfter
<1> QED
  BY <1>1, <1>2, <1>3, <1>4, <1>5, <1>6

\* What flatten leaves in each node, when x has children.
LEMMA DomFlattenIs ==
  ASSUME NEW t, NEW n, DomTree(t, n), NEW x \in 2 .. n, DomIsOpen(t, n, x), t[x].first # 0
  PROVE  LET u == DomFlatten(t, x)
             q == t[x].parent
         IN /\ u \in [DomPlaces(n) -> DomRecords]
            /\ \A y \in DomPlaces(n) :
                 /\ u[y].parent = IF y \in 1 .. n /\ t[y].parent = x THEN q ELSE t[y].parent
                 /\ u[y].next = IF y = x THEN x + 1 ELSE t[y].next
                 /\ u[y].last = IF y = x THEN 0 ELSE IF y = q THEN t[x].last ELSE t[y].last
                 /\ u[y].first = IF y = x THEN 0 ELSE t[y].first
<1> DEFINE P == DomPlaces(n)
           q == t[x].parent
           l == t[x].last
           kids == {y \in 1 .. n : t[y].parent = x}
           a == [m \in P |-> IF m \in kids THEN [t[m] EXCEPT !.parent = q] ELSE t[m]]
           b == [a EXCEPT ![q].last = l]
           c == [b EXCEPT ![x].next = x + 1]
           d == [c EXCEPT ![x + 1].prev = x]
           e == [d EXCEPT ![x].first = 0]
           f == [e EXCEPT ![x].last = 0]
<1>0. n \in Nat \ {0} /\ t \in [P -> DomRecords]
  BY DEF DomTree
<1>1. /\ q \in 1 .. x - 1 /\ t[x].next = 0 /\ x < n /\ t[x].first = x + 1
      /\ DomSiblings(t, x + 1) = kids
  BY DomOpenIs
<1>2. q \in P /\ x \in P /\ x + 1 \in P /\ q \in Int /\ x \in Int /\ x + 1 \in Int /\ q # x
  BY <1>0, <1>1 DEF DomPlaces
<1>3. l \in Int
  BY <1>0, <1>2 DEF DomRecords
<1>4. DomFlatten(t, x) = f
  <2>1. DOMAIN t = P /\ t[x].first # DomNull /\ t[x].next = DomNull
    BY <1>0, <1>1 DEF DomNull
  <2>2. [m \in DOMAIN t |-> IF m \in DomSiblings(t, t[x].first) THEN [t[m] EXCEPT !.parent = q] ELSE t[m]] = a
    BY <1>1, <2>1
  <2>3. DomFlatten(t, x)
          = [[a EXCEPT ![q].last = l] EXCEPT ![x].next = t[x].first, ![t[x].first].prev = x,
                                             ![x].first = DomNull, ![x].last = DomNull]
    <3> HIDE DEF a
    <3> QED
      BY <2>1, <2>2 DEF DomFlatten
  <2> HIDE DEF a
  <2>4. DomFlatten(t, x)
          = [b EXCEPT ![x].next = x + 1, ![x + 1].prev = x, ![x].first = 0, ![x].last = 0]
    BY <1>1, <2>3 DEF DomNull
  <2> HIDE DEF b
  <2> QED
    BY <2>4
<1>5. /\ a \in [P -> DomRecords]
      /\ \A y \in P : /\ a[y].parent = IF y \in kids THEN q ELSE t[y].parent
                      /\ a[y].next = t[y].next /\ a[y].last = t[y].last /\ a[y].first = t[y].first
  <2> HIDE DEF q, kids, P
  <2>1. ASSUME NEW y \in P
        PROVE  /\ a[y] \in DomRecords
               /\ a[y].parent = IF y \in kids THEN q ELSE t[y].parent
               /\ a[y].next = t[y].next /\ a[y].last = t[y].last /\ a[y].first = t[y].first
    <3>1. t[y] \in DomRecords
      BY <1>0
    <3> QED
      BY <1>2, <3>1 DEF DomRecords
  <2> QED
    BY <2>1
<1> HIDE DEF a, kids, q, l, P
<1>6. /\ b \in [P -> DomRecords]
      /\ \A y \in P : /\ b[y].parent = a[y].parent /\ b[y].next = a[y].next /\ b[y].first = a[y].first
                      /\ b[y].last = IF y = q THEN l ELSE a[y].last
  BY <1>2, <1>3, <1>5 DEF DomRecords
<1> HIDE DEF b
<1>7. /\ c \in [P -> DomRecords]
      /\ \A y \in P : /\ c[y].parent = b[y].parent /\ c[y].last = b[y].last /\ c[y].first = b[y].first
                      /\ c[y].next = IF y = x THEN x + 1 ELSE b[y].next
  BY <1>2, <1>6 DEF DomRecords
<1> HIDE DEF c
<1>8. /\ d \in [P -> DomRecords]
      /\ \A y \in P : /\ d[y].parent = c[y].parent /\ d[y].last = c[y].last /\ d[y].first = c[y].first
                      /\ d[y].next = c[y].next
  BY <1>2, <1>7 DEF DomRecords
<1> HIDE DEF d
<1>9. /\ e \in [P -> DomRecords]
      /\ \A y \in P : /\ e[y].parent = d[y].parent /\ e[y].last = d[y].last /\ e[y].next = d[y].next
                      /\ e[y].first = IF y = x THEN 0 ELSE d[y].first
  BY <1>2, <1>8 DEF DomRecords
<1> HIDE DEF e
<1>10. /\ f \in [P -> DomRecords]
       /\ \A y \in P : /\ f[y].parent = e[y].parent /\ f[y].first = e[y].first /\ f[y].next = e[y].next
                       /\ f[y].last = IF y = x THEN 0 ELSE e[y].last
  BY <1>2, <1>9 DEF DomRecords
<1> HIDE DEF f
<1>11. /\ f \in [P -> DomRecords]
       /\ \A y \in P :
            /\ f[y].parent = IF y \in kids THEN q ELSE t[y].parent
            /\ f[y].next = IF y = x THEN x + 1 ELSE t[y].next
            /\ f[y].last = IF y = x THEN 0 ELSE IF y = q THEN l ELSE t[y].last
            /\ f[y].first = IF y = x THEN 0 ELSE t[y].first
  BY <1>5, <1>6, <1>7, <1>8, <1>9, <1>10
<1> QED
  BY <1>4, <1>11 DEF q, l, P, kids

\* The children of an open node go to its parent: the preorder is kept, and with it
\* every node that is open above it.
LEMMA DomFlattenTree ==
  ASSUME NEW t, NEW n, DomTree(t, n), NEW x \in 2 .. n, DomIsOpen(t, n, x)
  PROVE  LET u == DomFlatten(t, x)
             q == t[x].parent
         IN /\ DomTree(u, n)
            /\ \A y \in 1 .. n : u[y].parent = IF t[y].parent = x THEN q ELSE t[y].parent
            /\ \A y \in 1 .. x - 1 : DomIsOpen(t, n, y) => DomIsOpen(u, n, y)
<1> DEFINE u == DomFlatten(t, x)
           q == t[x].parent
           l == t[x].last
<1>0. /\ n \in Nat \ {0} /\ t[1].parent = 0 /\ \A y \in 2 .. n : t[y].parent \in 1 .. y - 1
      /\ \A y \in 2 .. n : \A z \in 1 .. y - 1 : z > t[y].parent => t[z].parent >= t[y].parent
  BY DEF DomTree, DomNested
<1>1. q \in 1 .. x - 1
  BY <1>0
<1>2. \A y \in x + 1 .. n : t[y].parent >= x
  BY DEF DomIsOpen
<1>3. ASSUME DomTree(u, n), \A y \in 1 .. n : u[y].parent = IF t[y].parent = x THEN q ELSE t[y].parent,
             NEW y \in 1 .. x - 1, DomIsOpen(t, n, y)
      PROVE  DomIsOpen(u, n, y)
  <2>1. q >= y
    <3>1. x \in y + 1 .. n
      BY <1>0
    <3> QED
      BY <1>3, <3>1 DEF DomIsOpen
  <2> HIDE DEF q, u
  <2> QED
    BY <1>0, <1>1, <1>3, <2>1 DEF DomIsOpen
<1>4. CASE t[x].first = 0
  <2>1. u = t
    BY <1>4 DEF DomFlatten, DomNull
  <2>2. \A y \in 1 .. n : t[y].parent # x
    <3>1. SUFFICES ASSUME NEW y \in 1 .. n, t[y].parent = x PROVE FALSE
      OBVIOUS
    <3>2. x < n /\ x + 1 \in x + 1 .. n /\ x + 1 \in 2 .. n
      BY <1>0, <3>1
    <3>3. t[x + 1].parent >= x /\ t[x + 1].parent \in 1 .. (x + 1) - 1
      BY <1>0, <1>2, <3>2
    <3>4. t[x + 1].parent = x
      BY <3>3
    <3>5. t[x].first = IF x < n /\ t[x + 1].parent = x THEN x + 1 ELSE 0
      BY <1>0 DEF DomTree, DomFirsts
    <3> QED
      BY <1>4, <3>2, <3>4, <3>5
  <2> HIDE DEF u
  <2> QED
    BY <1>3, <2>1, <2>2 DEF u
<1>5. CASE t[x].first # 0
  <2>1. /\ t[x].next = 0 /\ x < n /\ t[x + 1].parent = x
        /\ l \in 1 .. n /\ t[l].parent = x /\ l > x /\ \A y \in 1 .. n : y > l => t[y].parent # x
    BY <1>5, DomOpenIs
  <2>2. /\ u \in [DomPlaces(n) -> DomRecords]
        /\ \A y \in DomPlaces(n) :
             /\ u[y].parent = IF y \in 1 .. n /\ t[y].parent = x THEN q ELSE t[y].parent
             /\ u[y].next = IF y = x THEN x + 1 ELSE t[y].next
             /\ u[y].last = IF y = x THEN 0 ELSE IF y = q THEN l ELSE t[y].last
             /\ u[y].first = IF y = x THEN 0 ELSE t[y].first
    BY <1>5, DomFlattenIs
  <2> HIDE DEF u, l, q
  <2>3. \A y \in 1 .. n :
          /\ u[y].parent = IF t[y].parent = x THEN q ELSE t[y].parent
          /\ u[y].next = IF y = x THEN x + 1 ELSE t[y].next
          /\ u[y].last = IF y = x THEN 0 ELSE IF y = q THEN l ELSE t[y].last
          /\ u[y].first = IF y = x THEN 0 ELSE t[y].first
    BY <2>2 DEF DomPlaces
  <2>4. t[x].parent = q
    BY DEF q
  <2>5. \A y \in 1 .. n : u[y].parent # x
    BY <1>1, <2>3
  <2>6. DomNested(u, n)
    <3>1. u[1].parent = 0
      BY <1>0, <2>3
    <3>2. \A y \in 2 .. n : u[y].parent \in 1 .. y - 1
      <4> TAKE y \in 2 .. n
      <4>1. t[y].parent \in 1 .. y - 1
        BY <1>0
      <4>2. t[y].parent = x => q \in 1 .. y - 1
        BY <1>1, <4>1
      <4> QED
        BY <2>3, <4>1, <4>2
    <3>3. ASSUME NEW y \in 2 .. n, NEW z \in 1 .. y - 1, z > u[y].parent PROVE u[z].parent >= u[y].parent
      <4>0. z \in 1 .. n /\ y \in 1 .. n /\ t[y].parent \in 1 .. y - 1
        BY <1>0
      <4>1. CASE t[y].parent = x
        <5>1. u[y].parent = q
          BY <2>3, <4>0, <4>1
        <5>2. CASE z < x
          <6>1. t[z].parent >= q
            BY <1>0, <1>1, <2>4, <3>3, <5>1, <5>2
          <6> QED
            BY <1>1, <2>3, <4>0, <5>1, <6>1
        <5>3. CASE z = x
          BY <1>1, <2>3, <2>4, <4>0, <5>1, <5>3
        <5>4. CASE z > x
          <6>1. t[z].parent >= x /\ t[z].parent \in Int
            BY <1>0, <1>2, <4>0, <5>4
          <6>2. u[z].parent = q \/ u[z].parent = t[z].parent
            BY <2>3, <4>0
          <6>3. q \in Int /\ x \in Int /\ q < x
            BY <1>1
          <6> QED
            BY <5>1, <6>1, <6>2, <6>3
        <5> QED
          BY <1>1, <5>2, <5>3, <5>4
      <4>2. CASE t[y].parent # x
        <5>1. u[y].parent = t[y].parent
          BY <2>3, <4>0, <4>2
        <5>2. t[z].parent >= t[y].parent
          BY <1>0, <3>3, <5>1
        <5>3. CASE t[z].parent # x
          BY <2>3, <4>0, <5>1, <5>2, <5>3
        <5>4. CASE t[z].parent = x
          \* y is after x, and its parent is not between the parent of x and x.
          <6>1. z > x
            BY <1>0, <4>0, <5>4
          <6>2. t[y].parent >= x
            BY <1>0, <1>2, <4>0, <6>1
          <6>3. t[y].parent = x
            BY <4>0, <5>2, <5>4, <6>2
          <6> QED
            BY <4>2, <6>3
        <5> QED
          BY <5>3, <5>4
      <4> QED
        BY <4>1, <4>2
    <3> QED
      BY <3>1, <3>2, <3>3 DEF DomNested
  <2>7. DomFirsts(u, n)
    <3> SUFFICES ASSUME NEW y \in 1 .. n
                 PROVE  u[y].first = IF y < n /\ u[y + 1].parent = y THEN y + 1 ELSE 0
      BY DEF DomFirsts
    <3>1. t[y].first = IF y < n /\ t[y + 1].parent = y THEN y + 1 ELSE 0
      BY DEF DomTree, DomFirsts
    <3>2. CASE y = x
      <4>1. x + 1 \in 1 .. n
        BY <1>0, <2>1
      <4>2. u[x + 1].parent # x
        BY <2>5, <4>1
      <4> QED
        BY <2>3, <3>2, <4>2
    <3>3. CASE y # x /\ y < n
      <4>1. y + 1 \in 1 .. n /\ y + 1 \in 2 .. n
        BY <1>0, <3>3
      <4>2. u[y + 1].parent = IF t[y + 1].parent = x THEN q ELSE t[y + 1].parent
        BY <2>3, <4>1
      <4>3. t[y + 1].parent = x => y >= x
        BY <1>0, <4>1
      <4> QED
        BY <1>1, <2>3, <3>1, <3>3, <4>2, <4>3
    <3>4. CASE y # x /\ y = n
      BY <1>0, <2>3, <3>1, <3>4
    <3> QED
      BY <1>0, <3>2, <3>3, <3>4
  <2>8. DomLasts(u, n)
    <3> SUFFICES ASSUME NEW z \in 1 .. n
                 PROVE  IF u[z].last = 0 THEN \A y \in 1 .. n : u[y].parent # z
                        ELSE /\ u[z].last \in 1 .. n /\ u[u[z].last].parent = z
                             /\ \A y \in 1 .. n : y > u[z].last => u[y].parent # z
      BY DEF DomLasts
    <3>1. CASE z = x
      BY <2>3, <2>5, <3>1
    <3>2. CASE z = q
      <4>1. u[z].last = l /\ l # 0 /\ u[l].parent = q
        BY <1>1, <2>1, <2>3, <3>2
      <4>2. ASSUME NEW y \in 1 .. n, y > l PROVE u[y].parent # q
        <5>1. t[y].parent # x /\ t[y].parent >= x
          BY <1>0, <1>2, <2>1, <4>2
        <5> QED
          BY <1>1, <2>3, <5>1
      <4> QED
        BY <2>1, <3>2, <4>1, <4>2
    <3>3. CASE z # x /\ z # q
      <4>1. u[z].last = t[z].last
        BY <2>3, <3>3
      <4>2. \A y \in 1 .. n : u[y].parent = z <=> t[y].parent = z
        BY <2>3, <3>3
      <4>3. IF t[z].last = 0 THEN \A y \in 1 .. n : t[y].parent # z
            ELSE /\ t[z].last \in 1 .. n /\ t[t[z].last].parent = z
                 /\ \A y \in 1 .. n : y > t[z].last => t[y].parent # z
        BY DEF DomTree, DomLasts
      <4> QED
        BY <4>1, <4>2, <4>3
    <3> QED
      BY <3>1, <3>2, <3>3
  <2>9. DomNexts(u, n)
    <3> SUFFICES ASSUME NEW z \in 2 .. n
                 PROVE  IF u[z].next = 0 THEN \A y \in z + 1 .. n : u[y].parent # u[z].parent
                        ELSE /\ u[z].next \in z + 1 .. n /\ u[u[z].next].parent = u[z].parent
                             /\ \A y \in z + 1 .. u[z].next - 1 : u[y].parent # u[z].parent
      BY DEF DomNexts
    <3>0. z \in 1 .. n /\ (\A y \in z + 1 .. n : y \in 1 .. n) /\ t[z].parent \in 1 .. z - 1
      BY <1>0
    <3>1. IF t[z].next = 0 THEN \A y \in z + 1 .. n : t[y].parent # t[z].parent
          ELSE /\ t[z].next \in z + 1 .. n /\ t[t[z].next].parent = t[z].parent
               /\ \A y \in z + 1 .. t[z].next - 1 : t[y].parent # t[z].parent
      BY DEF DomTree, DomNexts
    <3>2. CASE z = x
      <4>1. u[z].next = x + 1 /\ u[x].parent = q /\ x + 1 \in 1 .. n
        BY <1>0, <1>1, <2>1, <2>3, <2>4, <3>2
      <4>2. u[x + 1].parent = q
        BY <2>1, <2>3, <4>1
      <4>3. u[z].next \in z + 1 .. n
        BY <1>0, <2>1, <3>2, <4>1
      <4>4. \A y \in z + 1 .. u[z].next - 1 : FALSE
        BY <3>2, <4>1
      <4> QED
        BY <3>2, <4>1, <4>2, <4>3, <4>4
    <3>3. CASE z # x /\ t[z].next = 0
      <4>1. u[z].next = 0
        BY <2>3, <3>0, <3>3
      <4>2. ASSUME NEW y \in z + 1 .. n, u[y].parent = u[z].parent PROVE FALSE
        <5>1. t[y].parent # t[z].parent
          BY <3>1, <3>3
        <5>2. \/ t[z].parent = x /\ t[y].parent = q
              \/ t[z].parent = q /\ t[y].parent = x
          BY <2>3, <3>0, <4>2, <5>1
        <5>3. CASE t[z].parent = x /\ t[y].parent = q
          <6>1. y > x
            BY <3>0, <5>3
          <6>2. t[y].parent >= x
            BY <1>0, <1>2, <6>1
          <6> QED
            BY <1>1, <5>3, <6>2
        <5>4. CASE t[z].parent = q /\ t[y].parent = x
          <6>1. z < x
            <7>1. SUFFICES ASSUME z > x PROVE FALSE
              BY <3>3
            <7>2. t[z].parent >= x
              BY <1>0, <1>2, <7>1
            <7> QED
              BY <1>1, <5>4, <7>2
          <6>2. x \in z + 1 .. n
            BY <1>0, <6>1
          <6> QED
            BY <2>4, <3>1, <3>3, <5>4, <6>2
        <5> QED
          BY <5>2, <5>3, <5>4
      <4> QED
        BY <4>1, <4>2
    <3>4. CASE z # x /\ t[z].next # 0
      <4> DEFINE w == t[z].next
      <4>1. /\ w \in z + 1 .. n /\ t[w].parent = t[z].parent
            /\ \A y \in z + 1 .. w - 1 : t[y].parent # t[z].parent
        BY <3>1, <3>4
      <4> HIDE DEF w
      <4>2. u[z].next = w
        BY <2>3, <3>0, <3>4 DEF w
      <4>3. u[w].parent = u[z].parent /\ w # 0
        BY <2>3, <3>0, <4>1
      <4>4. ASSUME NEW y \in z + 1 .. w - 1, u[y].parent = u[z].parent PROVE FALSE
        <5>0. y \in z + 1 .. n
          BY <4>1, <1>0
        <5>1. t[y].parent # t[z].parent
          BY <4>1
        <5>2. \/ t[z].parent = x /\ t[y].parent = q
              \/ t[z].parent = q /\ t[y].parent = x
          BY <2>3, <3>0, <4>4, <5>0, <5>1
        <5>3. CASE t[z].parent = x /\ t[y].parent = q
          <6>1. y > x
            BY <3>0, <5>3
          <6>2. t[y].parent >= x
            BY <1>0, <1>2, <5>0, <6>1
          <6> QED
            BY <1>1, <5>3, <6>2
        <5>4. CASE t[z].parent = q /\ t[y].parent = x
          <6>1. y > x
            BY <1>0, <3>0, <5>0, <5>4
          <6>2. w > x /\ w \in x + 1 .. n
            BY <1>0, <4>1, <6>1
          <6>3. t[w].parent >= x
            BY <1>2, <6>2
          <6> QED
            BY <1>1, <4>1, <5>4, <6>3
        <5> QED
          BY <5>2, <5>3, <5>4
      <4> QED
        BY <4>1, <4>2, <4>3, <4>4
    <3> QED
      BY <3>2, <3>3, <3>4
  <2>10. DomEnds(u)
    <3>1. DomHead \in DomPlaces(n) /\ DomFeet \in DomPlaces(n) /\ 1 \in DomPlaces(n)
          /\ DomHead # x /\ DomFeet # x /\ DomHead \notin 1 .. n /\ DomFeet \notin 1 .. n
      BY <1>0 DEF DomPlaces, DomHead, DomFeet
    <3> QED
      BY <2>2, <3>1 DEF DomTree, DomEnds
  <2>11. DomTree(u, n)
    BY <1>0, <2>2, <2>6, <2>7, <2>8, <2>9, <2>10 DEF DomTree
  <2>12. \A y \in 1 .. n : u[y].parent = IF t[y].parent = x THEN q ELSE t[y].parent
    BY <2>3
  <2> QED
    BY <1>3, <2>11, <2>12 DEF u, q
<1> QED
  BY <1>4, <1>5

-----------------------------------------------------------------------------
(* The parser: the elements a closing tag climbs over *)

\* From x up by the parents, a part of the way to the root.
DomUpwards(t, n, x, s) ==
  /\ s \in Seq(2 .. n)
  /\ x # 1 => Len(s) > 0
  /\ Len(s) > 0 => s[1] = x
  /\ \A i \in 1 .. Len(s) - 1 : s[i + 1] = t[s[i]].parent

HtmlClimbStep(S, name, f, n) ==
  IF n = DomRoot THEN <<>>
  ELSE <<n>> \o (IF S.node[n].name = name THEN <<>> ELSE f[S.link[n].parent])

LEMMA HtmlClimbIs ==
  ASSUME NEW S, NEW name, NEW n, n = Len(S.node), DomTree(S.link, n), S.cur \in 1 .. n
  PROVE  DomUpwards(S.link, n, S.cur, HtmlClimb(S, name))
<1> DEFINE D == 1 .. n
           V == Seq(2 .. n)
           t == S.link
           e == [p \in D \X [D -> V] |-> HtmlClimbStep(S, name, p[2], p[1])]
           Run(f) == f = [m \in D |-> HtmlClimbStep(S, name, f, m)]
           from == CHOOSE f : Run(f)
           r == [m \in D |-> m]
<1>1. n \in Nat \ {0} /\ \A m \in 2 .. n : t[m].parent \in 1 .. m - 1
  BY DEF DomTree, DomNested
<1>2. \A m \in D : m # 1 => m \in 2 .. n /\ t[m].parent \in D /\ t[m].parent < m
  BY <1>1
<1>3. <<>> \in V /\ \A m \in D : m # 1 => <<m>> \in V
  BY <1>2
<1>4. ASSUME NEW m \in D, NEW f \in [D -> V] PROVE HtmlClimbStep(S, name, f, m) \in V
  <2>1. CASE m = 1
    BY <1>3, <2>1 DEF HtmlClimbStep, DomRoot
  <2>2. CASE m # 1
    <3> DEFINE s == IF S.node[m].name = name THEN <<>> ELSE f[t[m].parent]
    <3>1. s \in V /\ <<m>> \in V
      BY <1>2, <1>3, <2>2
    <3>2. HtmlClimbStep(S, name, f, m) = <<m>> \o s
      BY <2>2 DEF HtmlClimbStep, DomRoot
    <3> HIDE DEF s
    <3>3. <<m>> \o s \in V
      BY <3>1, ConcatProperties
    <3> QED
      BY <3>2, <3>3
  <2> QED
    BY <2>1, <2>2
<1>5. e \in [D \X [D -> V] -> V]
  <2>1. ASSUME NEW p \in D \X [D -> V] PROVE HtmlClimbStep(S, name, p[2], p[1]) \in V
    <3>1. p[1] \in D /\ p[2] \in [D -> V]
      OBVIOUS
    <3> HIDE DEF D, V
    <3> QED
      BY <1>4, <3>1
  <2> HIDE DEF D, V
  <2> QED
    BY <2>1
<1>6. RecLower(D, V, r, e)
  <2> SUFFICES ASSUME NEW m \in D, NEW f \in [D -> V], NEW g \in [D -> V],
                      \A j \in D : r[j] < r[m] => f[j] = g[j]
               PROVE  e[<<m, f>>] = e[<<m, g>>]
    BY DEF RecLower
  <2>1. m # 1 => f[t[m].parent] = g[t[m].parent]
    BY <1>2
  <2>2. HtmlClimbStep(S, name, f, m) = HtmlClimbStep(S, name, g, m)
    BY <2>1 DEF HtmlClimbStep, DomRoot
  <2>3. e[<<m, f>>] = HtmlClimbStep(S, name, f, m) /\ e[<<m, g>>] = HtmlClimbStep(S, name, g, m)
    <3> HIDE DEF D, V
    <3> QED
      OBVIOUS
  <2> QED
    BY <2>2, <2>3
<1>7. RecStep(D, V, n, r, e)
  <2>1. r \in [D -> 0 .. n] /\ n \in Nat
    BY <1>1
  <2>2. V # {}
    <3> HIDE DEF V
    <3> QED
      BY <1>3
  <2> HIDE DEF D, V, r, e
  <2> QED
    BY <1>5, <1>6, <2>1, <2>2 DEF RecStep
<1>8. \E h : Run(h)
  <2> HIDE DEF r
  <2>1. PICK h \in [D -> V] : h = [m \in D |-> e[<<m, h>>]]
    <3> HIDE DEF D, V, e
    <3>1. RecHas(D, V, e)
      BY <1>7, RecExists
    <3> QED
      BY <3>1 DEF RecHas
  <2>2. \A m \in D : e[<<m, h>>] = HtmlClimbStep(S, name, h, m)
    <3> HIDE DEF D, V
    <3> QED
      OBVIOUS
  <2>3. h = [m \in D |-> HtmlClimbStep(S, name, h, m)]
    <3> HIDE DEF D, V, e
    <3> QED
      BY <2>1, <2>2
  <2> QED
    BY <2>3
<1>9. HtmlClimb(S, name) = from[S.cur]
  <2>1. HtmlClimb(S, name) = (CHOOSE f : f = [m \in 1 .. Len(S.node) |-> HtmlClimbStep(S, name, f, m)])[S.cur]
    BY Zenon DEF HtmlClimb, HtmlClimbStep
  <2> QED
    BY <2>1
<1> HIDE DEF r, e, V
<1>10. \A m \in D : from[m] = HtmlClimbStep(S, name, from, m)
  <2>1. Run(from)
    <3> HIDE DEF Run
    <3> QED
      BY <1>8, Zenon
  <2> HIDE DEF from
  <2> QED
    BY <2>1
<1> HIDE DEF from
<1> DEFINE T == {m \in 0 .. n : \A k \in 1 .. m : DomUpwards(t, n, k, from[k])}
<1>11. 0 \in T
  BY <1>1
<1>12. ASSUME NEW m \in 0 .. n, m \in T, m < n PROVE m + 1 \in T
  <2> DEFINE k == m + 1
  <2>1. k \in D /\ k \in 0 .. n /\ m \in Nat
    BY <1>1, <1>12
  <2>2. DomUpwards(t, n, k, from[k])
    <3>1. from[k] = HtmlClimbStep(S, name, from, k)
      BY <1>10, <2>1
    <3> HIDE DEF k
    <3>2. CASE k = 1
      <4>1. from[k] = <<>>
        BY <3>1, <3>2 DEF HtmlClimbStep, DomRoot
      <4> QED
        BY <3>2, <4>1 DEF DomUpwards
    <3>3. CASE k # 1
      <4> DEFINE s == IF S.node[k].name = name THEN <<>> ELSE from[t[k].parent]
                 q == t[k].parent
      <4>1. from[k] = <<k>> \o s
        BY <3>1, <3>3 DEF HtmlClimbStep, DomRoot
      <4>2. k \in 2 .. n /\ q \in 1 .. n /\ q < k
        BY <1>2, <2>1, <3>3
      <4>3. q \in 1 .. m
        BY <2>1, <4>2 DEF k
      <4>4. DomUpwards(t, n, q, from[q])
        BY <1>12, <4>3
      <4>5. s = <<>> \/ s = from[q]
        OBVIOUS
      <4>6. s \in Seq(2 .. n) /\ (Len(s) > 0 => s[1] = q)
            /\ \A i \in 1 .. Len(s) - 1 : s[i + 1] = t[s[i]].parent
        <5> HIDE DEF s
        <5>1. CASE s = <<>>
          <6>1. s \in Seq(2 .. n) /\ Len(s) = 0
            BY <5>1
          <6> QED
            BY <6>1
        <5>2. CASE s = from[q]
          BY <4>4, <5>2 DEF DomUpwards
        <5> QED
          BY <4>5, <5>1, <5>2
      <4> HIDE DEF s
      <4> DEFINE w == <<k>> \o s
      <4>7. w \in Seq(2 .. n) /\ Len(w) = Len(s) + 1 /\ w[1] = k
            /\ \A i \in 2 .. Len(s) + 1 : w[i] = s[i - 1]
        BY <4>2, <4>6
      <4> HIDE DEF w
      <4>8. ASSUME NEW i \in 1 .. Len(w) - 1 PROVE w[i + 1] = t[w[i]].parent
        <5>0. Len(s) \in Nat
          BY <4>6
        <5>1. CASE i = 1
          BY <4>6, <4>7, <5>0, <5>1
        <5>2. CASE i # 1
          <6>1. i \in 2 .. Len(s) + 1 /\ i + 1 \in 2 .. Len(s) + 1 /\ i - 1 \in 1 .. Len(s) - 1
                /\ (i - 1) + 1 = i /\ (i + 1) - 1 = i
            BY <4>7, <5>0, <5>2
          <6>2. w[i + 1] = s[i] /\ w[i] = s[i - 1]
            BY <4>7, <6>1
          <6>3. s[(i - 1) + 1] = t[s[i - 1]].parent
            BY <4>6, <6>1
          <6> QED
            BY <6>1, <6>2, <6>3
        <5> QED
          BY <5>1, <5>2
      <4>9. Len(w) > 0
        BY <4>6, <4>7
      <4> QED
        BY <4>1, <4>7, <4>8, <4>9 DEF DomUpwards, w
    <3> QED
      BY <3>2, <3>3
  <2>3. \A j \in 1 .. k : j \in 1 .. m \/ j = k
    BY <2>1
  <2> HIDE DEF k
  <2> QED
    BY <1>12, <2>1, <2>2, <2>3 DEF k
<1> HIDE DEF T
<1>13. \A m \in 0 .. n : m \in T
  BY <1>1, <1>11, <1>12, UpTo
<1>14. n \in T
  BY <1>1, <1>13
<1>15. DomUpwards(t, n, S.cur, from[S.cur])
  BY <1>14 DEF T
<1> QED
  BY <1>9, <1>15

\* What a list of nodes leaves of the tree when they are flattened one after the other.
DomFlatRun(f, t, s) == f = [j \in 0 .. Len(s) |-> IF j = 0 THEN t ELSE DomFlatten(f[j - 1], s[j])]

DomFlatSteps(f, t, s, m) == f[0] = t /\ \A j \in 1 .. m : f[j] = DomFlatten(f[j - 1], s[j])

LEMMA DomFlatRuns ==
  ASSUME NEW t, NEW s, Len(s) \in Nat
  PROVE  DomFlatSteps(CHOOSE f : DomFlatRun(f, t, s), t, s, Len(s))
<1> DEFINE k == Len(s)
           T == {m \in 0 .. k : \E f : DomFlatSteps(f, t, s, m)}
           flat == CHOOSE f : DomFlatRun(f, t, s)
<1>1. 0 \in T
  <2>1. DomFlatSteps([j \in 0 .. 0 |-> t], t, s, 0)
    BY DEF DomFlatSteps
  <2> QED
    BY <2>1
<1>2. ASSUME NEW m \in 0 .. k, m \in T, m < k PROVE m + 1 \in T
  <2>1. PICK f : DomFlatSteps(f, t, s, m)
    BY <1>2
  <2> DEFINE g == [j \in 0 .. m + 1 |-> IF j = m + 1 THEN DomFlatten(f[m], s[m + 1]) ELSE f[j]]
  <2>2. g[0] = t
    BY <1>2, <2>1 DEF DomFlatSteps
  <2>3. ASSUME NEW j \in 1 .. m + 1 PROVE g[j] = DomFlatten(g[j - 1], s[j])
    <3>1. j - 1 \in 0 .. m /\ g[j - 1] = f[j - 1] /\ j \in 0 .. m + 1
      BY <1>2
    <3>2. CASE j = m + 1
      <4>1. j - 1 = m
        BY <1>2, <3>2
      <4>2. g[j] = DomFlatten(f[m], s[m + 1])
        BY <3>1, <3>2
      <4> HIDE DEF g
      <4> QED
        BY <3>1, <3>2, <4>1, <4>2
    <3>3. CASE j \in 1 .. m
      <4>1. f[j] = DomFlatten(f[j - 1], s[j])
        BY <2>1, <3>3 DEF DomFlatSteps
      <4>2. g[j] = f[j]
        BY <1>2, <3>1, <3>3
      <4> HIDE DEF g
      <4> QED
        BY <3>1, <4>1, <4>2
    <3> QED
      BY <1>2, <3>2, <3>3
  <2>4. DomFlatSteps(g, t, s, m + 1)
    <3> HIDE DEF g
    <3> QED
      BY <2>2, <2>3 DEF DomFlatSteps
  <2>5. m + 1 \in 0 .. k
    BY <1>2
  <2> HIDE DEF g
  <2> QED
    BY <2>4, <2>5
<1> HIDE DEF T
<1>3. \A m \in 0 .. k : m \in T
  BY <1>1, <1>2, UpTo
<1>4. PICK f : DomFlatSteps(f, t, s, k)
  <2>1. k \in T
    BY <1>3
  <2> QED
    BY <2>1 DEF T
<1>5. \E g : DomFlatRun(g, t, s)
  <2> DEFINE g == [j \in 0 .. k |-> f[j]]
  <2>1. ASSUME NEW j \in 0 .. k PROVE g[j] = IF j = 0 THEN t ELSE DomFlatten(g[j - 1], s[j])
    <3>1. CASE j = 0
      BY <1>4, <3>1 DEF DomFlatSteps
    <3>2. CASE j # 0
      <4>1. j \in 1 .. k /\ j - 1 \in 0 .. k
        BY <3>2
      <4>2. f[j] = DomFlatten(f[j - 1], s[j])
        BY <1>4, <4>1 DEF DomFlatSteps
      <4>3. g[j] = f[j] /\ g[j - 1] = f[j - 1]
        BY <4>1
      <4> HIDE DEF g
      <4> QED
        BY <3>2, <4>2, <4>3
    <3> QED
      BY <3>1, <3>2
  <2>2. g = [j \in 0 .. k |-> g[j]]
    OBVIOUS
  <2> HIDE DEF g
  <2>3. g = [j \in 0 .. k |-> IF j = 0 THEN t ELSE DomFlatten(g[j - 1], s[j])]
    BY <2>1, <2>2
  <2> QED
    BY <2>3, Zenon DEF DomFlatRun
<1>6. DomFlatRun(flat, t, s)
  BY <1>5, Zenon
<1> HIDE DEF flat
<1>7. \A j \in 0 .. k : flat[j] = IF j = 0 THEN t ELSE DomFlatten(flat[j - 1], s[j])
  BY <1>6 DEF DomFlatRun
<1>8. DomFlatSteps(flat, t, s, k)
  BY <1>7 DEF DomFlatSteps
<1> QED
  BY <1>8 DEF flat

\* The nodes climbed over are open, each above the one before.
LEMMA DomUpwardsOpen ==
  ASSUME NEW t, NEW n, DomTree(t, n), NEW x, DomIsOpen(t, n, x), NEW s, DomUpwards(t, n, x, s)
  PROVE  \A j \in 1 .. Len(s) : /\ s[j] \in 2 .. n /\ DomIsOpen(t, n, s[j])
                                /\ \A i \in 1 .. j - 1 : s[i] > s[j]
<1>0. s \in Seq(2 .. n) /\ Len(s) \in Nat /\ n \in Nat /\ (Len(s) > 0 => s[1] = x)
      /\ \A i \in 1 .. Len(s) - 1 : s[i + 1] = t[s[i]].parent
  BY DEF DomUpwards, DomTree
<1>1. \A j \in 1 .. Len(s) : s[j] \in 2 .. n
  BY <1>0
<1> DEFINE T == {m \in 0 .. Len(s) :
                   m > 0 => DomIsOpen(t, n, s[m]) /\ \A i \in 1 .. m - 1 : s[i] > s[m]}
<1>2. 0 \in T
  BY <1>0
<1>3. ASSUME NEW m \in 0 .. Len(s), m \in T, m < Len(s) PROVE m + 1 \in T
  <2>1. CASE m = 0
    <3>1. m + 1 = 1 /\ 1 \in 0 .. Len(s) /\ Len(s) > 0
      BY <1>0, <1>3, <2>1
    <3>2. DomIsOpen(t, n, s[1]) /\ \A i \in 1 .. 1 - 1 : s[i] > s[1]
      BY <1>0, <3>1
    <3> QED
      BY <3>1, <3>2
  <2>2. CASE m # 0
    <3>1. m \in 1 .. Len(s) - 1 /\ m \in 1 .. Len(s) /\ m + 1 \in 1 .. Len(s)
      BY <1>0, <1>3, <2>2
    <3>2. DomIsOpen(t, n, s[m]) /\ \A i \in 1 .. m - 1 : s[i] > s[m]
      BY <1>3, <3>1
    <3>3. s[m + 1] = t[s[m]].parent /\ s[m] \in 2 .. n
      BY <1>0, <1>1, <3>1
    <3>4. s[m + 1] \in 1 .. s[m] - 1 /\ DomIsOpen(t, n, s[m + 1])
      BY <3>2, <3>3, DomOpenParent
    <3>5. ASSUME NEW i \in 1 .. (m + 1) - 1 PROVE s[i] > s[m + 1]
      <4>1. i = m \/ i \in 1 .. m - 1
        BY <3>1
      <4>2. i \in 1 .. Len(s)
        BY <3>1
      <4>3. s[i] \in Int /\ s[m] \in Int
        BY <1>0, <1>1, <3>1, <4>2
      <4> QED
        BY <3>2, <3>4, <4>1, <4>3
    <3> QED
      BY <3>1, <3>4, <3>5
  <2> QED
    BY <2>1, <2>2
<1> HIDE DEF T
<1>4. \A m \in 0 .. Len(s) : m \in T
  BY <1>0, <1>2, <1>3, UpTo
<1>5. ASSUME NEW j \in 1 .. Len(s) PROVE DomIsOpen(t, n, s[j]) /\ \A i \in 1 .. j - 1 : s[i] > s[j]
  <2>1. j \in T /\ j > 0
    BY <1>0, <1>4
  <2> QED
    BY <2>1 DEF T
<1> QED
  BY <1>1, <1>5

\* The children of the first nodes of s have gone to the next one.
DomGone(t, u, n, s, j) ==
  /\ DomTree(u, n)
  /\ \A y \in 1 .. n :
       u[y].parent = IF \E i \in 1 .. j : t[y].parent = s[i] THEN s[j + 1] ELSE t[y].parent
  /\ \A y \in 1 .. s[j + 1] : DomIsOpen(t, n, y) => DomIsOpen(u, n, y)

LEMMA DomFlatTrees ==
  ASSUME NEW t, NEW n, DomTree(t, n), NEW x, DomIsOpen(t, n, x), NEW s, DomUpwards(t, n, x, s),
         NEW f, DomFlatSteps(f, t, s, Len(s)), Len(s) > 0
  PROVE  DomGone(t, f[Len(s) - 1], n, s, Len(s) - 1)
<1> DEFINE k == Len(s)
           T == {m \in 0 .. k : m < k => DomGone(t, f[m], n, s, m)}
<1>0. /\ k \in Nat \ {0} /\ n \in Nat
      /\ \A i \in 1 .. k - 1 : s[i + 1] = t[s[i]].parent
      /\ \A j \in 1 .. k : f[j] = DomFlatten(f[j - 1], s[j])
  BY DEF DomUpwards, DomFlatSteps, DomTree
<1>1. \A j \in 1 .. k : s[j] \in 2 .. n /\ DomIsOpen(t, n, s[j]) /\ \A i \in 1 .. j - 1 : s[i] > s[j]
  BY DomUpwardsOpen
<1>2. 0 \in T
  <2>1. f[0] = t
    BY DEF DomFlatSteps
  <2>2. \A y \in 1 .. n : ~ \E i \in 1 .. 0 : t[y].parent = s[i]
    OBVIOUS
  <2>3. DomGone(t, f[0], n, s, 0)
    BY <2>1, <2>2 DEF DomGone
  <2> QED
    BY <1>0, <2>3
<1>3. ASSUME NEW m \in 0 .. k, m \in T, m < k PROVE m + 1 \in T
  <2>1. SUFFICES ASSUME m + 1 < k PROVE DomGone(t, f[m + 1], n, s, m + 1)
    BY <1>3, <1>0
  <2> DEFINE z == s[m + 1]
             u == f[m]
             v == f[m + 1]
             q == s[(m + 1) + 1]
  <2>2. /\ m \in Nat /\ m + 1 \in 1 .. k /\ m + 1 \in 1 .. k - 1 /\ (m + 1) + 1 \in 1 .. k /\ (m + 1) - 1 = m
        /\ m + 1 \in 1 .. ((m + 1) + 1) - 1
    BY <1>0, <2>1
  <2>3. DomGone(t, u, n, s, m)
    BY <1>3
  <2>4. v = DomFlatten(u, z)
    BY <1>0, <2>2
  <2>5. z \in 2 .. n /\ DomIsOpen(t, n, z) /\ q \in 2 .. n /\ q < z /\ q = t[z].parent
    BY <1>0, <1>1, <2>2
  <2>6. \A i \in 1 .. m : s[i] > z /\ s[i] \in 2 .. n
    <3> TAKE i \in 1 .. m
    <3>1. i \in 1 .. (m + 1) - 1 /\ i \in 1 .. k
      BY <1>0, <2>2
    <3> QED
      BY <1>1, <2>2, <3>1
  <2> HIDE DEF u, v, z, q
  <2>7. /\ DomTree(u, n)
        /\ \A y \in 1 .. n : u[y].parent = IF \E i \in 1 .. m : t[y].parent = s[i] THEN z ELSE t[y].parent
        /\ \A y \in 1 .. z : DomIsOpen(t, n, y) => DomIsOpen(u, n, y)
    BY <2>3 DEF DomGone, z
  <2>8. z \in 1 .. n /\ DomIsOpen(u, n, z)
    BY <1>0, <2>5, <2>7
  <2>9. u[z].parent = q
    <3>1. ~ \E i \in 1 .. m : q = s[i]
      BY <1>0, <2>5, <2>6
    <3> QED
      BY <2>5, <2>7, <2>8, <3>1
  <2>10. /\ DomTree(v, n)
         /\ \A y \in 1 .. n : v[y].parent = IF u[y].parent = z THEN q ELSE u[y].parent
         /\ \A y \in 1 .. z - 1 : DomIsOpen(u, n, y) => DomIsOpen(v, n, y)
    BY <2>4, <2>5, <2>7, <2>8, <2>9, DomFlattenTree
  <2>11. ASSUME NEW y \in 1 .. n
         PROVE  v[y].parent = IF \E i \in 1 .. m + 1 : t[y].parent = s[i] THEN q ELSE t[y].parent
    <3>1. (\E i \in 1 .. m + 1 : t[y].parent = s[i])
            <=> ((\E i \in 1 .. m : t[y].parent = s[i]) \/ t[y].parent = z)
      <4>1. \A i \in 1 .. m + 1 : i \in 1 .. m \/ i = m + 1
        BY <2>2
      <4>2. \A i \in 1 .. m : i \in 1 .. m + 1
        BY <2>2
      <4>3. m + 1 \in 1 .. m + 1
        BY <2>2
      <4> QED
        BY <4>1, <4>2, <4>3 DEF z
    <3> QED
      BY <2>7, <2>10, <3>1
  <2>12. ASSUME NEW y \in 1 .. q, DomIsOpen(t, n, y) PROVE DomIsOpen(v, n, y)
    <3>1. y \in 1 .. z /\ y \in 1 .. z - 1
      BY <1>0, <2>5
    <3> QED
      BY <2>7, <2>10, <2>12, <3>1
  <2> QED
    BY <2>10, <2>11, <2>12 DEF DomGone, v, q
<1> HIDE DEF T
<1>4. \A m \in 0 .. k : m \in T
  BY <1>0, <1>2, <1>3, UpTo
<1>5. k - 1 \in T /\ k - 1 < k
  BY <1>0, <1>4
<1> QED
  BY <1>5 DEF T

-----------------------------------------------------------------------------
(* The parser: what is below a node *)

\* y is below x.
DomUnder(t, x, y) == x < y /\ \A z \in x + 1 .. y : t[z].parent >= x

DomIsAbove(t, x, y) == x = y \/ DomUnder(t, x, y)

LEMMA DomParents ==
  ASSUME NEW t, NEW n, DomTree(t, n)
  PROVE  /\ n \in Nat \ {0} /\ t[1].parent = 0 /\ \A y \in 1 .. n : t[y].parent \in Int
         /\ \A y \in 2 .. n : t[y].parent \in 1 .. y - 1
         /\ \A y \in 2 .. n : \A z \in 1 .. y - 1 : z > t[y].parent => t[z].parent >= t[y].parent
<1>1. /\ n \in Nat \ {0} /\ t[1].parent = 0 /\ \A y \in 2 .. n : t[y].parent \in 1 .. y - 1
      /\ \A y \in 2 .. n : \A z \in 1 .. y - 1 : z > t[y].parent => t[z].parent >= t[y].parent
  BY DEF DomTree, DomNested
<1>2. \A y \in 1 .. n : y = 1 \/ y \in 2 .. n
  BY <1>1
<1> QED
  BY <1>1, <1>2

\* An open node is above all that follow, and so is what is above it.
LEMMA DomOpenAbove ==
  ASSUME NEW t, NEW n, DomTree(t, n), NEW o, DomIsOpen(t, n, o), NEW y \in o .. n
  PROVE  DomIsAbove(t, o, y) /\ \A x \in 1 .. n : DomIsAbove(t, x, o) => DomIsAbove(t, x, y)
<1>0. o \in 1 .. n /\ (\A z \in o + 1 .. n : t[z].parent >= o) /\ n \in Nat
      /\ \A z \in 1 .. n : t[z].parent \in Int
  BY DomParents DEF DomIsOpen
<1>1. \A z \in o + 1 .. y : t[z].parent >= o
  BY <1>0
<1>2. DomIsAbove(t, o, y)
  BY <1>0, <1>1 DEF DomIsAbove, DomUnder
<1>3. ASSUME NEW x \in 1 .. n, DomUnder(t, x, o), o < y PROVE DomUnder(t, x, y)
  <2>1. x < o /\ \A z \in x + 1 .. o : t[z].parent >= x
    BY <1>3 DEF DomUnder
  <2>2. ASSUME NEW z \in x + 1 .. y PROVE t[z].parent >= x
    <3>1. CASE z <= o
      BY <1>0, <2>1, <3>1
    <3>2. CASE z > o
      <4>1. z \in o + 1 .. y /\ z \in 1 .. n
        BY <1>0, <3>2
      <4>2. t[z].parent >= o /\ t[z].parent \in Int
        BY <1>0, <1>1, <4>1
      <4> QED
        BY <1>0, <2>1, <4>2
    <3> QED
      BY <1>0, <3>1, <3>2
  <2> QED
    BY <1>0, <2>1, <2>2 DEF DomUnder
<1> QED
  BY <1>0, <1>2, <1>3 DEF DomIsAbove

\* What is above a node is above its parent, or is that parent.
LEMMA DomAboveParent ==
  ASSUME NEW t, NEW n, DomTree(t, n), NEW y \in 2 .. n, NEW x \in 1 .. n
  PROVE  DomUnder(t, x, y) <=> DomIsAbove(t, x, t[y].parent)
<1> DEFINE p == t[y].parent
<1>0. /\ n \in Nat /\ p \in 1 .. y - 1 /\ (\A z \in 1 .. n : t[z].parent \in Int)
      /\ \A z \in 1 .. y - 1 : z > p => t[z].parent >= p
  BY DomParents
<1>1. ASSUME DomUnder(t, x, y) PROVE DomIsAbove(t, x, p)
  <2>1. x < y /\ \A z \in x + 1 .. y : t[z].parent >= x
    BY <1>1 DEF DomUnder
  <2>2. p >= x
    BY <1>0, <2>1
  <2> HIDE DEF p
  <2> QED
    BY <1>0, <2>1, <2>2 DEF DomIsAbove, DomUnder
<1>2. ASSUME DomIsAbove(t, x, p) PROVE DomUnder(t, x, y)
  <2>1. x <= p
    BY <1>0, <1>2 DEF DomIsAbove, DomUnder
  <2>2. ASSUME NEW z \in x + 1 .. y PROVE t[z].parent >= x
    <3>1. CASE z <= p
      <4>1. x # p
        BY <1>0, <3>1
      <4> QED
        BY <1>0, <1>2, <3>1, <4>1 DEF DomIsAbove, DomUnder
    <3>2. CASE z > p /\ z # y
      <4>1. t[z].parent >= p /\ t[z].parent \in Int
        BY <1>0, <3>2
      <4> HIDE DEF p
      <4> QED
        BY <1>0, <2>1, <4>1
    <3>3. CASE z = y
      BY <1>0, <2>1, <3>3
    <3> QED
      BY <1>0, <3>1, <3>2, <3>3
  <2> QED
    BY <1>0, <2>1, <2>2 DEF DomUnder
<1> QED
  BY <1>1, <1>2

\* A node appended to an open one.
LEMMA DomUnderNew ==
  ASSUME NEW t, NEW n, DomTree(t, n), NEW c, DomIsOpen(t, n, c),
         NEW u, DomTree(u, n + 1), u[n + 1].parent = c, \A y \in 1 .. n : u[y].parent = t[y].parent
  PROVE  /\ \A x \in 1 .. n, y \in 1 .. n : DomUnder(u, x, y) <=> DomUnder(t, x, y)
         /\ \A x \in 1 .. n : DomUnder(u, x, n + 1) <=> DomIsAbove(t, x, c)
<1>0. n \in Nat \ {0} /\ c \in 1 .. n
  BY DomParents DEF DomIsOpen
<1>1. ASSUME NEW x \in 1 .. n, NEW y \in 1 .. n PROVE DomUnder(u, x, y) <=> DomUnder(t, x, y)
  <2>1. \A z \in x + 1 .. y : z \in 1 .. n
    BY <1>0
  <2> QED
    BY <2>1 DEF DomUnder
<1>2. ASSUME NEW x \in 1 .. n PROVE DomUnder(u, x, n + 1) <=> DomIsAbove(t, x, c)
  <2>1. x \in 1 .. n + 1 /\ n + 1 \in 2 .. n + 1
    BY <1>0
  <2>2. DomUnder(u, x, n + 1) <=> DomIsAbove(u, x, c)
    BY <2>1, DomAboveParent
  <2> QED
    BY <1>0, <1>1, <2>2 DEF DomIsAbove
<1> QED
  BY <1>1, <1>2

\* The climb from the current node c: the nodes it passes, above each other.
LEMMA DomClimbed ==
  ASSUME NEW t, NEW n, DomTree(t, n), NEW c, DomIsOpen(t, n, c), NEW s, DomUpwards(t, n, c, s)
  PROVE  \A i \in 1 .. Len(s) : s[i] \in 2 .. n /\ s[i] <= c /\ DomIsOpen(t, n, s[i]) /\ DomIsAbove(t, s[i], c)
<1> SUFFICES ASSUME NEW i \in 1 .. Len(s)
             PROVE  s[i] \in 2 .. n /\ s[i] <= c /\ DomIsOpen(t, n, s[i]) /\ DomIsAbove(t, s[i], c)
  OBVIOUS
<1>0. n \in Nat /\ c \in 1 .. n /\ Len(s) \in Nat /\ s[1] = c
  BY DomParents DEF DomIsOpen, DomUpwards
<1>1. s[i] \in 2 .. n /\ DomIsOpen(t, n, s[i]) /\ \A j \in 1 .. i - 1 : s[j] > s[i]
  BY DomUpwardsOpen
<1>2. s[i] <= c
  <2>1. CASE i = 1
    BY <1>0, <1>1, <2>1
  <2>2. CASE i # 1
    <3>1. 1 \in 1 .. i - 1
      BY <1>0, <2>2
    <3> QED
      BY <1>0, <1>1, <3>1
  <2> QED
    BY <2>1, <2>2
<1>3. c \in s[i] .. n
  BY <1>0, <1>1, <1>2
<1>4. DomIsAbove(t, s[i], c)
  BY <1>1, <1>3, DomOpenAbove
<1> QED
  BY <1>1, <1>2, <1>4

\* Who is above the current node is on the way, or above its end.
LEMMA DomAboveWay ==
  ASSUME NEW t, NEW n, DomTree(t, n), NEW c, DomIsOpen(t, n, c), NEW s, DomUpwards(t, n, c, s),
         Len(s) > 0, NEW x \in 1 .. n, DomIsAbove(t, x, c)
  PROVE  (\E i \in 1 .. Len(s) : x = s[i]) \/ DomIsAbove(t, x, t[s[Len(s)]].parent)
<1> DEFINE k == Len(s)
           T == {m \in 0 .. k : m > 0 => (\E i \in 1 .. m : x = s[i]) \/ DomIsAbove(t, x, t[s[m]].parent)}
<1>0. k \in Nat \ {0} /\ s[1] = c /\ \A i \in 1 .. k - 1 : s[i + 1] = t[s[i]].parent
  BY DEF DomUpwards
<1>1. \A i \in 1 .. k : s[i] \in 2 .. n
  BY DomClimbed
<1>2. ASSUME NEW i \in 1 .. k, DomIsAbove(t, x, s[i]) PROVE x = s[i] \/ DomIsAbove(t, x, t[s[i]].parent)
  BY <1>1, <1>2, DomAboveParent DEF DomIsAbove
<1>3. 0 \in T
  BY <1>0
<1>4. ASSUME NEW m \in 0 .. k, m \in T, m < k PROVE m + 1 \in T
  <2>1. m + 1 \in 1 .. k /\ m + 1 \in 0 .. k
    BY <1>0, <1>4
  <2>2. m # 0 => m \in 1 .. k - 1 /\ \A i \in 1 .. m : i \in 1 .. m + 1
    BY <1>0, <1>4
  <2>3. m + 1 \in 1 .. m + 1
    BY <2>1
  <2>4. (\E i \in 1 .. m : x = s[i]) \/ DomIsAbove(t, x, s[m + 1])
    <3>1. CASE m = 0
      BY <1>0, <3>1
    <3>2. CASE m # 0
      <4>1. m > 0 /\ s[m + 1] = t[s[m]].parent
        BY <1>0, <2>2, <3>2
      <4> QED
        BY <1>4, <4>1
    <3> QED
      BY <3>1, <3>2
  <2>5. CASE DomIsAbove(t, x, s[m + 1])
    <3>1. x = s[m + 1] \/ DomIsAbove(t, x, t[s[m + 1]].parent)
      BY <1>2, <2>1, <2>5
    <3>2. (\E i \in 1 .. m + 1 : x = s[i]) \/ DomIsAbove(t, x, t[s[m + 1]].parent)
      BY <2>3, <3>1
    <3> QED
      BY <2>1, <3>2
  <2>6. CASE \E i \in 1 .. m : x = s[i]
    <3>1. \E i \in 1 .. m + 1 : x = s[i]
      <4>1. PICK i \in 1 .. m : x = s[i]
        BY <2>6
      <4>2. i \in 1 .. m + 1
        BY <1>0
      <4> QED
        BY <4>1, <4>2
    <3> QED
      BY <2>1, <3>1
  <2> QED
    BY <2>4, <2>5, <2>6
<1> HIDE DEF T
<1>5. \A m \in 0 .. k : m \in T
  BY <1>0, <1>3, <1>4, UpTo
<1>6. k \in T /\ k > 0
  BY <1>0, <1>5
<1> QED
  BY <1>6 DEF T

\* The tree u after the elements on the way from c to a are flattened, c and a being of t:
\* a ends with the last node, and of those above c only a and its parents keep what they hold.
DomShut(t, u, n, c, a) ==
  LET q == t[a].parent
  IN /\ a \in 2 .. n /\ q \in 1 .. a - 1 /\ DomTree(u, n) /\ DomIsOpen(u, n, q)
     /\ ~ DomIsAbove(u, a, q) /\ \A y \in a + 1 .. n : DomUnder(u, a, y)
     /\ \A x \in 2 .. n :
          IF DomIsAbove(t, x, c)
          THEN \/ x = a
               \/ DomIsAbove(u, x, q)
               \/ \A y \in 1 .. n : ~ DomUnder(u, x, y)
          ELSE /\ ~ DomIsAbove(u, x, q) /\ x # a
               /\ \A y \in 1 .. n : DomUnder(u, x, y) <=> DomUnder(t, x, y)

\* What flattening the way but for its last node a leaves of the relation, and of the
\* current node, which becomes the parent q of a.
LEMMA DomUnderGone ==
  ASSUME NEW t, NEW n, DomTree(t, n), NEW c, DomIsOpen(t, n, c), NEW s, DomUpwards(t, n, c, s),
         Len(s) > 0, NEW u, DomGone(t, u, n, s, Len(s) - 1)
  PROVE  DomShut(t, u, n, c, s[Len(s)])
<1> DEFINE k == Len(s)
           a == s[k]
           q == t[a].parent
           Way(p) == \E i \in 1 .. k - 1 : p = s[i]
<1>0. /\ k \in Nat \ {0} /\ k \in 1 .. k /\ n \in Nat \ {0} /\ \A y \in 1 .. n : t[y].parent \in Int
      /\ c \in 1 .. n
  BY DomParents DEF DomUpwards, DomIsOpen
<1>1. \A i \in 1 .. k : s[i] \in 2 .. n /\ s[i] <= c /\ DomIsOpen(t, n, s[i]) /\ DomIsAbove(t, s[i], c)
  BY DomClimbed
<1>2. \A i \in 1 .. k - 1 : i \in 1 .. k /\ s[i] > a
  <2>1. \A i \in 1 .. k - 1 : s[i] > s[k]
    BY <1>0, DomUpwardsOpen
  <2> QED
    BY <1>0, <2>1
<1>3. a \in 2 .. n /\ DomIsOpen(t, n, a)
  BY <1>0, <1>1
<1>4. q \in 1 .. a - 1 /\ DomIsOpen(t, n, q)
  BY <1>3, DomOpenParent
<1>5. /\ DomTree(u, n)
      /\ \A y \in 1 .. n : u[y].parent = IF Way(t[y].parent) THEN a ELSE t[y].parent
      /\ \A y \in 1 .. a : DomIsOpen(t, n, y) => DomIsOpen(u, n, y)
  <2>1. (k - 1) + 1 = k
    BY <1>0
  <2> QED
    BY <2>1 DEF DomGone
<1>6. DomIsOpen(u, n, q) /\ DomIsOpen(u, n, a)
  <2>1. q \in 1 .. a /\ a \in 1 .. a
    BY <1>3, <1>4
  <2> QED
    BY <1>3, <1>4, <1>5, <2>1
<1>7. \A p : Way(p) => p \in a + 1 .. n
  <2>1. ASSUME NEW i \in 1 .. k - 1 PROVE s[i] \in a + 1 .. n
    <3>1. i \in 1 .. k /\ s[i] > a
      BY <1>2
    <3>2. s[i] \in 2 .. n
      BY <1>1, <3>1
    <3> HIDE DEF a
    <3> QED
      BY <1>0, <1>3, <3>1, <3>2
  <2> HIDE DEF a
  <2> QED
    BY <2>1
<1> HIDE DEF Way
<1>8. ~ DomIsAbove(u, a, q)
  BY <1>3, <1>4 DEF DomIsAbove, DomUnder
<1>9. ASSUME NEW y \in a + 1 .. n PROVE DomUnder(u, a, y)
  <2>1. y \in a .. n /\ a # y
    BY <1>3
  <2> HIDE DEF a
  <2> QED
    BY <1>5, <1>6, <2>1, DomOpenAbove DEF DomIsAbove
<1>10. ASSUME NEW x \in 2 .. n, Way(x), NEW y \in 1 .. n, DomUnder(u, x, y) PROVE FALSE
  <2>0. x < y
    BY <1>10 DEF DomUnder
  <2>1. x < y /\ x + 1 \in x + 1 .. y /\ x + 1 \in 1 .. n /\ x + 1 \in 2 .. n
    BY <1>0, <2>0
  <2>2. u[x + 1].parent >= x
    BY <1>10, <2>1 DEF DomUnder
  <2>3. x > a
    BY <1>3, <1>7, <1>10
  <2>4. u[x + 1].parent = IF Way(t[x + 1].parent) THEN a ELSE t[x + 1].parent
    BY <1>5, <2>1
  <2>5. t[x + 1].parent \in 1 .. (x + 1) - 1
    BY <2>1, DomParents
  <2>6. CASE Way(t[x + 1].parent)
    BY <1>3, <2>2, <2>3, <2>4, <2>6
  <2>7. CASE ~ Way(t[x + 1].parent)
    <3>1. t[x + 1].parent = x
      BY <2>2, <2>4, <2>5, <2>7
    <3> QED
      BY <1>10, <2>7, <3>1
  <2> QED
    BY <2>6, <2>7
<1>11. ASSUME NEW x \in 2 .. n, DomUnder(t, x, q) PROVE DomUnder(u, x, q)
  <2>1. x < q /\ \A z \in x + 1 .. q : t[z].parent >= x
    BY <1>11 DEF DomUnder
  <2>2. ASSUME NEW z \in x + 1 .. q PROVE u[z].parent = t[z].parent
    <3>1. z \in 1 .. n /\ z \in 2 .. n /\ z < a
      <4> HIDE DEF a, q
      <4> QED
        BY <1>0, <1>3, <1>4
    <3>2. t[z].parent \in 1 .. z - 1
      BY <3>1, DomParents
    <3>3. ~ Way(t[z].parent)
      BY <1>3, <1>7, <3>1, <3>2
    <3> QED
      BY <1>5, <3>1, <3>3
  <2> HIDE DEF q
  <2> QED
    BY <2>1, <2>2 DEF DomUnder
<1>12. ASSUME NEW x \in 2 .. n, DomUnder(u, x, q) PROVE DomUnder(t, x, q)
  <2>1. x < q /\ \A z \in x + 1 .. q : u[z].parent >= x
    BY <1>12 DEF DomUnder
  <2>2. ASSUME NEW z \in x + 1 .. q PROVE u[z].parent = t[z].parent
    <3>1. z \in 1 .. n /\ z \in 2 .. n /\ z < a
      <4> HIDE DEF a, q
      <4> QED
        BY <1>0, <1>3, <1>4
    <3>2. t[z].parent \in 1 .. z - 1
      BY <3>1, DomParents
    <3>3. ~ Way(t[z].parent)
      BY <1>3, <1>7, <3>1, <3>2
    <3> QED
      BY <1>5, <3>1, <3>3
  <2> HIDE DEF q
  <2> QED
    BY <2>1, <2>2 DEF DomUnder
<1>13. ASSUME NEW x \in 2 .. n, DomIsAbove(t, x, c)
       PROVE  x = a \/ DomIsAbove(u, x, q) \/ \A y \in 1 .. n : ~ DomUnder(u, x, y)
  <2>1. (\E i \in 1 .. k : x = s[i]) \/ DomIsAbove(t, x, q)
    <3>1. x \in 1 .. n
      BY <1>0
    <3> QED
      BY <1>13, <3>1, DomAboveWay
  <2>2. CASE DomIsAbove(t, x, q)
    BY <1>11, <2>2 DEF DomIsAbove
  <2>3. CASE \E i \in 1 .. k : x = s[i]
    <3>1. PICK i \in 1 .. k : x = s[i]
      BY <2>3
    <3>2. i = k \/ i \in 1 .. k - 1
      BY <1>0
    <3>3. x = a \/ Way(x)
      BY <3>1, <3>2 DEF Way
    <3> QED
      BY <1>10, <3>3
  <2> QED
    BY <2>1, <2>2, <2>3
<1>14. ASSUME NEW x \in 2 .. n, ~ DomIsAbove(t, x, c)
       PROVE  ~ DomIsAbove(u, x, q) /\ x # a /\ ~ Way(x)
  <2>1. x # a
    BY <1>0, <1>1, <1>14
  <2>2. ~ Way(x)
    BY <1>1, <1>2, <1>14 DEF Way
  <2>3. ~ DomIsAbove(t, x, q)
    <3>1. c \in q .. n /\ x \in 1 .. n
      BY <1>0, <1>1, <1>3, <1>4
    <3> HIDE DEF q
    <3> QED
      BY <1>4, <1>14, <3>1, DomOpenAbove
  <2> QED
    BY <1>12, <2>1, <2>2, <2>3 DEF DomIsAbove
<1>15. ASSUME NEW x \in 2 .. n, ~ DomIsAbove(t, x, c), NEW y \in 1 .. n
       PROVE  DomUnder(u, x, y) <=> DomUnder(t, x, y)
  <2>1. ASSUME NEW z \in x + 1 .. y, Way(t[z].parent), x > a PROVE ~ DomUnder(t, x, y) /\ ~ DomUnder(u, x, y)
    <3>1. z \in 1 .. n /\ u[z].parent = a
      BY <1>0, <1>5, <2>1
    <3>2. ~ DomUnder(u, x, y)
      BY <1>3, <2>1, <3>1 DEF DomUnder
    <3>3. ~ DomUnder(t, x, y)
      <4>1. SUFFICES ASSUME DomUnder(t, x, y) PROVE FALSE
        OBVIOUS
      <4>2. PICK i \in 1 .. k - 1 : t[z].parent = s[i]
        BY <2>1 DEF Way
      <4>3. /\ s[i] \in 2 .. n /\ s[i] <= c /\ DomIsOpen(t, n, s[i]) /\ DomIsAbove(t, s[i], c)
        BY <1>1, <1>2
      <4>4. s[i] >= x
        BY <2>1, <4>1, <4>2 DEF DomUnder
      <4>5. z \in 2 .. n
        BY <1>0, <2>1
      <4>6. t[z].parent \in 1 .. z - 1
        BY <4>5, DomParents
      <4>7. s[i] < y
        BY <2>1, <4>2, <4>6
      <4>8. DomIsAbove(t, x, s[i])
        BY <4>1, <4>3, <4>4, <4>7 DEF DomIsAbove, DomUnder
      <4>9. c \in s[i] .. n /\ x \in 1 .. n
        BY <1>0, <4>3
      <4> QED
        BY <1>15, <4>3, <4>8, <4>9, DomOpenAbove
    <3> QED
      BY <3>2, <3>3
  <2>2. ASSUME NEW z \in x + 1 .. y, ~ Way(t[z].parent) \/ x <= a
        PROVE  u[z].parent >= x <=> t[z].parent >= x
    <3>1. z \in 1 .. n
      BY <1>0
    <3>2. u[z].parent = IF Way(t[z].parent) THEN a ELSE t[z].parent
      BY <1>5, <3>1
    <3>3. Way(t[z].parent) => t[z].parent > a /\ t[z].parent \in Int
      BY <1>3, <1>7
    <3>4. a \in Int /\ x \in Int
      BY <1>3
    <3> HIDE DEF a
    <3> QED
      BY <2>2, <3>2, <3>3, <3>4
  <2>3. CASE \E z \in x + 1 .. y : Way(t[z].parent) /\ x > a
    BY <2>1, <2>3
  <2>4. CASE \A z \in x + 1 .. y : ~ Way(t[z].parent) \/ x <= a
    BY <2>2, <2>4 DEF DomUnder
  <2>5. x > a \/ x <= a
    BY <1>3
  <2> QED
    BY <2>3, <2>4, <2>5
<1> QED
  BY <1>3, <1>4, <1>5, <1>6, <1>8, <1>9, <1>13, <1>14, <1>15 DEF DomShut

-----------------------------------------------------------------------------
(* The parser: what the callbacks keep *)

HtmlKinds == {"tag", "text", "comment"}
HtmlNodes == [kind : HtmlKinds, name : Seq(HtmlChar), offset : Nat, length : Nat, closed : BOOLEAN]

\* A closed element holds what begins in its extent, and one that is not closed holds
\* nothing or is still open.
HtmlExtent(S, x) ==
  IF S.node[x].closed
  THEN /\ ~ DomIsAbove(S.link, x, S.cur)
       /\ \A y \in x + 1 .. Len(S.node) :
            DomUnder(S.link, x, y) <=> S.node[y].offset < S.node[x].offset + S.node[x].length
  ELSE (\A y \in 1 .. Len(S.node) : ~ DomUnder(S.link, x, y)) \/ DomIsAbove(S.link, x, S.cur)

HtmlPlaced(S) ==
  /\ S.offset \in Nat /\ S.node[1].offset = 0
  /\ \A x \in 1 .. Len(S.node) : S.node[x].offset + S.node[x].length <= S.offset
  /\ \A x \in 2 .. Len(S.node) : S.node[x].offset < S.offset

HtmlSound(S) ==
  /\ S.node \in Seq(HtmlNodes) /\ HtmlPlaced(S)
  /\ DomTree(S.link, Len(S.node)) /\ DomIsOpen(S.link, Len(S.node), S.cur)
  /\ \A x \in 2 .. Len(S.node) : HtmlExtent(S, x)

\* A node added, whichever becomes the current one.
LEMMA HtmlAddedSound ==
  ASSUME NEW S, HtmlSound(S), NEW kind \in HtmlKinds, NEW name \in Seq(HtmlChar),
         NEW b \in Int, NEW c \in Int, b < c, NEW T,
         T.node = Append(S.node, HtmlNode(kind, name, S.offset, c - b)),
         T.link = DomAppend(S.link, S.cur, Len(S.node) + 1),
         T.offset = S.offset + (c - b), T.cur = S.cur \/ T.cur = Len(S.node) + 1
  PROVE  HtmlSound(T)
<1> DEFINE n == Len(S.node)
           t == S.link
           u == DomAppend(t, S.cur, n + 1)
           new == HtmlNode(kind, name, S.offset, c - b)
<1>1. S.node \in Seq(HtmlNodes) /\ n \in Nat \ {0} /\ DomTree(t, n) /\ DomIsOpen(t, n, S.cur)
      /\ HtmlPlaced(S) /\ \A x \in 2 .. n : HtmlExtent(S, x)
  BY DomParents DEF HtmlSound
<1>2. S.offset \in Nat /\ c - b \in Nat /\ c - b > 0 /\ T.offset > S.offset /\ T.offset \in Nat
  BY <1>1 DEF HtmlPlaced
<1>3. new \in HtmlNodes /\ new.offset = S.offset /\ new.length = c - b /\ new.closed = FALSE
  BY <1>2 DEF HtmlNodes, HtmlNode
<1> HIDE DEF new
<1>4. /\ T.node \in Seq(HtmlNodes) /\ Len(T.node) = n + 1 /\ T.node[n + 1] = new
      /\ \A x \in 1 .. n : T.node[x] = S.node[x]
  <2>1. T.node = Append(S.node, new)
    BY DEF new
  <2> QED
    BY <1>1, <1>3, <2>1
<1>5. \A x \in 1 .. n : S.node[x] \in HtmlNodes
  BY <1>1
<1>6. \A x \in 1 .. n : S.node[x].offset \in Nat /\ S.node[x].length \in Nat /\ S.node[x].closed \in BOOLEAN
  BY <1>5 DEF HtmlNodes
<1>7. /\ DomTree(u, n + 1) /\ DomIsOpen(u, n + 1, S.cur) /\ DomIsOpen(u, n + 1, n + 1)
      /\ u[n + 1].parent = S.cur /\ \A y \in 1 .. n : u[y].parent = t[y].parent
  BY <1>1, DomAppendTree
<1>8. /\ \A x \in 1 .. n, y \in 1 .. n : DomUnder(u, x, y) <=> DomUnder(t, x, y)
      /\ \A x \in 1 .. n : DomUnder(u, x, n + 1) <=> DomIsAbove(t, x, S.cur)
  BY <1>1, <1>7, DomUnderNew
<1>9. T.link = u /\ S.cur \in 1 .. n
  BY <1>1 DEF DomIsOpen
<1> HIDE DEF u
<1>10. HtmlPlaced(T)
  <2>1. ASSUME NEW x \in 1 .. n + 1
        PROVE  T.node[x].offset + T.node[x].length <= T.offset /\ (x # 1 => T.node[x].offset < T.offset)
    <3>1. CASE x = n + 1
      BY <1>2, <1>3, <1>4, <3>1
    <3>2. CASE x # n + 1
      <4>1. x \in 1 .. n /\ T.node[x] = S.node[x] /\ (x # 1 => x \in 2 .. n)
        BY <1>1, <1>4, <3>2
      <4>2. S.node[x].offset + S.node[x].length <= S.offset /\ (x # 1 => S.node[x].offset < S.offset)
        BY <1>1, <4>1 DEF HtmlPlaced
      <4>3. S.node[x].offset \in Nat /\ S.node[x].length \in Nat
        BY <1>6, <4>1
      <4>4. /\ S.offset \in Nat /\ T.offset \in Nat /\ S.offset < T.offset
            /\ \A i, j, k, m \in Nat : (i + j <= k /\ k < m => i + j <= m) /\ (i < k /\ k < m => i < m)
        BY <1>2
      <4>5. S.node[x].offset + S.node[x].length <= T.offset
        BY <4>2, <4>3, <4>4
      <4>6. x # 1 => S.node[x].offset < T.offset
        BY <4>2, <4>3, <4>4
      <4> QED
        BY <4>1, <4>5, <4>6
    <3> QED
      BY <3>1, <3>2
  <2>2. T.node[1].offset = 0
    BY <1>1, <1>4 DEF HtmlPlaced
  <2>3. \A x \in 2 .. n + 1 : x \in 1 .. n + 1 /\ x # 1
    BY <1>1
  <2> QED
    BY <1>2, <1>4, <2>1, <2>2, <2>3 DEF HtmlPlaced
<1>11. \A x \in 1 .. n : DomIsAbove(u, x, T.cur) <=> DomIsAbove(t, x, S.cur)
  <2>1. TAKE x \in 1 .. n
  <2>2. CASE T.cur = S.cur
    BY <1>8, <1>9, <2>2 DEF DomIsAbove
  <2>3. CASE T.cur = n + 1
    <3>1. x # n + 1
      BY <1>1
    <3> QED
      BY <1>8, <2>3, <3>1 DEF DomIsAbove
  <2> QED
    BY <2>2, <2>3
<1>12. ASSUME NEW x \in 2 .. n + 1 PROVE HtmlExtent(T, x)
  <2>1. CASE x = n + 1
    <3>1. \A y \in 1 .. n + 1 : ~ DomUnder(u, x, y)
      BY <1>1, <2>1 DEF DomUnder
    <3> QED
      BY <1>3, <1>4, <1>9, <2>1, <3>1 DEF HtmlExtent
  <2>2. CASE x # n + 1
    <3>1. x \in 1 .. n /\ x \in 2 .. n /\ T.node[x] = S.node[x] /\ HtmlExtent(S, x)
      BY <1>1, <1>4, <2>2
    <3>2. CASE S.node[x].closed
      <4>1. ~ DomIsAbove(t, x, S.cur)
            /\ \A y \in x + 1 .. n : DomUnder(t, x, y) <=> S.node[y].offset < S.node[x].offset + S.node[x].length
        BY <3>1, <3>2 DEF HtmlExtent
      <4>2. ASSUME NEW y \in x + 1 .. n + 1
            PROVE  DomUnder(u, x, y) <=> T.node[y].offset < T.node[x].offset + T.node[x].length
        <5>1. CASE y = n + 1
          <6>1. ~ DomUnder(u, x, y)
            BY <1>8, <3>1, <4>1, <5>1
          <6>2. S.node[x].offset + S.node[x].length <= S.offset
            BY <1>1, <3>1 DEF HtmlPlaced
          <6>3. T.node[y].offset = S.offset
            BY <1>3, <1>4, <5>1
          <6>4. S.node[x].offset \in Nat /\ S.node[x].length \in Nat
            BY <1>6, <3>1
          <6>5. T.node[x] = S.node[x]
            BY <3>1
          <6>6. \A i, j, m \in Nat : i + j <= m => ~ (m < i + j)
            OBVIOUS
          <6>7. ~ (S.offset < S.node[x].offset + S.node[x].length)
            BY <1>2, <6>2, <6>4, <6>6
          <6>8. ~ (T.node[y].offset < T.node[x].offset + T.node[x].length)
            BY <6>3, <6>5, <6>7
          <6> QED
            BY <6>1, <6>8
        <5>2. CASE y # n + 1
          <6>1. y \in 1 .. n /\ y \in x + 1 .. n
            BY <1>1, <3>1, <5>2
          <6> QED
            BY <1>4, <1>8, <3>1, <4>1, <6>1
        <5> QED
          BY <5>1, <5>2
      <4>3. ~ DomIsAbove(u, x, T.cur)
        BY <1>11, <3>1, <4>1
      <4> QED
        BY <1>4, <1>9, <3>1, <3>2, <4>2, <4>3 DEF HtmlExtent
    <3>3. CASE ~ S.node[x].closed
      <4>1. (\A y \in 1 .. n : ~ DomUnder(t, x, y)) \/ DomIsAbove(t, x, S.cur)
        BY <3>1, <3>3 DEF HtmlExtent
      <4>2. CASE DomIsAbove(t, x, S.cur)
        <5>1. DomIsAbove(u, x, T.cur)
          BY <1>11, <3>1, <4>2
        <5> QED
          BY <1>4, <1>9, <3>1, <3>3, <5>1 DEF HtmlExtent
      <4>3. CASE ~ DomIsAbove(t, x, S.cur)
        <5>1. ASSUME NEW y \in 1 .. n + 1 PROVE ~ DomUnder(u, x, y)
          <6>1. y = n + 1 \/ y \in 1 .. n
            BY <1>1
          <6> QED
            BY <1>8, <3>1, <4>1, <4>3, <6>1
        <5> QED
          BY <1>4, <1>9, <3>1, <3>3, <5>1 DEF HtmlExtent
      <4> QED
        BY <4>2, <4>3
    <3> QED
      BY <3>2, <3>3
  <2> QED
    BY <2>1, <2>2
<1>13. DomIsOpen(u, n + 1, T.cur)
  BY <1>7
<1> QED
  BY <1>4, <1>7, <1>9, <1>10, <1>12, <1>13 DEF HtmlSound

LEMMA HtmlFoundSound ==
  ASSUME NEW S, HtmlSound(S), NEW kind \in HtmlKinds, NEW name \in Seq(HtmlChar),
         NEW b \in Int, NEW c \in Int, b < c
  PROVE  /\ HtmlSound(HtmlFound(S, kind, name, b, c)) /\ HtmlSound(HtmlOpened(S, name, b, c))
         /\ HtmlFound(S, kind, name, b, c).offset = S.offset + (c - b)
         /\ HtmlOpened(S, name, b, c).offset = S.offset + (c - b)
<1>1. HtmlSound(HtmlFound(S, kind, name, b, c)) /\ HtmlFound(S, kind, name, b, c).offset = S.offset + (c - b)
  <2> DEFINE T == HtmlFound(S, kind, name, b, c)
  <2>1. /\ T.node = Append(S.node, HtmlNode(kind, name, S.offset, c - b))
        /\ T.link = DomAppend(S.link, S.cur, Len(S.node) + 1)
        /\ T.offset = S.offset + (c - b) /\ T.cur = S.cur
    BY DEF HtmlFound
  <2> HIDE DEF T
  <2>2. HtmlSound(T)
    BY <2>1, HtmlAddedSound
  <2> QED
    BY <2>1, <2>2 DEF T
<1>2. HtmlSound(HtmlOpened(S, name, b, c)) /\ HtmlOpened(S, name, b, c).offset = S.offset + (c - b)
  <2> DEFINE T == HtmlOpened(S, name, b, c)
  <2>1. /\ T.node = Append(S.node, HtmlNode("tag", name, S.offset, c - b))
        /\ T.link = DomAppend(S.link, S.cur, Len(S.node) + 1)
        /\ T.offset = S.offset + (c - b) /\ T.cur = Len(S.node) + 1
    BY DEF HtmlOpened, HtmlFound
  <2>2. "tag" \in HtmlKinds
    BY DEF HtmlKinds
  <2> HIDE DEF T
  <2>3. HtmlSound(T)
    BY <2>1, <2>2, HtmlAddedSound
  <2> QED
    BY <2>1, <2>3 DEF T
<1> QED
  BY <1>1, <1>2

LEMMA HtmlContentSound ==
  ASSUME NEW S, HtmlSound(S), NEW b \in Int, NEW c \in Int, b <= c
  PROVE  HtmlSound(HtmlContent(S, b, c)) /\ HtmlContent(S, b, c).offset = S.offset + (c - b)
<1>1. CASE b = c
  <2>1. S.offset \in Nat
    BY DEF HtmlSound, HtmlPlaced
  <2> QED
    BY <1>1, <2>1 DEF HtmlContent
<1>2. CASE b < c
  <2>1. "text" \in HtmlKinds /\ <<>> \in Seq(HtmlChar)
    BY DEF HtmlKinds
  <2>2. HtmlContent(S, b, c) = HtmlFound(S, "text", <<>>, b, c)
    BY <1>2 DEF HtmlContent
  <2>3. HtmlSound(HtmlFound(S, "text", <<>>, b, c))
        /\ HtmlFound(S, "text", <<>>, b, c).offset = S.offset + (c - b)
    BY <1>2, <2>1, HtmlFoundSound
  <2> QED
    BY <2>2, <2>3
<1> QED
  BY <1>1, <1>2

LEMMA HtmlShut ==
  ASSUME NEW f, NEW D, f = [x \in D |-> f[x]], NEW a \in D, NEW v
  PROVE  [f EXCEPT ![a].length = v, ![a].closed = TRUE]
           = [x \in D |-> IF x = a THEN [f[a] EXCEPT !.length = v, !.closed = TRUE] ELSE f[x]]
<1> DEFINE r == [f[a] EXCEPT !.length = v]
           g == [f EXCEPT ![a] = r]
<1>1. g = [x \in D |-> IF x = a THEN r ELSE f[x]]
  <2> HIDE DEF r
  <2> QED
    OBVIOUS
<1>2. [f EXCEPT ![a].length = v, ![a].closed = TRUE] = [g EXCEPT ![a] = [g[a] EXCEPT !.closed = TRUE]]
  OBVIOUS
<1>3. [f[a] EXCEPT !.length = v, !.closed = TRUE] = [r EXCEPT !.closed = TRUE]
  OBVIOUS
<1> HIDE DEF g, r
<1>4. g[a] = r /\ \A x \in D : x # a => g[x] = f[x]
  BY <1>1
<1>5. [g EXCEPT ![a] = [r EXCEPT !.closed = TRUE]] = [x \in D |-> IF x = a THEN [r EXCEPT !.closed = TRUE] ELSE f[x]]
  <2> DEFINE q == [r EXCEPT !.closed = TRUE]
  <2> HIDE DEF q
  <2>1. [g EXCEPT ![a] = q] = [x \in D |-> IF x = a THEN q ELSE f[x]]
    BY <1>1, <1>4
  <2> QED
    BY <2>1 DEF q
<1>6. [g EXCEPT ![a] = [g[a] EXCEPT !.closed = TRUE]] = [g EXCEPT ![a] = [r EXCEPT !.closed = TRUE]]
  BY <1>4
<1> QED
  BY <1>2, <1>3, <1>5, <1>6, Zenon

\* foundTag of a closing tag.
LEMMA HtmlClosedSound ==
  ASSUME NEW S, HtmlSound(S), NEW name \in Seq(HtmlChar), NEW b \in Int, NEW c \in Int, b < c
  PROVE  HtmlSound(HtmlClosed(S, name, b, c)) /\ HtmlClosed(S, name, b, c).offset = S.offset + (c - b)
<1> DEFINE n == Len(S.node)
           t == S.link
           climb == HtmlClimb(S, name)
           k == Len(climb)
           flat == CHOOSE f : DomFlatRun(f, t, climb)
           a == climb[k]
           u == flat[k - 1]
           q == t[a].parent
           shut == [S.node EXCEPT ![a].length = S.offset + (c - b) - S.node[a].offset, ![a].closed = TRUE]
           end == S.offset + (c - b)
           T == [node |-> shut, link |-> u, cur |-> q, offset |-> S.offset + (c - b)]
<1>1. S.node \in Seq(HtmlNodes) /\ n \in Nat \ {0} /\ DomTree(t, n) /\ DomIsOpen(t, n, S.cur)
      /\ HtmlPlaced(S) /\ S.cur \in 1 .. n
  BY DomParents DEF HtmlSound, DomIsOpen
<1>2. \A x \in 2 .. n : HtmlExtent(S, x)
  BY DEF HtmlSound
<1>3. DomUpwards(t, n, S.cur, climb)
  BY <1>1, HtmlClimbIs
<1>4. k \in Nat
  BY <1>3 DEF DomUpwards
<1>5. HtmlClosed(S, name, b, c)
        = IF k = 0 \/ S.node[a].name # name THEN HtmlFound(S, "comment", name, b, c) ELSE T
  BY Zenon DEF HtmlClosed, DomFlatRun
<1> HIDE DEF climb, flat
<1>6. CASE k = 0 \/ S.node[a].name # name
  <2>1. "comment" \in HtmlKinds
    BY DEF HtmlKinds
  <2>2. HtmlClosed(S, name, b, c) = HtmlFound(S, "comment", name, b, c)
    BY <1>5, <1>6
  <2> QED
    BY <2>1, <2>2, HtmlFoundSound
<1>7. CASE ~ (k = 0 \/ S.node[a].name # name)
  <2>1. k > 0 /\ HtmlClosed(S, name, b, c) = T
    BY <1>4, <1>5, <1>7
  <2>2. DomFlatSteps(flat, t, climb, k)
    BY <1>4, DomFlatRuns DEF flat
  <2>3. DomGone(t, u, n, climb, k - 1)
    BY <1>1, <1>3, <2>1, <2>2, DomFlatTrees
  <2>4. /\ a \in 2 .. n /\ q \in 1 .. a - 1 /\ DomTree(u, n) /\ DomIsOpen(u, n, q)
        /\ ~ DomIsAbove(u, a, q) /\ \A y \in a + 1 .. n : DomUnder(u, a, y)
        /\ \A x \in 2 .. n :
             IF DomIsAbove(t, x, S.cur)
             THEN \/ x = a
                  \/ DomIsAbove(u, x, q)
                  \/ \A y \in 1 .. n : ~ DomUnder(u, x, y)
             ELSE /\ ~ DomIsAbove(u, x, q) /\ x # a
                  /\ \A y \in 1 .. n : DomUnder(u, x, y) <=> DomUnder(t, x, y)
    <3>1. DomTree(t, n) /\ DomIsOpen(t, n, S.cur) /\ Len(climb) > 0
      BY <1>1, <2>1
    <3>2. DomShut(t, u, n, S.cur, a)
      BY <1>3, <2>3, <3>1, DomUnderGone
    <3> HIDE DEF u, a, n
    <3> QED
      BY <3>2 DEF DomShut
  <2> HIDE DEF a, u, q
  <2>5. /\ S.offset \in Nat /\ S.node[1].offset = 0
        /\ \A x \in 1 .. n : S.node[x].offset + S.node[x].length <= S.offset
        /\ \A x \in 2 .. n : S.node[x].offset < S.offset
    BY <1>1 DEF HtmlPlaced
  <2>6. \A x \in 1 .. n : /\ S.node[x] \in HtmlNodes /\ S.node[x].offset \in Nat /\ S.node[x].length \in Nat
                          /\ S.node[x].closed \in BOOLEAN
    <3>1. \A x \in 1 .. n : S.node[x] \in HtmlNodes
      BY <1>1
    <3> QED
      BY <3>1 DEF HtmlNodes
  <2>7. end \in Nat /\ S.offset < end /\ a \in 1 .. n
    BY <1>1, <2>4, <2>5
  <2> HIDE DEF end
  <2>8. end - S.node[a].offset \in Nat /\ S.node[a].offset < S.offset
    BY <2>4, <2>5, <2>6, <2>7
  <2>9. /\ shut \in Seq(HtmlNodes) /\ Len(shut) = n
        /\ \A x \in 1 .. n : shut[x].offset = S.node[x].offset
        /\ \A x \in 1 .. n : x # a => shut[x] = S.node[x]
        /\ shut[a].length = end - S.node[a].offset /\ shut[a].closed = TRUE
    <3> DEFINE r == [S.node[a] EXCEPT !.length = end - S.node[a].offset, !.closed = TRUE]
    <3>1. r \in HtmlNodes /\ r.offset = S.node[a].offset /\ r.length = end - S.node[a].offset /\ r.closed = TRUE
      BY <2>6, <2>7, <2>8 DEF HtmlNodes
    <3> HIDE DEF r
    <3>2. S.node \in [1 .. n -> HtmlNodes] /\ S.node = [x \in 1 .. n |-> S.node[x]]
      BY <1>1
    <3>3. shut = [x \in 1 .. n |-> IF x = a THEN r ELSE S.node[x]]
      <4> DEFINE v == S.offset + (c - b) - S.node[a].offset
      <4>1. shut = [S.node EXCEPT ![a].length = v, ![a].closed = TRUE]
        OBVIOUS
      <4>3. v = end - S.node[a].offset
        BY <2>5, <2>6, <2>7 DEF end
      <4> HIDE DEF v
      <4>2. [S.node EXCEPT ![a].length = v, ![a].closed = TRUE]
              = [x \in 1 .. n |-> IF x = a THEN [S.node[a] EXCEPT !.length = v, !.closed = TRUE] ELSE S.node[x]]
        BY <2>7, <3>2, HtmlShut
      <4> HIDE DEF shut
      <4> QED
        BY <4>1, <4>2, <4>3 DEF r
    <3> HIDE DEF r, shut
    <3>4. shut \in [1 .. n -> HtmlNodes] /\ n \in Nat
      BY <1>1, <2>6, <3>1, <3>3
    <3>5. shut \in Seq(HtmlNodes) /\ Len(shut) = n
      <4> HIDE DEF n
      <4> QED
        BY <3>4
    <3>6. shut[a] = r /\ \A x \in 1 .. n : x # a => shut[x] = S.node[x]
      BY <2>7, <3>3
    <3> QED
      BY <3>1, <3>5, <3>6
  <2> HIDE DEF shut
  <2>10. T.node = shut /\ T.link = u /\ T.cur = q /\ T.offset = end
    BY DEF shut, end
  <2> HIDE DEF T
  <2>11. HtmlPlaced(T)
    <3>1. ASSUME NEW x \in 1 .. n PROVE shut[x].offset + shut[x].length <= end
      <4>1. CASE x = a
        <5>1. shut[a].offset = S.node[a].offset /\ S.node[a].offset \in Nat
          BY <2>6, <2>7, <2>9
        <5> QED
          BY <2>7, <2>9, <4>1, <5>1
      <4>2. CASE x # a
        <5>1. shut[x] = S.node[x] /\ S.node[x].offset \in Nat /\ S.node[x].length \in Nat
              /\ S.node[x].offset + S.node[x].length <= S.offset
          BY <2>5, <2>6, <2>9, <4>2
        <5>2. \A i, j, m, o \in Nat : i + j <= m /\ m < o => i + j <= o
          OBVIOUS
        <5>3. S.node[x].offset + S.node[x].length <= end
          BY <2>5, <2>7, <5>1, <5>2
        <5> QED
          BY <5>1, <5>3
      <4> QED
        BY <4>1, <4>2
    <3>2. ASSUME NEW x \in 2 .. n PROVE shut[x].offset < end
      <4>1. x \in 1 .. n
        BY <1>1 DEF n
      <4>2. shut[x].offset = S.node[x].offset /\ S.node[x].offset \in Nat /\ S.node[x].offset < S.offset
        BY <2>5, <2>6, <2>9, <4>1
      <4> QED
        BY <2>5, <2>7, <4>2
    <3>3. 1 \in 1 .. n
      BY <1>1 DEF n
    <3> QED
      BY <2>5, <2>7, <2>9, <2>10, <3>1, <3>2, <3>3 DEF HtmlPlaced
  <2>12. ASSUME NEW x \in 2 .. n PROVE HtmlExtent(T, x)
    <3>0. x \in 1 .. n /\ \A y \in x + 1 .. n : y \in 1 .. n /\ y \in 2 .. n
      BY <1>1 DEF n
    <3>1. CASE x = a
      <4>1. ASSUME NEW y \in a + 1 .. n
            PROVE  DomUnder(u, a, y) <=> shut[y].offset < shut[a].offset + shut[a].length
        <5>1. DomUnder(u, a, y)
          BY <2>4
        <5>2. y \in 1 .. n /\ y \in 2 .. n
          BY <3>0, <3>1
        <5>3. shut[y].offset \in Nat /\ shut[y].offset < S.offset
          BY <2>5, <2>6, <2>9, <5>2
        <5>4. shut[a].offset + shut[a].length = end
          <6>1. shut[a].offset = S.node[a].offset /\ S.node[a].offset \in Nat
            BY <2>6, <2>7, <2>9
          <6> QED
            BY <2>7, <2>9, <6>1
        <5> QED
          BY <2>5, <2>7, <5>1, <5>3, <5>4
      <4> QED
        BY <2>4, <2>9, <2>10, <3>1, <4>1 DEF HtmlExtent
    <3>2. CASE x # a
      <4>0. shut[x] = S.node[x] /\ \A y \in x + 1 .. n : shut[y].offset = S.node[y].offset
        BY <2>9, <3>0, <3>2
      <4>1. CASE DomIsAbove(t, x, S.cur)
        <5>1. HtmlExtent(S, x)
          BY <1>2 DEF n
        <5>2. ~ S.node[x].closed
          BY <4>1, <5>1 DEF HtmlExtent
        <5>3. DomIsAbove(u, x, q) \/ \A y \in 1 .. n : ~ DomUnder(u, x, y)
          BY <2>4, <3>2, <4>1
        <5> QED
          BY <2>9, <2>10, <4>0, <5>2, <5>3 DEF HtmlExtent
      <4>2. CASE ~ DomIsAbove(t, x, S.cur)
        <5>1. HtmlExtent(S, x)
          BY <1>2 DEF n
        <5>2. ~ DomIsAbove(u, x, q) /\ \A y \in 1 .. n : DomUnder(u, x, y) <=> DomUnder(t, x, y)
          BY <2>4, <4>2
        <5>3. CASE S.node[x].closed
          <6>1. \A y \in x + 1 .. n :
                  DomUnder(t, x, y) <=> S.node[y].offset < S.node[x].offset + S.node[x].length
            BY <5>1, <5>3 DEF HtmlExtent, n
          <6>2. \A y \in x + 1 .. n :
                  DomUnder(u, x, y) <=> shut[y].offset < shut[x].offset + shut[x].length
            BY <3>0, <4>0, <5>2, <6>1
          <6> QED
            BY <2>9, <2>10, <4>0, <5>2, <5>3, <6>2 DEF HtmlExtent
        <5>4. CASE ~ S.node[x].closed
          <6>1. \A y \in 1 .. n : ~ DomUnder(t, x, y)
            BY <4>2, <5>1, <5>4 DEF HtmlExtent, n
          <6>2. \A y \in 1 .. n : ~ DomUnder(u, x, y)
            BY <5>2, <6>1
          <6> QED
            BY <2>9, <2>10, <4>0, <5>4, <6>2 DEF HtmlExtent
        <5> QED
          BY <5>3, <5>4
      <4> QED
        BY <4>1, <4>2
    <3> QED
      BY <3>1, <3>2
  <2>13. HtmlSound(T)
    BY <2>4, <2>9, <2>10, <2>11, <2>12 DEF HtmlSound
  <2>14. HtmlSound(HtmlClosed(S, name, b, c)) /\ HtmlClosed(S, name, b, c).offset = end
    BY <2>1, <2>10, <2>13
  <2> QED
    BY <2>14 DEF end
<1> QED
  BY <1>6, <1>7

HtmlKept == HtmlSound(HtmlState)

HtmlInv ==
  /\ htmlPc \in {"idle", "parse", "done"}
  /\ htmlDoc \in Seq(HtmlChar) /\ htmlBegin \in 1 .. HtmlEnd(htmlDoc)
  /\ htmlInside \in HtmlLiteral \cup {<<>>} /\ htmlOffset = htmlBegin - 1
  /\ IF htmlPc = "idle" THEN domNode = <<>> /\ domLink = DomEmpty /\ domCur = DomRoot ELSE HtmlKept

\* The tree beginParsing leaves.
LEMMA HtmlFirstSound ==
  ASSUME NEW S, S.node = <<HtmlNode("tag", <<>>, 0, 0)>>, S.link = DomEmpty, S.cur = DomRoot, S.offset = 0
  PROVE  HtmlSound(S)
<1> DEFINE root == HtmlNode("tag", <<>>, 0, 0)
<1>1. root \in HtmlNodes /\ root.offset = 0 /\ root.length = 0
  BY DEF HtmlNode, HtmlNodes, HtmlKinds
<1> HIDE DEF root
<1>2. S.node \in Seq(HtmlNodes) /\ Len(S.node) = 1 /\ S.node[1] = root
  BY <1>1 DEF root
<1>3. HtmlPlaced(S)
  BY <1>1, <1>2 DEF HtmlPlaced
<1>4. DomTree(S.link, 1) /\ DomIsOpen(S.link, 1, S.cur)
  BY DomEmptyTree DEF DomRoot
<1> QED
  BY <1>2, <1>3, <1>4 DEF HtmlSound

LEMMA HtmlBecomes ==
  ASSUME NEW T, HtmlSound(T), HtmlBecome(T)
  PROVE  HtmlKept' /\ htmlOffset' = T.offset
<1>1. /\ HtmlState'.node = T.node /\ HtmlState'.link = T.link /\ HtmlState'.cur = T.cur
      /\ HtmlState'.offset = T.offset /\ htmlOffset' = T.offset
  BY DEF HtmlBecome, HtmlState
<1> DEFINE U == HtmlState'
<1>2. U.node = T.node /\ U.link = T.link /\ U.cur = T.cur /\ U.offset = T.offset
  BY <1>1
<1> HIDE DEF U
<1>3. HtmlSound(U)
  <2>1. HtmlPlaced(U)
    BY <1>2 DEF HtmlSound, HtmlPlaced
  <2>2. ASSUME NEW x \in 2 .. Len(T.node) PROVE HtmlExtent(U, x)
    <3>1. HtmlExtent(T, x)
      BY <2>2 DEF HtmlSound
    <3> QED
      BY <1>2, <3>1 DEF HtmlExtent
  <2> QED
    BY <1>2, <2>1, <2>2 DEF HtmlSound
<1> QED
  BY <1>1, <1>3 DEF U, HtmlKept

\* parseHtmlTag: the name of a tag.
LEMMA HtmlNameIs ==
  ASSUME NEW d \in Seq(HtmlChar), NEW c \in 1 .. HtmlEnd(d), NEW kind \in {"open", "close"}, HtmlMarkup(d, c) = kind
  PROVE  HtmlName(d, c, kind) \in Seq(HtmlChar)
<1> DEFINE b == IF kind = "close" THEN c + 2 ELSE c + 1
           e == HtmlFind(d, b, HtmlChar \ HtmlLetter)
<1>1. Len(d) \in Nat /\ HtmlEnd(d) = Len(d) + 1
  BY DEF HtmlEnd
<1>2. b \in 1 .. Len(d)
  BY <1>1 DEF HtmlMarkup, HtmlIs
<1> HIDE DEF b
<1>3. b \in 1 .. HtmlEnd(d)
  BY <1>1, <1>2
<1>4. e \in b .. HtmlEnd(d)
  BY <1>1, <1>3, HtmlFindIs
<1> HIDE DEF e
<1>5. e - 1 \in b - 1 .. Len(d) /\ b \in Int
  BY <1>1, <1>2, <1>4
<1>6. SubSeq(d, b, e - 1) \in Seq(HtmlChar)
  <2>1. ASSUME NEW i \in b .. e - 1 PROVE d[i] \in HtmlChar
    <3>1. i \in 1 .. Len(d)
      BY <1>1, <1>2, <1>5
    <3> QED
      BY <3>1
  <2> QED
    BY <1>1, <1>2, <1>5, <2>1, SubSeqProperties
<1> QED
  BY <1>6 DEF HtmlName, b, e

LEMMA HtmlPassKeeps ==
  ASSUME HtmlInv, HtmlPass
  PROVE  HtmlInv'
<1> DEFINE d == htmlDoc
           starts == {k \in htmlBegin .. Len(d) : HtmlMarkup(d, k) # "none"}
           c == IF starts = {} THEN HtmlEnd(d) ELSE CHOOSE k \in starts : \A m \in starts : k <= m
           kind == HtmlMarkup(d, c)
           e == IF kind = "none" THEN c ELSE HtmlMarkupEnd(d, c)
           name == HtmlName(d, c, kind)
           S == HtmlContent(HtmlState, htmlBegin, c)
           T == CASE kind = "none" -> S
                  [] kind = "open" -> HtmlOpened(S, name, c, e)
                  [] kind = "close" -> HtmlClosed(S, name, c, e)
                  [] kind = "comment" -> HtmlFound(S, "comment", <<>>, c, e)
<1>1. /\ htmlPc = "parse" /\ htmlBegin < HtmlEnd(d) /\ htmlPc' = htmlPc /\ htmlDoc' = d
      /\ HtmlBecome(T) /\ htmlBegin' = e
      /\ htmlInside' = IF kind = "open" /\ name \in HtmlLiteral THEN name ELSE <<>>
  BY DEF HtmlPass
<1>2. /\ d \in Seq(HtmlChar) /\ Len(d) \in Nat /\ HtmlEnd(d) = Len(d) + 1 /\ HtmlText(d)
      /\ htmlBegin \in 1 .. HtmlEnd(d) /\ htmlOffset = htmlBegin - 1
      /\ HtmlSound(HtmlState) /\ HtmlState.offset = htmlOffset
  BY <1>1 DEF HtmlInv, HtmlKept, HtmlEnd, HtmlText, HtmlState
<1>3. c \in htmlBegin .. HtmlEnd(d)
  <2>1. CASE starts = {}
    BY <1>2, <2>1
  <2>2. CASE starts # {}
    <3>1. starts \in SUBSET Nat
      BY <1>2
    <3>2. \E k \in starts : \A m \in starts : k <= m
      BY <2>2, <3>1, Least
    <3>3. c \in starts
      BY <2>2, <3>2
    <3> HIDE DEF c
    <3> QED
      BY <1>2, <3>3
  <2> QED
    BY <2>1, <2>2
<1> HIDE DEF starts, c
<1>4. kind \in {"none", "open", "close", "comment"}
  BY DEF HtmlMarkup
<1>5. c \in 1 .. HtmlEnd(d) /\ e \in c .. HtmlEnd(d) /\ (kind # "none" => e > c)
  <2>1. c \in 1 .. HtmlEnd(d)
    BY <1>2, <1>3
  <2>2. CASE kind = "none"
    BY <1>2, <2>1, <2>2
  <2>3. CASE kind # "none"
    <3>1. HtmlMarkupEnd(d, c) \in c + 1 .. HtmlEnd(d)
      BY <1>2, <2>1, <2>3, HtmlMarkupEndIs
    <3> QED
      BY <1>2, <2>1, <2>3, <3>1
  <2> QED
    BY <2>2, <2>3
<1>6. kind \in {"open", "close"} => name \in Seq(HtmlChar)
  BY <1>2, <1>5, HtmlNameIs
<1>7. HtmlSound(S) /\ S.offset = c - 1
  <2>1. HtmlSound(S) /\ S.offset = HtmlState.offset + (c - htmlBegin)
    BY <1>2, <1>3, HtmlContentSound
  <2> HIDE DEF S
  <2> QED
    BY <1>2, <1>3, <2>1
<1>8. HtmlSound(T) /\ T.offset = e - 1
  <2> HIDE DEF S, e, name
  <2>1. CASE kind = "none"
    <3>1. e = c /\ T = S
      BY <2>1 DEF e
    <3> QED
      BY <1>7, <3>1
  <2>2. CASE kind # "none"
    <3>1. c \in Int /\ e \in Int /\ c < e
      BY <1>2, <1>5, <2>2
    <3>2. "comment" \in HtmlKinds /\ <<>> \in Seq(HtmlChar)
      BY DEF HtmlKinds
    <3>3. HtmlSound(HtmlFound(S, "comment", <<>>, c, e))
          /\ HtmlFound(S, "comment", <<>>, c, e).offset = S.offset + (e - c)
      BY <1>7, <3>1, <3>2, HtmlFoundSound
    <3>4. kind \in {"open", "close"} =>
            /\ HtmlSound(HtmlOpened(S, name, c, e)) /\ HtmlOpened(S, name, c, e).offset = S.offset + (e - c)
            /\ HtmlSound(HtmlClosed(S, name, c, e)) /\ HtmlClosed(S, name, c, e).offset = S.offset + (e - c)
      BY <1>6, <1>7, <3>1, <3>2, HtmlFoundSound, HtmlClosedSound
    <3> HIDE DEF kind
    <3>5. T = IF kind = "open" THEN HtmlOpened(S, name, c, e)
              ELSE IF kind = "close" THEN HtmlClosed(S, name, c, e)
              ELSE HtmlFound(S, "comment", <<>>, c, e)
      BY <1>4, <2>2
    <3> HIDE DEF T
    <3>6. HtmlSound(T) /\ T.offset = S.offset + (e - c)
      BY <3>3, <3>4, <3>5
    <3> QED
      BY <1>7, <3>1, <3>6
  <2> QED
    BY <2>1, <2>2
<1> HIDE DEF T, e, kind, name
<1>9. HtmlKept' /\ htmlOffset' = T.offset
  BY <1>1, <1>8, HtmlBecomes
<1>10. e \in 1 .. HtmlEnd(d)
  BY <1>2, <1>5
<1> QED
  BY <1>1, <1>2, <1>8, <1>9, <1>10 DEF HtmlInv

LEMMA HtmlPassLiteralKeeps ==
  ASSUME HtmlInv, HtmlPassLiteral
  PROVE  HtmlInv'
<1> DEFINE c == HtmlLiteralEnd(htmlDoc, htmlBegin, htmlInside)
           S == HtmlContent(HtmlState, htmlBegin, c)
<1>1. /\ htmlPc = "parse" /\ htmlPc' = htmlPc /\ htmlDoc' = htmlDoc
      /\ HtmlBecome(S) /\ htmlBegin' = c /\ htmlInside' = <<>>
  BY DEF HtmlPassLiteral
<1>2. /\ htmlDoc \in Seq(HtmlChar) /\ Len(htmlDoc) \in Nat /\ HtmlEnd(htmlDoc) = Len(htmlDoc) + 1
      /\ HtmlText(htmlDoc)
      /\ htmlBegin \in 1 .. HtmlEnd(htmlDoc) /\ htmlOffset = htmlBegin - 1
      /\ HtmlSound(HtmlState) /\ HtmlState.offset = htmlOffset
  BY <1>1 DEF HtmlInv, HtmlKept, HtmlEnd, HtmlText, HtmlState
<1>3. c \in htmlBegin .. HtmlEnd(htmlDoc)
  BY <1>2, HtmlLiteralEndIs
<1> HIDE DEF c
<1>4. c \in 1 .. HtmlEnd(htmlDoc) /\ c \in Int /\ htmlBegin <= c
  BY <1>2, <1>3
<1>5. HtmlSound(S) /\ S.offset = HtmlState.offset + (c - htmlBegin)
  BY <1>2, <1>4, HtmlContentSound
<1> HIDE DEF S
<1>6. HtmlKept' /\ htmlOffset' = S.offset
  BY <1>1, <1>5, HtmlBecomes
<1>7. htmlOffset' = c - 1
  BY <1>2, <1>4, <1>5, <1>6
<1> QED
  BY <1>1, <1>2, <1>4, <1>6, <1>7 DEF HtmlInv

\* endParsing gives the root its length.
LEMMA HtmlReturnKeeps ==
  ASSUME HtmlInv, HtmlReturn
  PROVE  HtmlInv'
<1> DEFINE n == Len(domNode)
           r == [domNode[1] EXCEPT !.length = htmlOffset]
           U == HtmlState'
<1>1. /\ htmlPc = "parse" /\ htmlPc' = "done" /\ domNode' = [domNode EXCEPT ![1] = r]
      /\ htmlDoc' = htmlDoc /\ htmlBegin' = htmlBegin /\ htmlInside' = htmlInside
      /\ htmlOffset' = htmlOffset /\ domLink' = domLink /\ domCur' = domCur
  BY DEF HtmlReturn, DomRoot
<1>2. /\ domNode \in Seq(HtmlNodes) /\ n \in Nat \ {0} /\ DomTree(domLink, n) /\ DomIsOpen(domLink, n, domCur)
      /\ htmlOffset \in Nat /\ domNode[1].offset = 0
      /\ \A x \in 1 .. n : domNode[x].offset + domNode[x].length <= htmlOffset
      /\ \A x \in 2 .. n : domNode[x].offset < htmlOffset
      /\ \A x \in 2 .. n : HtmlExtent(HtmlState, x)
  BY <1>1, DomParents DEF HtmlInv, HtmlKept, HtmlSound, HtmlPlaced, HtmlState
<1>3. r \in HtmlNodes /\ r.offset = 0 /\ r.length = htmlOffset
  <2>1. domNode[1] \in HtmlNodes
    BY <1>2
  <2> QED
    BY <1>2, <2>1 DEF HtmlNodes
<1> HIDE DEF r
<1>4. /\ domNode' \in Seq(HtmlNodes) /\ Len(domNode') = n /\ domNode'[1] = r
      /\ \A x \in 1 .. n : x # 1 => domNode'[x] = domNode[x]
  <2>1. 1 \in 1 .. n
    BY <1>2
  <2>2. domNode' \in Seq(HtmlNodes) /\ Len(domNode') = n
    BY <1>1, <1>2, <1>3, <2>1, ExceptSeq
  <2> QED
    BY <1>1, <1>2, <2>1, <2>2
<1>5. U.node = domNode' /\ U.link = domLink /\ U.cur = domCur /\ U.offset = htmlOffset
  BY <1>1 DEF HtmlState
<1> HIDE DEF U
<1>6. HtmlPlaced(U)
  <2>1. ASSUME NEW x \in 1 .. n PROVE domNode'[x].offset + domNode'[x].length <= htmlOffset
    <3>1. CASE x = 1
      BY <1>2, <1>3, <1>4, <3>1
    <3>2. CASE x # 1
      BY <1>2, <1>4, <3>2
    <3> QED
      BY <3>1, <3>2
  <2>2. \A x \in 2 .. n : x \in 1 .. n /\ x # 1
    BY <1>2
  <2> QED
    BY <1>2, <1>3, <1>4, <1>5, <2>1, <2>2 DEF HtmlPlaced
<1>7. ASSUME NEW x \in 2 .. n PROVE HtmlExtent(U, x)
  <2>1. x # 1 /\ x \in 1 .. n /\ \A y \in x + 1 .. n : y # 1 /\ y \in 1 .. n
    BY <1>2
  <2>2. HtmlState.node = domNode /\ HtmlState.link = domLink /\ HtmlState.cur = domCur
    BY DEF HtmlState
  <2>3. HtmlExtent(HtmlState, x)
    BY <1>2
  <2> QED
    BY <1>4, <1>5, <2>1, <2>2, <2>3 DEF HtmlExtent
<1>8. HtmlSound(U)
  BY <1>2, <1>4, <1>5, <1>6, <1>7 DEF HtmlSound
<1> QED
  BY <1>1, <1>8 DEF HtmlInv, HtmlKept, U

LEMMA HtmlInvHolds == HtmlSpec => []HtmlInv
<1>1. HtmlInit => HtmlInv
  BY DEF HtmlInit, HtmlInv, HtmlEnd
<1>2. HtmlInv /\ [HtmlNext]_htmlVars => HtmlInv'
  <2> SUFFICES ASSUME HtmlInv, [HtmlNext]_htmlVars PROVE HtmlInv'
    OBVIOUS
  <2>1. ASSUME NEW d \in HtmlDocs, HtmlParse(d) PROVE HtmlInv'
    <3>1. /\ htmlPc' = "parse" /\ htmlDoc' = d /\ htmlBegin' = 1 /\ htmlInside' = <<>> /\ htmlOffset' = 0
          /\ domNode' = <<HtmlNode("tag", <<>>, 0, 0)>> /\ domLink' = DomEmpty /\ domCur' = DomRoot
      BY <2>1 DEF HtmlParse
    <3>2. d \in Seq(HtmlChar) /\ 1 \in 1 .. HtmlEnd(d)
      <4>1. d \in Seq(HtmlChar)
        BY HtmlAssumption
      <4> QED
        BY <4>1 DEF HtmlEnd
    <3> DEFINE U == HtmlState'
    <3>3. /\ U.node = <<HtmlNode("tag", <<>>, 0, 0)>> /\ U.link = DomEmpty /\ U.cur = DomRoot
          /\ U.offset = 0
      BY <3>1 DEF HtmlState
    <3> HIDE DEF U
    <3>4. HtmlSound(U)
      BY <3>3, HtmlFirstSound
    <3> QED
      BY <3>1, <3>2, <3>4 DEF HtmlInv, HtmlKept, U
  <2>2. CASE UNCHANGED htmlVars
    BY <2>2 DEF HtmlInv, HtmlKept, HtmlState, htmlVars
  <2> QED
    BY <2>1, <2>2, HtmlPassKeeps, HtmlPassLiteralKeeps, HtmlReturnKeeps DEF HtmlNext
<1> QED
  BY <1>1, <1>2, PTL DEF HtmlSpec

-----------------------------------------------------------------------------
(* The parser: the nodes above a node *)

DomAboveStep(t, f, m) == IF m = DomNull THEN {} ELSE {m} \cup f[t[m].parent]

DomAboveRun(t, n, f) == f = [m \in 0 .. n |-> DomAboveStep(t, f, m)]

LEMMA DomAboveExists ==
  ASSUME NEW t, NEW n, DomTree(t, n)
  PROVE  \E f : DomAboveRun(t, n, f)
<1> DEFINE D == 0 .. n
           V == SUBSET (0 .. n)
           e == [p \in D \X [D -> V] |-> DomAboveStep(t, p[2], p[1])]
           r == [m \in D |-> m]
<1>1. n \in Nat \ {0} /\ \A m \in D : m # 0 => t[m].parent \in D /\ t[m].parent < m
  <2>1. /\ n \in Nat \ {0} /\ t[1].parent = 0 /\ \A m \in 2 .. n : t[m].parent \in 1 .. m - 1
    BY DomParents
  <2>2. ASSUME NEW m \in D, m # 0 PROVE t[m].parent \in D /\ t[m].parent < m
    <3>1. m = 1 \/ m \in 2 .. n
      BY <2>1, <2>2
    <3> QED
      BY <2>1, <3>1
  <2> QED
    BY <2>1, <2>2
<1>2. ASSUME NEW m \in D, NEW f \in [D -> V] PROVE DomAboveStep(t, f, m) \in V
  <2>1. CASE m = 0
    BY <2>1 DEF DomAboveStep, DomNull
  <2>2. CASE m # 0
    <3>1. f[t[m].parent] \in V /\ {m} \in V
      BY <1>1, <2>2
    <3> QED
      BY <2>2, <3>1 DEF DomAboveStep, DomNull
  <2> QED
    BY <2>1, <2>2
<1>3. e \in [D \X [D -> V] -> V]
  <2>1. ASSUME NEW p \in D \X [D -> V] PROVE DomAboveStep(t, p[2], p[1]) \in V
    <3>1. p[1] \in D /\ p[2] \in [D -> V]
      OBVIOUS
    <3> HIDE DEF D, V
    <3> QED
      BY <1>2, <3>1
  <2> HIDE DEF D, V
  <2> QED
    BY <2>1
<1>4. RecLower(D, V, r, e)
  <2> SUFFICES ASSUME NEW m \in D, NEW f \in [D -> V], NEW g \in [D -> V],
                      \A j \in D : r[j] < r[m] => f[j] = g[j]
               PROVE  e[<<m, f>>] = e[<<m, g>>]
    BY DEF RecLower
  <2>1. m # 0 => f[t[m].parent] = g[t[m].parent]
    BY <1>1
  <2>2. DomAboveStep(t, f, m) = DomAboveStep(t, g, m)
    BY <2>1 DEF DomAboveStep, DomNull
  <2>3. e[<<m, f>>] = DomAboveStep(t, f, m) /\ e[<<m, g>>] = DomAboveStep(t, g, m)
    <3> HIDE DEF D, V
    <3> QED
      OBVIOUS
  <2> QED
    BY <2>2, <2>3
<1>5. RecStep(D, V, n, r, e)
  <2>1. r \in [D -> 0 .. n] /\ n \in Nat
    BY <1>1
  <2>2. V # {}
    OBVIOUS
  <2> HIDE DEF D, V, r, e
  <2> QED
    BY <1>3, <1>4, <2>1, <2>2 DEF RecStep
<1> HIDE DEF r
<1>6. PICK h \in [D -> V] : h = [m \in D |-> e[<<m, h>>]]
  <2> HIDE DEF D, V, e
  <2>1. RecHas(D, V, e)
    BY <1>5, RecExists
  <2> QED
    BY <2>1 DEF RecHas
<1>7. \A m \in D : e[<<m, h>>] = DomAboveStep(t, h, m)
  <2> HIDE DEF D, V
  <2> QED
    OBVIOUS
<1>8. h = [m \in D |-> DomAboveStep(t, h, m)]
  <2> HIDE DEF D, V, e
  <2> QED
    BY <1>6, <1>7
<1> QED
  BY <1>8 DEF DomAboveRun

LEMMA DomAboveRuns ==
  ASSUME NEW t, NEW n, DomTree(t, n), NEW f, DomAboveRun(t, n, f), NEW y \in 1 .. n, NEW x \in 1 .. n
  PROVE  x \in f[y] <=> DomIsAbove(t, x, y)
<1> DEFINE T == {m \in 0 .. n : \A k \in 1 .. m : x \in f[k] <=> DomIsAbove(t, x, k)}
<1>0. n \in Nat \ {0} /\ t[1].parent = 0 /\ \A m \in 2 .. n : t[m].parent \in 1 .. m - 1
  BY DomParents
<1>1. f[0] = {} /\ \A k \in 1 .. n : f[k] = {k} \cup f[t[k].parent]
  <2>1. \A k \in 0 .. n : f[k] = DomAboveStep(t, f, k)
    BY DEF DomAboveRun
  <2>2. 0 \in 0 .. n /\ \A k \in 1 .. n : k \in 0 .. n /\ k # 0
    BY <1>0
  <2> QED
    BY <2>1, <2>2 DEF DomAboveStep, DomNull
<1>2. 0 \in T
  BY <1>0
<1>3. ASSUME NEW m \in 0 .. n, m \in T, m < n PROVE m + 1 \in T
  <2>1. m + 1 \in 1 .. n /\ m + 1 \in 0 .. n /\ \A k \in 1 .. m + 1 : k = m + 1 \/ k \in 1 .. m
    BY <1>0, <1>3
  <2>2. x \in f[m + 1] <=> DomIsAbove(t, x, m + 1)
    <3>1. CASE m = 0
      <4>1. f[m + 1] = {m + 1}
        BY <1>0, <1>1, <3>1
      <4>2. ~ DomUnder(t, x, m + 1)
        BY <3>1 DEF DomUnder
      <4> QED
        BY <4>1, <4>2 DEF DomIsAbove
    <3>2. CASE m # 0
      <4>1. m + 1 \in 2 .. n /\ t[m + 1].parent \in 1 .. m
        BY <1>0, <2>1, <3>2
      <4>2. x \in f[t[m + 1].parent] <=> DomIsAbove(t, x, t[m + 1].parent)
        BY <1>3, <4>1
      <4>3. DomUnder(t, x, m + 1) <=> DomIsAbove(t, x, t[m + 1].parent)
        BY <4>1, DomAboveParent
      <4>4. x \in f[m + 1] <=> x = m + 1 \/ x \in f[t[m + 1].parent]
        BY <1>1, <2>1
      <4> QED
        BY <4>2, <4>3, <4>4 DEF DomIsAbove
    <3> QED
      BY <3>1, <3>2
  <2> QED
    BY <1>3, <2>1, <2>2
<1> HIDE DEF T
<1>4. \A m \in 0 .. n : m \in T
  BY <1>0, <1>2, <1>3, UpTo
<1>5. n \in 0 .. n
  BY <1>0
<1> QED
  BY <1>4, <1>5 DEF T

LEMMA DomAboveIs ==
  ASSUME DomTree(domLink, Len(domNode)), NEW y \in 1 .. Len(domNode), NEW x \in 1 .. Len(domNode)
  PROVE  x \in DomAbove(y) <=> DomIsAbove(domLink, x, y)
<1> DEFINE n == Len(domNode)
           up == CHOOSE f : DomAboveRun(domLink, n, f)
<1>1. DomAbove(y) = up[y]
  <2>1. DomAbove(y) = (CHOOSE f : f = [m \in 0 .. Len(domNode) |-> DomAboveStep(domLink, f, m)])[y]
    BY Zenon DEF DomAbove, DomAboveStep
  <2> QED
    BY <2>1, Zenon DEF DomAboveRun
<1>2. DomAboveRun(domLink, n, up)
  BY DomAboveExists, Zenon
<1> HIDE DEF up
<1> QED
  BY <1>1, <1>2, DomAboveRuns

LEMMA HtmlExtentsNest == HtmlInv => DomExtentsNest
<1> SUFFICES ASSUME HtmlInv PROVE DomExtentsNest
  OBVIOUS
<1> DEFINE N == Len(domNode)
<1>1. CASE htmlPc = "idle"
  <2>1. N = 0
    BY <1>1 DEF HtmlInv
  <2> QED
    BY <2>1 DEF DomExtentsNest
<1>2. CASE htmlPc # "idle"
  <2>1. /\ N \in Nat \ {0} /\ DomTree(domLink, N) /\ domCur \in 1 .. N
        /\ \A x \in 2 .. N : HtmlExtent(HtmlState, x)
    BY <1>2, DomParents DEF HtmlInv, HtmlKept, HtmlSound, HtmlState, DomIsOpen
  <2>2. ASSUME NEW x \in 2 .. N
        PROVE  LET n == domNode[x]
                   below == {y \in 2 .. N : y # x /\ x \in DomAbove(y)}
               IN IF n.closed
                  THEN below = {y \in x + 1 .. N : domNode[y].offset < n.offset + n.length}
                  ELSE below = {} \/ x \in DomAbove(domCur)
    <3> DEFINE n == domNode[x]
               below == {y \in 2 .. N : y # x /\ x \in DomAbove(y)}
    <3>1. x \in 1 .. N /\ \A y \in 2 .. N : y \in 1 .. N
      BY <2>1
    <3>2. \A y \in 1 .. N : x \in DomAbove(y) <=> DomIsAbove(domLink, x, y)
      BY <2>1, <3>1, DomAboveIs
    <3>3. below = {y \in 2 .. N : DomUnder(domLink, x, y)}
      <4>1. \A y \in 2 .. N : y # x /\ x \in DomAbove(y) <=> DomUnder(domLink, x, y)
        BY <3>1, <3>2 DEF DomIsAbove, DomUnder
      <4> QED
        BY <4>1
    <3>4. HtmlExtent(HtmlState, x)
      BY <2>1
    <3> HIDE DEF below
    <3>5. CASE n.closed
      <4>1. \A y \in x + 1 .. N : DomUnder(domLink, x, y) <=> domNode[y].offset < n.offset + n.length
        BY <3>4, <3>5 DEF HtmlExtent, HtmlState
      <4>2. \A y \in 2 .. N : DomUnder(domLink, x, y) => y \in x + 1 .. N
        BY <2>1, <3>1 DEF DomUnder
      <4>3. \A y \in x + 1 .. N : y \in 2 .. N
        BY <2>1, <3>1
      <4>4. below = {y \in x + 1 .. N : domNode[y].offset < n.offset + n.length}
        <5> HIDE DEF n, N
        <5> QED
          BY <3>3, <4>1, <4>2, <4>3
      <4> QED
        BY <3>5, <4>4 DEF below
    <3>6. CASE ~ n.closed
      <4>1. (\A y \in 1 .. N : ~ DomUnder(domLink, x, y)) \/ DomIsAbove(domLink, x, domCur)
        BY <3>4, <3>6 DEF HtmlExtent, HtmlState
      <4>2. below = {} \/ x \in DomAbove(domCur)
        BY <2>1, <3>1, <3>2, <3>3, <4>1
      <4> QED
        BY <3>6, <4>2 DEF below
    <3> QED
      BY <3>5, <3>6
  <2> QED
    BY <2>2, Zenon DEF DomExtentsNest
<1> QED
  BY <1>1, <1>2

\* Whatever is parsed, an element whose closing tag was found holds what is written
\* between its tags, and an element left open holds nothing once it is passed.
THEOREM ExtentsNestAlways == HtmlSpec => []DomExtentsNest
BY HtmlInvHolds, HtmlExtentsNest, PTL

LEMMA HtmlTypes == HtmlInv => HtmlTypeOK
<1> SUFFICES ASSUME HtmlInv PROVE HtmlTypeOK
  OBVIOUS
<1>1. CASE htmlPc = "idle"
  <2>1. Len(domNode) = 0 /\ domCur \in DOMAIN domLink
    BY <1>1 DEF HtmlInv, DomEmpty
  <2> QED
    BY <2>1 DEF HtmlInv, HtmlTypeOK
<1>2. CASE htmlPc # "idle"
  <2> DEFINE N == Len(domNode)
  <2>1. /\ domNode \in Seq(HtmlNodes) /\ N \in Nat /\ DomTree(domLink, N) /\ domCur \in 1 .. N
        /\ \A x \in 1 .. N : domNode[x].offset + domNode[x].length <= htmlOffset
    BY <1>2, DomParents DEF HtmlInv, HtmlKept, HtmlSound, HtmlPlaced, HtmlState, DomIsOpen
  <2>2. domCur \in DOMAIN domLink
    BY <2>1 DEF DomTree, DomPlaces
  <2>3. Len(htmlDoc) \in Nat /\ htmlOffset <= Len(htmlDoc) /\ htmlOffset \in Int
    BY DEF HtmlInv, HtmlEnd
  <2>4. ASSUME NEW x \in 1 .. N
        PROVE  domNode[x].kind \in HtmlKinds /\ domNode[x].length \in 0 .. Len(htmlDoc)
    <3>1. domNode[x] \in HtmlNodes
      BY <2>1
    <3>2. domNode[x].kind \in HtmlKinds /\ domNode[x].offset \in Nat /\ domNode[x].length \in Nat
      BY <3>1 DEF HtmlNodes
    <3> QED
      BY <2>1, <2>3, <3>2
  <2> QED
    BY <2>2, <2>4 DEF HtmlInv, HtmlTypeOK, HtmlKinds
<1> QED
  BY <1>1, <1>2

THEOREM HtmlTypeCorrect == HtmlSpec => []HtmlTypeOK
BY HtmlInvHolds, HtmlTypes, PTL

-----------------------------------------------------------------------------
(* The parser: the walk over the tree *)

DomUpStep(t, f, m) ==
  IF t[m].next # DomNull THEN t[m].next
  ELSE IF t[m].parent = DomNull THEN DomNull ELSE f[t[m].parent]

DomUpRun(t, f) == f = [m \in DOMAIN t |-> DomUpStep(t, f, m)]

LEMMA DomUpExists ==
  ASSUME NEW t, NEW n, DomTree(t, n)
  PROVE  \E f : DomUpRun(t, f)
<1> DEFINE D == DomPlaces(n)
           V == Int
           e == [p \in D \X [D -> V] |-> DomUpStep(t, p[2], p[1])]
           r == [m \in D |-> IF m < 0 THEN 0 ELSE m]
<1>1. /\ n \in Nat \ {0} /\ t \in [D -> DomRecords]
      /\ \A m \in D : t[m].next \in Int /\ (m < 0 \/ m \in 1 .. n)
  <2>1. n \in Nat \ {0} /\ t \in [D -> DomRecords]
    BY DEF DomTree
  <2>2. \A m \in D : t[m] \in DomRecords
    BY <2>1
  <2> QED
    BY <2>1, <2>2 DEF DomRecords, DomPlaces, DomHead, DomFeet
<1>2. ASSUME NEW m \in D, t[m].next = 0, t[m].parent # 0
      PROVE  t[m].parent \in D /\ t[m].parent > 0 /\ t[m].parent < m
  <2>1. m \in 1 .. n
    BY <1>1, <1>2 DEF DomTree, DomEnds, DomPlaces
  <2>2. m # 1
    BY <1>2 DEF DomTree, DomEnds, DomFeet
  <2>3. m \in 2 .. n
    BY <1>1, <2>1, <2>2
  <2>4. t[m].parent \in 1 .. m - 1
    BY <2>3, DomParents
  <2> QED
    BY <1>1, <2>3, <2>4 DEF DomPlaces
<1>3. ASSUME NEW m \in D, NEW f \in [D -> V] PROVE DomUpStep(t, f, m) \in V
  BY <1>1, <1>2 DEF DomUpStep, DomNull
<1>4. e \in [D \X [D -> V] -> V]
  <2>1. ASSUME NEW p \in D \X [D -> V] PROVE DomUpStep(t, p[2], p[1]) \in V
    <3>1. p[1] \in D /\ p[2] \in [D -> V]
      OBVIOUS
    <3> HIDE DEF D, V
    <3> QED
      BY <1>3, <3>1
  <2> HIDE DEF D, V
  <2> QED
    BY <2>1
<1>5. RecLower(D, V, r, e)
  <2> SUFFICES ASSUME NEW m \in D, NEW f \in [D -> V], NEW g \in [D -> V],
                      \A j \in D : r[j] < r[m] => f[j] = g[j]
               PROVE  e[<<m, f>>] = e[<<m, g>>]
    BY DEF RecLower
  <2>1. ASSUME t[m].next = 0, t[m].parent # 0 PROVE f[t[m].parent] = g[t[m].parent]
    <3>1. t[m].parent \in D /\ t[m].parent > 0 /\ t[m].parent < m /\ (m < 0 \/ m \in 1 .. n)
      BY <1>1, <1>2, <2>1
    <3>2. \A j \in D : j \in Int
      BY <1>1 DEF DomPlaces, DomHead, DomFeet
    <3>3. t[m].parent \in Int /\ m \in Int /\ ~ (m < 0) /\ ~ (t[m].parent < 0)
      BY <3>1, <3>2
    <3>4. r[t[m].parent] = t[m].parent /\ r[m] = m
      <4> HIDE DEF D
      <4> QED
        BY <3>1, <3>3
    <3> QED
      BY <3>1, <3>4
  <2>2. DomUpStep(t, f, m) = DomUpStep(t, g, m)
    BY <2>1 DEF DomUpStep, DomNull
  <2>3. e[<<m, f>>] = DomUpStep(t, f, m) /\ e[<<m, g>>] = DomUpStep(t, g, m)
    <3> HIDE DEF D, V
    <3> QED
      OBVIOUS
  <2> QED
    BY <2>2, <2>3
<1>6. RecStep(D, V, n, r, e)
  <2>1. r \in [D -> 0 .. n] /\ n \in Nat
    BY <1>1
  <2>2. V # {}
    OBVIOUS
  <2> HIDE DEF D, V, r, e
  <2> QED
    BY <1>4, <1>5, <2>1, <2>2 DEF RecStep
<1> HIDE DEF r
<1>7. PICK h \in [D -> V] : h = [m \in D |-> e[<<m, h>>]]
  <2> HIDE DEF D, V, e
  <2>1. RecHas(D, V, e)
    BY <1>6, RecExists
  <2> QED
    BY <2>1 DEF RecHas
<1>8. \A m \in D : e[<<m, h>>] = DomUpStep(t, h, m)
  <2> HIDE DEF D, V
  <2> QED
    OBVIOUS
<1>9. h = [m \in D |-> DomUpStep(t, h, m)]
  <2> HIDE DEF D, V, e
  <2> QED
    BY <1>7, <1>8
<1>10. DOMAIN t = D
  <2> HIDE DEF D
  <2> QED
    BY <1>1
<1> QED
  BY <1>9, <1>10 DEF DomUpRun

\* w is the first node after x that is not below it, or the end.
DomPast(t, n, x, w) ==
  \/ w = DomFeet /\ \A z \in x + 1 .. n : t[z].parent >= x
  \/ w \in x + 1 .. n /\ t[w].parent < x /\ \A z \in x + 1 .. w - 1 : t[z].parent >= x

LEMMA DomUpRuns ==
  ASSUME NEW t, NEW n, DomTree(t, n), NEW f, DomUpRun(t, f), NEW x \in 1 .. n
  PROVE  DomPast(t, n, x, f[x])
<1> DEFINE T == {m \in 0 .. n : \A k \in 1 .. m : DomPast(t, n, k, f[k])}
<1>0. /\ n \in Nat \ {0} /\ t[1].parent = 0 /\ (\A y \in 1 .. n : t[y].parent \in Int)
      /\ \A m \in 2 .. n : t[m].parent \in 1 .. m - 1
      /\ \A y \in 2 .. n : \A z \in 1 .. y - 1 : z > t[y].parent => t[z].parent >= t[y].parent
  BY DomParents
<1>1. \A k \in 1 .. n : f[k] = DomUpStep(t, f, k)
  <2>1. \A k \in 1 .. n : k \in DOMAIN t
    BY DEF DomTree, DomPlaces
  <2> QED
    BY <2>1 DEF DomUpRun
<1>2. 0 \in T
  BY <1>0
<1>3. ASSUME NEW k \in 2 .. n, NEW y \in k + 1 .. n, t[y].parent > t[k].parent PROVE t[y].parent >= k
  <2>1. y \in 2 .. n /\ k \in 1 .. y - 1 /\ k \in 1 .. n /\ y \in 1 .. n
    BY <1>0
  <2>2. t[y].parent \in Int /\ t[k].parent \in Int
    BY <1>0, <2>1
  <2>3. k > t[y].parent => t[k].parent >= t[y].parent
    BY <1>0, <2>1
  <2> QED
    BY <1>3, <2>2, <2>3
<1>4. ASSUME NEW m \in 0 .. n, m \in T, m < n PROVE m + 1 \in T
  <2> DEFINE k == m + 1
             p == t[k].parent
  <2>1. k \in 1 .. n /\ k \in 0 .. n /\ \A j \in 1 .. k : j = k \/ j \in 1 .. m
    BY <1>0, <1>4
  <2>2. f[k] = DomUpStep(t, f, k)
    BY <1>1, <2>1
  <2> HIDE DEF k
  <2>3. DomPast(t, n, k, f[k])
    <3>1. CASE k = 1
      <4>1. t[1].next = DomFeet
        BY DEF DomTree, DomEnds
      <4>2. f[k] = DomFeet
        BY <2>2, <3>1, <4>1 DEF DomUpStep, DomNull, DomFeet
      <4>3. \A z \in 2 .. n : t[z].parent >= 1
        BY <1>0
      <4> QED
        BY <3>1, <4>2, <4>3 DEF DomPast
    <3>2. CASE k # 1
      <4>1. k \in 2 .. n /\ p \in 1 .. k - 1 /\ p \in Int /\ p < k /\ p # 0
        BY <1>0, <2>1, <3>2
      <4>2. CASE t[k].next # 0
        <5> DEFINE w == t[k].next
        <5>1. f[k] = w
          BY <2>2, <4>2 DEF DomUpStep, DomNull
        <5>2. w \in k + 1 .. n /\ t[w].parent = p /\ \A y \in k + 1 .. w - 1 : t[y].parent # p
          BY <4>1, <4>2 DEF DomTree, DomNexts
        <5> HIDE DEF w
        <5>3. ASSUME NEW y \in k + 1 .. w - 1 PROVE t[y].parent >= k
          <6>1. w \in 2 .. n /\ y \in 1 .. w - 1 /\ y > p /\ y \in k + 1 .. n /\ y \in 1 .. n
            BY <1>0, <2>1, <4>1, <5>2
          <6>2. t[y].parent >= p /\ t[y].parent # p /\ t[y].parent \in Int
            BY <1>0, <5>2, <6>1
          <6>3. t[y].parent > p
            BY <4>1, <6>2
          <6> QED
            BY <1>3, <4>1, <6>1, <6>3
        <5>4. t[w].parent < k
          BY <4>1, <5>2
        <5> QED
          BY <5>1, <5>2, <5>3, <5>4 DEF DomPast
      <4>3. CASE t[k].next = 0
        <5> DEFINE w == f[p]
        <5>1. f[k] = w
          BY <2>2, <4>1, <4>3 DEF DomUpStep, DomNull
        <5>2. \A y \in k + 1 .. n : t[y].parent # p
          BY <4>1, <4>3 DEF DomTree, DomNexts
        <5>3. DomPast(t, n, p, w)
          <6>1. p \in 1 .. m
            BY <1>0, <4>1 DEF k
          <6> QED
            BY <1>4, <6>1
        <5> HIDE DEF w
        <5>4. ASSUME NEW y \in k + 1 .. n, t[y].parent >= p PROVE t[y].parent >= k
          <6>1. y \in 1 .. n
            BY <1>0, <4>1
          <6>2. t[y].parent > p
            BY <1>0, <4>1, <5>2, <5>4, <6>1
          <6> QED
            BY <1>3, <4>1, <6>2
        <5>5. CASE w = DomFeet /\ \A z \in p + 1 .. n : t[z].parent >= p
          <6>1. \A z \in k + 1 .. n : z \in p + 1 .. n
            BY <1>0, <4>1
          <6>2. \A z \in k + 1 .. n : t[z].parent >= k
            <7> HIDE DEF p
            <7> QED
              BY <5>4, <5>5, <6>1
          <6> QED
            BY <5>1, <5>5, <6>2 DEF DomPast
        <5>6. CASE /\ w \in p + 1 .. n /\ t[w].parent < p
                   /\ \A z \in p + 1 .. w - 1 : t[z].parent >= p
          <6>1. w > k
            <7>1. w # k
              BY <4>1, <5>6
            <7>2. ~ w < k
              <8>1. SUFFICES ASSUME w < k PROVE FALSE
                OBVIOUS
              <8>2. w \in 1 .. k - 1 /\ w > p /\ w \in 1 .. n
                BY <1>0, <4>1, <5>6, <8>1
              <8>3. t[w].parent >= p /\ t[w].parent \in Int
                BY <1>0, <4>1, <8>2
              <8> QED
                BY <4>1, <5>6, <8>3
            <7> QED
              BY <1>0, <4>1, <5>6, <7>1, <7>2
          <6>2. w \in k + 1 .. n /\ w \in 1 .. n
            BY <1>0, <4>1, <5>6, <6>1
          <6>3. t[w].parent < k
            BY <1>0, <4>1, <5>6, <6>2
          <6>4. \A z \in k + 1 .. w - 1 : z \in p + 1 .. w - 1 /\ z \in k + 1 .. n
            BY <1>0, <4>1, <6>2
          <6>5. \A z \in k + 1 .. w - 1 : t[z].parent >= k
            <7> HIDE DEF p
            <7> QED
              BY <5>4, <5>6, <6>4
          <6> QED
            BY <5>1, <6>2, <6>3, <6>5 DEF DomPast
        <5> QED
          BY <5>3, <5>5, <5>6 DEF DomPast
      <4> QED
        BY <4>2, <4>3
    <3> QED
      BY <3>1, <3>2
  <2>4. \A j \in 1 .. k : DomPast(t, n, j, f[j])
    BY <1>4, <2>1, <2>3
  <2> QED
    BY <2>1, <2>4 DEF k
<1> HIDE DEF T
<1>5. \A m \in 0 .. n : m \in T
  BY <1>0, <1>2, <1>4, UpTo
<1>6. n \in 0 .. n
  BY <1>0
<1> QED
  BY <1>5, <1>6 DEF T

\* operator++ goes to the next node in the order of creation, and from the last to the end.
LEMMA DomNextIs ==
  ASSUME NEW t, NEW n, DomTree(t, n), NEW x \in 1 .. n
  PROVE  DomNext(t, x) = IF x < n THEN x + 1 ELSE DomFeet
<1> DEFINE up == CHOOSE f : DomUpRun(t, f)
<1>0. /\ n \in Nat \ {0} /\ t[1].parent = 0 /\ (\A y \in 1 .. n : t[y].parent \in Int)
      /\ \A m \in 2 .. n : t[m].parent \in 1 .. m - 1
  BY DomParents
<1>1. DomNext(t, x) = IF t[x].first # DomNull THEN t[x].first ELSE up[x]
  <2>1. DomNext(t, x)
          = IF t[x].first # DomNull THEN t[x].first
            ELSE (CHOOSE f : f = [m \in DOMAIN t |-> DomUpStep(t, f, m)])[x]
    BY Zenon DEF DomNext, DomUpStep
  <2> QED
    BY <2>1, Zenon DEF DomUpRun
<1>2. DomUpRun(t, up)
  BY DomUpExists, Zenon
<1> HIDE DEF up
<1>3. DomPast(t, n, x, up[x])
  BY <1>2, DomUpRuns
<1>4. t[x].first = IF x < n /\ t[x + 1].parent = x THEN x + 1 ELSE 0
  BY DEF DomTree, DomFirsts
<1>5. CASE x < n /\ t[x + 1].parent = x
  <2>1. x + 1 # 0
    BY <1>0
  <2> QED
    BY <1>1, <1>4, <1>5, <2>1 DEF DomNull
<1>6. CASE x < n /\ t[x + 1].parent # x
  <2>1. x + 1 \in 2 .. n /\ x + 1 \in 1 .. n /\ x + 1 \in x + 1 .. n
    BY <1>0, <1>6
  <2>2. t[x + 1].parent < x
    <3>1. t[x + 1].parent \in 1 .. (x + 1) - 1
      BY <1>0, <2>1
    <3> QED
      BY <1>6, <3>1
  <2>3. ~ (t[x + 1].parent >= x)
    BY <1>0, <2>1, <2>2
  <2>4. up[x] \in x + 1 .. n /\ \A z \in x + 1 .. up[x] - 1 : t[z].parent >= x
    BY <1>3, <2>1, <2>3 DEF DomPast
  <2>5. up[x] = x + 1
    <3>1. ~ (x + 1 \in x + 1 .. up[x] - 1)
      BY <2>3, <2>4
    <3> QED
      BY <1>0, <2>4, <3>1
  <2> QED
    BY <1>1, <1>4, <1>6, <2>5 DEF DomNull
<1>7. CASE ~ (x < n)
  <2>1. x = n
    BY <1>0, <1>7
  <2>2. up[x] = DomFeet
    BY <1>0, <1>3, <2>1 DEF DomPast
  <2> QED
    BY <1>1, <1>4, <1>7, <2>2 DEF DomNull
<1> QED
  BY <1>5, <1>6, <1>7

DomWalkStep(t, f, k) ==
  IF k = 0 THEN t[DomHead].next
  ELSE LET n == f[k - 1] IN
       IF n \in {DomFeet, DomNull} THEN n ELSE DomNext(t, n)

DomWalkRun(t, N, f) == f = [k \in 0 .. N |-> DomWalkStep(t, f, k)]

LEMMA DomPlacesCount ==
  ASSUME NEW n \in Nat \ {0}
  PROVE  Cardinality(DomPlaces(n)) = n + 2
<1>1. IsFiniteSet(1 .. n) /\ Cardinality(1 .. n) = n
  BY FS_Interval
<1>2. IsFiniteSet(1 .. n \cup {-1}) /\ Cardinality(1 .. n \cup {-1}) = n + 1
  <2>1. -1 \notin 1 .. n
    OBVIOUS
  <2> QED
    BY <1>1, <2>1, FS_AddElement
<1>3. Cardinality((1 .. n \cup {-1}) \cup {-2}) = (n + 1) + 1
  <2>1. -2 \notin 1 .. n \cup {-1}
    OBVIOUS
  <2> QED
    BY <1>2, <2>1, FS_AddElement
<1>4. DomPlaces(n) = (1 .. n \cup {-1}) \cup {-2}
  BY DEF DomPlaces, DomHead, DomFeet
<1> QED
  BY <1>3, <1>4

LEMMA DomWalkIs ==
  ASSUME NEW t, NEW n, DomTree(t, n)
  PROVE  /\ \A k \in 1 .. n : DomWalk(t)[k - 1] = k
         /\ DomWalk(t)[n] = DomFeet
<1> DEFINE N == n + 2
           at == CHOOSE f : DomWalkRun(t, N, f)
           h == [k \in 0 .. N |-> IF k < n THEN k + 1 ELSE DomFeet]
<1>0. n \in Nat \ {0} /\ DOMAIN t = DomPlaces(n) /\ t[DomHead].next = 1 /\ Cardinality(DOMAIN t) = N
  <2>1. n \in Nat \ {0} /\ DOMAIN t = DomPlaces(n) /\ t[DomHead].next = 1
    BY DEF DomTree, DomEnds
  <2> QED
    BY <2>1, DomPlacesCount
<1>1. DomWalk(t) = at
  <2>1. DomWalk(t) = CHOOSE f : f = [k \in 0 .. Cardinality(DOMAIN t) |-> DomWalkStep(t, f, k)]
    BY Zenon DEF DomWalk, DomWalkStep
  <2> QED
    BY <1>0, <2>1, Zenon DEF DomWalkRun
<1>2. \A k \in 0 .. N : h[k] = DomWalkStep(t, h, k)
  <2>1. TAKE k \in 0 .. N
  <2>2. CASE k = 0
    BY <1>0, <2>2 DEF DomWalkStep
  <2>3. CASE k # 0
    <3>1. k - 1 \in 0 .. N /\ h[k - 1] = IF k - 1 < n THEN k ELSE DomFeet
      BY <1>0, <2>3
    <3>2. CASE k <= n
      <4>1. h[k - 1] = k /\ k \in 1 .. n /\ k \notin {DomFeet, DomNull}
        BY <1>0, <2>3, <3>1, <3>2 DEF DomFeet, DomNull
      <4>2. DomNext(t, k) = IF k < n THEN k + 1 ELSE DomFeet
        BY <4>1, DomNextIs
      <4>3. h[k] = IF k < n THEN k + 1 ELSE DomFeet
        OBVIOUS
      <4> HIDE DEF h
      <4> QED
        BY <2>3, <4>1, <4>2, <4>3 DEF DomWalkStep
    <3>3. CASE ~ k <= n
      <4>1. h[k - 1] = DomFeet /\ h[k] = DomFeet
        BY <1>0, <3>1, <3>3
      <4> HIDE DEF h
      <4> QED
        BY <2>3, <4>1 DEF DomWalkStep
    <3> QED
      BY <3>2, <3>3
  <2> QED
    BY <2>2, <2>3
<1>3. DomWalkRun(t, N, h)
  <2>1. h = [k \in 0 .. N |-> h[k]]
    OBVIOUS
  <2> HIDE DEF h, N
  <2>2. h = [k \in 0 .. N |-> DomWalkStep(t, h, k)]
    BY <1>2, <2>1
  <2> QED
    BY <2>2 DEF DomWalkRun
<1> HIDE DEF h
<1>4. DomWalkRun(t, N, at)
  BY <1>3, Zenon
<1> HIDE DEF at
<1>5. \A k \in 0 .. N : at[k] = DomWalkStep(t, at, k)
  BY <1>4 DEF DomWalkRun
<1> DEFINE T == {m \in 0 .. n : at[m] = IF m < n THEN m + 1 ELSE DomFeet}
<1>6. 0 \in T
  <2>1. at[0] = 1
    BY <1>0, <1>5 DEF DomWalkStep
  <2> QED
    BY <1>0, <2>1
<1>7. ASSUME NEW m \in 0 .. n, m \in T, m < n PROVE m + 1 \in T
  <2>1. m + 1 \in 1 .. n /\ m + 1 \in 0 .. N /\ m + 1 \in 0 .. n /\ (m + 1) - 1 = m /\ m + 1 # 0
    BY <1>0, <1>7
  <2>2. at[m] = m + 1 /\ m + 1 \notin {DomFeet, DomNull}
    BY <1>7 DEF DomFeet, DomNull
  <2>3. at[m + 1] = DomNext(t, m + 1)
    BY <1>5, <2>1, <2>2 DEF DomWalkStep
  <2>4. at[m + 1] = IF m + 1 < n THEN (m + 1) + 1 ELSE DomFeet
    BY <2>1, <2>3, DomNextIs
  <2> QED
    BY <2>1, <2>4
<1> HIDE DEF T
<1>8. \A m \in 0 .. n : m \in T
  BY <1>0, <1>6, <1>7, UpTo
<1>9. \A m \in 0 .. n : at[m] = IF m < n THEN m + 1 ELSE DomFeet
  BY <1>8 DEF T
<1>10. ASSUME NEW k \in 1 .. n PROVE at[k - 1] = k
  <2>1. k - 1 \in 0 .. n /\ k - 1 < n /\ (k - 1) + 1 = k
    BY <1>0
  <2> QED
    BY <1>9, <2>1
<1>11. at[n] = DomFeet
  BY <1>0, <1>9
<1> QED
  BY <1>1, <1>10, <1>11

LEMMA HtmlWalkInOrder == HtmlInv => DomWalkInOrder
<1> SUFFICES ASSUME HtmlInv, Len(domNode) > 0
             PROVE  /\ \A k \in 1 .. Len(domNode) : DomWalk(domLink)[k - 1] = k
                    /\ DomWalk(domLink)[Len(domNode)] = DomFeet
  BY DEF DomWalkInOrder
<1>1. htmlPc # "idle"
  BY DEF HtmlInv
<1>2. DomTree(domLink, Len(domNode))
  BY <1>1 DEF HtmlInv, HtmlKept, HtmlSound, HtmlState
<1> QED
  BY <1>2, DomWalkIs

\* Whatever is parsed, the walk over the tree meets every node once, in the order of
\* the document, and ends.
THEOREM WalkIsInOrder == HtmlSpec => []DomWalkInOrder
BY HtmlInvHolds, HtmlWalkInOrder, PTL

-----------------------------------------------------------------------------
(* User rank: sets and sums *)

\* What holds of the empty set, and of a subset of S with one element more, holds of S.
LEMMA SetUpTo ==
  ASSUME NEW S, IsFiniteSet(S), NEW T, {} \in T,
         \A s \in SUBSET S, x \in S : s \in T /\ x \notin s => s \cup {x} \in T
  PROVE  S \in T
<1> DEFINE N == Cardinality(S)
           C == {n \in 0 .. N : \A s \in SUBSET S : Cardinality(s) = n => s \in T}
<1>1. N \in Nat
  BY FS_CardinalityType
<1>2. 0 \in C
  <2>1. ASSUME NEW s \in SUBSET S, Cardinality(s) = 0 PROVE s \in T
    <3>1. IsFiniteSet(s)
      BY FS_Subset
    <3>2. s = {}
      BY <2>1, <3>1, FS_EmptySet
    <3> QED
      BY <3>2
  <2> QED
    BY <1>1, <2>1
<1>3. ASSUME NEW n \in 0 .. N, n \in C, n < N PROVE n + 1 \in C
  <2>0. n \in Nat /\ n + 1 # 0
    BY <1>1
  <2>1. ASSUME NEW s \in SUBSET S, Cardinality(s) = n + 1 PROVE s \in T
    <3>1. IsFiniteSet(s)
      BY FS_Subset
    <3>2. s # {}
      BY <2>0, <2>1, FS_EmptySet
    <3>3. PICK x \in s : TRUE
      BY <3>2
    <3>4. Cardinality(s \ {x}) = n
      <4>1. Cardinality(s \ {x}) = Cardinality(s) - 1
        BY <3>1, <3>3, FS_RemoveElement
      <4> QED
        BY <4>1, <2>0, <2>1
    <3>5. s \ {x} \in T /\ s \ {x} \in SUBSET S /\ x \in S
      BY <3>3, <3>4, <1>3
    <3>6. (s \ {x}) \cup {x} \in T
      BY <3>5
    <3>7. (s \ {x}) \cup {x} = s
      BY <3>3
    <3> QED
      BY <3>6, <3>7
  <2> QED
    BY <2>1, <1>1, <1>3
<1> HIDE DEF C
<1>4. \A n \in 0 .. N : n \in C
  BY <1>1, <1>2, <1>3, UpTo
<1>5. N \in C
  BY <1>1, <1>4
<1> QED
  BY <1>5 DEF C

SumSome(s) == CHOOSE x \in s : TRUE

SumStep(g, F, s) == IF s = {} THEN 0 ELSE F[SumSome(s)] + g[s \ {SumSome(s)}]

\* A function that adds up the values of F.
SumFun(g, F, S) == g = [s \in SUBSET S |-> SumStep(g, F, s)]

SumAdds(g, F, S) == \A s \in SUBSET S : g[s] = SumStep(g, F, s)

LEMMA SumIsFun ==
  ASSUME NEW F, NEW S
  PROVE  SumFunctionOnSet(F, S) = (CHOOSE g : SumFun(g, F, S))[S]
BY Zenon DEF SumFunctionOnSet, FoldFunctionOnSet, MapThenFoldSet, SumFun, SumStep, SumSome

LEMMA SumFunAdds ==
  ASSUME NEW F, NEW S, NEW g
  PROVE  SumFun(g, F, S) => SumAdds(g, F, S)
BY DEF SumFun, SumAdds

LEMMA SumSomeIn ==
  ASSUME NEW s, s # {}
  PROVE  SumSome(s) \in s
BY DEF SumSome

\* Such a function restricted is one.
LEMMA SumAddsFun ==
  ASSUME NEW F, NEW S, NEW g, SumAdds(g, F, S)
  PROVE  SumFun([s \in SUBSET S |-> g[s]], F, S)
<1> DEFINE h == [s \in SUBSET S |-> g[s]]
           k == [s \in SUBSET S |-> SumStep(h, F, s)]
<1>1. ASSUME NEW s \in SUBSET S PROVE h[s] = k[s]
  <2>1. g[s] = SumStep(g, F, s)
    BY DEF SumAdds
  <2>2. s # {} => h[s \ {SumSome(s)}] = g[s \ {SumSome(s)}]
    OBVIOUS
  <2>3. SumStep(h, F, s) = SumStep(g, F, s)
    BY <2>2 DEF SumStep
  <2> QED
    BY <2>1, <2>3
<1>2. h = k
  BY <1>1
<1> QED
  BY <1>2, Zenon DEF SumFun

\* There is one, by the number of elements.
SumAddsTo(g, F, S, n) ==
  \A s \in SUBSET S : Cardinality(s) <= n => g[s] = SumStep(g, F, s)

LEMMA SumExists ==
  ASSUME NEW F, NEW S, IsFiniteSet(S)
  PROVE  \E g : SumAdds(g, F, S)
<1> DEFINE N == Cardinality(S)
           T == {n \in 0 .. N : \E g : SumAddsTo(g, F, S, n)}
<1>1. N \in Nat
  BY FS_CardinalityType
<1>2. \A s \in SUBSET S : IsFiniteSet(s) /\ Cardinality(s) \in 0 .. N
  BY FS_Subset, FS_CardinalityType
<1>3. ASSUME NEW s \in SUBSET S, s # {}
      PROVE  /\ SumSome(s) \in s
             /\ s \ {SumSome(s)} \in SUBSET S
             /\ Cardinality(s \ {SumSome(s)}) = Cardinality(s) - 1
  BY <1>2, <1>3, SumSomeIn, FS_RemoveElement
<1>4. 0 \in T
  <2> DEFINE g == [s \in SUBSET S |-> 0]
  <2>1. ASSUME NEW s \in SUBSET S, Cardinality(s) <= 0 PROVE g[s] = SumStep(g, F, s)
    <3>1. s = {}
      BY <1>2, <2>1, FS_EmptySet
    <3> QED
      BY <3>1 DEF SumStep
  <2>2. SumAddsTo(g, F, S, 0)
    BY <2>1 DEF SumAddsTo
  <2> QED
    BY <2>2, <1>1
<1>5. ASSUME NEW n \in 0 .. N, n \in T, n < N PROVE n + 1 \in T
  <2>1. PICK g : SumAddsTo(g, F, S, n)
    BY <1>5
  <2> DEFINE h == [s \in SUBSET S |-> IF Cardinality(s) = n + 1 THEN SumStep(g, F, s) ELSE g[s]]
  <2>2. ASSUME NEW s \in SUBSET S, Cardinality(s) <= n + 1 PROVE h[s] = SumStep(h, F, s)
    <3>1. s # {} => h[s \ {SumSome(s)}] = g[s \ {SumSome(s)}]
      BY <1>1, <1>2, <1>3, <2>2
    <3>2. SumStep(h, F, s) = SumStep(g, F, s)
      BY <3>1 DEF SumStep
    <3>3. Cardinality(s) # n + 1 => Cardinality(s) <= n
      BY <1>1, <1>2, <2>2
    <3>4. h[s] = SumStep(g, F, s)
      BY <2>1, <3>3 DEF SumAddsTo
    <3> QED
      BY <3>2, <3>4
  <2> HIDE DEF h
  <2>3. SumAddsTo(h, F, S, n + 1)
    BY <2>2 DEF SumAddsTo
  <2> QED
    BY <2>3, <1>1, <1>5
<1> HIDE DEF T
<1>6. \A n \in 0 .. N : n \in T
  BY <1>1, <1>4, <1>5, UpTo
<1>7. N \in T
  BY <1>1, <1>6
<1>8. PICK g : SumAddsTo(g, F, S, N)
  BY <1>7 DEF T
<1>9. SumAdds(g, F, S)
  BY <1>1, <1>2, <1>8 DEF SumAddsTo, SumAdds
<1> QED
  BY <1>9

\* Two of them agree on what both add up.
LEMMA SumAgree ==
  ASSUME NEW F, NEW S, IsFiniteSet(S), NEW g, SumAdds(g, F, S),
         NEW R \in SUBSET S, NEW h, SumAdds(h, F, R)
  PROVE  h[R] = g[R]
<1> DEFINE N == Cardinality(R)
           T == {n \in 0 .. N : \A s \in SUBSET R : Cardinality(s) <= n => h[s] = g[s]}
<1>1. IsFiniteSet(R) /\ N \in Nat
  BY FS_Subset, FS_CardinalityType
<1>2. \A s \in SUBSET R : IsFiniteSet(s) /\ Cardinality(s) \in 0 .. N
  BY <1>1, FS_Subset, FS_CardinalityType
<1>3. ASSUME NEW s \in SUBSET R, s # {}
      PROVE  /\ SumSome(s) \in s
             /\ s \ {SumSome(s)} \in SUBSET R
             /\ Cardinality(s \ {SumSome(s)}) = Cardinality(s) - 1
  BY <1>2, <1>3, SumSomeIn, FS_RemoveElement
<1>4. ASSUME NEW s \in SUBSET R PROVE h[s] = SumStep(h, F, s) /\ g[s] = SumStep(g, F, s)
  BY DEF SumAdds
<1>5. 0 \in T
  <2>1. ASSUME NEW s \in SUBSET R, Cardinality(s) <= 0 PROVE h[s] = g[s]
    <3>1. s = {}
      BY <1>2, <2>1, FS_EmptySet
    <3> QED
      BY <3>1, <1>4 DEF SumStep
  <2> QED
    BY <2>1, <1>1
<1>6. ASSUME NEW n \in 0 .. N, n \in T, n < N PROVE n + 1 \in T
  <2>1. ASSUME NEW s \in SUBSET R, Cardinality(s) <= n + 1 PROVE h[s] = g[s]
    <3>1. s # {} => Cardinality(s \ {SumSome(s)}) <= n
      <4>1. Cardinality(s) \in Nat /\ n \in Nat
        BY <1>1, <1>2
      <4>2. s # {} => Cardinality(s \ {SumSome(s)}) = Cardinality(s) - 1
        BY <1>3
      <4> QED
        BY <4>1, <4>2, <2>1
    <3>2. s # {} => h[s \ {SumSome(s)}] = g[s \ {SumSome(s)}]
      BY <3>1, <1>3, <1>6
    <3> QED
      BY <3>2, <1>4 DEF SumStep
  <2> QED
    BY <2>1, <1>1, <1>6
<1> HIDE DEF T
<1>7. \A n \in 0 .. N : n \in T
  BY <1>1, <1>5, <1>6, UpTo
<1>8. N \in T
  BY <1>1, <1>7
<1> QED
  BY <1>1, <1>2, <1>8 DEF T

\* The sums of all subsets of S, in one function.
LEMMA SumTable ==
  ASSUME NEW F, NEW S, IsFiniteSet(S)
  PROVE  \E g : SumAdds(g, F, S) /\ \A R \in SUBSET S : SumFunctionOnSet(F, R) = g[R]
<1>1. PICK g : SumAdds(g, F, S)
  BY SumExists
<1>2. ASSUME NEW R \in SUBSET S PROVE SumFunctionOnSet(F, R) = g[R]
  <2> DEFINE h == CHOOSE f : SumFun(f, F, R)
  <2>1. SumAdds(g, F, R)
    BY <1>1 DEF SumAdds
  <2>2. \E f : SumFun(f, F, R)
    BY <2>1, SumAddsFun
  <2>3. SumFun(h, F, R)
    BY <2>2, Zenon
  <2>4. SumFunctionOnSet(F, R) = h[R]
    BY SumIsFun, Zenon
  <2> HIDE DEF h
  <2>5. SumAdds(h, F, R)
    BY <2>3, SumFunAdds
  <2>6. h[R] = g[R]
    BY <1>1, <2>5, SumAgree
  <2> QED
    BY <2>4, <2>6
<1> QED
  BY <1>1, <1>2

\* All values of F on S are numbers.
SumNats(F, S) == \A x \in S : F[x] \in Nat

\* A sum is a number, and one of its values can be taken out, whichever it is.
SumParts(F, S) == \A x \in S : SumFunctionOnSet(F, S) = F[x] + SumFunctionOnSet(F, S \ {x})

LEMMA SumTakes ==
  ASSUME NEW F, NEW S, IsFiniteSet(S), SumNats(F, S)
  PROVE  SumFunctionOnSet(F, S) \in Nat /\ SumParts(F, S)
<1>1. PICK g : SumAdds(g, F, S) /\ \A R \in SUBSET S : SumFunctionOnSet(F, R) = g[R]
  BY SumTable
<1> DEFINE N == Cardinality(S)
           Good(s) == g[s] \in Nat /\ \A x \in s : g[s] = F[x] + g[s \ {x}]
           T == {n \in 0 .. N : \A s \in SUBSET S : Cardinality(s) <= n => Good(s)}
<1>2. N \in Nat
  BY FS_CardinalityType
<1>3. \A s \in SUBSET S : IsFiniteSet(s) /\ Cardinality(s) \in 0 .. N
  BY FS_Subset, FS_CardinalityType
<1>4. ASSUME NEW s \in SUBSET S, NEW x \in s
      PROVE  s \ {x} \in SUBSET S /\ Cardinality(s \ {x}) = Cardinality(s) - 1 /\ F[x] \in Nat
  BY <1>3, FS_RemoveElement DEF SumNats
<1>5. ASSUME NEW s \in SUBSET S
      PROVE  /\ s = {} => g[s] = 0
             /\ s # {} => SumSome(s) \in s /\ g[s] = F[SumSome(s)] + g[s \ {SumSome(s)}]
  BY <1>1, SumSomeIn DEF SumAdds, SumStep
<1>6. 0 \in T
  <2>1. ASSUME NEW s \in SUBSET S, Cardinality(s) <= 0 PROVE Good(s)
    <3>1. s = {}
      BY <1>3, <2>1, FS_EmptySet
    <3>2. g[s] = 0
      BY <3>1, <1>5
    <3> QED
      BY <3>1, <3>2
  <2> QED
    BY <2>1, <1>2
<1>7. ASSUME NEW n \in 0 .. N, n \in T, n < N PROVE n + 1 \in T
  <2>0. \A s \in SUBSET S : Cardinality(s) <= n => Good(s)
    BY <1>7
  <2> HIDE DEF T
  <2>1. ASSUME NEW s \in SUBSET S, Cardinality(s) <= n + 1, NEW x \in s
        PROVE  g[s] \in Nat /\ g[s] = F[x] + g[s \ {x}]
    <3> DEFINE c == SumSome(s)
    <3>0. Cardinality(s) \in Nat /\ n \in Nat
      BY <1>2, <1>3
    <3>1. \A y \in s : s \ {y} \in SUBSET S /\ Cardinality(s \ {y}) <= n /\ F[y] \in Nat
      BY <1>4, <2>1, <3>0
    <3>2. \A y \in s : Good(s \ {y})
      BY <3>1, <2>0
    <3>3. c \in s /\ g[s] = F[c] + g[s \ {c}]
      BY <1>5, <2>1
    <3> HIDE DEF c
    <3>4. CASE x = c
      <4>1. g[s \ {c}] \in Nat /\ F[c] \in Nat
        BY <3>1, <3>2, <3>3
      <4>2. g[s] \in Nat
        BY <3>3, <4>1
      <4> QED
        BY <3>3, <3>4, <4>2
    <3>5. CASE x # c
      <4>1. x \in s \ {c} /\ c \in s \ {x} /\ (s \ {c}) \ {x} = (s \ {x}) \ {c}
        BY <3>3, <3>5, <2>1
      <4>2. g[s \ {c}] = F[x] + g[(s \ {c}) \ {x}] /\ g[s \ {x}] = F[c] + g[(s \ {x}) \ {c}]
        BY <3>2, <3>3, <4>1
      <4> DEFINE a == F[x]  b == F[c]  r == g[(s \ {c}) \ {x}]
      <4>3. a \in Nat /\ b \in Nat /\ g[s \ {c}] \in Nat /\ g[s \ {x}] \in Nat
        BY <3>1, <3>2, <3>3
      <4>4. r \in Nat
        <5>1. (s \ {c}) \ {x} \in SUBSET S /\ Cardinality((s \ {c}) \ {x}) <= n
          <6>1. s \ {c} \in SUBSET S /\ Cardinality(s \ {c}) <= n
            BY <3>1, <3>3
          <6>2. (s \ {c}) \ {x} \in SUBSET S /\ Cardinality((s \ {c}) \ {x}) = Cardinality(s \ {c}) - 1
            BY <6>1, <4>1, <1>4
          <6>3. Cardinality(s \ {c}) \in Nat
            BY <6>1, <1>3
          <6> QED
            BY <6>1, <6>2, <6>3, <3>0
        <5> QED
          BY <5>1, <2>0
      <4>5. g[s \ {c}] = a + r /\ g[s \ {x}] = b + r /\ g[s] = b + g[s \ {c}]
        BY <4>1, <4>2, <3>3
      <4> HIDE DEF a, b, r
      <4>6. g[s] \in Nat /\ g[s] = a + g[s \ {x}]
        BY <4>3, <4>4, <4>5
      <4> QED
        BY <4>6 DEF a
    <3> QED
      BY <3>4, <3>5
  <2>2. ASSUME NEW s \in SUBSET S, Cardinality(s) <= n + 1 PROVE Good(s)
    <3>1. CASE s = {}
      <4>1. g[s] = 0
        BY <3>1, <1>5
      <4> QED
        BY <3>1, <4>1
    <3>2. CASE s # {}
      BY <3>2, <2>1, <2>2
    <3> QED
      BY <3>1, <3>2
  <2> HIDE DEF Good
  <2> QED
    BY <2>2, <1>2, <1>7 DEF T
<1> HIDE DEF T
<1>8. \A n \in 0 .. N : n \in T
  BY <1>2, <1>6, <1>7, UpTo
<1>9. N \in T
  BY <1>2, <1>8
<1>10. Good(S)
  BY <1>2, <1>9 DEF T
<1>11. \A x \in S : S \ {x} \in SUBSET S
  OBVIOUS
<1> QED
  BY <1>1, <1>10, <1>11 DEF SumParts

LEMMA SumNothing ==
  ASSUME NEW F
  PROVE  SumFunctionOnSet(F, {}) = 0
<1>1. PICK g : SumAdds(g, F, {}) /\ \A R \in SUBSET {} : SumFunctionOnSet(F, R) = g[R]
  BY SumTable, FS_EmptySet
<1> QED
  BY <1>1 DEF SumAdds, SumStep

LEMMA SumInsert ==
  ASSUME NEW F, NEW S, IsFiniteSet(S), NEW x, x \notin S, SumNats(F, S), F[x] \in Nat
  PROVE  /\ SumFunctionOnSet(F, S \cup {x}) = F[x] + SumFunctionOnSet(F, S)
         /\ SumFunctionOnSet(F, S) \in Nat
<1>1. IsFiniteSet(S \cup {x}) /\ SumNats(F, S \cup {x})
  BY FS_AddElement DEF SumNats
<1>2. SumParts(F, S \cup {x}) /\ SumFunctionOnSet(F, S) \in Nat
  BY <1>1, SumTakes
<1>3. (S \cup {x}) \ {x} = S
  OBVIOUS
<1> QED
  BY <1>2, <1>3 DEF SumParts

LEMMA SumSame ==
  ASSUME NEW F, NEW S, IsFiniteSet(S), SumNats(F, S), NEW G, \A x \in S : G[x] = F[x]
  PROVE  SumFunctionOnSet(G, S) = SumFunctionOnSet(F, S)
<1> DEFINE T == {s \in SUBSET S : SumFunctionOnSet(G, s) = SumFunctionOnSet(F, s)}
<1>1. {} \in T
  BY SumNothing
<1>2. ASSUME NEW s \in SUBSET S, NEW x \in S, s \in T, x \notin s PROVE s \cup {x} \in T
  <2>1. IsFiniteSet(s) /\ SumNats(F, s) /\ SumNats(G, s) /\ F[x] \in Nat /\ G[x] = F[x]
    BY FS_Subset DEF SumNats
  <2>2. SumFunctionOnSet(F, s \cup {x}) = F[x] + SumFunctionOnSet(F, s)
    BY <1>2, <2>1, SumInsert
  <2>3. SumFunctionOnSet(G, s \cup {x}) = G[x] + SumFunctionOnSet(G, s)
    BY <1>2, <2>1, SumInsert
  <2> QED
    BY <1>2, <2>1, <2>2, <2>3
<1> HIDE DEF T
<1>3. S \in T
  BY <1>1, <1>2, SetUpTo
<1> QED
  BY <1>3 DEF T

\* One value is larger.
LEMMA SumPoint ==
  ASSUME NEW F, NEW S, IsFiniteSet(S), SumNats(F, S), NEW x \in S, NEW p \in Nat, NEW G,
         G[x] = F[x] + p, \A y \in S \ {x} : G[y] = F[y]
  PROVE  SumFunctionOnSet(G, S) = SumFunctionOnSet(F, S) + p
<1>1. SumNats(G, S) /\ SumNats(F, S \ {x}) /\ IsFiniteSet(S \ {x})
  BY FS_Subset DEF SumNats
<1>2. SumFunctionOnSet(G, S) = G[x] + SumFunctionOnSet(G, S \ {x})
  BY <1>1, SumTakes DEF SumParts
<1>3. SumFunctionOnSet(F, S) = F[x] + SumFunctionOnSet(F, S \ {x})
  BY SumTakes DEF SumParts
<1>4. SumFunctionOnSet(G, S \ {x}) = SumFunctionOnSet(F, S \ {x})
  BY <1>1, SumSame
<1>5. SumFunctionOnSet(F, S \ {x}) \in Nat /\ F[x] \in Nat
  BY <1>1, SumTakes DEF SumNats
<1> QED
  BY <1>2, <1>3, <1>4, <1>5

LEMMA SumUnion ==
  ASSUME NEW F, NEW S, IsFiniteSet(S), SumNats(F, S), NEW R, R \cap S = {}, IsFiniteSet(R),
         SumNats(F, R)
  PROVE  SumFunctionOnSet(F, R \cup S) = SumFunctionOnSet(F, R) + SumFunctionOnSet(F, S)
<1> DEFINE T == {s \in SUBSET S :
                   SumFunctionOnSet(F, R \cup s) = SumFunctionOnSet(F, R) + SumFunctionOnSet(F, s)}
<1>1. {} \in T
  <2>1. R \cup {} = R /\ SumFunctionOnSet(F, R) \in Nat
    BY SumTakes
  <2> QED
    BY <2>1, SumNothing
<1>2. ASSUME NEW s \in SUBSET S, NEW x \in S, s \in T, x \notin s PROVE s \cup {x} \in T
  <2>1. IsFiniteSet(s) /\ SumNats(F, s) /\ F[x] \in Nat /\ SumNats(F, R \cup s) /\ x \notin R \cup s
    BY <1>2, FS_Subset DEF SumNats
  <2>2. IsFiniteSet(R \cup s)
    BY <2>1, FS_Union
  <2>3. /\ SumFunctionOnSet(F, s \cup {x}) = F[x] + SumFunctionOnSet(F, s)
        /\ SumFunctionOnSet(F, s) \in Nat
    BY <1>2, <2>1, SumInsert
  <2>4. SumFunctionOnSet(F, (R \cup s) \cup {x}) = F[x] + SumFunctionOnSet(F, R \cup s)
    BY <2>1, <2>2, SumInsert
  <2>5. (R \cup s) \cup {x} = R \cup (s \cup {x}) /\ SumFunctionOnSet(F, R) \in Nat
    BY SumTakes
  <2>6. SumFunctionOnSet(F, R \cup s) = SumFunctionOnSet(F, R) + SumFunctionOnSet(F, s)
    BY <1>2
  <2>7. SumFunctionOnSet(F, R \cup (s \cup {x})) = F[x] + SumFunctionOnSet(F, R \cup s)
    BY <2>4, <2>5
  <2> HIDE DEF T
  <2>8. SumFunctionOnSet(F, R \cup (s \cup {x}))
          = SumFunctionOnSet(F, R) + SumFunctionOnSet(F, s \cup {x})
    BY <2>1, <2>3, <2>5, <2>6, <2>7
  <2>9. s \cup {x} \in SUBSET S
    OBVIOUS
  <2> QED
    BY <2>8, <2>9 DEF T
<1> HIDE DEF T
<1>3. S \in T
  BY <1>1, <1>2, SetUpTo
<1> QED
  BY <1>3 DEF T

LEMMA SumLinear ==
  ASSUME NEW F, NEW S, IsFiniteSet(S), SumNats(F, S), NEW a \in Nat, NEW b \in Nat, NEW G,
         \A x \in S : G[x] = a * F[x] + b
  PROVE  SumFunctionOnSet(G, S) = a * SumFunctionOnSet(F, S) + b * Cardinality(S)
<1> DEFINE T == {s \in SUBSET S :
                   SumFunctionOnSet(G, s) = a * SumFunctionOnSet(F, s) + b * Cardinality(s)}
<1>1. {} \in T
  <2>1. a * 0 + b * 0 = 0
    OBVIOUS
  <2> QED
    BY <2>1, SumNothing, FS_EmptySet
<1>2. ASSUME NEW s \in SUBSET S, NEW x \in S, s \in T, x \notin s PROVE s \cup {x} \in T
  <2>1. /\ IsFiniteSet(s) /\ SumNats(F, s) /\ F[x] \in Nat /\ SumNats(G, s)
        /\ G[x] = a * F[x] + b /\ G[x] \in Nat
    BY FS_Subset DEF SumNats
  <2>2. /\ SumFunctionOnSet(F, s \cup {x}) = F[x] + SumFunctionOnSet(F, s)
        /\ SumFunctionOnSet(F, s) \in Nat
    BY <1>2, <2>1, SumInsert
  <2>3. SumFunctionOnSet(G, s \cup {x}) = G[x] + SumFunctionOnSet(G, s)
    BY <1>2, <2>1, SumInsert
  <2>4. Cardinality(s \cup {x}) = Cardinality(s) + 1 /\ Cardinality(s) \in Nat
    BY <1>2, <2>1, FS_AddElement, FS_CardinalityType
  <2> DEFINE f == F[x]  m == SumFunctionOnSet(F, s)  c == Cardinality(s)
  <2>5. f \in Nat /\ m \in Nat /\ c \in Nat
    BY <2>1, <2>2, <2>4
  <2>6. SumFunctionOnSet(G, s \cup {x}) = (a * f + b) + (a * m + b * c)
    BY <1>2, <2>1, <2>3
  <2>7. SumFunctionOnSet(F, s \cup {x}) = f + m /\ Cardinality(s \cup {x}) = c + 1
    BY <2>2, <2>4
  <2> HIDE DEF f, m, c, T
  <2>8. (a * f + b) + (a * m + b * c) = a * (f + m) + b * (c + 1)
    BY <2>5
  <2> QED
    BY <2>6, <2>7, <2>8 DEF T
<1> HIDE DEF T
<1>3. S \in T
  BY <1>1, <1>2, SetUpTo
<1> QED
  BY <1>3 DEF T

\* The values on R are larger by p.
LEMMA SumSpread ==
  ASSUME NEW F, NEW S, IsFiniteSet(S), SumNats(F, S), NEW R \in SUBSET S, NEW p \in Nat, NEW G,
         \A x \in S : G[x] = F[x] + (IF x \in R THEN p ELSE 0)
  PROVE  SumFunctionOnSet(G, S) = SumFunctionOnSet(F, S) + p * Cardinality(R)
<1>1. IsFiniteSet(R) /\ IsFiniteSet(S \ R) /\ R \cap (S \ R) = {} /\ R \cup (S \ R) = S
  BY FS_Subset
<1>2. SumNats(F, R) /\ SumNats(F, S \ R) /\ SumNats(G, R) /\ SumNats(G, S \ R)
  BY DEF SumNats
<1>3. ASSUME NEW x \in R PROVE G[x] = 1 * F[x] + p
  BY <1>2 DEF SumNats
<1>4. SumFunctionOnSet(G, R) = 1 * SumFunctionOnSet(F, R) + p * Cardinality(R)
  BY <1>1, <1>2, <1>3, SumLinear
<1>5. ASSUME NEW x \in S \ R PROVE G[x] = F[x]
  BY <1>2 DEF SumNats
<1>6. SumFunctionOnSet(G, S \ R) = SumFunctionOnSet(F, S \ R)
  BY <1>1, <1>2, <1>5, SumSame
<1>7. SumFunctionOnSet(F, S) = SumFunctionOnSet(F, R) + SumFunctionOnSet(F, S \ R)
  <2>1. SumFunctionOnSet(F, R \cup (S \ R)) = SumFunctionOnSet(F, R) + SumFunctionOnSet(F, S \ R)
    BY <1>1, <1>2, SumUnion
  <2> QED
    BY <1>1, <2>1
<1>8. SumFunctionOnSet(G, S) = SumFunctionOnSet(G, R) + SumFunctionOnSet(G, S \ R)
  <2>1. SumFunctionOnSet(G, R \cup (S \ R)) = SumFunctionOnSet(G, R) + SumFunctionOnSet(G, S \ R)
    BY <1>1, <1>2, SumUnion
  <2> QED
    BY <1>1, <2>1
<1>9. /\ SumFunctionOnSet(F, R) \in Nat /\ SumFunctionOnSet(F, S \ R) \in Nat
      /\ Cardinality(R) \in Nat
  BY <1>1, <1>2, SumTakes, FS_CardinalityType
<1>10. p * Cardinality(R) \in Nat
  BY <1>9
<1> HIDE DEF SumNats
<1> QED
  BY <1>4, <1>6, <1>7, <1>8, <1>9, <1>10

\* What the users of D pass on, P[v] to each of the friends L[v], is what they have, R[v],
\* times RankUnit, which every number of friends divides.
RankDivided(c) == \A n \in 1 .. c : RankUnit % n = 0
RankPasses(D, X, L, R, P) ==
  \A v \in D : /\ L[v] \in SUBSET X /\ L[v] # {} /\ RankDivided(Cardinality(L[v]))
               /\ R[v] \in Nat /\ P[v] = R[v] * (RankUnit \div Cardinality(L[v]))

LEMMA RankPassedOn ==
  ASSUME NEW D, NEW X, NEW L, NEW R, NEW P, IsFiniteSet(X), RankPasses(D, X, L, R, P), NEW v \in D
  PROVE  /\ P[v] \in Nat /\ R[v] \in Nat /\ L[v] \in SUBSET X
         /\ P[v] * Cardinality(L[v]) = RankUnit * R[v]
<1>1. /\ L[v] \in SUBSET X /\ L[v] # {} /\ RankDivided(Cardinality(L[v])) /\ R[v] \in Nat
      /\ P[v] = R[v] * (RankUnit \div Cardinality(L[v]))
  BY DEF RankPasses
<1>2. IsFiniteSet(L[v])
  BY <1>1, FS_Subset
<1>3. Cardinality(L[v]) \in Nat /\ Cardinality(L[v]) # 0
  BY <1>1, <1>2, FS_CardinalityType, FS_EmptySet
<1> DEFINE c == Cardinality(L[v])
           q == RankUnit \div c
           r == R[v]
<1>4. c \in Nat \ {0} /\ RankUnit \in Nat /\ RankUnit % c = 0 /\ r \in Nat
  BY <1>1, <1>3, RankAssumption DEF RankDivided
<1>5. P[v] = r * q
  BY <1>1
<1> HIDE DEF c, r
<1>6. q \in Nat /\ RankUnit = c * q
  BY <1>4, SMT
<1> HIDE DEF q
<1>7. (r * q) * c = (c * q) * r
  BY <1>4, <1>6, SMT
<1>8. r * q \in Nat
  BY <1>4, <1>6, SMT
<1>9. P[v] * c = RankUnit * r
  BY <1>5, <1>6, <1>7
<1> QED
  BY <1>1, <1>5, <1>8, <1>9 DEF c, r

\* What each user of X gets from those of d.
RankGot(d, X, L, P) == [u \in X |-> SumFunctionOnSet(P, {v \in d : u \in L[v]})]

LEMMA RankAllGot ==
  ASSUME NEW D, NEW X, NEW L, NEW R, NEW P, IsFiniteSet(X), IsFiniteSet(D),
         RankPasses(D, X, L, R, P)
  PROVE  /\ SumNats(RankGot(D, X, L, P), X)
         /\ SumFunctionOnSet(RankGot(D, X, L, P), X) = RankUnit * SumFunctionOnSet(R, D)
<1> DEFINE T == {d \in SUBSET D :
                   SumFunctionOnSet(RankGot(d, X, L, P), X) = RankUnit * SumFunctionOnSet(R, d)}
<1>1. \A v \in D : P[v] \in Nat /\ R[v] \in Nat
  BY RankPassedOn
<1>2. ASSUME NEW d \in SUBSET D
      PROVE  /\ SumNats(RankGot(d, X, L, P), X) /\ SumNats(R, d) /\ IsFiniteSet(d)
             /\ \A u \in X : RankGot(d, X, L, P)[u] = SumFunctionOnSet(P, {v \in d : u \in L[v]})
  <2>1. IsFiniteSet(d) /\ SumNats(R, d)
    BY <1>1, FS_Subset DEF SumNats
  <2>2. ASSUME NEW u \in X PROVE SumFunctionOnSet(P, {v \in d : u \in L[v]}) \in Nat
    <3>1. IsFiniteSet({v \in d : u \in L[v]}) /\ SumNats(P, {v \in d : u \in L[v]})
      BY <1>1, <2>1, FS_Subset DEF SumNats
    <3> QED
      BY <3>1, SumTakes
  <2> QED
    BY <2>1, <2>2 DEF SumNats, RankGot
<1>3. {} \in T
  <2> DEFINE G == RankGot({}, X, L, P)
  <2>1. ASSUME NEW u \in X PROVE G[u] = 0 * G[u] + 0
    <3>1. {v \in {} : u \in L[v]} = {}
      OBVIOUS
    <3>2. G[u] = 0
      BY <3>1, SumNothing DEF RankGot
    <3> QED
      BY <3>2
  <2>2. SumNats(G, X)
    BY <1>2
  <2> HIDE DEF G
  <2>3. SumFunctionOnSet(G, X) = 0 * SumFunctionOnSet(G, X) + 0 * Cardinality(X)
    BY <2>1, <2>2, SumLinear
  <2>4. SumFunctionOnSet(G, X) \in Nat /\ Cardinality(X) \in Nat
    BY <2>2, SumTakes, FS_CardinalityType
  <2>5. SumFunctionOnSet(G, X) = 0
    BY <2>3, <2>4
  <2> QED
    BY <2>5, SumNothing, RankAssumption DEF G
<1>4. ASSUME NEW d \in SUBSET D, NEW w \in D, d \in T, w \notin d PROVE d \cup {w} \in T
  <2> DEFINE F == RankGot(d, X, L, P)
             G == RankGot(d \cup {w}, X, L, P)
  <2>1. L[w] \in SUBSET X /\ P[w] \in Nat /\ P[w] * Cardinality(L[w]) = RankUnit * R[w]
    BY RankPassedOn
  <2>2. ASSUME NEW u \in X PROVE G[u] = F[u] + (IF u \in L[w] THEN P[w] ELSE 0)
    <3> DEFINE e == {v \in d : u \in L[v]}
    <3>1. G[u] = SumFunctionOnSet(P, {v \in d \cup {w} : u \in L[v]}) /\ F[u] = SumFunctionOnSet(P, e)
      BY DEF RankGot
    <3>2. IsFiniteSet(e) /\ SumNats(P, e) /\ w \notin e
      BY <1>1, <1>2, <1>4, FS_Subset DEF SumNats
    <3>3. CASE u \in L[w]
      <4>1. {v \in d \cup {w} : u \in L[v]} = e \cup {w}
        BY <3>3
      <4> HIDE DEF e
      <4>2. /\ SumFunctionOnSet(P, e \cup {w}) = P[w] + SumFunctionOnSet(P, e)
            /\ SumFunctionOnSet(P, e) \in Nat
        BY <2>1, <3>2, SumInsert
      <4> HIDE DEF F, G
      <4>3. G[u] = P[w] + F[u] /\ F[u] \in Nat
        BY <3>1, <4>1, <4>2
      <4> QED
        BY <2>1, <3>3, <4>3
    <3>4. CASE u \notin L[w]
      <4>1. {v \in d \cup {w} : u \in L[v]} = e
        BY <3>4
      <4>2. F[u] \in Nat
        BY <3>1, <3>2, SumTakes
      <4> HIDE DEF F, G, e
      <4>3. G[u] = F[u]
        BY <3>1, <4>1
      <4> QED
        BY <3>4, <4>2, <4>3
    <3> QED
      BY <3>3, <3>4
  <2>3. SumNats(F, X) /\ SumNats(R, d) /\ IsFiniteSet(d) /\ R[w] \in Nat
    BY <1>1, <1>2
  <2> HIDE DEF F, G
  <2>4. SumFunctionOnSet(G, X) = SumFunctionOnSet(F, X) + P[w] * Cardinality(L[w])
    BY <2>1, <2>2, <2>3, SumSpread
  <2>5. /\ SumFunctionOnSet(R, d \cup {w}) = R[w] + SumFunctionOnSet(R, d)
        /\ SumFunctionOnSet(R, d) \in Nat
    BY <2>3, <1>4, SumInsert
  <2>6. SumFunctionOnSet(F, X) = RankUnit * SumFunctionOnSet(R, d)
    BY <1>4 DEF F
  <2> DEFINE r == R[w]  m == SumFunctionOnSet(R, d)
  <2>7. SumFunctionOnSet(G, X) = RankUnit * m + RankUnit * r
    BY <2>1, <2>4, <2>6
  <2>8. SumFunctionOnSet(R, d \cup {w}) = r + m /\ r \in Nat /\ m \in Nat
    BY <2>3, <2>5
  <2> HIDE DEF r, m, T
  <2>9. SumFunctionOnSet(G, X) = RankUnit * SumFunctionOnSet(R, d \cup {w})
    BY <2>7, <2>8, RankAssumption
  <2> QED
    BY <2>9 DEF T, G
<1> HIDE DEF T
<1>5. D \in T
  BY <1>3, <1>4, SetUpTo
<1> QED
  BY <1>2, <1>5 DEF T

\* The matrix is over the users there are, and the lengths of its rows divide RankUnit.
RankMatrix ==
  /\ rankSeen \subseteq RankUsers /\ DOMAIN rankRows \subseteq rankSeen
  /\ \A u \in DOMAIN rankRows :
       rankRows[u] \subseteq rankSeen \ {u} /\ RankDivided(Cardinality(rankRows[u]))

RankNumbers ==
  DOMAIN rankRanks = rankSeen /\ SumNats(rankRanks, rankSeen) /\ rankScale \in Nat

\* The users with links, without a row, and with an empty row share out what there is.
LEMMA RankThreeParts ==
  ASSUME RankMatrix, RankNumbers, IsFiniteSet(rankSeen)
  PROVE  LET i == RankSum(DOMAIN rankRows \ RankEmpty(rankRows))
             z == RankSum(RankDangling)
             e == RankSum(RankEmpty(rankRows))
         IN  /\ i \in Nat /\ z \in Nat /\ e \in Nat
             /\ RankSum(rankSeen) = i + z + e
             /\ RankEmpty(rankRows) = {} => e = 0
<1> DEFINE I == DOMAIN rankRows \ RankEmpty(rankRows)
           Z == RankDangling
           E == RankEmpty(rankRows)
<1>1. /\ I \in SUBSET rankSeen /\ Z \in SUBSET rankSeen /\ E \in SUBSET rankSeen
      /\ rankSeen = (I \cup Z) \cup E /\ (I \cup Z) \cap E = {} /\ I \cap Z = {}
  BY DEF RankMatrix, RankDangling, RankEmpty
<1>2. SumNats(rankRanks, rankSeen)
  BY DEF RankNumbers
<1> HIDE DEF I, Z, E
<1>3. IsFiniteSet(I) /\ IsFiniteSet(Z) /\ IsFiniteSet(E) /\ IsFiniteSet(I \cup Z)
  BY <1>1, FS_Subset, FS_Union
<1>4. /\ SumNats(rankRanks, I) /\ SumNats(rankRanks, Z) /\ SumNats(rankRanks, E)
      /\ SumNats(rankRanks, I \cup Z)
  BY <1>1, <1>2 DEF SumNats
<1>5. RankSum(I \cup Z) = RankSum(I) + RankSum(Z)
  BY <1>1, <1>3, <1>4, SumUnion DEF RankSum
<1>6. RankSum((I \cup Z) \cup E) = RankSum(I \cup Z) + RankSum(E)
  BY <1>1, <1>3, <1>4, SumUnion DEF RankSum
<1>7. RankSum(I) \in Nat /\ RankSum(Z) \in Nat /\ RankSum(E) \in Nat
  BY <1>3, <1>4, SumTakes DEF RankSum
<1>8. E = {} => RankSum(E) = 0
  BY SumNothing DEF RankSum
<1>9. RankSum(rankSeen) = RankSum(I) + RankSum(Z) + RankSum(E)
  BY <1>1, <1>5, <1>6
<1> QED
  BY <1>7, <1>8, <1>9 DEF I, Z, E

\* The arithmetic of a round, in multiples of 1 / (20 * RankUnit * total).
LEMMA RankRoundSums ==
  ASSUME NEW i \in Nat, NEW z \in Nat, NEW e \in Nat, NEW t \in Nat, NEW c \in Nat, NEW m \in Nat
  PROVE  LET all == 17 * t * (m * i) + (m * (17 * z + (20 - 17) * c)) * t
         IN  /\ all \in Nat /\ 20 * m * t * c \in Nat
             /\ i + z + e <= c => all <= 20 * m * t * c
             /\ i + z = c => all = 20 * m * t * c
<1> DEFINE a == t * i  b == t * z  d == t * c
           w == 17 * a + 17 * b + 3 * d
<1>1. a \in Nat /\ b \in Nat /\ d \in Nat
  OBVIOUS
<1>2. 17 * t * (m * i) + (m * (17 * z + (20 - 17) * c)) * t = m * w
  OBVIOUS
<1>3. 20 * m * t * c = m * (20 * d)
  OBVIOUS
<1>4. ASSUME i + z + e <= c PROVE a + b <= d
  <2> DEFINE r == c - (i + z)
  <2>1. r \in Nat /\ c = i + z + r
    BY <1>4
  <2>2. d = a + b + t * r /\ t * r \in Nat
    BY <2>1
  <2> QED
    BY <1>1, <2>2
<1>5. ASSUME i + z = c PROVE a + b = d
  BY <1>5
<1> HIDE DEF a, b, d
<1>6. w \in Nat /\ 20 * d \in Nat
  BY <1>1
<1>7. (i + z + e <= c => w <= 20 * d) /\ (i + z = c => w = 20 * d)
  BY <1>1, <1>4, <1>5
<1> DEFINE y == 20 * d
<1> HIDE DEF w, y
<1>8. m * w \in Nat /\ m * y \in Nat /\ (w <= y => m * w <= m * y)
  <2>1. w \in Nat /\ y \in Nat
    BY <1>6 DEF y
  <2>2. ASSUME w <= y PROVE m * w <= m * y
    <3> DEFINE r == y - w
    <3>1. r \in Nat /\ y = w + r
      BY <2>1, <2>2
    <3> HIDE DEF r
    <3>2. m * y = m * w + m * r /\ m * r \in Nat /\ m * w \in Nat
      BY <2>1, <3>1
    <3> QED
      BY <3>2
  <2> QED
    BY <2>1, <2>2
<1> QED
  BY <1>2, <1>3, <1>7, <1>8 DEF y

\* A round keeps the ranks from adding up to more than 1, and to 1 when no row is empty.
LEMMA RankRoundKeeps ==
  ASSUME RankMatrix, RankNumbers, RankStep, IsFiniteSet(rankSeen)
  PROVE  /\ RankNumbers'
         /\ RankSum(rankSeen) <= rankScale => (RankSum(rankSeen) <= rankScale)'
         /\ RankEmpty(rankRows) = {} /\ RankSum(rankSeen) = rankScale =>
              (RankSum(rankSeen) = rankScale)'
<1> DEFINE X == rankSeen
           D == DOMAIN rankRows \ RankEmpty(rankRows)
           G == RankGot(D, X, rankRows, RankPassed)
           i == RankSum(D)
           z == RankSum(RankDangling)
           e == RankSum(RankEmpty(rankRows))
           t == Cardinality(X)
           m == RankUnit
           shared == 17 * z + (20 - 17) * rankScale
<1>1. /\ i \in Nat /\ z \in Nat /\ e \in Nat /\ RankSum(X) = i + z + e
      /\ RankEmpty(rankRows) = {} => e = 0
  BY RankThreeParts
<1>2. t \in Nat /\ rankScale \in Nat
  BY FS_CardinalityType DEF RankNumbers
<1>3. IsFiniteSet(D)
  BY FS_Subset DEF RankMatrix
<1>4. RankPasses(D, X, rankRows, rankRanks, RankPassed)
  BY DEF RankPasses, RankMatrix, RankNumbers, RankPassed, SumNats, RankEmpty
<1>5. ASSUME NEW u \in X PROVE G[u] = RankInflow(u)
  <2>1. {v \in DOMAIN rankRows : u \in rankRows[v]} = {v \in D : u \in rankRows[v]}
    BY DEF RankEmpty
  <2> QED
    BY <2>1 DEF RankGot, RankInflow
<1>6. SumNats(G, X) /\ SumFunctionOnSet(G, X) = m * i
  BY <1>3, <1>4, RankAllGot DEF RankSum
<1>7. /\ rankRanks' = [u \in X |-> 17 * t * RankInflow(u) + m * shared]
      /\ rankScale' = 20 * m * t * rankScale /\ rankSeen' = X
  BY DEF RankStep, rankAlpha
<1>0. m \in Nat
  BY RankAssumption
<1> HIDE DEF m
<1>8. 17 * t \in Nat /\ m * shared \in Nat
  BY <1>0, <1>1, <1>2
<1> HIDE DEF G, X, i, z, e, t, shared
<1>9. ASSUME NEW u \in X PROVE rankRanks'[u] = (17 * t) * G[u] + m * shared
  BY <1>5, <1>7
<1>10. SumFunctionOnSet(rankRanks', X) = (17 * t) * SumFunctionOnSet(G, X) + (m * shared) * t
  <2>1. IsFiniteSet(X)
    BY DEF X
  <2> QED
    BY <2>1, <1>6, <1>8, <1>9, SumLinear DEF t
<1>11. RankSum(rankSeen)' = 17 * t * (m * i) + (m * (17 * z + (20 - 17) * rankScale)) * t
  BY <1>6, <1>7, <1>10 DEF RankSum, shared
<1>12. RankNumbers'
  <2>1. \A u \in X : rankRanks'[u] \in Nat
    <3> TAKE u \in X
    <3>1. G[u] \in Nat
      BY <1>6 DEF SumNats
    <3> QED
      BY <3>1, <1>8, <1>9
  <2>2. rankScale' \in Nat
    BY <1>0, <1>2, <1>7
  <2> QED
    BY <2>1, <2>2, <1>7 DEF RankNumbers, SumNats
<1> QED
  BY <1>0, <1>1, <1>2, <1>7, <1>11, <1>12, RankRoundSums DEF X

-----------------------------------------------------------------------------
(* User rank: loops of single links *)

\* Links of the users that there are.
RankLinks(L) == DOMAIN L \subseteq RankUsers /\ \A u \in DOMAIN L : L[u] \subseteq RankUsers

RankClosed(L, S, u) == \A w \in S \cup {u} : RankFollows(L, S, w)

LEMMA RankFollowedIs ==
  ASSUME NEW L, NEW u
  PROVE  RankFollowed(L, u) = {v \in RankUsers : \A S \in SUBSET RankUsers : RankClosed(L, S, u) => v \in S}
BY Zenon DEF RankFollowed, RankClosed

\* What is followed from u is closed under following, and the least such set.
LEMMA RankFollowedClosed ==
  ASSUME NEW L, RankLinks(L), NEW u
  PROVE  RankFollowed(L, u) \in SUBSET RankUsers /\ RankClosed(L, RankFollowed(L, u), u)
<1> DEFINE R == RankFollowed(L, u)
<1>1. ASSUME NEW w \in R \cup {u}, RankIsSingle(L, w), NEW x \in L[w] PROVE x \in R
  <2>1. x \in RankUsers
    BY <1>1 DEF RankLinks, RankIsSingle
  <2>2. ASSUME NEW S \in SUBSET RankUsers, RankClosed(L, S, u) PROVE x \in S
    <3>1. w \in S \cup {u}
      BY <2>2, RankFollowedIs
    <3> QED
      BY <1>1, <2>2, <3>1 DEF RankClosed, RankFollows
  <2> QED
    BY <2>1, <2>2, RankFollowedIs
<1>2. R \in SUBSET RankUsers
  BY RankFollowedIs
<1> HIDE DEF R
<1>3. RankClosed(L, R, u)
  BY <1>1 DEF RankClosed, RankFollows
<1> QED
  BY <1>2, <1>3 DEF R

LEMMA RankFollowedLeast ==
  ASSUME NEW L, NEW u, NEW S \in SUBSET RankUsers, RankClosed(L, S, u)
  PROVE  RankFollowed(L, u) \subseteq S
BY RankFollowedIs

\* A user followed from u is followed as far as u is.
LEMMA RankFollowedOn ==
  ASSUME NEW L, RankLinks(L), NEW u, NEW v \in RankFollowed(L, u)
  PROVE  RankFollowed(L, v) \subseteq RankFollowed(L, u)
<1> DEFINE R == RankFollowed(L, u)
<1>1. R \in SUBSET RankUsers /\ RankClosed(L, R, u)
  BY RankFollowedClosed
<1>2. RankClosed(L, R, v)
  BY <1>1 DEF RankClosed
<1> QED
  BY <1>1, <1>2, RankFollowedLeast

LEMMA RankFollowedFrom ==
  ASSUME NEW L, RankLinks(L), NEW u, NEW x, RankIsSingle(L, u), L[u] = {x}
  PROVE  x \in RankFollowed(L, u) /\ RankFollowed(L, u) \subseteq {x} \cup RankFollowed(L, x)
<1>1. RankClosed(L, RankFollowed(L, u), u)
  BY RankFollowedClosed
<1>2. x \in RankFollowed(L, u)
  BY <1>1 DEF RankClosed, RankFollows
<1> DEFINE S == {x} \cup RankFollowed(L, x)
<1>3. RankFollowed(L, x) \in SUBSET RankUsers /\ RankClosed(L, RankFollowed(L, x), x)
  BY RankFollowedClosed
<1>4. S \in SUBSET RankUsers
  BY <1>3 DEF RankLinks, RankIsSingle
<1>5. RankClosed(L, S, u)
  BY <1>3 DEF RankClosed, RankFollows
<1> QED
  BY <1>2, <1>4, <1>5, RankFollowedLeast

LEMMA RankFollowedSingle ==
  ASSUME NEW L, NEW u, NEW v \in RankFollowed(L, u)
  PROVE  RankIsSingle(L, u)
<1> SUFFICES ASSUME ~ RankIsSingle(L, u) PROVE FALSE
  OBVIOUS
<1>1. RankClosed(L, {}, u)
  BY DEF RankClosed, RankFollows
<1> QED
  BY <1>1, RankFollowedLeast

LEMMA RankSingleIs ==
  ASSUME NEW L, NEW u, RankLinks(L), RankIsSingle(L, u)
  PROVE  L[u] = {RankFriend(L, u)} /\ RankFriend(L, u) \in RankUsers /\ u \in RankUsers
<1>1. u \in DOMAIN L /\ Cardinality(L[u]) = 1 /\ L[u] \subseteq RankUsers /\ u \in RankUsers
  BY DEF RankLinks, RankIsSingle
<1>2. IsFiniteSet(L[u])
  BY <1>1, RankAssumption, FS_Subset
<1>3. PICK x : L[u] = {x}
  BY <1>1, <1>2, FS_Singleton
<1> QED
  BY <1>1, <1>3 DEF RankFriend

\* Whoever is followed from a user on a loop leads back to it.
LEMMA RankLoopBack ==
  ASSUME NEW L, RankLinks(L), NEW u, u \in RankFollowed(L, u), NEW v \in RankFollowed(L, u)
  PROVE  u \in RankFollowed(L, v)
<1> DEFINE R == RankFollowed(L, u)
           S == {w \in R : u \in RankFollowed(L, w)}
<1>1. R \in SUBSET RankUsers /\ RankClosed(L, R, u)
  BY RankFollowedClosed
<1>2. ASSUME NEW w \in S \cup {u}, RankIsSingle(L, w), NEW x \in L[w] PROVE x \in S
  <2>1. w \in R /\ u \in RankFollowed(L, w)
    OBVIOUS
  <2>2. L[w] = {x}
    BY <1>2, RankSingleIs
  <2>3. x \in R
    BY <1>1, <1>2, <2>1 DEF RankClosed, RankFollows
  <2>4. u \in {x} \cup RankFollowed(L, x)
    BY <1>2, <2>1, <2>2, RankFollowedFrom
  <2>5. u \in RankFollowed(L, x)
    BY <2>4
  <2> QED
    BY <2>3, <2>5
<1>3. S \in SUBSET RankUsers
  BY <1>1
<1>4. RankClosed(L, S, u)
  <2> HIDE DEF S
  <2> QED
    BY <1>2 DEF RankClosed, RankFollows
<1>5. R \subseteq S
  BY <1>3, <1>4, RankFollowedLeast
<1> QED
  BY <1>5

-----------------------------------------------------------------------------
(* User rank: the walks of checkMatrixSelfLoop *)

RankReached(u) == RankFollowed(rankGiven, u)

\* A row is as it was given, or that of a user on a loop and empty.
RankCuts ==
  /\ RankLinks(rankGiven) /\ DOMAIN rankRows = DOMAIN rankGiven
  /\ \A u \in DOMAIN rankGiven :
       /\ rankGiven[u] # {}
       /\ rankRows[u] = rankGiven[u] \/ (rankRows[u] = {} /\ RankOnLoop(u))

\* No two users of a loop have lost their link.
RankCutOnce ==
  \A a, b \in RankEmpty(rankRows) : b \in RankReached(a) => a = b

\* Where the walk began, and the way it went.
RankFirst == IF rankStack = <<>> THEN rankCur ELSE rankStack[1]
RankWay == Append(rankStack, rankCur)

\* A loop that was walked into has lost a link.
RankWalked ==
  /\ \A u \in DOMAIN rankGiven :
       RankOnLoop(u) => \/ u \in rankSingles
                        \/ rankPc = "walk" /\ u = RankFirst
                        \/ RankReached(u) \cap RankEmpty(rankRows) # {}
  /\ rankPc = "drop" => rankSingles = {}

\* The way of a walk is one of single links, none of them cut.
RankOnWay ==
  rankPc = "walk" =>
    /\ rankCur \in RankUsers /\ rankStack \in Seq(RankUsers)
    /\ rankCur = RankFirst \/ rankCur \in RankReached(RankFirst)
    /\ \A i \in 1 .. Len(rankStack) :
         RankIsSingle(rankRows, RankWay[i]) /\ RankFriend(rankRows, RankWay[i]) = RankWay[i + 1]

RankLoopInv ==
  /\ rankSingles \subseteq DOMAIN rankGiven
  /\ RankCuts /\ RankCutOnce /\ RankWalked /\ RankOnWay

\* A single link that is left is one that was given.
LEMMA RankSingleGiven ==
  ASSUME RankCuts, NEW u, RankIsSingle(rankRows, u)
  PROVE  /\ RankIsSingle(rankGiven, u) /\ rankRows[u] = rankGiven[u]
         /\ rankGiven[u] = {RankFriend(rankRows, u)} /\ RankFriend(rankRows, u) \in RankUsers
         /\ u \notin RankEmpty(rankRows)
<1>1. u \in DOMAIN rankGiven /\ Cardinality(rankRows[u]) = 1
  BY DEF RankCuts, RankIsSingle
<1>2. rankRows[u] # {}
  BY <1>1, FS_EmptySet
<1>3. rankRows[u] = rankGiven[u]
  BY <1>1, <1>2 DEF RankCuts
<1>4. RankIsSingle(rankGiven, u)
  BY <1>1, <1>3 DEF RankIsSingle
<1>5. RankFriend(rankRows, u) = RankFriend(rankGiven, u)
  BY <1>3 DEF RankFriend
<1>6. RankLinks(rankGiven)
  BY DEF RankCuts
<1> QED
  BY <1>2, <1>3, <1>4, <1>5, <1>6, RankSingleIs DEF RankEmpty

LEMMA RankWayIs ==
  ASSUME rankStack \in Seq(RankUsers), rankCur \in RankUsers
  PROVE  /\ Len(rankStack) \in Nat /\ Len(RankWay) = Len(rankStack) + 1
         /\ RankWay[Len(rankStack) + 1] = rankCur
         /\ \A i \in 1 .. Len(rankStack) : RankWay[i] = rankStack[i] /\ RankWay[i] \in RankUsers
         /\ RankFirst = RankWay[1] /\ RankFirst \in RankUsers
BY DEF RankWay, RankFirst

\* A walk that meets its own way has gone round a loop, none of whose links is cut.
LEMMA RankLoopFound ==
  ASSUME RankCuts, RankOnWay, rankPc = "walk", RankIsSingle(rankRows, rankCur),
         RankFriend(rankRows, rankCur) \in ToSet(rankStack)
  PROVE  rankCur \in RankReached(rankCur) /\ RankReached(rankCur) \cap RankEmpty(rankRows) = {}
<1> DEFINE n == Len(rankStack)
           R == RankReached(rankCur)
<1>0. rankStack \in Seq(RankUsers) /\ rankCur \in RankUsers /\ RankLinks(rankGiven)
  BY DEF RankOnWay, RankCuts
<1>1. n \in Nat /\ RankWay[n + 1] = rankCur /\ \A i \in 1 .. n : RankWay[i] = rankStack[i]
  BY <1>0, RankWayIs
<1>2. PICK k \in 1 .. n : RankFriend(rankRows, rankCur) = RankWay[k]
  BY <1>0, <1>1 DEF ToSet
<1>3. \A i \in 1 .. n + 1 : RankIsSingle(rankRows, RankWay[i]) /\ RankWay[i] \in RankUsers
  <2> TAKE i \in 1 .. n + 1
  <2>1. i \in 1 .. n \/ i = n + 1
    BY <1>1
  <2> QED
    BY <2>1, <1>0, <1>1, RankWayIs DEF RankOnWay
<1>4. R \in SUBSET RankUsers /\ RankClosed(rankGiven, R, rankCur)
  BY <1>0, RankFollowedClosed DEF RankReached
<1> DEFINE C == {RankWay[i] : i \in k .. n + 1}
<1>5. C \in SUBSET RankUsers /\ \A w \in C : RankIsSingle(rankRows, w)
  BY <1>1, <1>2, <1>3
<1>6. rankCur \in C
  BY <1>1, <1>2
<1>7. ASSUME NEW w \in C PROVE RankFriend(rankRows, w) \in C
  <2>1. PICK i \in k .. n + 1 : w = RankWay[i]
    OBVIOUS
  <2>2. CASE i = n + 1
    <3>1. RankWay[k] \in C
      BY <1>1
    <3> QED
      BY <2>1, <2>2, <3>1, <1>1, <1>2
  <2>3. CASE i # n + 1
    <3>1. i \in 1 .. n /\ i + 1 \in k .. n + 1
      BY <2>3, <1>1, <1>2
    <3>2. RankFriend(rankRows, w) = RankWay[i + 1]
      BY <2>1, <3>1 DEF RankOnWay
    <3> QED
      BY <3>1, <3>2
  <2> QED
    BY <2>2, <2>3
<1> HIDE DEF C
<1>8. RankClosed(rankGiven, C, rankCur)
  <2>1. ASSUME NEW w \in C, NEW x \in rankGiven[w] PROVE x \in C
    <3>1. rankGiven[w] = {RankFriend(rankRows, w)}
      BY <1>5, RankSingleGiven
    <3> QED
      BY <3>1, <2>1, <1>7
  <2> QED
    BY <2>1, <1>6 DEF RankClosed, RankFollows
<1>9. R \subseteq C
  BY <1>5, <1>8, RankFollowedLeast DEF RankReached
<1>10. R \cap RankEmpty(rankRows) = {}
  BY <1>5, <1>9, RankSingleGiven
<1> DEFINE N == n + 1 - k
           T == {m \in 0 .. N : RankWay[k + m] \in R}
<1>11. N \in Nat
  BY <1>1
<1>12. 0 \in T
  <2>1. RankFriend(rankRows, rankCur) \in R
    <3>1. RankIsSingle(rankGiven, rankCur) /\ rankGiven[rankCur] = {RankFriend(rankRows, rankCur)}
      BY RankSingleGiven
    <3> QED
      BY <3>1, <1>4 DEF RankClosed, RankFollows
  <2> QED
    BY <2>1, <1>2, <1>11
<1>13. ASSUME NEW m \in 0 .. N, m \in T, m < N PROVE m + 1 \in T
  <2>1. k + m \in 1 .. n /\ k + m + 1 = k + (m + 1) /\ m + 1 \in 0 .. N
    BY <1>1, <1>13
  <2>2. /\ RankIsSingle(rankRows, RankWay[k + m])
        /\ RankFriend(rankRows, RankWay[k + m]) = RankWay[k + (m + 1)]
    BY <2>1 DEF RankOnWay
  <2>3. /\ RankIsSingle(rankGiven, RankWay[k + m])
        /\ rankGiven[RankWay[k + m]] = {RankWay[k + (m + 1)]}
    BY <2>2, RankSingleGiven
  <2>4. RankWay[k + m] \in R
    BY <1>13
  <2>5. RankWay[k + (m + 1)] \in R
    BY <2>3, <2>4, <1>4 DEF RankClosed, RankFollows
  <2> QED
    BY <2>1, <2>5
<1> HIDE DEF T
<1>14. \A m \in 0 .. N : m \in T
  BY <1>11, <1>12, <1>13, UpTo
<1>15. RankWay[k + N] \in R
  BY <1>11, <1>14 DEF T
<1>16. k + N = n + 1
  BY <1>1
<1> QED
  BY <1>1, <1>10, <1>15, <1>16

\* The walk ends, where there is no single link or where it meets itself.
LEMMA RankWalkEnds ==
  ASSUME RankLoopInv, rankPc = "walk", NEW u, u = RankFirst, RankOnLoop(u),
         ~ RankIsSingle(rankRows, rankCur)
  PROVE  RankReached(u) \cap RankEmpty(rankRows) # {}
<1>1. RankLinks(rankGiven) /\ u \in RankReached(u)
  BY DEF RankLoopInv, RankCuts, RankOnLoop, RankReached
<1>2. rankCur \in RankReached(u)
  BY <1>1 DEF RankLoopInv, RankOnWay
<1>3. u \in RankReached(rankCur)
  BY <1>1, <1>2, RankLoopBack DEF RankReached
<1>4. RankIsSingle(rankGiven, rankCur)
  BY <1>1, <1>3, RankFollowedSingle DEF RankReached
<1>5. rankCur \in DOMAIN rankRows /\ rankRows[rankCur] # rankGiven[rankCur]
  BY <1>4 DEF RankLoopInv, RankCuts, RankIsSingle
<1>6. rankCur \in RankEmpty(rankRows)
  BY <1>4, <1>5 DEF RankLoopInv, RankCuts, RankEmpty
<1> QED
  BY <1>2, <1>6

LEMMA RankNextSingleKeeps ==
  ASSUME RankLoopInv, RankNextSingle
  PROVE  RankLoopInv'
<1> USE DEF RankNextSingle, RankLoopInv, RankOnLoop, RankReached, rankLoop
<1>1. RankCuts' /\ RankCutOnce'
  BY DEF RankCuts, RankCutOnce, RankLinks
<1>2. CASE rankSingles = {}
  BY <1>1, <1>2 DEF RankWalked, RankOnWay
<1>3. CASE rankSingles # {}
  <2> DEFINE m == Min(rankSingles)
  <2>1. m \in rankSingles
    <3>1. rankSingles \subseteq Nat
      BY RankAssumption DEF RankCuts, RankLinks
    <3>2. \E x \in rankSingles : \A y \in rankSingles : x <= y
      <4>1. PICK x \in rankSingles : \A y \in rankSingles : ~ (<<y, x>> \in OpToRel(<, Nat))
        BY <3>1, <1>3, NatLessThanWellFounded, WFMin
      <4>2. ASSUME NEW y \in rankSingles PROVE x <= y
        <5>1. x \in Nat /\ y \in Nat
          BY <3>1
        <5>2. ~ (<<y, x>> \in OpToRel(<, Nat))
          BY <4>1
        <5>3. ~ (y < x)
          BY <5>1, <5>2 DEF OpToRel
        <5> QED
          BY <5>1, <5>3
      <4> QED
        BY <4>2
    <3> QED
      BY <3>2 DEF Min
  <2> HIDE DEF m
  <2>2. /\ rankPc' = "walk" /\ rankStack' = <<>> /\ rankCur' = m
        /\ rankSingles' = rankSingles \ {m}
        /\ rankRows' = rankRows /\ rankGiven' = rankGiven
    BY <1>3 DEF m
  <2>3. RankFirst' = m
    BY <2>2 DEF RankFirst
  <2>4. RankWalked'
    BY <2>2, <2>3 DEF RankWalked
  <2>5. RankOnWay'
    <3>1. m \in RankUsers
      BY <2>1 DEF RankCuts, RankLinks
    <3> QED
      BY <3>1, <2>2, <2>3 DEF RankOnWay
  <2>6. rankSingles' \subseteq DOMAIN rankGiven'
    BY <2>2
  <2> QED
    BY <1>1, <2>4, <2>5, <2>6
<1> QED
  BY <1>2, <1>3

LEMMA RankWalkKeeps ==
  ASSUME RankLoopInv, RankWalk
  PROVE  RankLoopInv'
<1>0. /\ rankPc = "walk" /\ rankGiven' = rankGiven /\ rankSingles' = rankSingles
      /\ RankCuts /\ RankCutOnce /\ RankWalked /\ RankOnWay
      /\ rankSingles \subseteq DOMAIN rankGiven
  BY DEF RankWalk, RankLoopInv
<1>1. RankLinks(rankGiven) /\ rankStack \in Seq(RankUsers) /\ rankCur \in RankUsers
  BY <1>0 DEF RankCuts, RankOnWay
<1>2. \A u : RankReached(u)' = RankReached(u) /\ RankOnLoop(u)' = RankOnLoop(u)
  BY <1>0 DEF RankReached, RankOnLoop
<1>3. CASE ~ RankIsSingle(rankRows, rankCur)
  <2>1. rankPc' = "next" /\ rankStack' = <<>> /\ rankRows' = rankRows
    BY <1>3 DEF RankWalk
  <2>2. RankCuts' /\ RankCutOnce' /\ RankOnWay'
    BY <1>0, <1>2, <2>1 DEF RankCuts, RankCutOnce, RankOnWay, RankLinks
  <2>3. RankWalked'
    <3>1. ASSUME NEW u \in DOMAIN rankGiven, RankOnLoop(u)
          PROVE  u \in rankSingles \/ RankReached(u) \cap RankEmpty(rankRows) # {}
      BY <1>0, <1>3, <3>1, RankWalkEnds DEF RankWalked
    <3> QED
      BY <3>1, <1>0, <1>2, <2>1 DEF RankWalked
  <2> QED
    BY <1>0, <2>2, <2>3 DEF RankLoopInv
<1>4. CASE RankIsSingle(rankRows, rankCur) /\ RankFriend(rankRows, rankCur) \in ToSet(rankStack)
  <2>1. rankPc' = "next" /\ rankStack' = <<>> /\ rankRows' = [rankRows EXCEPT ![rankCur] = {}]
    BY <1>4 DEF RankWalk
  <2>2. rankCur \in RankReached(rankCur) /\ RankReached(rankCur) \cap RankEmpty(rankRows) = {}
    BY <1>0, <1>4, RankLoopFound
  <2>3. rankCur \in DOMAIN rankRows
    BY <1>4 DEF RankIsSingle
  <2>4. RankEmpty(rankRows)' = RankEmpty(rankRows) \cup {rankCur}
    BY <2>1, <2>3 DEF RankEmpty
  <2>5. RankCuts'
    <3>1. RankOnLoop(rankCur)
      BY <2>2 DEF RankReached, RankOnLoop
    <3>2. DOMAIN rankRows' = DOMAIN rankGiven
      BY <1>0, <2>1 DEF RankCuts
    <3>3. ASSUME NEW u \in DOMAIN rankGiven
          PROVE  rankRows'[u] = rankGiven[u] \/ (rankRows'[u] = {} /\ RankOnLoop(u))
      BY <1>0, <2>1, <3>1 DEF RankCuts
    <3> QED
      BY <1>0, <1>2, <3>2, <3>3 DEF RankCuts, RankLinks
  <2>6. RankCutOnce'
    <3>1. ASSUME NEW a \in RankEmpty(rankRows), rankCur \in RankReached(a) PROVE FALSE
      <4>1. a \in RankReached(a)
        <5>1. rankRows[a] = {} /\ a \in DOMAIN rankGiven
          BY <1>0 DEF RankEmpty, RankCuts
        <5> QED
          BY <5>1, <1>0 DEF RankCuts, RankReached, RankOnLoop
      <4>2. a \in RankReached(rankCur)
        BY <1>1, <3>1, <4>1, RankLoopBack DEF RankReached
      <4> QED
        BY <2>2, <4>2
    <3>2. ASSUME NEW a \in RankEmpty(rankRows) \cup {rankCur},
                 NEW b \in RankEmpty(rankRows) \cup {rankCur}, b \in RankReached(a)
          PROVE  a = b
      <4>1. CASE a \in RankEmpty(rankRows) /\ b \in RankEmpty(rankRows)
        BY <1>0, <3>2, <4>1 DEF RankCutOnce
      <4>2. CASE a \in RankEmpty(rankRows) /\ b = rankCur
        BY <3>1, <3>2, <4>2
      <4>3. CASE a = rankCur /\ b \in RankEmpty(rankRows)
        BY <2>2, <3>2, <4>3
      <4> QED
        BY <4>1, <4>2, <4>3
    <3> QED
      BY <1>2, <2>4, <3>2 DEF RankCutOnce
  <2>7. RankWalked'
    <3>1. ASSUME NEW u \in DOMAIN rankGiven, RankOnLoop(u)
          PROVE  u \in rankSingles \/ RankReached(u) \cap (RankEmpty(rankRows) \cup {rankCur}) # {}
      <4>1. CASE u = RankFirst
        <5>1. u \in RankReached(u)
          BY <3>1 DEF RankOnLoop, RankReached
        <5>2. rankCur \in RankReached(u)
          BY <1>0, <4>1, <5>1 DEF RankOnWay
        <5> QED
          BY <5>2
      <4>2. CASE u # RankFirst
        BY <1>0, <3>1, <4>2 DEF RankWalked
      <4> QED
        BY <4>1, <4>2
    <3> QED
      BY <3>1, <1>0, <1>2, <2>1, <2>4 DEF RankWalked
  <2>8. RankOnWay'
    BY <2>1 DEF RankOnWay
  <2> QED
    BY <1>0, <2>5, <2>6, <2>7, <2>8 DEF RankLoopInv
<1>5. CASE RankIsSingle(rankRows, rankCur) /\ RankFriend(rankRows, rankCur) \notin ToSet(rankStack)
  <2> DEFINE n == Len(rankStack)
             f == RankFriend(rankRows, rankCur)
  <2>1. /\ rankPc' = "walk" /\ rankStack' = Append(rankStack, rankCur) /\ rankCur' = f
        /\ rankRows' = rankRows
    BY <1>0, <1>5 DEF RankWalk
  <2>2. RankCuts' /\ RankCutOnce'
    BY <1>0, <1>2, <2>1 DEF RankCuts, RankCutOnce, RankLinks
  <2>3. f \in RankUsers /\ RankIsSingle(rankGiven, rankCur) /\ rankGiven[rankCur] = {f}
    BY <1>0, <1>5, RankSingleGiven
  <2> HIDE DEF f
  <2>4. rankStack' \in Seq(RankUsers) /\ rankCur' \in RankUsers
    BY <1>1, <2>1, <2>3
  <2>5. RankFirst' = RankFirst
    BY <1>1, <2>1 DEF RankFirst
  <2>6. RankWalked'
    BY <1>0, <1>2, <2>1, <2>5 DEF RankWalked
  <2>7. f \in RankReached(RankFirst)
    <3>1. RankClosed(rankGiven, RankReached(RankFirst), RankFirst)
      BY <1>1, RankFollowedClosed DEF RankReached
    <3>2. rankCur \in RankReached(RankFirst) \cup {RankFirst}
      BY <1>0 DEF RankOnWay
    <3> QED
      BY <2>3, <3>1, <3>2 DEF RankClosed, RankFollows
  <2>8. ASSUME NEW i \in 1 .. n + 1
        PROVE  RankIsSingle(rankRows, RankWay'[i]) /\ RankFriend(rankRows, RankWay'[i]) = RankWay'[i + 1]
    <3>1. n \in Nat /\ RankWay' = Append(Append(rankStack, rankCur), f) /\ RankWay = Append(rankStack, rankCur)
      BY <1>1, <2>1 DEF RankWay
    <3>2. CASE i = n + 1
      <4>1. RankWay'[i] = rankCur /\ RankWay'[i + 1] = f
        BY <1>1, <3>1, <3>2
      <4> QED
        BY <4>1, <1>5 DEF f
    <3>3. CASE i # n + 1
      <4>1. i \in 1 .. n /\ i + 1 \in 1 .. n + 1
        BY <3>1, <3>3
      <4>2. RankWay'[i] = RankWay[i] /\ RankWay'[i + 1] = RankWay[i + 1]
        BY <1>1, <3>1, <4>1
      <4> QED
        BY <1>0, <4>1, <4>2 DEF RankOnWay
    <3> QED
      BY <3>2, <3>3
  <2>9. Len(rankStack') = n + 1
    BY <1>1, <2>1
  <2>10. RankOnWay'
    BY <1>2, <2>1, <2>4, <2>5, <2>7, <2>8, <2>9 DEF RankOnWay
  <2> QED
    BY <1>0, <2>1, <2>2, <2>6, <2>10 DEF RankLoopInv
<1> QED
  BY <1>3, <1>4, <1>5

-----------------------------------------------------------------------------
(* User rank: the invariant *)

\* The ranks start as equal parts of 1, and are computed when the matrix is ready.
RankAddsUp ==
  /\ rankPc \in {"load", "next", "walk", "drop", "undefined"} => RankSum(rankSeen) = rankScale
  /\ RankMass

RankInv ==
  /\ RankTypeOK /\ RankMatrix /\ RankNumbers /\ RankAddsUp
  /\ rankPc \in {"load", "next", "walk", "drop"} => RankLoopInv
  /\ rankPc = "load" => rankSeen = {}

LEMMA RankSeenFinite ==
  ASSUME RankMatrix
  PROVE  IsFiniteSet(rankSeen)
BY RankAssumption, FS_Subset DEF RankMatrix

LEMMA RankInvInit == RankInit => RankInv
<1> SUFFICES ASSUME RankInit PROVE RankInv
  OBVIOUS
<1>1. /\ rankPc = "load" /\ rankSeen = {} /\ rankGiven = <<>> /\ rankRows = <<>>
      /\ rankSingles = {} /\ rankStack = <<>> /\ rankRanks = <<>> /\ rankScale = 0 /\ rankRound = 0
      /\ DOMAIN rankRows = {} /\ DOMAIN rankGiven = {} /\ DOMAIN rankRanks = {}
  BY DEF RankInit
<1>2. RankTypeOK
  BY <1>1, RankAssumption DEF RankTypeOK
<1>3. RankMatrix /\ RankNumbers
  BY <1>1 DEF RankMatrix, RankNumbers, SumNats
<1>4. RankAddsUp
  BY <1>1, SumNothing DEF RankAddsUp, RankMass, RankSum
<1>5. RankEmpty(rankRows) = {}
  BY <1>1 DEF RankEmpty
<1>6. RankLoopInv
  BY <1>1, <1>5 DEF RankLoopInv, RankCuts, RankLinks, RankCutOnce, RankWalked, RankOnWay
<1> QED
  BY <1>1, <1>2, <1>3, <1>4, <1>6 DEF RankInv

LEMMA RankBuildKeeps ==
  ASSUME RankInv, RankBuild
  PROVE  RankInv'
<1>1. PICK links \in [RankUsers -> RankFriends] : RankAddLinks(links)
  BY DEF RankBuild
<1> DEFINE D == {u \in RankUsers : links[u] \ {u} # {}}
<1>2. \A u \in RankUsers : links[u] \in SUBSET RankUsers /\ RankDivided(Cardinality(links[u]))
  BY RankAssumption DEF RankDivided
<1>3. /\ rankSeen' = UNION {{u} \cup links[u] : u \in {u \in RankUsers : links[u] # {}}}
      /\ rankRows' = [u \in D |-> links[u] \ {u}] /\ rankGiven' = rankRows'
  BY <1>1 DEF RankAddLinks, RankBuild
<1>4. /\ rankPc' = "next" /\ rankStack' = rankStack /\ rankRound' = rankRound
      /\ rankSingles' = {u \in DOMAIN rankRows' : RankIsSingle(rankRows', u)}
      /\ rankRanks' = [u \in rankSeen' |-> 1] /\ rankScale' = Cardinality(rankSeen')
  BY DEF RankBuild
<1>5. RankMatrix'
  <2>1. rankSeen' \subseteq RankUsers
    BY <1>2, <1>3
  <2>2. ASSUME NEW u \in D
        PROVE  u \in rankSeen' /\ links[u] \subseteq rankSeen' /\ RankDivided(Cardinality(links[u] \ {u}))
    <3>1. u \in {v \in RankUsers : links[v] # {}}
      OBVIOUS
    <3>2. u \in rankSeen' /\ links[u] \subseteq rankSeen'
      BY <1>3, <3>1
    <3>3. IsFiniteSet(links[u]) /\ IsFiniteSet(links[u] \ {u})
      BY <1>2, RankAssumption, FS_Subset
    <3>4. /\ Cardinality(links[u] \ {u}) <= Cardinality(links[u])
          /\ Cardinality(links[u] \ {u}) \in Nat /\ Cardinality(links[u]) \in Nat
      BY <3>3, FS_Subset, FS_CardinalityType
    <3> QED
      BY <1>2, <3>2, <3>4 DEF RankDivided
  <2> HIDE DEF D
  <2>3. DOMAIN rankRows' = D /\ \A u \in D : rankRows'[u] = links[u] \ {u}
    BY <1>3
  <2> QED
    BY <2>1, <2>2, <2>3 DEF RankMatrix
<1>6. IsFiniteSet(rankSeen')
  BY <1>5, RankAssumption, FS_Subset DEF RankMatrix
<1>7. RankNumbers'
  BY <1>4, <1>6, FS_CardinalityType DEF RankNumbers, SumNats
<1>8. RankSum(rankSeen)' = rankScale'
  <2> DEFINE R == rankRanks'  S == rankSeen'
  <2>1. SumNats(R, S) /\ IsFiniteSet(S)
    BY <1>6, <1>7 DEF RankNumbers
  <2>2. \A x \in S : R[x] = 0 * R[x] + 1
    BY <1>4
  <2> HIDE DEF R, S
  <2>3. SumFunctionOnSet(R, S) = 0 * SumFunctionOnSet(R, S) + 1 * Cardinality(S)
    BY <2>1, <2>2, SumLinear
  <2>4. SumFunctionOnSet(R, S) \in Nat /\ Cardinality(S) \in Nat
    BY <2>1, SumTakes, FS_CardinalityType
  <2>5. SumFunctionOnSet(R, S) = Cardinality(S)
    BY <2>3, <2>4
  <2> QED
    BY <2>5, <1>4 DEF RankSum, R, S
<1>9. RankAddsUp'
  BY <1>4, <1>8 DEF RankAddsUp, RankMass
<1>10. RankEmpty(rankRows)' = {}
  BY <1>3 DEF RankEmpty
<1>11. rankSingles' \subseteq DOMAIN rankGiven'
  BY <1>3, <1>4
<1>12. RankLoopInv'
  <2>1. RankLinks(rankGiven)'
    BY <1>2, <1>3 DEF RankLinks
  <2>2. \A u \in DOMAIN rankGiven' : rankGiven'[u] # {}
    BY <1>3
  <2>3. RankCuts' /\ RankCutOnce' /\ RankOnWay'
    BY <1>3, <1>4, <1>10, <2>1, <2>2 DEF RankCuts, RankCutOnce, RankOnWay
  <2>4. ASSUME NEW u \in DOMAIN rankGiven', RankOnLoop(u)' PROVE u \in rankSingles'
    <3>1. RankIsSingle(rankGiven', u)
      BY <2>4, RankFollowedSingle DEF RankOnLoop
    <3> QED
      BY <3>1, <1>3, <1>4
  <2>5. RankWalked'
    BY <2>4, <1>4 DEF RankWalked
  <2> QED
    BY <1>11, <2>3, <2>5 DEF RankLoopInv
<1>13. rankStack' \in Seq(rankSeen')
  <2>1. rankStack = <<>>
    <3>1. rankStack \in Seq({})
      BY DEF RankInv, RankTypeOK, RankBuild
    <3> QED
      BY <3>1
  <2> QED
    BY <2>1, <1>4
<1> QED
  BY <1>3, <1>4, <1>5, <1>7, <1>9, <1>11, <1>12, <1>13 DEF RankInv, RankTypeOK, RankMatrix, RankNumbers

LEMMA RankDropKeeps ==
  ASSUME RankInv, RankDrop
  PROVE  RankInv'
<1>1. /\ rankPc = "drop" /\ rankSeen' = rankSeen /\ rankGiven' = rankGiven
      /\ rankSingles' = rankSingles /\ rankStack' = rankStack
      /\ rankRanks' = rankRanks /\ rankScale' = rankScale /\ rankRound' = rankRound
  BY DEF RankDrop, rankLoop, rankResult
<1>2. /\ rankPc' \in {"rank", "undefined"}
      /\ DOMAIN rankRows' \subseteq DOMAIN rankRows
      /\ \A u \in DOMAIN rankRows' : rankRows'[u] = rankRows[u]
  <2>1. CASE rankPc' = "undefined" /\ rankRows' = rankRows
    BY <2>1
  <2>2. ASSUME NEW left \in SUBSET RankEmpty(rankRows), rankPc' = "rank",
               rankRows' = Restrict(rankRows, (DOMAIN rankRows \ RankEmpty(rankRows)) \cup left)
        PROVE  /\ DOMAIN rankRows' \subseteq DOMAIN rankRows
               /\ \A u \in DOMAIN rankRows' : rankRows'[u] = rankRows[u]
    BY <2>2 DEF Restrict, RankEmpty
  <2> QED
    BY <2>1, <2>2 DEF RankDrop
<1>3. RankMatrix' /\ RankNumbers'
  BY <1>1, <1>2 DEF RankInv, RankMatrix, RankNumbers
<1>4. RankSum(rankSeen) = rankScale /\ RankSum(rankSeen)' = RankSum(rankSeen) /\ rankScale \in Nat
  BY <1>1 DEF RankInv, RankAddsUp, RankNumbers, RankSum
<1>5. RankAddsUp'
  BY <1>1, <1>2, <1>4 DEF RankAddsUp, RankMass
<1>6. RankTypeOK'
  BY <1>1, <1>2, <1>3 DEF RankInv, RankTypeOK, RankMatrix
<1> QED
  BY <1>2, <1>3, <1>5, <1>6 DEF RankInv

\* A step within the walks changes neither the users nor the ranks.
LEMMA RankLoopKeeps ==
  ASSUME RankInv, RankNextSingle \/ RankWalk
  PROVE  RankInv'
<1>1. /\ rankPc \in {"next", "walk"} /\ rankPc' \in {"next", "walk", "drop"}
      /\ rankSeen' = rankSeen /\ rankGiven' = rankGiven
      /\ rankRanks' = rankRanks /\ rankScale' = rankScale /\ rankRound' = rankRound
  BY DEF RankNextSingle, RankWalk, rankResult
<1>2. RankLoopInv'
  BY <1>1, RankNextSingleKeeps, RankWalkKeeps DEF RankInv
<1>3. \/ rankStack' = rankStack
      \/ rankStack' = <<>>
      \/ rankStack' = Append(rankStack, rankCur) /\ rankCur \in rankSeen
  BY DEF RankNextSingle, RankWalk, rankLoop, RankIsSingle, RankInv, RankMatrix
<1>4. rankStack' \in Seq(rankSeen)
  <2>1. rankStack \in Seq(rankSeen) /\ <<>> \in Seq(rankSeen)
    BY DEF RankInv, RankTypeOK
  <2>2. rankCur \in rankSeen => Append(rankStack, rankCur) \in Seq(rankSeen)
    BY <2>1
  <2> QED
    BY <1>3, <2>1, <2>2
<1>5. RankMatrix'
  <2>1. CASE rankRows' = rankRows
    BY <1>1, <2>1 DEF RankInv, RankMatrix
  <2>2. CASE rankRows' = [rankRows EXCEPT ![rankCur] = {}]
    <3>1. DOMAIN rankRows' = DOMAIN rankRows
      BY <2>2
    <3>2. \A u \in DOMAIN rankRows : rankRows'[u] = rankRows[u] \/ rankRows'[u] = {}
      BY <2>2
    <3>3. RankDivided(Cardinality({}))
      <4>1. Cardinality({}) = 0
        BY FS_EmptySet
      <4> QED
        BY <4>1 DEF RankDivided
    <3> QED
      BY <1>1, <3>1, <3>2, <3>3 DEF RankInv, RankMatrix
  <2> QED
    BY <2>1, <2>2 DEF RankNextSingle, RankWalk
<1>6. RankNumbers' /\ RankAddsUp'
  BY <1>1 DEF RankInv, RankNumbers, RankAddsUp, RankMass, RankSum
<1>7. RankTypeOK'
  BY <1>1, <1>2, <1>4, <1>5 DEF RankInv, RankTypeOK, RankMatrix, RankLoopInv
<1> QED
  BY <1>1, <1>2, <1>5, <1>6, <1>7 DEF RankInv

LEMMA RankStepKeeps ==
  ASSUME RankInv, RankStep
  PROVE  RankInv'
<1>1. /\ rankPc = "rank" /\ rankPc' = "rank" /\ rankSeen' = rankSeen /\ rankGiven' = rankGiven
      /\ rankRows' = rankRows /\ rankSingles' = rankSingles /\ rankStack' = rankStack
      /\ rankRound' = rankRound + 1 /\ rankRound < RankMaxRound
  BY DEF RankStep, rankLoop
<1>2. RankMatrix /\ RankNumbers /\ IsFiniteSet(rankSeen) /\ RankMass
  BY RankSeenFinite DEF RankInv, RankAddsUp
<1>3. RankNumbers'
  BY <1>2, RankRoundKeeps
<1>4. RankMass'
  BY <1>1, <1>2, RankRoundKeeps DEF RankMass
<1>5. RankMatrix'
  BY <1>1, <1>2 DEF RankMatrix
<1>6. RankTypeOK'
  <2>1. rankRound' \in 0 .. RankMaxRound
    BY <1>1, RankAssumption DEF RankInv, RankTypeOK
  <2> QED
    BY <1>1, <1>3, <2>1 DEF RankInv, RankTypeOK, RankNumbers
<1> QED
  BY <1>1, <1>3, <1>4, <1>5, <1>6 DEF RankInv, RankAddsUp

LEMMA RankShowKeeps ==
  ASSUME RankInv, RankShow \/ UNCHANGED rankVars
  PROVE  RankInv'
<1>1. /\ rankSeen' = rankSeen /\ rankGiven' = rankGiven
      /\ rankRows' = rankRows /\ rankSingles' = rankSingles /\ rankStack' = rankStack
      /\ rankCur' = rankCur
      /\ rankRound' = rankRound /\ rankRanks' = rankRanks /\ rankScale' = rankScale
      /\ rankPc' = rankPc \/ (rankPc = "rank" /\ rankPc' = "end")
  BY DEF RankShow, rankLoop, rankResult, rankVars
<1>2. RankMatrix' /\ RankNumbers' /\ RankTypeOK'
  BY <1>1 DEF RankInv, RankMatrix, RankNumbers, RankTypeOK
<1>3. RankAddsUp'
  BY <1>1 DEF RankInv, RankAddsUp, RankMass, RankSum
<1>4. rankPc \in {"load", "next", "walk", "drop"} /\ rankPc' = rankPc => (RankLoopInv' <=> RankLoopInv)
  BY <1>1 DEF RankLoopInv, RankCuts, RankLinks, RankCutOnce, RankWalked, RankOnWay, RankReached,
       RankOnLoop, RankFirst, RankWay
<1> QED
  BY <1>1, <1>2, <1>3, <1>4 DEF RankInv

\* When all walks are done, exactly one user of each loop has lost its link.
LEMMA RankInvCuts == RankInv => RankLoopsCut
<1> SUFFICES ASSUME RankInv, rankPc = "drop", NEW u \in DOMAIN rankGiven
             PROVE  IF RankOnLoop(u)
                    THEN Cardinality(RankReached(u) \cap RankEmpty(rankRows)) = 1
                    ELSE rankRows[u] = rankGiven[u]
  BY DEF RankLoopsCut, RankReached
<1>1. RankCuts /\ RankCutOnce /\ RankWalked /\ RankLinks(rankGiven)
  BY DEF RankInv, RankLoopInv, RankCuts
<1>2. CASE RankOnLoop(u)
  <2>1. PICK a : a \in RankReached(u) \cap RankEmpty(rankRows)
    BY <1>1, <1>2 DEF RankWalked
  <2>2. ASSUME NEW b \in RankReached(u) \cap RankEmpty(rankRows) PROVE b = a
    <3>1. u \in RankReached(a)
      BY <1>1, <1>2, <2>1, RankLoopBack DEF RankReached, RankOnLoop
    <3>2. b \in RankReached(a)
      BY <1>1, <2>2, <3>1, RankFollowedOn DEF RankReached
    <3> QED
      BY <1>1, <2>1, <2>2, <3>2 DEF RankCutOnce
  <2>3. RankReached(u) \cap RankEmpty(rankRows) = {a}
    BY <2>1, <2>2
  <2> QED
    BY <1>2, <2>3, FS_Singleton
<1>3. CASE ~ RankOnLoop(u)
  BY <1>1, <1>3 DEF RankCuts
<1> QED
  BY <1>2, <1>3

LEMMA RankInvHolds == RankSpec => []RankInv
<1>1. ASSUME RankInv, [RankNext]_rankVars PROVE RankInv'
  BY <1>1, RankBuildKeeps, RankDropKeeps, RankLoopKeeps, RankStepKeeps, RankShowKeeps DEF RankNext
<1> QED
  BY RankInvInit, <1>1, PTL DEF RankSpec

\* The matrix and the ranks keep their types.
THEOREM RankTypeCorrect == RankSpec => []RankTypeOK
<1>1. RankInv => RankTypeOK
  BY DEF RankInv
<1> QED
  BY <1>1, RankInvHolds, PTL

\* checkMatrixSelfLoop cuts exactly one link of every loop of single links and no other,
\* wherever its walks begin, and computeUserRank keeps the ranks adding up to 1.
THEOREM RankIsKept == RankSpec => []RankKept
<1>1. RankInv => RankKept
  BY RankInvCuts DEF RankInv, RankAddsUp, RankKept
<1> QED
  BY <1>1, RankInvHolds, PTL

=============================================================================
